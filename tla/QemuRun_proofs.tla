---------------------------- MODULE QemuRun_proofs ----------------------------
(***************************************************************************)
(* Proofs about the QEMU run, for every memory map, every set of cases and *)
(* every size of block, table, pool and panel: each declared byte has a    *)
(* byte of the pool of its own, a register keeps what was written into it, *)
(* a stream without a gap joins what was printed together, and the         *)
(* verdicts of the read-back are about the guest.                          *)
(***************************************************************************)
EXTENDS QemuRun, FiniteSetTheorems, SequenceTheorems, WellFoundedInduction, TLAPS

(* A byte below n blocks is in one of the first n. *)
LEMMA BlockBound ==
    ASSUME NEW x \in Nat, NEW n \in Nat, x < n * BlockSize
    PROVE  x \div BlockSize \in 0..n - 1
<1> DEFINE q == x \div BlockSize
<1>1. BlockSize \in Nat /\ BlockSize > 0
  BY Stage2Assumption
<1>2. q \in Int /\ BlockSize * q <= x /\ x < BlockSize * q + BlockSize
  BY <1>1
<1> HIDE DEF q
<1>3. q >= 0
  BY <1>1, <1>2
<1>4. q < n
  BY <1>1, <1>2
<1> QED
  BY <1>2, <1>3, <1>4 DEF q

(* The redirected blocks of an accepted map are in the low gigabyte. *)
LEMMA BlocksAreLow ==
    ASSUME NEW map, map \subseteq Region, WellFormed(map)
    PROVE  /\ Blocks(map) \subseteq 0..L2Entries - 1
           /\ IsFiniteSet(Blocks(map))
<1>1. ASSUME NEW r \in map
      PROVE  (r.base \div BlockSize)..((r.base + r.size - 1) \div BlockSize)
                \subseteq 0..L2Entries - 1
  <2>1. /\ r.base \in Nat /\ r.size \in Nat \ {0}
        /\ r.base + r.size <= L2Entries * BlockSize
    BY DEF Region, WellFormed
  <2>2. L2Entries * BlockSize \in Nat
    BY Stage2Assumption
  <2>3. r.base < L2Entries * BlockSize /\ r.base + r.size - 1 < L2Entries * BlockSize
           /\ r.base + r.size - 1 \in Nat
    BY <2>1, <2>2
  <2>4. L2Entries \in Nat
    BY Stage2Assumption
  <2>5. /\ r.base \div BlockSize \in 0..L2Entries - 1
        /\ (r.base + r.size - 1) \div BlockSize \in 0..L2Entries - 1
    BY BlockBound, <2>1, <2>3, <2>4
  <2> QED
    BY <2>4, <2>5
<1>2. Blocks(map) \subseteq 0..L2Entries - 1
  BY <1>1 DEF Blocks
<1>3. IsFiniteSet(0..L2Entries - 1)
  BY FS_Interval, Stage2Assumption
<1> QED
  BY <1>2, <1>3, FS_Subset

(* Of two blocks the lower one is moved to the lower place. *)
LEMMA PlanGrows ==
    ASSUME NEW blocks \in SUBSET Nat, IsFiniteSet(blocks),
           NEW a \in blocks, NEW b \in blocks, a < b
    PROVE  Plan(blocks)[a] < Plan(blocks)[b]
<1> DEFINE Below(x) == {c \in blocks : c < x}
<1>1. a \notin Below(a) /\ Below(a) \cup {a} \subseteq Below(b)
  <2>1. \A c \in blocks : c \in Nat
    OBVIOUS
  <2>2. \A c \in blocks : c < a => c < b
    BY <2>1
  <2>3. ~(a < a)
    BY <2>1
  <2> QED
    BY <2>2, <2>3
<1>2. IsFiniteSet(Below(a)) /\ IsFiniteSet(Below(b))
  BY FS_Subset
<1>3. Plan(blocks)[a] = PoolBase + Cardinality(Below(a))
         /\ Plan(blocks)[b] = PoolBase + Cardinality(Below(b))
  BY DEF Plan
<1> HIDE DEF Below
<1>4. Cardinality(Below(a) \cup {a}) = Cardinality(Below(a)) + 1
  BY <1>1, <1>2, FS_AddElement
<1>5. Cardinality(Below(a) \cup {a}) <= Cardinality(Below(b))
  BY <1>1, <1>2, FS_Subset
<1>6. Cardinality(Below(a)) \in Nat /\ Cardinality(Below(b)) \in Nat
  BY <1>2, FS_CardinalityType
<1> QED
  BY <1>3, <1>4, <1>5, <1>6, Stage2Assumption

(* Two blocks are never moved to the same place, *)
LEMMA PlanIsInjective ==
    ASSUME NEW blocks \in SUBSET Nat, IsFiniteSet(blocks),
           NEW a \in blocks, NEW b \in blocks, a # b
    PROVE  Plan(blocks)[a] # Plan(blocks)[b]
<1>1. \A c \in blocks : Plan(blocks)[c] \in Int
  BY FS_Subset, FS_CardinalityType, Stage2Assumption DEF Plan
<1>2. CASE a < b
  BY <1>1, <1>2, PlanGrows
<1>3. CASE b < a
  BY <1>1, <1>3, PlanGrows
<1> QED
  BY <1>2, <1>3

(* ... and never above the pool l2_plan makes room for. *)
LEMMA PlanIsInThePool ==
    ASSUME NEW blocks \in SUBSET Nat, IsFiniteSet(blocks), Fits(blocks), NEW b \in blocks
    PROVE  Plan(blocks)[b] \in PoolBase..LoadBlock - 1
<1> DEFINE below == {c \in blocks : c < b}
<1>1. b \notin below /\ below \cup {b} \subseteq blocks
  <2>1. \A c \in blocks : c \in Nat
    OBVIOUS
  <2> QED
    BY <2>1
<1>2. IsFiniteSet(below)
  BY FS_Subset
<1>3. Plan(blocks)[b] = PoolBase + Cardinality(below)
  BY DEF Plan
<1> HIDE DEF below
<1>4. Cardinality(below \cup {b}) = Cardinality(below) + 1
  BY <1>1, <1>2, FS_AddElement
<1>5. Cardinality(below \cup {b}) <= Cardinality(blocks)
  BY <1>1, FS_Subset
<1>6. Cardinality(below) \in Nat /\ Cardinality(blocks) \in Nat
  BY <1>2, FS_CardinalityType
<1>7. PoolBase + Cardinality(blocks) <= LoadBlock
  BY DEF Fits
<1> QED
  BY <1>3, <1>4, <1>5, <1>6, <1>7, Stage2Assumption

(* Where the assembled table sends a declared address. *)
LEMMA WalkOfPlan ==
    ASSUME NEW map, map \subseteq Region, WellFormed(map),
           NEW a \in Declared(map)
    PROVE  Walk(L2(Plan(Blocks(map))), a) = <<Plan(Blocks(map))[a[1]], a[2]>>
<1>1. a[1] \in Blocks(map) /\ a[1] \in 0..L2Entries - 1
  BY BlocksAreLow DEF Declared
<1>2. DOMAIN Plan(Blocks(map)) = Blocks(map)
  BY DEF Plan
<1> QED
  BY <1>1, <1>2 DEF Walk, L2

(* l2_plan: "Refuses rather than overlaps."  Under an accepted plan every  *)
(* declared address is answered by the pool, below the stub and the        *)
(* payload, and no two by the same word of it.                             *)
THEOREM RedirectIsPrivate ==
    ASSUME NEW map, map \subseteq Region, WellFormed(map), Fits(Blocks(map))
    PROVE  \A a, b \in Declared(map) :
              LET mapped == L2(Plan(Blocks(map))) IN
              /\ Walk(mapped, a) \in (PoolBase..LoadBlock - 1) \X (0..BlockSize - 1)
              /\ Walk(mapped, a) = Walk(mapped, b) => a = b
<1> DEFINE blocks == Blocks(map)
<1>1. blocks \in SUBSET Nat /\ IsFiniteSet(blocks)
  BY BlocksAreLow, Stage2Assumption
<1>2. ASSUME NEW a \in Declared(map), NEW b \in Declared(map)
      PROVE  /\ <<Plan(blocks)[a[1]], a[2]>> \in (PoolBase..LoadBlock - 1) \X (0..BlockSize - 1)
             /\ <<Plan(blocks)[a[1]], a[2]>> = <<Plan(blocks)[b[1]], b[2]>> => a = b
  <2>1. a[1] \in blocks /\ b[1] \in blocks /\ a[2] \in 0..BlockSize - 1
          /\ a = <<a[1], a[2]>> /\ b = <<b[1], b[2]>>
    BY DEF Declared
  <2> HIDE DEF blocks
  <2>2. Plan(blocks)[a[1]] \in PoolBase..LoadBlock - 1
    BY <1>1, <2>1, PlanIsInThePool DEF blocks
  <2>3. Plan(blocks)[a[1]] = Plan(blocks)[b[1]] => a[1] = b[1]
    BY <1>1, <2>1, PlanIsInjective
  <2> QED
    BY <2>1, <2>2, <2>3
<1> QED
  BY <1>2, WalkOfPlan

-----------------------------------------------------------------------------
(* The word of the pool the planned table gives a declared address. *)
Behind(a) == <<plan[a[1]], a[2]>>
Intact    == table \in {<<>>, L2(plan)}

(* main's plan is l2_plan's, of a map l2_plan accepted, and the seeds have *)
(* a block in it.                                                          *)
PlanInv ==
    /\ regions \subseteq Region
    /\ plan # <<>> => /\ plan = Plan(Blocks(regions))
                      /\ WellFormed(regions) /\ Fits(Blocks(regions))
    /\ seed = TRUE => plan # <<>> /\ HasBlock(SmemWord)
    /\ seed = TRUE /\ aop = TRUE => HasBlock(AopWord) /\ AopInOneBlock

(* Nothing runs before it is launched, with the table and zeroed memory. *)
ResetInv ==
    /\ tool \in {"options", "launch"} => table = <<>> /\ qemu = "none"
    /\ tool = "options" => /\ ram = [a \in Pool |-> "zero"]
                           /\ shadow = [a \in Declared(regions) |-> "zero"]

(* While nobody wrote into the table the pool is the registers. *)
MemoryInv ==
    /\ DOMAIN ram = Pool /\ DOMAIN shadow = Declared(regions)
    /\ plan # <<>> /\ Intact => \A a \in Declared(regions) : ram[Behind(a)] = shadow[a]

IInv == PlanInv /\ ResetInv /\ MemoryInv

-----------------------------------------------------------------------------
(* A function on the low gigabyte is not the empty one. *)
LEMMA NotEmpty ==
    ASSUME NEW f, DOMAIN f = 0..L2Entries - 1 PROVE f # <<>>
  BY Stage2Assumption

(* What RedirectIsPrivate says of the plan in force. *)
LEMMA BehindIsPrivate ==
    ASSUME PlanInv, plan # <<>>
    PROVE  \A a, b \in Declared(regions) :
              /\ Walk(L2(plan), a) = Behind(a) /\ Behind(a) \in Pool
              /\ Behind(a) = Behind(b) => a = b
<1>1. regions \subseteq Region /\ WellFormed(regions) /\ Fits(Blocks(regions))
         /\ plan = Plan(Blocks(regions))
  BY DEF PlanInv
<1>2. \A a \in Declared(regions) : Walk(L2(plan), a) = Behind(a)
  BY <1>1, WalkOfPlan DEF Behind
<1> QED
  BY <1>1, <1>2, RedirectIsPrivate DEF Pool

(* The words of a seed are declared ones, and different. *)
LEMMA SeedWords ==
    ASSUME PlanInv, seed = TRUE
    PROVE  /\ SmemWord \in Declared(regions) /\ NextWord(SmemWord) \in Declared(regions)
           /\ SmemWord # NextWord(SmemWord)
           /\ SmemAt = Behind(SmemWord) /\ NextWord(SmemAt) = Behind(NextWord(SmemWord))
           /\ aop = TRUE =>
                /\ AopWord \in Declared(regions) /\ NextWord(AopWord) \in Declared(regions)
                /\ AopAt = Behind(AopWord) /\ NextWord(AopAt) = Behind(NextWord(AopWord))
                /\ AopWord # NextWord(AopWord)
                /\ {AopWord, NextWord(AopWord)} \cap {SmemWord, NextWord(SmemWord)} = {}
<1>1. SmemWord[1] \in Blocks(regions) /\ aop = TRUE => AopWord[1] \in Blocks(regions) /\ AopWord[2] + 1 < BlockSize
  BY DEF PlanInv, HasBlock, AopInOneBlock
<1>2. SmemWord[1] \in Blocks(regions)
  BY DEF PlanInv, HasBlock
<1>3. /\ SmemWord = <<SmemWord[1], SmemWord[2]>> /\ SmemWord[2] \in 0..BlockSize - 2
      /\ AopWord = <<AopWord[1], AopWord[2]>> /\ AopWord[2] \in 0..BlockSize - 1
      /\ BlockSize \in Nat
  BY QemuAssumption, Stage2Assumption
<1>4. SmemWord[2] + 1 \in 0..BlockSize - 1 /\ SmemWord[2] \in 0..BlockSize - 1
         /\ SmemWord[2] + 1 # SmemWord[2] /\ AopWord[2] + 1 # AopWord[2]
         /\ (AopWord[2] + 1 < BlockSize => AopWord[2] + 1 \in 0..BlockSize - 1)
  BY <1>3
<1>5. SmemWord \in Declared(regions) /\ NextWord(SmemWord) \in Declared(regions)
         /\ SmemWord # NextWord(SmemWord)
  BY <1>2, <1>3, <1>4 DEF Declared, NextWord
<1>6. SmemAt = Behind(SmemWord) /\ NextWord(SmemAt) = Behind(NextWord(SmemWord))
         /\ AopAt = Behind(AopWord) /\ NextWord(AopAt) = Behind(NextWord(AopWord))
  BY DEF SmemAt, AopAt, Behind, NextWord
<1>7. ASSUME aop = TRUE
      PROVE  AopWord \in Declared(regions) /\ NextWord(AopWord) \in Declared(regions)
                /\ AopWord # NextWord(AopWord)
  BY <1>1, <1>2, <1>3, <1>4, <1>7 DEF Declared, NextWord
<1>8. {AopWord, NextWord(AopWord)} \cap {SmemWord, NextWord(SmemWord)} = {}
  <2>1. AopWord # SmemWord /\ AopWord # NextWord(SmemWord)
    BY QemuAssumption DEF NextWord
  <2>2. NextWord(AopWord) # SmemWord
    <3>1. ASSUME <<AopWord[1], AopWord[2] + 1>> = SmemWord PROVE FALSE
      <4>1. AopWord[1] = SmemWord[1] /\ AopWord[2] = SmemWord[2] - 1
        BY <1>3, <3>1
      <4> QED
        BY <1>3, <4>1, QemuAssumption
    <3> QED
      BY <3>1 DEF NextWord
  <2>3. NextWord(AopWord) # NextWord(SmemWord)
    <3>1. ASSUME <<AopWord[1], AopWord[2] + 1>> = <<SmemWord[1], SmemWord[2] + 1>> PROVE FALSE
      <4>1. AopWord[1] = SmemWord[1] /\ AopWord[2] = SmemWord[2]
        BY <1>3, <3>1
      <4> QED
        BY <1>3, <2>1, <4>1
    <3> QED
      BY <3>1 DEF NextWord
  <2> QED
    BY <2>1, <2>2, <2>3
<1> QED
  BY <1>5, <1>6, <1>7, <1>8

-----------------------------------------------------------------------------
(* The steps that touch neither the plan nor the machine's memory. *)
frame == <<opts, regions, plan, seed, aop, table, ram, shadow>>

LEMMA Frame ==
    ASSUME IInv, UNCHANGED frame,
           tool' \in {"options", "launch"} => tool' = tool /\ qemu' = qemu
    PROVE  IInv'
<1>1. PlanInv'
  BY DEF IInv, PlanInv, frame, HasBlock, AopInOneBlock
<1>2. ResetInv'
  BY DEF IInv, ResetInv, frame
<1>3. MemoryInv'
  BY DEF IInv, MemoryInv, frame, Behind, Intact
<1> QED
  BY <1>1, <1>2, <1>3 DEF IInv

LEMMA InitInv == Init => IInv
<1> SUFFICES ASSUME Init PROVE IInv
  OBVIOUS
<1>1. PlanInv
  BY QemuAssumption DEF Init, PlanInv
<1>2. ResetInv
  BY DEF Init, ResetInv
<1>3. MemoryInv
  BY DEF Init, MemoryInv
<1> QED
  BY <1>1, <1>2, <1>3 DEF IInv

(* A map that is accepted has a block to move. *)
LEMMA PlanNotEmpty ==
    ASSUME regions \subseteq Region, WellFormed(regions) PROVE Plan(Blocks(regions)) # <<>>
<1>1. PICK r \in regions : r.base \in Nat /\ r.size \in Nat \ {0}
  BY DEF WellFormed, Region
<1>2. r.base \div BlockSize \in Int /\ (r.base + r.size - 1) \div BlockSize \in Int
         /\ r.base \div BlockSize <= (r.base + r.size - 1) \div BlockSize
  <2> DEFINE B == BlockSize
             x == r.base
             y == r.base + r.size - 1
             q == x \div B
             p == y \div B
  <2>1. B \in Nat /\ B > 0 /\ x \in Nat /\ y \in Nat /\ x <= y
    BY <1>1, Stage2Assumption
  <2> HIDE DEF B, x, y
  <2>2. q \in Int /\ p \in Int /\ B * q <= x /\ y < B * p + B
    BY <2>1
  <2> HIDE DEF q, p
  <2>3. B * q < B * (p + 1)
    BY <2>1, <2>2
  <2>4. q <= p
    BY <2>1, <2>2, <2>3
  <2> QED
    BY <2>2, <2>4 DEF B, x, y, q, p
<1>3. Blocks(regions) # {}
  BY <1>2 DEF Blocks
<1> QED
  BY <1>3 DEF Plan

(* main's preparations leave memory zeroed, and the plan l2_plan's. *)
LEMMA PreparesKeeps == ASSUME IInv, Prepares PROVE IInv'
<1>1. regions' = regions /\ table' = table /\ ram' = ram /\ shadow' = shadow /\ qemu' = qemu
         /\ opts' = opts
  BY DEF Prepares, args, memory
<1>2. tool = "options" /\ tool' # "options"
  BY DEF Prepares, Dies
<1>3. CASE Refused
  <2>1. plan' = plan /\ seed' = seed /\ aop' = aop /\ tool' = "done"
    BY <1>3 DEF Prepares, Dies, derived
  <2> QED
    BY <1>1, <2>1, Frame DEF frame
<1>4. CASE ~Refused
  <2>1. /\ plan' = IF opts.stub /\ opts.zero THEN Plan(Blocks(regions)) ELSE <<>>
        /\ seed' = (opts.stub /\ opts.zero /\ opts.smem)
        /\ aop' = (opts.stub /\ opts.zero /\ opts.aop)
    BY <1>4 DEF Prepares
  <2>2. opts.stub /\ opts.zero =>
           /\ WellFormed(regions) /\ Fits(Blocks(regions))
           /\ opts.smem => HasBlock(SmemWord)
           /\ opts.aop => HasBlock(AopWord) /\ AopInOneBlock
    BY <1>4 DEF Refused
  <2>3. opts.stub /\ opts.zero => plan' # <<>>
    BY <2>1, <2>2, PlanNotEmpty DEF IInv, PlanInv
  <2>4. PlanInv'
    BY <1>1, <2>1, <2>2, <2>3 DEF IInv, PlanInv, HasBlock, AopInOneBlock
  <2>5. tool' \in {"connect", "launch"}
    BY <1>4 DEF Prepares
  <2>6. ResetInv'
    BY <1>1, <1>2, <2>5 DEF IInv, ResetInv
  <2>7. MemoryInv'
    <3>1. SUFFICES ASSUME plan' # <<>>, NEW a \in Declared(regions)
                   PROVE  ram[<<plan'[a[1]], a[2]>>] = shadow[a]
      BY <1>1 DEF IInv, MemoryInv, Behind
    <3>2. ram = [x \in Pool |-> "zero"] /\ shadow = [x \in Declared(regions) |-> "zero"]
      BY <1>2 DEF IInv, ResetInv
    <3>3. WellFormed(regions) /\ Fits(Blocks(regions)) /\ plan' = Plan(Blocks(regions))
      BY <2>1, <2>2, <3>1
    <3>4. <<plan'[a[1]], a[2]>> \in Pool
      BY <3>3, RedirectIsPrivate, WalkOfPlan DEF IInv, PlanInv, Pool
    <3> QED
      BY <3>2, <3>4
  <2> QED
    BY <2>4, <2>6, <2>7 DEF IInv
<1> QED
  BY <1>3, <1>4

(* QEMU comes up with the table as it was assembled, or without one. *)
LEMMA LaunchesKeeps == ASSUME IInv, Launches PROVE IInv'
<1>1. /\ regions' = regions /\ plan' = plan /\ seed' = seed /\ aop' = aop
      /\ ram' = ram /\ shadow' = shadow /\ tool = "launch" /\ tool' = "connect"
      /\ table' \in {<<>>, L2(plan)}
  BY DEF Launches, args, derived
<1>2. PlanInv'
  BY <1>1 DEF IInv, PlanInv, HasBlock, AopInOneBlock
<1>3. ResetInv'
  BY <1>1 DEF ResetInv
<1>4. MemoryInv'
  BY <1>1 DEF IInv, MemoryInv, ResetInv, Intact, Behind
<1> QED
  BY <1>2, <1>3, <1>4 DEF IInv

(* The stub puts each word of a seed behind the address it is meant for. *)
LEMMA StubStartsKeeps == ASSUME IInv, StubStarts PROVE IInv'
<1>1. /\ regions' = regions /\ plan' = plan /\ seed' = seed /\ aop' = aop
      /\ table' = table /\ tool' = tool /\ qemu' = qemu /\ opts' = opts /\ qemu = "running"
  BY DEF StubStarts, args, derived, Running
<1>2. CASE ~seed
  BY <1>1, <1>2, Frame DEF StubStarts, frame
<1>3. CASE seed
  <2>1. seed = TRUE
    BY <1>3
  <2>2. /\ ram' = Seeded
        /\ shadow' = [a \in DOMAIN shadow |->
              CASE a = SmemWord -> "pointer"
                [] a = NextWord(SmemWord) -> "struct"
                [] aop /\ a = AopWord -> "mailbox"
                [] aop /\ a = NextWord(AopWord) -> "record"
                [] OTHER -> shadow[a]]
    BY <1>3 DEF StubStarts
  <2>3. PlanInv' /\ ResetInv'
    BY <1>1 DEF IInv, PlanInv, ResetInv, HasBlock, AopInOneBlock
  <2>4. DOMAIN ram = Pool /\ DOMAIN shadow = Declared(regions)
    BY DEF IInv, MemoryInv
  <2>5. DOMAIN ram' = Pool /\ DOMAIN shadow' = Declared(regions)
    BY <2>2, <2>4 DEF Seeded
  <2>6. ASSUME plan # <<>>, Intact, NEW a \in Declared(regions)
        PROVE  ram'[Behind(a)] = shadow'[a]
    <3>1. /\ Behind(a) \in Pool
          /\ \A b \in Declared(regions) : Behind(a) = Behind(b) => a = b
      BY <2>6, BehindIsPrivate DEF IInv
    <3>2. ram[Behind(a)] = shadow[a]
      BY <2>6 DEF IInv, MemoryInv
    <3>3. /\ SmemWord \in Declared(regions) /\ NextWord(SmemWord) \in Declared(regions)
          /\ SmemWord # NextWord(SmemWord)
          /\ SmemAt = Behind(SmemWord) /\ NextWord(SmemAt) = Behind(NextWord(SmemWord))
          /\ aop = TRUE =>
                /\ AopWord \in Declared(regions) /\ NextWord(AopWord) \in Declared(regions)
                /\ AopAt = Behind(AopWord) /\ NextWord(AopAt) = Behind(NextWord(AopWord))
                /\ AopWord # NextWord(AopWord)
                /\ {AopWord, NextWord(AopWord)} \cap {SmemWord, NextWord(SmemWord)} = {}
      BY <2>1, SeedWords DEF IInv
    <3> HIDE DEF Pool
    <3>4. CASE aop
      <4>0. aop = TRUE
        BY <3>4
      <4>1. ram'[Behind(a)] =
              IF Behind(a) = NextWord(AopAt) THEN "record"
              ELSE IF Behind(a) = AopAt THEN "mailbox"
              ELSE IF Behind(a) = NextWord(SmemAt) THEN "struct"
              ELSE IF Behind(a) = SmemAt THEN "pointer" ELSE ram[Behind(a)]
        BY <2>2, <2>4, <3>1, <3>4 DEF Seeded
      <4>2. shadow'[a] =
              IF a = SmemWord THEN "pointer"
              ELSE IF a = NextWord(SmemWord) THEN "struct"
              ELSE IF a = AopWord THEN "mailbox"
              ELSE IF a = NextWord(AopWord) THEN "record" ELSE shadow[a]
        BY <2>2, <2>4, <3>3, <3>4, <4>0
      <4>3. /\ (Behind(a) = SmemAt) <=> (a = SmemWord)
            /\ (Behind(a) = NextWord(SmemAt)) <=> (a = NextWord(SmemWord))
            /\ (Behind(a) = AopAt) <=> (a = AopWord)
            /\ (Behind(a) = NextWord(AopAt)) <=> (a = NextWord(AopWord))
        BY <3>1, <3>3, <4>0
      <4>4. /\ AopWord # SmemWord /\ AopWord # NextWord(SmemWord)
            /\ NextWord(AopWord) # SmemWord /\ NextWord(AopWord) # NextWord(SmemWord)
            /\ SmemWord # NextWord(SmemWord) /\ AopWord # NextWord(AopWord)
        BY <3>3, <4>0
      <4> QED
        BY <3>2, <4>1, <4>2, <4>3, <4>4
    <3>5. CASE ~aop
      <4>1. ram'[Behind(a)] =
              IF Behind(a) = NextWord(SmemAt) THEN "struct"
              ELSE IF Behind(a) = SmemAt THEN "pointer" ELSE ram[Behind(a)]
        BY <2>2, <2>4, <3>1, <3>5 DEF Seeded
      <4>2. shadow'[a] =
              IF a = SmemWord THEN "pointer"
              ELSE IF a = NextWord(SmemWord) THEN "struct" ELSE shadow[a]
        BY <2>2, <2>4, <3>3, <3>5
      <4> QED
        BY <3>1, <3>2, <3>3, <4>1, <4>2
    <3> QED
      BY <3>4, <3>5
  <2>7. MemoryInv'
    BY <1>1, <2>5, <2>6 DEF MemoryInv, Behind, Intact
  <2> QED
    BY <2>3, <2>7 DEF IInv
<1> QED
  BY <1>2, <1>3

(* A driver's write goes where the register reads from, and nowhere else. *)
LEMMA WritesRegisterKeeps == ASSUME IInv, WritesRegister PROVE IInv'
<1>1. /\ regions' = regions /\ plan' = plan /\ seed' = seed /\ aop' = aop
      /\ table' = table /\ tool' = tool /\ qemu' = qemu /\ opts' = opts /\ table # <<>>
  BY DEF WritesRegister, args, derived
<1>2. PlanInv' /\ ResetInv'
  <2>1. qemu = "running"
    BY DEF WritesRegister, Firmware, Running
  <2> QED
    BY <1>1, <2>1 DEF IInv, PlanInv, ResetInv, HasBlock, AopInOneBlock
<1>3. PICK w \in Declared(regions) :
         /\ Walk(table, w) \in Pool
         /\ ram' = [ram EXCEPT ![Walk(table, w)] = "driver"]
         /\ shadow' = [shadow EXCEPT ![w] = "driver"]
  BY DEF WritesRegister
<1>4. DOMAIN ram = Pool /\ DOMAIN shadow = Declared(regions)
  BY DEF IInv, MemoryInv
<1>5. DOMAIN ram' = Pool /\ DOMAIN shadow' = Declared(regions)
  BY <1>3, <1>4
<1>6. ASSUME plan # <<>>, Intact, NEW a \in Declared(regions)
      PROVE  ram'[Behind(a)] = shadow'[a]
  <2>1. table = L2(plan)
    BY <1>1, <1>6 DEF Intact
  <2>2. /\ Behind(a) \in Pool /\ Walk(table, w) = Behind(w)
        /\ Behind(a) = Behind(w) => a = w
    BY <1>6, <2>1, BehindIsPrivate DEF IInv
  <2>3. ram[Behind(a)] = shadow[a]
    BY <1>6 DEF IInv, MemoryInv
  <2> QED
    BY <1>3, <1>4, <2>2, <2>3
<1>7. MemoryInv'
  BY <1>1, <1>5, <1>6 DEF MemoryInv, Behind, Intact
<1> QED
  BY <1>2, <1>7 DEF IInv

(* A table that was written into is never the assembled one again. *)
LEMMA WritesElsewhereKeeps == ASSUME IInv, WritesElsewhere PROVE IInv'
<1>1. /\ regions' = regions /\ plan' = plan /\ seed' = seed /\ aop' = aop
      /\ ram' = ram /\ shadow' = shadow /\ tool' = tool /\ qemu' = qemu /\ opts' = opts
      /\ qemu = "running"
  BY DEF WritesElsewhere, args, derived, Firmware, Running
<1>2. PlanInv' /\ ResetInv'
  BY <1>1 DEF IInv, PlanInv, ResetInv, HasBlock, AopInOneBlock
<1>3. CASE UNCHANGED table
  BY <1>1, <1>3, Frame DEF frame
<1>4. CASE \E b \in DOMAIN table : table' = [table EXCEPT ![b] = LoadBlock + 1]
  <2>1. PICK b \in DOMAIN table : table' = [table EXCEPT ![b] = LoadBlock + 1]
    BY <1>4
  <2>2. b \in DOMAIN table' /\ table'[b] = LoadBlock + 1
    BY <2>1
  <2>3. table' # <<>>
    BY <2>2
  <2>4. ASSUME plan # <<>>, table' = L2(plan) PROVE FALSE
    <3>1. b \in 0..L2Entries - 1 /\ L2(plan)[b] = LoadBlock + 1
      BY <2>2, <2>4 DEF L2
    <3>2. /\ plan = Plan(Blocks(regions)) /\ Fits(Blocks(regions))
          /\ Blocks(regions) \in SUBSET Nat /\ IsFiniteSet(Blocks(regions))
      BY <2>4, BlocksAreLow, Stage2Assumption DEF IInv, PlanInv
    <3>3. CASE b \in DOMAIN plan
      <4>1. b \in Blocks(regions)
        BY <3>2, <3>3 DEF Plan
      <4>2. plan[b] \in PoolBase..LoadBlock - 1
        BY <3>2, <4>1, PlanIsInThePool
      <4>3. plan[b] = LoadBlock + 1
        BY <3>1, <3>3 DEF L2
      <4> QED
        BY <4>2, <4>3, Stage2Assumption
    <3>4. CASE b \notin DOMAIN plan
      <4>1. b = LoadBlock + 1
        BY <3>1, <3>4 DEF L2
      <4>2. Cardinality(Blocks(regions)) \in Nat
               /\ PoolBase + Cardinality(Blocks(regions)) <= LoadBlock
        BY <3>2, FS_CardinalityType DEF Fits
      <4> QED
        BY <3>1, <4>1, <4>2, Stage2Assumption
    <3> QED
      BY <3>3, <3>4
  <2>5. MemoryInv'
    BY <1>1, <2>3, <2>4 DEF IInv, MemoryInv, Intact
  <2> QED
    BY <1>2, <2>5 DEF IInv
<1> QED
  BY <1>3, <1>4 DEF WritesElsewhere

LEMMA StepInv == ASSUME IInv, [Next]_vars PROVE IInv'
<1>1. CASE Prepares
  BY <1>1, PreparesKeeps
<1>2. CASE Launches
  BY <1>2, LaunchesKeeps
<1>3. CASE Connects \/ ConnectTimesOut \/ Samples \/ ReadsPrompt \/ PromptTimesOut
              \/ JoinsScreen \/ PassesOver \/ NoDump \/ LoopEnds \/ Asks \/ Fetches
              \/ Terminates \/ Reports
  <2>1. UNCHANGED frame /\ tool' \notin {"options", "launch"}
    <3>1. CASE Connects \/ ConnectTimesOut
      BY <3>1 DEF Connects, ConnectTimesOut, Dies, frame, args, derived, memory
    <3>2. CASE Samples \/ ReadsPrompt \/ PromptTimesOut
      BY <3>2 DEF Samples, ReadsPrompt, PromptTimesOut, Answered, Waits, frame, args,
                  derived, memory
    <3>3. CASE JoinsScreen \/ PassesOver
      BY <3>3 DEF JoinsScreen, PassesOver, frame, args, derived, memory
    <3>4. CASE NoDump \/ LoopEnds
      BY <3>4 DEF NoDump, LoopEnds, EntersFinally, frame, args, derived
    <3>5. CASE Asks \/ Fetches
      BY <3>5 DEF Asks, Fetches, frame, args, derived, memory
    <3>6. CASE Terminates \/ Reports
      BY <3>6 DEF Terminates, Reports, frame, args, derived, memory
    <3> QED
      BY <1>3, <3>1, <3>2, <3>3, <3>4, <3>5, <3>6
  <2> QED
    BY <2>1, Frame
<1>4. CASE Qemu \/ BeginsRow \/ EndsRow \/ Wipes \/ Done \/ UNCHANGED vars
  <2>1. UNCHANGED frame /\ tool' = tool /\ qemu' = qemu
    BY <1>4 DEF Qemu, Listens, Opens, Scans, Saves, BeginsRow, EndsRow, Wipes, Done, vars, frame, args, derived,
                memory
  <2> QED
    BY <2>1, Frame
<1>5. CASE StubStarts
  BY <1>5, StubStartsKeeps
<1>6. CASE WritesRegister
  BY <1>6, WritesRegisterKeeps
<1>7. CASE WritesElsewhere
  BY <1>7, WritesElsewhereKeeps
<1> QED
  BY <1>1, <1>2, <1>3, <1>4, <1>5, <1>6, <1>7 DEF Next, Tool, Guest

(* "One block each so that a register written and read back is the value   *)
(* that was written": for every memory map low_regions and l2_plan accept. *)
THEOREM RegistersAreKept == Spec => []RegistersRemember
<1>1. IInv => RegistersRemember
  <2>1. SUFFICES ASSUME IInv, table = L2(plan), plan # <<>>, NEW a \in Declared(regions)
                 PROVE  Walk(table, a) \in Pool /\ ram[Walk(table, a)] = shadow[a]
    BY DEF RegistersRemember
  <2>2. Walk(table, a) = Behind(a) /\ Behind(a) \in Pool
    BY <2>1, BehindIsPrivate DEF IInv
  <2> QED
    BY <2>1, <2>2 DEF IInv, MemoryInv, Intact
<1> QED
  BY <1>1, InitInv, StepInv, PTL DEF Spec

-----------------------------------------------------------------------------
(* The read-back.  First the types of what the tool keeps. *)
Before  == {"options", "launch", "connect"}
Looping == {"greeted", "sample", "sampling", "decode"}
Reading == {"finally", "asking", "fetch"}
Late    == {"body", "flag", "rung", "aop"}     \* read behind the record, if it is written
Commands == Files \cup {"greeting"}
Marks == {"zero", "seed", "driver"}
Words == {"zero", "pointer", "struct", "mailbox", "record", "driver"}

TypeInv ==
    /\ opts \in Options /\ bound \in Bounds
    /\ tool \in Before \cup Looping \cup Reading \cup {"report", "done"}
    /\ seed \in BOOLEAN /\ aop \in BOOLEAN /\ socket \in BOOLEAN
    /\ qemu \in {"none", "running", "failed", "terminated"}
    /\ command \in Seq(Commands) /\ prompts \in Nat /\ left \in Nat
    /\ file \in [Files -> {"none", "short", "full"}]
    /\ DOMAIN dump = Files /\ DOMAIN got = Files
    /\ have \subseteq Reads /\ ask \subseteq Reads
    /\ tool \in {"asking", "fetch"} => ask # {}
    /\ exit \in {"none", "died", "crashed", "one", "zero"}
    /\ walk \in {"none", "good", "bad"} /\ seedOk \in {"none", "good", "bad"}
    /\ aopOk \in {"none", "good", "bad"}
    /\ guest \in {"none", "stub", "payload"}
    /\ ram \in [Pool -> Words] /\ smem \in [flag : Marks, rung : Marks]
    /\ writes \in Nat
    /\ touched \in [table : BOOLEAN, ram : SUBSET Pool, smem : BOOLEAN]

(* The panel is wiped when its last row is full. *)
ConsoleInv ==
    /\ printed \in 0..Len(bound.log) /\ wiped \in 0..printed
    /\ printed - wiped <= PanelRows /\ drawing \in {"no", "row", "wipe"}
    /\ printed - wiped = PanelRows <=> drawing = "wipe"
    /\ drawing = "row" => printed < Len(bound.log)

(* The tool talks to the QEMU it launched, and has a plan if it asked for  *)
(* one.                                                                    *)
LaunchInv ==
    /\ tool \in Before => command = <<>> /\ prompts = 0 /\ left = bound.samples
    /\ tool \notin Before \cup {"done"} \/ (socket /\ tool # "options") => qemu # "none"
    /\ tool \notin {"options", "done"} => (plan # <<>> <=> opts.stub /\ opts.zero)

(* Each question is asked once. *)
BudgetInv ==
    LET used == Len(command) + prompts IN
    /\ tool \in Looping => used + left <= bound.samples + 1
    /\ tool = "finally" => \A f \in ask : used <= bound.samples + Rank[f]
    /\ tool \in {"asking", "fetch"} => \A f \in ask : used <= bound.samples + 1 + Rank[f]
    /\ used <= bound.samples + 9

(* A dump nothing was drawn into holds the rows that stood when it began,  *)
(* as far as it has come.                                                  *)
Holds(screen, log, w, n) == screen = [i \in 1..n |-> log[w + i]]

Standing == IF scanned <= printed - wiped THEN scanned ELSE printed - wiped

Undisturbed(state) == still = TRUE /\ file["screen"] = state

DumpInv ==
    /\ dump["screen"] \in Seq(Text) /\ scanned \in 0..PanelRows /\ still \in BOOLEAN
    /\ Undisturbed("short") => drawing = "no" /\ Holds(dump["screen"], bound.log, wiped, Standing)
    /\ Undisturbed("full") =>
         \E n, w \in 0..printed : w + n <= printed /\ Holds(dump["screen"], bound.log, w, n)

(* The stream. *)
StreamInv ==
    /\ screens \in Nat /\ gaps \in 0..screens
    /\ screens + left + (IF tool \in {"sampling", "decode"} THEN 1 ELSE 0) <= bound.samples
    /\ lines \in Seq(Text) /\ drawn \subseteq 1..Len(lines)
    /\ lines # <<>> => screens > 0
    /\ StreamIsContiguous

-----------------------------------------------------------------------------
(* The order of the reads. *)
LEMMA RankProps ==
    /\ \A f \in Reads : Rank[f] \in 1..8
    /\ \A f, g \in Reads : Rank[f] = Rank[g] => f = g
    /\ \A f \in Late : Rank["record"] < Rank[f]
    /\ \A f \in Reads \ SeedReads, g \in SeedReads : Rank[f] < Rank[g]
<1>1. /\ Rank["tables"] = 1 /\ Rank["diag"] = 2 /\ Rank["backing"] = 3 /\ Rank["record"] = 4
      /\ Rank["body"] = 5 /\ Rank["flag"] = 6 /\ Rank["rung"] = 7 /\ Rank["aop"] = 8
  BY DEF Rank
<1> QED
  BY <1>1 DEF Reads, SeedReads, Late

LEMMA NextReadIs ==
    ASSUME ask \subseteq Reads, ask # {}
    PROVE  NextRead \in ask /\ \A g \in ask : Rank[NextRead] <= Rank[g]
<1> DEFINE At(n) == \E f \in ask : Rank[f] = n
<1>1. \A f \in ask : Rank[f] \in 1..8
  BY RankProps
<1>2. \E n \in 1..8 : At(n) /\ \A m \in 1..n - 1 : ~At(m)
  <2> HIDE DEF At
  <2>1. At(1) \/ At(2) \/ At(3) \/ At(4) \/ At(5) \/ At(6) \/ At(7) \/ At(8)
    BY <1>1 DEF At
  <2> QED
    BY <2>1
<1>3. \E f \in ask : \A g \in ask : Rank[f] <= Rank[g]
  BY <1>1, <1>2
<1> QED
  BY <1>3 DEF NextRead

LEMMA InitType == ASSUME Init PROVE TypeInv
<1>1. opts \in Options /\ bound \in Bounds
  BY QemuAssumption DEF Init
<1>2. <<>> \in Seq(Commands)
  BY EmptySeq
<1>3. bound.samples \in Nat /\ opts.attach \in BOOLEAN
  BY <1>1 DEF Bounds, Options
<1>4. DOMAIN Nothing = Files
  BY DEF Nothing, Files, Reads
<1>5. ram \in [Pool -> Words]
  BY DEF Init, Words
<1>6. smem \in [flag : Marks, rung : Marks] /\ file \in [Files -> {"none", "short", "full"}]
  BY DEF Init, Marks
<1>7. touched \in [table : BOOLEAN, ram : SUBSET Pool, smem : BOOLEAN]
  BY DEF Init
<1> QED
  BY <1>1, <1>2, <1>3, <1>4, <1>5, <1>6, <1>7
     DEF Init, TypeInv, Before

LEMMA TypeStep == ASSUME IInv, TypeInv, [Next]_vars PROVE TypeInv'
<1> USE DEF Before, Looping, Reading
<1>1. CASE Prepares \/ Launches \/ Connects \/ ConnectTimesOut
  <2>1. CASE Prepares
    <3>1. seed' \in BOOLEAN /\ aop' \in BOOLEAN
      BY <2>1 DEF TypeInv, Prepares, derived
    <3>2. /\ tool' \in {"done", "connect", "launch"} /\ exit' \in {exit, "died"}
          /\ UNCHANGED <<walk, seedOk, aopOk>>
      BY <2>1 DEF Prepares, Dies, verdict
    <3>3. UNCHANGED <<args, qemu, monitor, left, readback, console, memory>>
      BY <2>1 DEF Prepares
    <3>4. UNCHANGED <<opts, bound, qemu, command, prompts, left, file, dump, got, have, ask, guest,
                      ram, smem, writes, touched>>
      BY <3>3 DEF args, monitor, readback, console, memory
    <3>5. socket' \in BOOLEAN
      BY <2>1 DEF Prepares
    <3>6. tool' \notin {"asking", "fetch"} /\ exit' \in {"none", "died", "crashed", "one", "zero"}
      BY <3>2 DEF TypeInv
    <3> QED
      BY <3>1, <3>2, <3>4, <3>5, <3>6 DEF TypeInv
  <2>2. CASE Launches
    BY <2>2 DEF TypeInv, Launches, args, derived, monitor, readback, verdict
  <2>3. CASE Connects
    <3>1. <<"greeting">> \in Seq(Commands)
      BY DEF Commands
    <3> QED
      BY <2>3, <3>1 DEF TypeInv, Connects, args, derived, readback, verdict, console, memory
  <2>4. CASE ConnectTimesOut
    BY <2>4 DEF TypeInv, ConnectTimesOut, Dies, args, derived, monitor, readback, console, memory
  <2> QED
    BY <1>1, <2>1, <2>2, <2>3, <2>4
<1>2. CASE Qemu
  <2>1. CASE Listens
    BY <2>1 DEF TypeInv, Listens, args, derived, monitor, readback, verdict, console, memory
  <2>2. CASE Opens
    <3>1. file' \in [Files -> {"none", "short", "full"}]
      BY <2>2 DEF TypeInv, Opens
    <3>2. DOMAIN dump' = Files
      BY <2>2 DEF TypeInv, Opens
    <3> QED
      BY <2>2, <3>1, <3>2 DEF TypeInv, Opens, args, derived, readback, verdict, console, memory
  <2>4. CASE Scans
    <3>1. DOMAIN dump' = Files
      BY <2>4 DEF TypeInv, Scans
    <3> QED
      BY <2>4, <3>1 DEF TypeInv, Scans, args, derived, readback, verdict, console, memory
  <2>3. CASE Saves
    <3>1. command \in Seq(Commands) /\ command # <<>>
      BY <2>3 DEF TypeInv, Saves
    <3>2. Tail(command) \in Seq(Commands)
      BY <3>1, HeadTailProperties
    <3>3. file' \in [Files -> {"none", "short", "full"}] /\ DOMAIN dump' = Files
      BY <2>3 DEF TypeInv, Saves
    <3>4. command' \in Seq(Commands) /\ prompts' \in Nat
      BY <2>3, <3>2 DEF TypeInv, Saves
    <3> QED
      BY <2>3, <3>3, <3>4 DEF TypeInv, Saves, args, derived, readback, verdict, console, memory
  <2> QED
    BY <1>2, <2>1, <2>2, <2>3, <2>4 DEF Qemu
<1>3. CASE Guest
  <2>1. CASE StubStarts
    <3>1. ram' \in [Pool -> Words] /\ smem' \in [flag : Marks, rung : Marks]
      <4>1. Seeded \in [Pool -> Words]
        BY DEF TypeInv, Seeded, Words
      <4>2. [flag |-> "seed", rung |-> "seed"] \in [flag : Marks, rung : Marks]
        BY DEF Marks
      <4> QED
        BY <2>1, <4>1, <4>2 DEF TypeInv, StubStarts
    <3> QED
      BY <2>1, <3>1 DEF TypeInv, StubStarts, args, derived, monitor, readback, verdict
  <2>2. CASE BeginsRow \/ EndsRow \/ Wipes
    BY <2>2 DEF TypeInv, BeginsRow, EndsRow, Wipes, args, derived, monitor, readback, verdict, memory
  <2>3. CASE WritesRegister
    <3>1. PICK a \in Declared(regions) :
            /\ Walk(table, a) \in Pool
            /\ ram' = [ram EXCEPT ![Walk(table, a)] = "driver"]
            /\ touched' = [touched EXCEPT !.ram = @ \cup {Walk(table, a)}]
      BY <2>3 DEF WritesRegister
    <3>2. ram' \in [Pool -> Words]
      BY <3>1 DEF TypeInv, Words
    <3>3. touched' \in [table : BOOLEAN, ram : SUBSET Pool, smem : BOOLEAN]
      BY <3>1 DEF TypeInv
    <3> QED
      BY <2>3, <3>2, <3>3 DEF TypeInv, WritesRegister, args, derived, monitor, readback, verdict, console
  <2>4. CASE WritesElsewhere
    <3>1. smem' \in [flag : Marks, rung : Marks]
      <4>1. CASE UNCHANGED smem
        BY <4>1 DEF TypeInv
      <4>2. CASE \E w \in DOMAIN smem : smem' = [smem EXCEPT ![w] = "driver"]
        <5>1. PICK w \in DOMAIN smem : smem' = [smem EXCEPT ![w] = "driver"]
          BY <4>2
        <5>2. w \in {"flag", "rung"} /\ "driver" \in Marks
          BY DEF TypeInv, Marks
        <5> QED
          BY <5>1, <5>2 DEF TypeInv
      <4> QED
        BY <2>4, <4>1, <4>2 DEF WritesElsewhere
    <3>2. touched' \in [table : BOOLEAN, ram : SUBSET Pool, smem : BOOLEAN]
      BY <2>4 DEF TypeInv, WritesElsewhere
    <3> QED
      BY <2>4, <3>1, <3>2 DEF TypeInv, WritesElsewhere, args, derived, monitor, readback, verdict, console
  <2> QED
    BY <1>3, <2>1, <2>2, <2>3, <2>4 DEF Guest
<1>4. CASE Samples \/ Asks
  <2>1. CASE Samples
    <3>1. "screen" \in Commands
      BY DEF Commands, Files
    <3>2. Append(command, "screen") \in Seq(Commands)
      BY <3>1, AppendProperties DEF TypeInv
    <3> QED
      BY <2>1, <3>2 DEF TypeInv, Samples, args, derived, readback, verdict, console, memory
  <2>2. CASE Asks
    <3>1. NextRead \in Commands
      BY <2>2, NextReadIs DEF TypeInv, Asks, Commands, Files
    <3>2. Append(command, NextRead) \in Seq(Commands)
      BY <3>1, AppendProperties DEF TypeInv
    <3> QED
      BY <2>2, <3>2 DEF TypeInv, Asks, args, derived, readback, verdict, console, memory
  <2> QED
    BY <1>4, <2>1, <2>2
<1>5. CASE ReadsPrompt \/ PromptTimesOut \/ JoinsScreen \/ PassesOver
  BY <1>5 DEF TypeInv, ReadsPrompt, PromptTimesOut, JoinsScreen, PassesOver, Waits, Answered, args,
              derived, monitor, readback, verdict, console, memory
<1>6. CASE NoDump \/ LoopEnds
  <2>1. EntersFinally
    BY <1>6 DEF NoDump, LoopEnds
  <2>2. /\ ask' \subseteq Reads /\ tool' = "finally"
        /\ touched' \in [table : BOOLEAN, ram : SUBSET Pool, smem : BOOLEAN]
        /\ UNCHANGED <<have, got, ram, smem, writes>>
    BY <2>1 DEF EntersFinally
  <2> QED
    BY <1>6, <2>2 DEF TypeInv, NoDump, LoopEnds, args, derived, monitor, verdict, console
<1>7. CASE Fetches
  <2>1. DOMAIN got' = Files /\ have' \subseteq Reads /\ ask' \subseteq Reads
    <3>1. tool = "fetch" /\ ask \subseteq Reads /\ ask # {}
      BY <1>7 DEF TypeInv, Fetches
    <3>2. NextRead \in Reads
      BY <3>1, NextReadIs
    <3>3. have' \subseteq have \cup {NextRead} /\ DOMAIN got' = DOMAIN got /\ ask' \subseteq ask
      BY <1>7 DEF Fetches, Abandons, Takes, readback
    <3> QED
      BY <3>1, <3>2, <3>3 DEF TypeInv
  <2> QED
    BY <1>7, <2>1 DEF TypeInv, Fetches, args, derived, monitor, console, memory
<1>8. CASE Terminates \/ Reports
  <2>1. CASE Terminates
    BY <2>1 DEF TypeInv, Terminates, args, derived, monitor, readback, verdict, console, memory
  <2>2. CASE Reports
    BY <2>2 DEF TypeInv, Reports, Verdict, args, derived, monitor, readback, console, memory
  <2> QED
    BY <1>8, <2>1, <2>2
<1>9. CASE Done \/ UNCHANGED vars
  BY <1>9 DEF TypeInv, Done, vars, args, derived, monitor, readback, verdict, console, memory
<1> QED
  BY <1>1, <1>2, <1>3, <1>4, <1>5, <1>6, <1>7, <1>8, <1>9 DEF Next, Tool

(* The console's counters, whatever the tool does. *)
LEMMA ConsoleStep == ASSUME TypeInv, ConsoleInv, [Next]_vars PROVE ConsoleInv'
<1>1. bound' = bound /\ PanelRows \in Nat \ {0} /\ Len(bound.log) \in Nat
  <2>1. Len(bound.log) \in Nat
    <3>1. bound.log \in Seq(Text)
      BY DEF TypeInv, Bounds
    <3> QED
      BY <3>1, LenProperties
  <2>2. bound' = bound
    BY DEF Next, Tool, Qemu, Guest, Prepares, Launches, Connects, ConnectTimesOut, Samples,
           ReadsPrompt, PromptTimesOut, JoinsScreen, PassesOver, NoDump, LoopEnds, Asks, Fetches,
           Terminates, Reports, Listens, Opens, Scans, Saves, StubStarts, BeginsRow, EndsRow, Wipes, WritesRegister,
           WritesElsewhere, Done, vars, args
  <2> QED
    BY <2>1, <2>2, QemuAssumption
<1>2. CASE BeginsRow
  <2>1. UNCHANGED <<printed, wiped>> /\ drawing = "no" /\ drawing' = "row" /\ printed < Len(bound.log)
    BY <1>2 DEF BeginsRow
  <2> QED
    BY <1>1, <2>1 DEF ConsoleInv
<1>3. CASE EndsRow
  <2>1. /\ printed' = printed + 1 /\ wiped' = wiped /\ drawing = "row"
        /\ drawing' = IF printed' - wiped = PanelRows THEN "wipe" ELSE "no"
    BY <1>3 DEF EndsRow
  <2> QED
    BY <1>1, <2>1 DEF ConsoleInv
<1>4. CASE Wipes
  <2>1. printed' = printed /\ wiped' = printed /\ drawing' = "no"
    BY <1>4 DEF Wipes
  <2> QED
    BY <1>1, <2>1 DEF ConsoleInv
<1>5. CASE ~(BeginsRow \/ EndsRow \/ Wipes)
  <2>1. UNCHANGED <<printed, wiped, drawing>>
    BY <1>5
       DEF Next, Tool, Qemu, Guest, Prepares, Launches, Connects, ConnectTimesOut, Samples,
           ReadsPrompt, PromptTimesOut, JoinsScreen, PassesOver, NoDump, LoopEnds, Asks, Fetches,
           Terminates, Reports, Listens, Opens, Scans, Saves, StubStarts, WritesRegister,
           WritesElsewhere, Done, vars, console
  <2> QED
    BY <1>1, <2>1 DEF ConsoleInv
<1> QED
  BY <1>2, <1>3, <1>4, <1>5

LEMMA LaunchStep ==
    ASSUME IInv, TypeInv, LaunchInv, [Next]_vars PROVE LaunchInv'
<1> USE DEF Before
<1>1. CASE Prepares
  <2>1. /\ UNCHANGED <<opts, bound, regions, command, prompts, left>> /\ tool = "options"
        /\ ~socket' /\ tool' \in {"done", "connect", "launch"}
    BY <1>1 DEF Prepares, Dies, args, monitor
  <2>2. tool' # "done" => (plan' # <<>> <=> opts.stub /\ opts.zero)
    <3>1. ASSUME ~Refused PROVE plan' # <<>> <=> opts.stub /\ opts.zero
      <4>1. plan' = IF opts.stub /\ opts.zero THEN Plan(Blocks(regions)) ELSE <<>>
        BY <1>1, <3>1 DEF Prepares
      <4>2. opts.stub /\ opts.zero => WellFormed(regions)
        BY <3>1 DEF Refused
      <4> QED
        BY <4>1, <4>2, PlanNotEmpty DEF IInv, PlanInv
    <3> QED
      BY <1>1, <3>1 DEF Prepares, Dies
  <2> QED
    BY <2>1, <2>2 DEF LaunchInv
<1>2. CASE Launches
  BY <1>2 DEF LaunchInv, Launches, args, derived, monitor
<1>3. CASE Connects \/ ConnectTimesOut
  BY <1>3 DEF LaunchInv, Connects, ConnectTimesOut, Dies, args, derived, monitor
<1>4. CASE Qemu
  <2>1. UNCHANGED <<tool, opts, bound, plan, left, qemu>> /\ qemu # "none"
    BY <1>4 DEF Qemu, Listens, Opens, Scans, Saves, Running, args, derived
  <2>2. tool \in Before => UNCHANGED <<command, prompts>>
    BY <1>4 DEF LaunchInv, Qemu, Listens, Opens, Scans, Saves, monitor
  <2> QED
    BY <2>1, <2>2 DEF LaunchInv
<1>5. CASE Guest
  BY <1>5 DEF LaunchInv, Guest, StubStarts, BeginsRow, EndsRow, Wipes, WritesRegister, WritesElsewhere, args,
              derived, monitor
<1>6. CASE Samples \/ ReadsPrompt \/ PromptTimesOut \/ JoinsScreen \/ PassesOver \/ NoDump \/ LoopEnds
           \/ Asks \/ Fetches \/ Terminates \/ Reports
  <2>1. tool \notin Before \cup {"done"} /\ tool' \notin Before
    BY <1>6 DEF Samples, ReadsPrompt, PromptTimesOut, JoinsScreen, PassesOver, NoDump, LoopEnds,
                EntersFinally, Asks, Fetches, Terminates, Reports, Waits, Answered
  <2>2. UNCHANGED <<opts, plan>> /\ qemu' \in {qemu, "terminated"}
    BY <1>6 DEF Samples, ReadsPrompt, PromptTimesOut, JoinsScreen, PassesOver, NoDump, LoopEnds,
                Asks, Fetches, Terminates, Reports, args, derived
  <2> QED
    BY <2>1, <2>2 DEF LaunchInv
<1>7. CASE Done \/ UNCHANGED vars
  BY <1>7 DEF LaunchInv, Done, vars, args, derived, monitor
<1> QED
  BY <1>1, <1>2, <1>3, <1>4, <1>5, <1>6, <1>7 DEF Next, Tool

(* The monitor is asked at most once per sample and once per read. *)
LEMMA BudgetStep ==
    ASSUME TypeInv, LaunchInv, BudgetInv, [Next]_vars PROVE BudgetInv'
<1> USE DEF Before, Looping
<1> DEFINE used == Len(command) + prompts
<1>1. Len(command) \in Nat /\ prompts \in Nat /\ left \in Nat /\ bound.samples \in Nat /\ bound' = bound
  <2>1. Len(command) \in Nat
    BY LenProperties DEF TypeInv
  <2>2. bound.samples \in Nat
    BY DEF TypeInv, Bounds
  <2>3. bound' = bound
    BY DEF Next, Tool, Qemu, Guest, Prepares, Launches, Connects, ConnectTimesOut, Samples,
           ReadsPrompt, PromptTimesOut, JoinsScreen, PassesOver, NoDump, LoopEnds, Asks, Fetches,
           Terminates, Reports, Listens, Opens, Scans, Saves, StubStarts, BeginsRow, EndsRow, Wipes, WritesRegister,
           WritesElsewhere, Done, vars, args
  <2> QED
    BY <2>1, <2>2, <2>3 DEF TypeInv
<1>2. \A f \in ask \cup Reads : Rank[f] \in Nat /\ 1 <= Rank[f] /\ Rank[f] <= 8
  <2>1. \A f \in ask \cup Reads : Rank[f] \in 1..8
    BY RankProps DEF TypeInv
  <2> QED
    BY <2>1
<1>3. CASE Prepares \/ Launches \/ ConnectTimesOut
  <2>1. command = <<>> /\ UNCHANGED <<command, prompts>> /\ prompts = 0
        /\ tool' \in {"done", "connect", "launch"}
    BY <1>3 DEF LaunchInv, Prepares, Launches, ConnectTimesOut, Dies, monitor
  <2>2. Len(command) = 0
    BY <2>1, EmptySeq
  <2> QED
    BY <1>1, <2>1, <2>2 DEF BudgetInv
<1>4. CASE Connects
  <2>1. command' = <<"greeting">> /\ prompts' = 0 /\ left' = bound.samples /\ tool' = "greeted"
    BY <1>4 DEF Connects, LaunchInv
  <2>2. Len(command') = 1
    BY <2>1
  <2> QED
    BY <1>1, <2>1, <2>2 DEF BudgetInv
<1>5. CASE Qemu
  <2>1. UNCHANGED <<tool, left, ask>>
    BY <1>5 DEF Qemu, Listens, Opens, Scans, Saves, readback
  <2>2. Len(command') + prompts' = used
    <3>1. CASE Saves
      <4>1. command' = Tail(command) /\ prompts' = prompts + 1 /\ command # <<>>
        BY <3>1 DEF Saves
      <4>2. Len(command') = Len(command) - 1
        BY <4>1, HeadTailProperties DEF TypeInv
      <4> QED
        BY <1>1, <4>1, <4>2
    <3>2. CASE ~Saves
      BY <1>5, <3>2 DEF Qemu, Listens, Opens, Scans, monitor
    <3> QED
      BY <3>1, <3>2
  <2> QED
    BY <1>1, <2>1, <2>2 DEF BudgetInv
<1>6. CASE Guest \/ Done \/ UNCHANGED vars
  <2>1. UNCHANGED <<tool, left, ask, command, prompts>>
    BY <1>6 DEF Guest, StubStarts, BeginsRow, EndsRow, Wipes, WritesRegister, WritesElsewhere, Done, vars, readback,
                monitor
  <2> QED
    BY <1>1, <2>1 DEF BudgetInv
<1>7. CASE Samples
  <2>1. /\ command' = Append(command, "screen") /\ prompts' = prompts /\ left' = left - 1 /\ left > 0
        /\ tool = "sample" /\ tool' = "sampling"
    BY <1>7 DEF Samples
  <2>2. "screen" \in Commands
    BY DEF Commands, Files
  <2>3. Len(command') = Len(command) + 1
    BY <2>1, <2>2, AppendProperties DEF TypeInv
  <2> QED
    BY <1>1, <2>1, <2>3 DEF BudgetInv
<1>8. CASE ReadsPrompt \/ PromptTimesOut
  <2>1. /\ prompts' \in 0..prompts /\ UNCHANGED <<command, left, ask>>
        /\ \/ tool \in Looping /\ tool' \in Looping
           \/ tool = "asking" /\ tool' = "fetch"
    <3>1. CASE ReadsPrompt
      BY <1>1, <3>1 DEF ReadsPrompt, Waits, Answered, readback, monitor
    <3>2. CASE PromptTimesOut
      BY <1>1, <3>2 DEF PromptTimesOut, Waits, Answered, readback, monitor
    <3> QED
      BY <1>8, <3>1, <3>2
  <2>2. Len(command') + prompts' <= used
    BY <1>1, <2>1
  <2>3. Len(command') + prompts' \in Nat /\ used \in Nat
    BY <1>1, <2>1
  <2>4. CASE tool \in Looping /\ tool' \in Looping
    <3>1. used + left <= bound.samples + 1 /\ left' = left
      BY <2>1, <2>4 DEF BudgetInv
    <3>2. Len(command') + prompts' + left' <= bound.samples + 1
      BY <1>1, <2>2, <2>3, <3>1
    <3>3. Len(command') + prompts' <= bound.samples + 9
      BY <1>1, <2>2, <2>3, <3>1
    <3> QED
      BY <1>1, <2>4, <3>2, <3>3 DEF BudgetInv
  <2>5. CASE tool = "asking" /\ tool' = "fetch"
    <3>1. \A f \in ask : used <= bound.samples + 1 + Rank[f]
      BY <2>5 DEF BudgetInv
    <3>2. \A f \in ask' : Len(command') + prompts' <= bound.samples + 1 + Rank[f]
      BY <1>1, <1>2, <2>1, <2>2, <2>3, <3>1
    <3>3. Len(command') + prompts' <= bound.samples + 9
      BY <1>1, <2>2, <2>3 DEF BudgetInv
    <3> QED
      BY <1>1, <2>5, <3>2, <3>3 DEF BudgetInv
  <2> QED
    BY <2>1, <2>4, <2>5
<1>9. CASE JoinsScreen \/ PassesOver
  <2>1. UNCHANGED <<command, prompts, left, ask>> /\ tool \in Looping /\ tool' = "sample"
    BY <1>9 DEF JoinsScreen, PassesOver, readback, monitor
  <2> QED
    BY <1>1, <2>1 DEF BudgetInv
<1>10. CASE NoDump \/ LoopEnds
  <2>1. UNCHANGED <<command, prompts>> /\ tool \in Looping /\ tool' = "finally" /\ ask' \subseteq Reads
    BY <1>10 DEF NoDump, LoopEnds, EntersFinally, monitor
  <2>2. used <= bound.samples + 1
    BY <1>1, <2>1 DEF BudgetInv
  <2>3. \A f \in ask' : used <= bound.samples + Rank[f]
    BY <1>1, <1>2, <2>1, <2>2
  <2>4. used <= bound.samples + 9
    BY <1>1, <2>2
  <2> QED
    BY <1>1, <2>1, <2>3, <2>4 DEF BudgetInv
<1>11. CASE Asks
  <2>1. /\ command' = Append(command, NextRead) /\ UNCHANGED <<prompts, ask>>
        /\ tool = "finally" /\ tool' = "asking" /\ ask # {}
    BY <1>11 DEF Asks, readback
  <2>2. NextRead \in ask
    BY <2>1, NextReadIs DEF TypeInv
  <2>3. NextRead \in Commands
    BY <2>2 DEF TypeInv, Commands, Files
  <2>4. Len(command') = Len(command) + 1
    BY <2>1, <2>3, AppendProperties DEF TypeInv
  <2>5. \A f \in ask : used <= bound.samples + Rank[f]
    BY <2>1 DEF BudgetInv
  <2>6. \A f \in ask' : Len(command') + prompts' <= bound.samples + 1 + Rank[f]
    BY <1>1, <1>2, <2>1, <2>4, <2>5
  <2>7. Len(command') + prompts' <= bound.samples + 9
    BY <1>1, <1>2, <2>1, <2>2, <2>4, <2>5
  <2> QED
    BY <1>1, <2>1, <2>6, <2>7 DEF BudgetInv
<1>12. CASE Fetches
  <2>1. UNCHANGED <<command, prompts>> /\ tool = "fetch" /\ tool' \in {"finally", "done"} /\ ask # {}
    BY <1>12 DEF Fetches, TypeInv, monitor
  <2>2. NextRead \in ask /\ \A g \in ask : Rank[NextRead] <= Rank[g]
    BY <2>1, NextReadIs DEF TypeInv
  <2>3. tool' = "finally" => ask' \subseteq ask \ {NextRead}
    <3>1. NextRead \in SeedReads \/ NextRead \notin SeedReads
      OBVIOUS
    <3> QED
      BY <1>12, <3>1 DEF Fetches, Abandons
  <2>4. \A g \in ask \ {NextRead} : Rank[NextRead] < Rank[g]
    <3>1. \A g \in ask : g \in Reads
      BY DEF TypeInv
    <3> QED
      BY <1>2, <2>2, <3>1, RankProps
  <2>5. used <= bound.samples + 1 + Rank[NextRead]
    BY <2>1, <2>2 DEF BudgetInv
  <2>6. ASSUME NEW g \in ask \ {NextRead} PROVE used <= bound.samples + Rank[g]
    <3>1. Rank[g] \in Nat /\ Rank[NextRead] \in Nat /\ Rank[NextRead] < Rank[g]
      BY <1>2, <2>2, <2>4
    <3> QED
      BY <1>1, <2>5, <3>1
  <2> QED
    BY <1>1, <2>1, <2>3, <2>6 DEF BudgetInv
<1>13. CASE Terminates \/ Reports
  <2>1. UNCHANGED <<command, prompts>> /\ tool' \in {"report", "done"}
    BY <1>13 DEF Terminates, Reports, monitor
  <2> QED
    BY <1>1, <2>1 DEF BudgetInv
<1> QED
  BY <1>3, <1>4, <1>5, <1>6, <1>7, <1>8, <1>9, <1>10, <1>11, <1>12, <1>13 DEF Next, Tool

(* What is cut out of a sequence. *)
LEMMA Slice ==
    ASSUME NEW S, NEW s \in Seq(S), NEW m \in Nat, NEW n \in Nat, m <= n, n <= Len(s)
    PROVE  /\ SubSeq(s, m + 1, n) \in Seq(S) /\ Len(SubSeq(s, m + 1, n)) = n - m
           /\ \A i \in 1..n - m : SubSeq(s, m + 1, n)[i] = s[m + i]
<1> DEFINE u == SubSeq(s, m + 1, n)
<1>1. Len(s) \in Nat
  BY LenProperties
<1>2. \A i \in m + 1..n : s[i] \in S
  <2>1. \A i \in m + 1..n : i \in 1..Len(s)
    BY <1>1
  <2> QED
    BY <2>1, ElementOfSeq
<1>3. /\ u \in Seq(S) /\ Len(u) = IF m + 1 <= n THEN n - (m + 1) + 1 ELSE 0
      /\ \A i \in 1..n - (m + 1) + 1 : u[i] = s[m + 1 + i - 1]
  <2>1. m + 1 \in Int /\ n \in Int
    OBVIOUS
  <2> QED
    BY <1>2, <2>1, SubSeqProperties
<1> HIDE DEF u
<1>4. Len(u) = n - m
  BY <1>3
<1>5. ASSUME NEW i \in 1..n - m PROVE u[i] = s[m + i]
  <2>1. i \in 1..n - (m + 1) + 1 /\ m + 1 + i - 1 = m + i
    OBVIOUS
  <2> QED
    BY <1>3, <2>1
<1> QED
  BY <1>3, <1>4, <1>5 DEF u

(* A set of naturals that is bounded has a greatest element. *)
LEMMA GreatestOfNaturals ==
    ASSUME NEW n \in Nat, NEW S \in SUBSET (0..n), S # {}
    PROVE  \E x \in S : \A y \in S : y <= x
<1> DEFINE above == {u \in Nat : \A x \in S : x <= u}
           less  == OpToRel(<, Nat)
<1>1. IsWellFoundedOn(less, Nat)
  BY NatLessThanWellFounded
<1>2. \A i, j \in Nat : i < j => <<i, j>> \in less
  BY DEF OpToRel
<1> HIDE DEF less
<1>3. above \subseteq Nat /\ n \in above
  OBVIOUS
<1>4. PICK u \in above : \A v \in above : ~(<<v, u>> \in less)
  <2>1. above # {}
    BY <1>3
  <2>2. above \subseteq Nat
    OBVIOUS
  <2> HIDE DEF above
  <2> QED
    BY <1>1, <2>1, <2>2, WFMin
<1>5. u \in Nat /\ (\A x \in S : x \in Nat /\ x <= u) /\ \A v \in above : ~(v < u)
  <2>1. u \in Nat /\ \A x \in S : x \in Nat /\ x <= u
    OBVIOUS
  <2>2. above \subseteq Nat
    OBVIOUS
  <2> HIDE DEF above
  <2>3. \A v \in above : ~(v < u)
    BY <1>2, <1>4, <2>1, <2>2
  <2> QED
    BY <2>1, <2>3
<1>6. u \in S
  <2> SUFFICES ASSUME u \notin S PROVE FALSE
    OBVIOUS
  <2>1. \A x \in S : x < u
    BY <1>5
  <2>2. u - 1 \in Nat /\ u - 1 < u
    <3>1. PICK x \in S : x \in Nat /\ x < u
      BY <1>5, <2>1
    <3> QED
      BY <1>5, <3>1
  <2>3. u - 1 \in above
    BY <1>5, <2>1, <2>2
  <2> QED
    BY <1>5, <2>2, <2>3
<1> QED
  BY <1>5, <1>6

(* What the join takes for known is at the end of the one and at the       *)
(* beginning of the other.                                                 *)
LEMMA OverlapJoins ==
    ASSUME NEW S, NEW s \in Seq(S), NEW t \in Seq(S)
    PROVE  LET k == Overlap(s, t) IN k \in 0..Len(t) /\ k <= Len(s) /\ Joins(s, t, k)
<1>1. Len(s) \in Nat /\ Len(t) \in Nat
  BY LenProperties
<1> DEFINE fits == {k \in 0..Len(t) : k <= Len(s) /\ Joins(s, t, k)}
           Is(k) == /\ k <= Len(s) /\ Joins(s, t, k)
                    /\ \A c \in k + 1..Len(t) : c <= Len(s) => ~Joins(s, t, c)
<1>2. 0 \in fits
  <2>1. SubSeq(s, Len(s) - 0 + 1, Len(s)) = <<>> /\ SubSeq(t, 1, 0) = <<>>
    BY <1>1, SubSeqEmpty
  <2> QED
    BY <1>1, <2>1 DEF Joins
<1>3. PICK k \in fits : \A c \in fits : c <= k
  BY <1>1, <1>2, GreatestOfNaturals
<1>4. k \in 0..Len(t) /\ Is(k)
  <2>1. ASSUME NEW c \in k + 1..Len(t), c <= Len(s), Joins(s, t, c) PROVE FALSE
    <3>1. c \in 0..Len(t) /\ ~(c <= k)
      BY <1>1, <1>3
    <3>2. c \in fits
      BY <2>1, <3>1
    <3> QED
      BY <1>3, <3>1, <3>2
  <2> QED
    BY <1>3, <2>1
<1>5. Overlap(s, t) = CHOOSE x \in 0..Len(t) : Is(x)
  BY DEF Overlap
<1>6. Overlap(s, t) \in 0..Len(t) /\ Is(Overlap(s, t))
  <2> HIDE DEF Is
  <2> QED
    BY <1>4, <1>5
<1> QED
  BY <1>6

(* The row the join is at: the last of what is known is the last of what   *)
(* it is known by; and each row behind it comes from the screen.           *)
Joined(s, t) == s \o SubSeq(t, Overlap(s, t) + 1, Len(t))

LEMMA JoinedRows ==
    ASSUME NEW S, NEW s \in Seq(S), NEW t \in Seq(S)
    PROVE  /\ Joined(s, t) \in Seq(S) /\ Len(Joined(s, t)) = Len(s) + (Len(t) - Overlap(s, t))
           /\ Overlap(s, t) \in 0..Len(t)
           /\ \A i \in 1..Len(s) : Joined(s, t)[i] = s[i]
           /\ \A j \in 1..Len(t) - Overlap(s, t) : Joined(s, t)[Len(s) + j] = t[Overlap(s, t) + j]
           /\ Overlap(s, t) > 0 => Len(s) > 0 /\ s[Len(s)] = t[Overlap(s, t)]
<1> DEFINE n == Len(s)
           m == Len(t)
           k == Overlap(s, t)
           rest == SubSeq(t, k + 1, m)
<1>1. n \in Nat /\ m \in Nat /\ k \in 0..m /\ k <= n /\ Joins(s, t, k)
  BY LenProperties, OverlapJoins
<1>2. rest \in Seq(S) /\ Len(rest) = m - k /\ \A i \in 1..m - k : rest[i] = t[k + i]
  <2>1. m <= Len(t) /\ k \in Nat /\ k <= m
    BY <1>1
  <2> HIDE DEF m, k
  <2> QED
    BY <1>1, <2>1, Slice
<1>3. /\ s \o rest \in Seq(S) /\ Len(s \o rest) = n + Len(rest)
      /\ \A i \in 1..n + Len(rest) : (s \o rest)[i] = IF i <= n THEN s[i] ELSE rest[i - n]
  <2>1. rest \in Seq(S)
    BY <1>2
  <2> HIDE DEF rest
  <2> QED
    BY <2>1, ConcatProperties
<1>4. k > 0 => n > 0 /\ s[n] = t[k]
  <2>1. SUFFICES ASSUME k > 0 PROVE s[n] = t[k]
    BY <1>1
  <2>2. SubSeq(s, n - k + 1, n) = SubSeq(t, 1, k)
    BY <1>1 DEF Joins
  <2>3. n - k \in Nat /\ n - k <= n /\ n <= Len(s) /\ n - (n - k) = k /\ k \in 1..k
    BY <1>1, <2>1
  <2>4. SubSeq(s, n - k + 1, n)[k] = s[(n - k) + k]
    <3> DEFINE low == n - k
    <3>1. low \in Nat /\ low <= n /\ n \in Nat /\ n <= Len(s) /\ n - low = k
      BY <1>1, <2>3
    <3> HIDE DEF low, n, k
    <3>2. \A i \in 1..n - low : SubSeq(s, low + 1, n)[i] = s[low + i]
      BY <3>1, Slice
    <3>3. SubSeq(s, low + 1, n)[k] = s[low + k]
      BY <2>3, <3>1, <3>2
    <3> QED
      BY <3>3 DEF low
  <2>5. SubSeq(t, 1, k)[k] = t[k]
    <3> HIDE DEF k
    <3>1. k \in Nat /\ 0 \in Nat /\ 0 <= k /\ k <= Len(t) /\ k - 0 = k
      BY <1>1
    <3>2. \A i \in 1..k - 0 : SubSeq(t, 0 + 1, k)[i] = t[0 + i]
      BY <3>1, Slice
    <3> QED
      BY <1>1, <2>3, <3>1, <3>2
  <2>6. (n - k) + k = n
    BY <1>1
  <2> QED
    BY <2>2, <2>4, <2>5, <2>6
<1> HIDE DEF n, m, k, rest
<1>5. \A i \in 1..n : (s \o rest)[i] = s[i]
  BY <1>1, <1>2, <1>3
<1>6. \A j \in 1..m - k : (s \o rest)[n + j] = t[k + j]
  <2>1. ASSUME NEW j \in 1..m - k PROVE (s \o rest)[n + j] = t[k + j]
    <3>1. n + j \in 1..n + Len(rest) /\ ~(n + j <= n) /\ (n + j) - n = j
      BY <1>1, <1>2
    <3>2. (s \o rest)[n + j] = rest[(n + j) - n]
      BY <1>3, <3>1
    <3>3. rest[j] = t[k + j]
      BY <1>2
    <3> QED
      BY <3>1, <3>2, <3>3
  <2> QED
    BY <2>1
<1>7. Len(s \o rest) = n + (m - k)
  BY <1>2, <1>3
<1>8. Joined(s, t) = s \o rest
  BY DEF Joined, n, m, k, rest
<1> QED
  BY <1>1, <1>3, <1>4, <1>5, <1>6, <1>7, <1>8 DEF n, m, k

-----------------------------------------------------------------------------
(* What the dump may find in a row. *)
LEMMA ShowsText ==
    ASSUME TypeInv, ConsoleInv, NEW row \in 1..PanelRows
    PROVE  /\ Shows(row) \subseteq Text \cup {Blank}
           /\ drawing = "no" => Shows(row) = IF wiped + row <= printed THEN {bound.log[wiped + row]}
                                             ELSE {Blank}
<1> DEFINE n == wiped + row
<1>1. bound.log \in Seq(Text) /\ Len(bound.log) \in Nat
  <2>1. bound.log \in Seq(Text)
    BY DEF TypeInv, Bounds
  <2> QED
    BY <2>1, LenProperties
<1>2. n \in Nat \ {0} /\ printed \in Nat /\ printed <= Len(bound.log)
      /\ (drawing = "row" => printed + 1 <= Len(bound.log))
  BY <1>1, QemuAssumption DEF ConsoleInv
<1>3. n <= printed \/ (n = printed + 1 /\ drawing = "row") =>
        bound.log[n] \in Text /\ Begun[bound.log[n]] \subseteq Text
  <2>1. SUFFICES ASSUME n <= printed \/ (n = printed + 1 /\ drawing = "row")
                 PROVE  bound.log[n] \in Text /\ Begun[bound.log[n]] \subseteq Text
    OBVIOUS
  <2>2. n \in 1..Len(bound.log)
    BY <1>1, <1>2, <2>1
  <2>3. bound.log[n] \in Text
    BY <1>1, <2>2, ElementOfSeq
  <2> QED
    BY <2>3, QemuAssumption
<1> HIDE DEF n
<1>4. Shows(row) = CASE n <= printed /\ drawing # "wipe" -> {bound.log[n]}
                     [] n <= printed /\ drawing = "wipe" -> {bound.log[n], Blank} \cup Begun[bound.log[n]]
                     [] n = printed + 1 /\ drawing = "row" ->
                                                         {bound.log[n], Blank} \cup Begun[bound.log[n]]
                     [] OTHER -> {Blank}
  BY DEF Shows, n
<1>5. CASE n <= printed /\ drawing # "wipe"
  <2>1. Shows(row) = {bound.log[n]}
    BY <1>2, <1>4, <1>5
  <2> QED
    BY <1>3, <1>5, <2>1 DEF n
<1>6. CASE n <= printed /\ drawing = "wipe"
  <2>1. Shows(row) = {bound.log[n], Blank} \cup Begun[bound.log[n]]
    BY <1>2, <1>4, <1>6
  <2> QED
    BY <1>3, <1>6, <2>1
<1>7. CASE n = printed + 1 /\ drawing = "row"
  <2>1. Shows(row) = {bound.log[n], Blank} \cup Begun[bound.log[n]]
    BY <1>2, <1>4, <1>7
  <2> QED
    BY <1>3, <1>7, <2>1
<1>8. CASE ~(n <= printed) /\ ~(n = printed + 1 /\ drawing = "row")
  <2>1. Shows(row) = {Blank}
    BY <1>2, <1>4, <1>8
  <2> QED
    BY <1>8, <2>1 DEF n
<1> QED
  BY <1>5, <1>6, <1>7, <1>8

(* A step that leaves the dump and the panel alone. *)
LEMMA DumpFrame ==
    ASSUME DumpInv, UNCHANGED <<bound, printed, wiped, drawing, scanned, still>>,
           file'["screen"] = file["screen"], dump'["screen"] = dump["screen"]
    PROVE  DumpInv'
<1>1. Standing' = Standing
  BY DEF Standing
<1>2. \A f : Undisturbed(f)' <=> Undisturbed(f)
  BY DEF Undisturbed
<1>3. Undisturbed("short")' => drawing' = "no" /\ Holds(dump'["screen"], bound'.log, wiped', Standing')
  BY <1>1, <1>2 DEF DumpInv
<1>4. Undisturbed("full")' =>
        \E n, w \in 0..printed' : w + n <= printed' /\ Holds(dump'["screen"], bound'.log, w, n)
  BY <1>2 DEF DumpInv
<1>5. dump'["screen"] \in Seq(Text) /\ scanned' \in 0..PanelRows /\ still' \in BOOLEAN
  BY DEF DumpInv
<1> QED
  BY <1>3, <1>4, <1>5 DEF DumpInv, Holds

(* A row more of a panel that stands still. *)
LEMMA ScannedRow ==
    ASSUME NEW log \in Seq(Text), NEW screen \in Seq(Text), NEW n \in Nat, NEW w \in Nat,
           w + (n + 1) <= Len(log), Holds(screen, log, w, n)
    PROVE  /\ log[w + (n + 1)] \in Text
           /\ Holds(Append(screen, log[w + (n + 1)]), log, w, n + 1)
<1> DEFINE t == log[w + (n + 1)]
           longer == Append(screen, t)
<1>1. Len(log) \in Nat /\ Len(screen) \in Nat /\ DOMAIN screen = 1..Len(screen)
  BY LenProperties
<1>2. t \in Text
  <2>1. w + (n + 1) \in 1..Len(log)
    BY <1>1
  <2> QED
    BY <2>1, ElementOfSeq
<1> HIDE DEF t
<1>3. screen = [i \in 1..n |-> log[w + i]]
  BY DEF Holds
<1>4. Len(screen) = n
  <2>1. 1..Len(screen) = 1..n
    BY <1>1, <1>3
  <2>2. Len(screen) \in Nat /\ n \in Nat
    BY <1>1
  <2> QED
    BY <2>1, <2>2
<1>5. /\ longer \in Seq(Text) /\ Len(longer) = n + 1
      /\ \A i \in 1..n : longer[i] = screen[i]
      /\ longer[n + 1] = t
  BY <1>2, <1>4, AppendProperties
<1> HIDE DEF longer
<1>6. longer \in [1..n + 1 -> Text]
  BY <1>5, LenProperties
<1>7. \A i \in 1..n + 1 : longer[i] = log[w + i]
  <2>1. \A i \in 1..n + 1 : i \in 1..n \/ i = n + 1
    OBVIOUS
  <2>2. \A i \in 1..n : longer[i] = log[w + i]
    BY <1>3, <1>5
  <2>3. longer[n + 1] = log[w + (n + 1)]
    BY <1>5 DEF t
  <2> QED
    BY <2>1, <2>2, <2>3
<1>8. longer = [i \in 1..n + 1 |-> log[w + i]]
  BY <1>6, <1>7
<1> QED
  BY <1>2, <1>8 DEF t, longer, Holds

LEMMA DumpStep ==
    ASSUME TypeInv, ConsoleInv, DumpInv, [Next]_vars PROVE DumpInv'
<1>1. /\ printed \in Nat /\ wiped \in 0..printed /\ PanelRows \in Nat \ {0}
      /\ printed - wiped <= PanelRows /\ printed <= Len(bound.log) /\ Len(bound.log) \in Nat
      /\ "screen" \in DOMAIN dump /\ "screen" \in DOMAIN file /\ bound.log \in Seq(Text)
  <2>1. bound.log \in Seq(Text)
    BY DEF TypeInv, Bounds
  <2>2. Len(bound.log) \in Nat
    BY <2>1, LenProperties
  <2>3. "screen" \in DOMAIN dump /\ "screen" \in DOMAIN file
    BY DEF TypeInv, Files
  <2> QED
    BY <2>1, <2>2, <2>3, QemuAssumption DEF ConsoleInv
<1>2. scanned \in 0..PanelRows /\ still \in BOOLEAN /\ dump["screen"] \in Seq(Text)
  BY DEF DumpInv
<1>3. CASE Opens
  <2>1. UNCHANGED <<bound, printed, wiped, drawing>>
    BY <1>3 DEF Opens, args, console
  <2>2. CASE Head(command) = "screen"
    <3>1. file'["screen"] = "short" /\ dump'["screen"] = <<>> /\ scanned' = 0
          /\ still' \in BOOLEAN /\ (still' = TRUE => drawing = "no")
      BY <1>1, <1>3, <2>2 DEF Opens
    <3>2. Standing' = 0
      BY <1>1, <2>1, <3>1 DEF Standing
    <3>3. Holds(<<>>, bound.log, wiped, 0)
      BY DEF Holds
    <3>4. <<>> \in Seq(Text) /\ 0 \in 0..PanelRows
      BY <1>1, EmptySeq
    <3>5. dump'["screen"] \in Seq(Text) /\ scanned' \in 0..PanelRows /\ still' \in BOOLEAN
      BY <3>1, <3>4
    <3>6. Undisturbed("short")' =>
            drawing' = "no" /\ Holds(dump'["screen"], bound'.log, wiped', Standing')
      BY <2>1, <3>1, <3>2, <3>3 DEF Undisturbed
    <3>7. ~Undisturbed("full")'
      BY <3>1 DEF Undisturbed
    <3> QED
      BY <3>5, <3>6, <3>7 DEF DumpInv, Holds
  <2>3. CASE Head(command) # "screen"
    <3>1. file'["screen"] = file["screen"] /\ UNCHANGED <<dump, scanned, still>>
      BY <1>1, <1>3, <2>3 DEF Opens, scan
    <3> QED
      BY <2>1, <3>1, DumpFrame
  <2> QED
    BY <2>2, <2>3
<1>4. CASE Scans
  <2>1. /\ UNCHANGED <<bound, printed, wiped, drawing, file, still>>
        /\ file["screen"] = "short" /\ scanned < PanelRows /\ scanned' = scanned + 1
    BY <1>4 DEF Scans, args, console
  <2>2. PICK t \in Shows(scanned + 1) :
          dump' = IF t = Blank THEN dump ELSE [dump EXCEPT !["screen"] = Append(@, t)]
    BY <1>4 DEF Scans
  <2>3. scanned \in Nat /\ scanned + 1 \in 1..PanelRows /\ scanned' \in 0..PanelRows
    BY <1>1, <1>2, <2>1
  <2>4. /\ t \in Text \cup {Blank}
        /\ drawing = "no" => t = IF wiped + (scanned + 1) <= printed
                                   THEN bound.log[wiped + (scanned + 1)] ELSE Blank
    BY <2>2, <2>3, ShowsText
  <2>5. dump'["screen"] = IF t = Blank THEN dump["screen"] ELSE Append(dump["screen"], t)
    BY <1>1, <2>2
  <2>6. dump'["screen"] \in Seq(Text)
    BY <1>2, <2>4, <2>5, AppendProperties
  <2>7. ASSUME Undisturbed("short")
        PROVE  drawing = "no" /\ Holds(dump'["screen"], bound.log, wiped, Standing')
    <3>1. drawing = "no" /\ Holds(dump["screen"], bound.log, wiped, Standing)
      BY <2>7 DEF DumpInv
    <3>2. CASE scanned + 1 <= printed - wiped
      <4>1. /\ Standing = scanned /\ Standing' = scanned + 1 /\ wiped \in Nat
            /\ wiped + (scanned + 1) <= printed /\ wiped + (scanned + 1) <= Len(bound.log)
        BY <1>1, <2>1, <2>3, <3>2 DEF Standing
      <4>2. /\ bound.log[wiped + (scanned + 1)] \in Text
            /\ Holds(Append(dump["screen"], bound.log[wiped + (scanned + 1)]), bound.log, wiped,
                     scanned + 1)
        BY <1>1, <1>2, <2>3, <3>1, <4>1, ScannedRow
      <4>3. t = bound.log[wiped + (scanned + 1)] /\ t # Blank
        BY <2>4, <3>1, <4>1, <4>2, QemuAssumption
      <4> QED
        BY <2>5, <3>1, <4>1, <4>2, <4>3
    <3>3. CASE ~(scanned + 1 <= printed - wiped)
      <4>1. ~(wiped + (scanned + 1) <= printed) /\ Standing' = Standing
        BY <1>1, <2>1, <2>3, <3>3 DEF Standing
      <4>2. dump'["screen"] = dump["screen"]
        BY <2>4, <2>5, <3>1, <4>1
      <4> QED
        BY <3>1, <4>1, <4>2
    <3> QED
      BY <3>2, <3>3
  <2>8. Undisturbed("short")' =>
          drawing' = "no" /\ Holds(dump'["screen"], bound'.log, wiped', Standing')
    <3>1. Undisturbed("short")' => Undisturbed("short")
      BY <2>1 DEF Undisturbed
    <3> QED
      BY <2>1, <2>7, <3>1
  <2>9. ~Undisturbed("full")' /\ still' \in BOOLEAN
    BY <1>2, <2>1 DEF Undisturbed
  <2> QED
    BY <2>3, <2>6, <2>8, <2>9 DEF DumpInv, Holds
<1>5. CASE Saves
  <2>1. UNCHANGED <<bound, printed, wiped, drawing, scanned, still>>
    BY <1>5 DEF Saves, args, console, scan
  <2>2. CASE Head(command) # "screen"
    <3>1. file'["screen"] = file["screen"] /\ dump'["screen"] = dump["screen"]
      <4>1. CASE UNCHANGED <<file, dump>>
        BY <4>1
      <4>2. CASE /\ file' = [file EXCEPT ![Head(command)] = "full"]
                 /\ dump' = [dump EXCEPT ![Head(command)] = Snapshot(Head(command))]
        BY <1>1, <2>2, <4>2
      <4> QED
        BY <1>5, <2>2, <4>1, <4>2 DEF Saves
    <3> QED
      BY <2>1, <3>1, DumpFrame
  <2>3. CASE Head(command) = "screen"
    <3>1. UNCHANGED dump /\ file["screen"] = "short" /\ file'["screen"] = "full" /\ scanned = PanelRows
      BY <1>1, <1>5, <2>3 DEF Saves
    <3>2. Standing = printed - wiped
      BY <1>1, <3>1 DEF Standing
    <3>3. Undisturbed("full")' => Undisturbed("short")
      BY <2>1, <3>1 DEF Undisturbed
    <3>4. Undisturbed("short") => Holds(dump["screen"], bound.log, wiped, printed - wiped)
      BY <3>2 DEF DumpInv
    <3>5. printed - wiped \in 0..printed /\ wiped \in 0..printed /\ wiped + (printed - wiped) <= printed
      BY <1>1
    <3>6. Undisturbed("full")' =>
            \E n, w \in 0..printed' : w + n <= printed' /\ Holds(dump'["screen"], bound'.log, w, n)
      BY <2>1, <3>1, <3>3, <3>4, <3>5
    <3>7. ~Undisturbed("short")' /\ dump'["screen"] \in Seq(Text) /\ scanned' \in 0..PanelRows
          /\ still' \in BOOLEAN
      BY <1>2, <2>1, <3>1 DEF Undisturbed
    <3> QED
      BY <3>6, <3>7 DEF DumpInv, Holds
  <2> QED
    BY <2>2, <2>3
<1>6. CASE BeginsRow
  <2>1. /\ UNCHANGED <<bound, printed, wiped, file, dump, scanned>> /\ still' \in BOOLEAN
        /\ still' = TRUE => still = TRUE /\ file["screen"] # "short"
    BY <1>6 DEF BeginsRow, args
  <2>2. ~Undisturbed("short")' /\ (Undisturbed("full")' => Undisturbed("full"))
    BY <2>1 DEF Undisturbed
  <2>3. Undisturbed("full")' =>
          \E n, w \in 0..printed' : w + n <= printed' /\ Holds(dump'["screen"], bound'.log, w, n)
    BY <2>1, <2>2 DEF DumpInv
  <2>4. dump'["screen"] \in Seq(Text) /\ scanned' \in 0..PanelRows
    BY <1>2, <2>1
  <2> QED
    BY <2>1, <2>2, <2>3, <2>4 DEF DumpInv, Holds
<1>7. CASE EndsRow \/ Wipes
  <2>1. /\ UNCHANGED <<bound, file, dump, scanned, still>> /\ drawing # "no"
        /\ printed' \in {printed, printed + 1}
    BY <1>7 DEF EndsRow, Wipes, args, monitor, scan
  <2>2. ~Undisturbed("short") /\ \A f : Undisturbed(f)' <=> Undisturbed(f)
    BY <2>1 DEF DumpInv, Undisturbed
  <2>3. ASSUME Undisturbed("full")
        PROVE  \E n, w \in 0..printed' : w + n <= printed' /\ Holds(dump["screen"], bound.log, w, n)
    <3>1. PICK n \in 0..printed, w \in 0..printed :
            w + n <= printed /\ Holds(dump["screen"], bound.log, w, n)
      BY <2>3 DEF DumpInv
    <3>2. n \in 0..printed' /\ w \in 0..printed' /\ w + n <= printed'
      BY <1>1, <2>1, <3>1
    <3> QED
      BY <3>1, <3>2
  <2>4. Undisturbed("full")' =>
          \E n, w \in 0..printed' : w + n <= printed' /\ Holds(dump'["screen"], bound'.log, w, n)
    BY <2>1, <2>2, <2>3
  <2>5. dump'["screen"] \in Seq(Text) /\ scanned' \in 0..PanelRows /\ still' \in BOOLEAN
        /\ ~Undisturbed("short")'
    BY <1>2, <2>1, <2>2
  <2> QED
    BY <2>4, <2>5 DEF DumpInv, Holds
<1>8. CASE ~(Opens \/ Scans \/ Saves \/ BeginsRow \/ EndsRow \/ Wipes)
  <2>1. UNCHANGED <<bound, file, dump, scanned, still, printed, wiped, drawing>>
    BY <1>8
       DEF Next, Tool, Qemu, Guest, Prepares, Launches, Connects, ConnectTimesOut, Samples,
           ReadsPrompt, PromptTimesOut, JoinsScreen, PassesOver, NoDump, LoopEnds, Asks, Fetches,
           Terminates, Reports, Listens, StubStarts, WritesRegister, WritesElsewhere, Done, vars,
           args, monitor, scan, console
  <2> QED
    BY <2>1, DumpFrame
<1> QED
  BY <1>3, <1>4, <1>5, <1>6, <1>7, <1>8

LEMMA StreamStep ==
    ASSUME TypeInv, ConsoleInv, DumpInv, StreamInv, [Next]_vars PROVE StreamInv'
<1>1. /\ bound' = bound /\ bound.samples \in Nat /\ left \in Nat /\ screens \in Nat
      /\ gaps \in 0..screens /\ printed \in Nat /\ printed' \in {printed, printed + 1}
  <2>1. bound' = bound /\ printed' \in {printed, printed + 1}
    BY DEF Next, Tool, Qemu, Guest, Prepares, Launches, Connects, ConnectTimesOut, Samples,
           ReadsPrompt, PromptTimesOut, JoinsScreen, PassesOver, NoDump, LoopEnds, Asks, Fetches,
           Terminates, Reports, Listens, Opens, Scans, Saves, StubStarts, BeginsRow, EndsRow, Wipes,
           WritesRegister, WritesElsewhere, Done, vars, args, console
  <2> QED
    BY <2>1 DEF TypeInv, Bounds, StreamInv, ConsoleInv
<1>2. CASE JoinsScreen
  <2> DEFINE screen == dump["screen"]
             k == Overlap(lines, screen)
             whole == Joined(lines, screen)
  <2>1. /\ file["screen"] = "full" /\ tool = "decode" /\ tool' = "sample"
        /\ UNCHANGED <<left, printed>>
        /\ gaps' = IF screens > 0 /\ screen # <<>> /\ k = 0 THEN gaps + 1 ELSE gaps
        /\ lines' = whole
        /\ screens' = IF screen = <<>> THEN screens ELSE screens + 1
        /\ drawn' = IF still THEN drawn ELSE drawn \cup (Len(lines) + 1..Len(lines'))
    BY <1>2 DEF JoinsScreen, Joined, console
  <2>2. lines \in Seq(Text) /\ screen \in Seq(Text)
    BY DEF StreamInv, DumpInv
  <2>3. /\ whole \in Seq(Text) /\ Len(whole) = Len(lines) + (Len(screen) - k)
        /\ k \in 0..Len(screen)
        /\ \A i \in 1..Len(lines) : whole[i] = lines[i]
        /\ \A j \in 1..Len(screen) - k : whole[Len(lines) + j] = screen[k + j]
        /\ k > 0 => Len(lines) > 0 /\ lines[Len(lines)] = screen[k]
        /\ Len(lines) \in Nat /\ Len(screen) \in Nat
    <3> HIDE DEF screen
    <3>1. Len(lines) \in Nat /\ Len(screen) \in Nat
      BY <2>2, LenProperties
    <3>2. k \in 0..Len(screen) /\ (k > 0 => Len(lines) > 0 /\ lines[Len(lines)] = screen[k])
      BY <2>2, JoinedRows
    <3>3. whole \in Seq(Text) /\ Len(whole) = Len(lines) + (Len(screen) - k)
      BY <2>2, JoinedRows
    <3>4. \A i \in 1..Len(lines) : whole[i] = lines[i]
      BY <2>2, JoinedRows
    <3>5. \A j \in 1..Len(screen) - k : whole[Len(lines) + j] = screen[k + j]
      BY <2>2, JoinedRows
    <3> QED
      BY <3>1, <3>2, <3>3, <3>4, <3>5
  <2>4. (lines = <<>> <=> Len(lines) = 0) /\ (screen = <<>> <=> Len(screen) = 0)
        /\ (whole = <<>> <=> Len(whole) = 0)
    <3>1. whole \in Seq(Text)
      BY <2>3
    <3> HIDE DEF whole, screen
    <3> QED
      BY <2>2, <3>1, EmptySeq
  <2>5. still = TRUE => \E n, w \in 0..printed :
                   w + n <= printed /\ screen = [i \in 1..n |-> bound.log[w + i]]
    BY <2>1 DEF DumpInv, Holds, Undisturbed
  <2> HIDE DEF screen, k, whole
  <2>6. /\ screens' \in Nat /\ gaps' \in 0..screens'
        /\ screens' + left' + (IF tool' \in {"sampling", "decode"} THEN 1 ELSE 0) <= bound'.samples
    <3>1. screens + left + 1 <= bound.samples
      BY <2>1 DEF StreamInv
    <3> QED
      BY <1>1, <2>1, <3>1
  <2>7. lines' \in Seq(Text) /\ drawn' \subseteq 1..Len(lines') /\ Len(lines') \in Nat
    <3>1. lines' \in Seq(Text) /\ Len(lines') \in Nat /\ Len(lines) <= Len(lines')
      BY <2>1, <2>3
    <3>2. drawn \subseteq 1..Len(lines)
      BY DEF StreamInv
    <3>3. drawn' \subseteq drawn \cup (Len(lines) + 1..Len(lines'))
      BY <2>1
    <3>4. 1..Len(lines) \subseteq 1..Len(lines') /\ Len(lines) + 1..Len(lines') \subseteq 1..Len(lines')
      BY <2>3, <3>1
    <3> QED
      BY <3>1, <3>2, <3>3, <3>4
  <2>8. lines' # <<>> => screens' > 0
    <3>1. lines # <<>> => screens > 0
      BY DEF StreamInv
    <3> QED
      BY <1>1, <2>1, <2>3, <2>4, <3>1
  (* The rows that are known, and those behind them. *)
  <2>9. ASSUME gaps' = 0, NEW i \in (1..Len(lines')) \ drawn'
        PROVE  \E n \in 1..printed : /\ whole[i] = bound.log[n]
                                     /\ i > 1 => n > 1 /\ whole[i - 1] = bound.log[n - 1]
    <3>1. gaps = 0 /\ ~(screens > 0 /\ screen # <<>> /\ k = 0)
      BY <1>1, <2>1, <2>9
    <3>2. CASE i <= Len(lines)
      <4>1. i \in (1..Len(lines)) \ drawn /\ (i > 1 => i - 1 \in 1..Len(lines))
        BY <2>1, <2>3, <2>9, <3>2
      <4>2. \E n \in 1..printed : /\ lines[i] = bound.log[n]
                                  /\ i > 1 => n > 1 /\ lines[i - 1] = bound.log[n - 1]
        BY <3>1, <4>1 DEF StreamInv, StreamIsContiguous
      <4> QED
        BY <2>3, <4>1, <4>2
    <3>3. CASE ~(i <= Len(lines))
      <4>1. still = TRUE
        <5>1. i \in Len(lines) + 1..Len(lines')
          BY <2>3, <2>7, <2>9, <3>3
        <5> QED
          BY <2>1, <2>9, <5>1 DEF DumpInv
      <4>2. PICK n \in 0..printed, w \in 0..printed :
              w + n <= printed /\ screen = [x \in 1..n |-> bound.log[w + x]]
        BY <2>5, <4>1
      <4>3. Len(screen) = n /\ n \in Nat /\ w \in Nat
        <5>1. DOMAIN screen = 1..Len(screen)
          BY <2>2, LenProperties
        <5> QED
          BY <1>1, <2>3, <4>2, <5>1
      <4> DEFINE j == i - Len(lines)
                 r == k + j
      <4>4. j \in 1..Len(screen) - k /\ Len(lines) + j = i /\ r \in 1..n
        BY <2>1, <2>3, <2>9, <3>3, <4>3
      <4>5. whole[i] = screen[r] /\ screen[r] = bound.log[w + r]
        BY <2>3, <4>2, <4>4
      <4>6. w + r \in 1..printed
        BY <1>1, <4>2, <4>3, <4>4
      <4>7. ASSUME i > 1 PROVE r > 1 /\ whole[i - 1] = screen[r - 1]
        <5>1. CASE j > 1
          <6>1. j - 1 \in 1..Len(screen) - k /\ Len(lines) + (j - 1) = i - 1 /\ k + (j - 1) = r - 1
                /\ r > 1
            BY <2>3, <4>4, <5>1
          <6> QED
            BY <2>3, <6>1
        <5>2. CASE ~(j > 1)
          <6>1. j = 1 /\ i - 1 = Len(lines) /\ Len(lines) > 0 /\ r - 1 = k
            <7>1. j \in Int /\ 1 <= j /\ k \in Int /\ i \in Int /\ Len(lines) \in Nat /\ i > 1
              BY <2>3, <2>7, <4>4, <4>7
            <7>2. j = 1
              BY <5>2, <7>1
            <7> HIDE DEF j
            <7>3. i = Len(lines) + 1 /\ r = k + 1
              BY <4>4, <7>2
            <7> QED
              BY <7>1, <7>2, <7>3
          <6>2. screens > 0
            BY <2>4, <6>1 DEF StreamInv
          <6>3. screen # <<>>
            BY <2>4, <4>3, <4>4
          <6>4. k > 0 /\ k # 0
            BY <2>3, <3>1, <6>2, <6>3
          <6>5. i - 1 \in 1..Len(lines)
            BY <2>3, <6>1
          <6>6. whole[i - 1] = lines[Len(lines)] /\ lines[Len(lines)] = screen[k]
            BY <2>3, <6>1, <6>4, <6>5
          <6> QED
            BY <2>3, <6>1, <6>4, <6>6
        <5> QED
          BY <5>1, <5>2
      <4>8. r > 1 => /\ r - 1 \in 1..n /\ w + (r - 1) = (w + r) - 1 /\ w + r > 1
                     /\ screen[r - 1] = bound.log[w + (r - 1)]
        BY <4>2, <4>3, <4>4
      <4> HIDE DEF r, j
      <4> QED
        BY <4>5, <4>6, <4>7, <4>8
    <3> QED
      BY <3>2, <3>3
  <2>10. StreamIsContiguous'
    BY <1>1, <2>1, <2>9 DEF StreamIsContiguous
  <2> QED
    BY <2>6, <2>7, <2>8, <2>10 DEF StreamInv
<1>3. CASE ~JoinsScreen
  <2>1. lines' = lines /\ screens' = screens /\ gaps' = gaps /\ drawn' = drawn
    BY <1>3
       DEF Next, Tool, Qemu, Guest, Prepares, Launches, Connects, ConnectTimesOut, Samples,
           ReadsPrompt, PromptTimesOut, PassesOver, NoDump, LoopEnds, Asks, Fetches,
           Terminates, Reports, Listens, Opens, Scans, Saves, StubStarts, BeginsRow, EndsRow, Wipes,
           WritesRegister, WritesElsewhere, Done, vars, stream
  <2>2. screens' + left' + (IF tool' \in {"sampling", "decode"} THEN 1 ELSE 0) <= bound'.samples
    <3>1. screens + left + (IF tool \in {"sampling", "decode"} THEN 1 ELSE 0) <= bound.samples
      BY DEF StreamInv
    <3>2. \/ left' = left /\ (tool' \in {"sampling", "decode"} => tool \in {"sampling", "decode"})
          \/ left' = left - 1 /\ tool = "sample" /\ tool' = "sampling"
      BY <1>3
         DEF Next, Tool, Qemu, Guest, Prepares, Dies, Launches, Connects, ConnectTimesOut, Samples,
             ReadsPrompt, PromptTimesOut, Waits, Answered, PassesOver, NoDump, LoopEnds,
             EntersFinally, Asks, Fetches, Terminates, Reports, Listens, Opens, Scans, Saves,
             StubStarts, BeginsRow, EndsRow, Wipes, WritesRegister, WritesElsewhere, Done, vars
    <3> QED
      BY <1>1, <2>1, <3>1, <3>2
  <2>3. StreamIsContiguous'
    <3>1. \A n \in 1..printed : n \in 1..printed'
      BY <1>1
    <3> QED
      BY <1>1, <2>1, <3>1 DEF StreamInv, StreamIsContiguous
  <2> QED
    BY <1>1, <2>1, <2>2, <2>3 DEF StreamInv
<1> QED
  BY <1>2, <1>3

KeptInv == IInv /\ TypeInv /\ ConsoleInv /\ LaunchInv /\ BudgetInv /\ DumpInv /\ StreamInv

LEMMA InitKept == Init => KeptInv
<1> SUFFICES ASSUME Init PROVE KeptInv
  OBVIOUS
<1>1. IInv /\ TypeInv
  BY InitInv, InitType
<1>2. bound.samples \in Nat /\ PanelRows \in Nat \ {0} /\ Len(bound.log) \in Nat
  <2>1. bound.log \in Seq(Text)
    BY <1>1 DEF TypeInv, Bounds
  <2> QED
    BY <1>1, <2>1, QemuAssumption, LenProperties DEF TypeInv, Bounds
<1>3. ConsoleInv
  BY <1>2 DEF Init, ConsoleInv
<1>4. LaunchInv
  BY DEF Init, LaunchInv, Before
<1>5. BudgetInv
  <2>1. Len(command) + prompts = 0 /\ tool = "options"
    BY EmptySeq DEF Init
  <2> QED
    BY <1>2, <2>1 DEF BudgetInv, Looping
<1>6. DumpInv
  <2>1. file["screen"] = "none" /\ dump["screen"] = <<>> /\ <<>> \in Seq(Text)
    BY EmptySeq DEF Init, Files, Nothing
  <2>2. scanned = 0 /\ still = FALSE /\ 0 \in 0..PanelRows
    BY <1>2 DEF Init
  <2>3. ~Undisturbed("short") /\ ~Undisturbed("full")
    BY <2>1 DEF Undisturbed
  <2> QED
    BY <2>1, <2>2, <2>3 DEF DumpInv
<1>7. StreamInv
  <2>1. /\ lines = <<>> /\ lines \in Seq(Text) /\ Len(lines) = 0 /\ screens = 0 /\ gaps = 0
        /\ drawn = {} /\ left = bound.samples /\ tool = "options"
    BY EmptySeq DEF Init
  <2> QED
    BY <1>2, <2>1 DEF StreamInv, StreamIsContiguous
<1> QED
  BY <1>1, <1>3, <1>4, <1>5, <1>6, <1>7 DEF KeptInv

LEMMA StepKept == ASSUME KeptInv, [Next]_vars PROVE KeptInv'
  BY StepInv, TypeStep, ConsoleStep, LaunchStep, BudgetStep, DumpStep, StreamStep DEF KeptInv

(* The types and the counters' bounds, and the stream of the console: for  *)
(* every log - whatever of it repeats - every panel, every moment of the   *)
(* dumps and every number of samples a stream that reports no gap joins    *)
(* only what was printed together, but for the lines of a dump that was    *)
(* drawn into.                                                             *)
THEOREM StreamHolds == Spec => []RunInv
<1>1. KeptInv => RunInv
  <2> SUFFICES ASSUME KeptInv PROVE RunInv
    OBVIOUS
  <2>1. DOMAIN plan \subseteq 0..L2Entries - 1
    <3>1. CASE plan = <<>>
      BY <3>1
    <3>2. CASE plan # <<>>
      <4>1. plan = Plan(Blocks(regions)) /\ regions \subseteq Region /\ WellFormed(regions)
        BY <3>2 DEF KeptInv, IInv, PlanInv
      <4> QED
        BY <4>1, BlocksAreLow DEF Plan
    <3> QED
      BY <3>1, <3>2
  <2>2. gaps \in 0..screens /\ screens \in 0..bound.samples /\ StreamIsContiguous
    <3>1. left \in Nat /\ bound.samples \in Nat
      BY DEF KeptInv, TypeInv, Bounds
    <3>2. screens \in Nat /\ screens + left + (IF tool \in {"sampling", "decode"} THEN 1 ELSE 0)
                                 <= bound.samples
      BY DEF KeptInv, StreamInv
    <3>3. screens <= bound.samples
      BY <3>1, <3>2
    <3> QED
      BY <3>1, <3>2, <3>3 DEF KeptInv, StreamInv
  <2>3. ram \in [Pool -> {"zero", "pointer", "struct", "mailbox", "record", "driver"}]
    BY DEF KeptInv, TypeInv, Words
  <2>4. /\ tool \in {"options", "launch", "connect", "greeted", "sample", "sampling", "decode",
                     "finally", "asking", "fetch", "report", "done"}
        /\ seed \in BOOLEAN /\ aop \in BOOLEAN /\ socket \in BOOLEAN
        /\ qemu \in {"none", "running", "failed", "terminated"}
        /\ exit \in {"none", "died", "crashed", "one", "zero"}
        /\ walk \in {"none", "good", "bad"} /\ seedOk \in {"none", "good", "bad"}
        /\ aopOk \in {"none", "good", "bad"}
    BY DEF KeptInv, TypeInv, Before, Looping, Reading
  <2>5. Len(command) + prompts <= bound.samples + 9
    BY DEF KeptInv, BudgetInv
  <2>6. /\ printed \in 0..Len(bound.log) /\ wiped \in 0..printed
        /\ printed - wiped <= PanelRows /\ drawing \in {"no", "row", "wipe"}
        /\ printed - wiped = PanelRows <=> drawing = "wipe"
        /\ scanned \in 0..PanelRows /\ still \in BOOLEAN /\ drawn \subseteq 1..Len(lines)
    BY DEF KeptInv, ConsoleInv, DumpInv, StreamInv
  <2>7. TypeOK
    BY <2>1, <2>2, <2>3, <2>4, <2>5, <2>6 DEF TypeOK
  <2> QED
    BY <2>2, <2>7 DEF RunInv
<1> QED
  BY <1>1, InitKept, StepKept, PTL DEF Spec

-----------------------------------------------------------------------------
(* What was read is what is there, or what is there was overwritten since. *)
Fresh(f, v) ==
    CASE f = "tables" -> v = table \/ touched.table
      [] f = "record" -> v.written =>
            /\ guest = "payload"
            /\ v = [written |-> TRUE, page |-> SmemAt,
                    pointer |-> NextWord(SmemWord), struct |-> NextWord(SmemAt)]
      [] f = "body"   -> v = ram[NextWord(SmemAt)] \/ NextWord(SmemAt) \in touched.ram
      [] f = "flag"   -> v = smem.flag \/ touched.smem
      [] f = "rung"   -> v = smem.rung \/ touched.smem
      [] f = "aop"    -> /\ v = <<v[1], v[2]>>
                         /\ v[1] = ram[AopAt] \/ AopAt \in touched.ram
                         /\ v[2] = ram[NextWord(AopAt)] \/ NextWord(AopAt) \in touched.ram
      [] OTHER        -> TRUE

RecordTaken == "record" \in have /\ got["record"].written
Asked(f)    == f \in have \/ file[f] # "none" \/ \E i \in 1..Len(command) : command[i] = f

(* Nothing is read before the loop has ended, nothing twice, and nothing   *)
(* of what the stub seeds before its record was found.                     *)
AskInv ==
    /\ tool \in Before \cup Looping =>
         have = {} /\ ask = {} /\ exit = "none" /\ \A f \in Reads : ~Asked(f)
    /\ ask \cap have = {}
    /\ \A f \in ask : (f \in SeedReads => seed) /\ (f = "aop" => aop)
    /\ ask \cap Late # {} => "record" \in ask \/ RecordTaken
    /\ \A f \in Late : Asked(f) => RecordTaken /\ seed /\ (f = "aop" => aop)

FreshInv ==
    /\ \A f \in Reads : file[f] = "full" => Fresh(f, dump[f])
    /\ \A f \in have : Fresh(f, got[f]) \/ (f \in {"rung", "aop"} /\ got[f] = ShortRead[f])

(* Until the guest writes, memory is what the stub made of it. *)
CleanInv ==
    /\ qemu = "none" => guest = "none"
    /\ qemu # "none" /\ plan # <<>> => DOMAIN table = 0..L2Entries - 1
    /\ writes = 0 =>
         /\ qemu # "none" /\ plan # <<>> => table = L2(plan)
         /\ touched = [table |-> FALSE, ram |-> {}, smem |-> FALSE]
         /\ guest = "payload" /\ seed =>
              /\ ram[NextWord(SmemAt)] = "struct" /\ smem = [flag |-> "seed", rung |-> "seed"]
              /\ aop => ram[AopAt] = "mailbox" /\ ram[NextWord(AopAt)] = "record"

(* A report is made of a machine that has stopped. *)
ReportInv ==
    /\ tool = "report" => qemu = "terminated"
    /\ {walk, seedOk, aopOk} # {"none"} => tool = "done" /\ qemu = "terminated"
    /\ VerdictsMeanState /\ AlarmMeansDamage

ReadInv == AskInv /\ FreshInv /\ CleanInv /\ ReportInv


-----------------------------------------------------------------------------
(* What is in a queue that was shortened or lengthened. *)
LEMMA InTail ==
    ASSUME NEW S, NEW s \in Seq(S), s # <<>>
    PROVE  /\ Head(s) = s[1] /\ 1 \in 1..Len(s)
           /\ \A i \in 1..Len(Tail(s)) : \E j \in 1..Len(s) : s[j] = Tail(s)[i]
<1>1. Head(s) = s[1] /\ Len(s) \in Nat \ {0}
  BY EmptySeq, HeadTailProperties
<1>2. Len(Tail(s)) = Len(s) - 1 /\ \A i \in 1..Len(Tail(s)) : Tail(s)[i] = s[i + 1]
  BY HeadTailProperties
<1> DEFINE n == Len(s)
           m == Len(Tail(s))
<1>3. n \in Nat \ {0} /\ m = n - 1
  BY <1>1, <1>2
<1>4. \A i \in 1..m : i + 1 \in 1..n
  <2> HIDE DEF n, m
  <2> QED
    BY <1>3
<1> QED
  BY <1>1, <1>2, <1>4

LEMMA InAppend ==
    ASSUME NEW S, NEW s \in Seq(S), NEW e \in S
    PROVE  \A i \in 1..Len(Append(s, e)) :
              Append(s, e)[i] = e \/ \E j \in 1..Len(s) : s[j] = Append(s, e)[i]
<1>1. Len(s) \in Nat /\ Len(Append(s, e)) = Len(s) + 1
  BY LenProperties, AppendProperties
<1>2. /\ \A i \in 1..Len(s) : Append(s, e)[i] = s[i]
      /\ Append(s, e)[Len(s) + 1] = e
  BY AppendProperties
<1>3. \A i \in 1..Len(Append(s, e)) : i \in 1..Len(s) \/ i = Len(s) + 1
  BY <1>1
<1> QED
  BY <1>2, <1>3

(* What is on its way to a read is asked, taken away from or left alone. *)
LEMMA AskedStep ==
    ASSUME KeptInv, [Next]_vars, NEW f \in Reads, Asked(f)'
    PROVE  Asked(f) \/ (Asks /\ f = NextRead) \/ (Fetches /\ f = NextRead)
<1> DEFINE Queued(c, g) == \E i \in 1..Len(c) : c[i] = g
<1>1. /\ command \in Seq(Commands) /\ file \in [Files -> {"none", "short", "full"}]
      /\ f \in Files /\ f \notin {"screen", "greeting"} /\ have \subseteq Reads
  BY DEF KeptInv, TypeInv, Files, Reads
<1>2. /\ Asked(f) <=> f \in have \/ file[f] # "none" \/ Queued(command, f)
      /\ f \in have' \/ file'[f] # "none" \/ Queued(command', f)
  BY DEF Asked
<1> HIDE DEF Queued
<1>3. CASE UNCHANGED <<command, file, have>>
  BY <1>2, <1>3
<1>4. CASE Connects
  <2>1. command' = <<"greeting">> /\ UNCHANGED <<file, have>>
    BY <1>4 DEF Connects, readback
  <2>2. ~Queued(command', f)
    BY <1>1, <2>1 DEF Queued
  <2> QED
    BY <1>2, <2>1, <2>2
<1>5. ASSUME NEW e \in Commands, command' = Append(command, e), e # f, UNCHANGED <<file, have>>
      PROVE  Asked(f)
  <2>1. Queued(command', f) => Queued(command, f)
    BY <1>1, <1>5, InAppend DEF Queued
  <2> QED
    BY <1>2, <1>5, <2>1
<1>6. CASE Samples
  <2>1. command' = Append(command, "screen") /\ UNCHANGED <<file, have>> /\ "screen" \in Commands
    BY <1>6 DEF Samples, readback, Commands, Files
  <2> QED
    BY <1>1, <1>5, <2>1
<1>7. CASE Asks
  <2>1. command' = Append(command, NextRead) /\ UNCHANGED <<file, have>> /\ ask # {}
    BY <1>7 DEF Asks, readback
  <2>2. NextRead \in Commands
    BY <2>1, NextReadIs DEF KeptInv, TypeInv, Commands, Files
  <2> QED
    BY <1>5, <1>7, <2>1, <2>2
<1>8. CASE Opens \/ Saves
  <2>1. command # <<>> /\ have' = have /\ command' \in {command, Tail(command)}
    BY <1>8 DEF Opens, Scans, Saves, readback
  <2>2. Head(command) = command[1] /\ 1 \in 1..Len(command)
        /\ \A i \in 1..Len(Tail(command)) : \E j \in 1..Len(command) : command[j] = Tail(command)[i]
    BY <1>1, <2>1, InTail
  <2>3. Queued(command, Head(command)) /\ (Queued(Tail(command), f) => Queued(command, f))
    BY <2>2 DEF Queued
  <2>4. file'[f] = file[f] \/ f = Head(command)
    BY <1>1, <1>8 DEF Opens, Scans, Saves
  <2> QED
    BY <1>2, <2>1, <2>3, <2>4
<1>9. CASE Fetches
  <2>1. /\ UNCHANGED <<command, file>>
        /\ have' \subseteq have \cup {NextRead}
    BY <1>9 DEF Fetches, Takes, monitor, readback
  <2> QED
    BY <1>2, <1>9, <2>1
<1>10. ~(Connects \/ Samples \/ Asks \/ Opens \/ Saves \/ Fetches) => UNCHANGED <<command, file, have>>
  BY DEF Next, Tool, Qemu, Guest, Prepares, Launches, ConnectTimesOut,
         ReadsPrompt, PromptTimesOut, JoinsScreen, PassesOver, NoDump, LoopEnds, EntersFinally,
         Terminates, Reports, Listens, Scans, StubStarts, BeginsRow, EndsRow, Wipes, WritesRegister,
         WritesElsewhere, Done, vars, monitor, readback
<1> QED
  BY <1>3, <1>4, <1>6, <1>7, <1>8, <1>9, <1>10

(* What is left to be read shrinks, and what was read stays. *)
LEMMA FetchesTakes ==
    ASSUME KeptInv, AskInv, Fetches
    PROVE  /\ NextRead \in ask /\ NextRead \notin have
           /\ ask' \subseteq ask
           /\ tool' # "done" => NextRead \notin ask'
           /\ have' \subseteq have \cup {NextRead} /\ have \subseteq have'
           /\ \A f \in have : got'[f] = got[f]
           /\ NextRead \in have' =>
                \/ file[NextRead] = "full" /\ got'[NextRead] = dump[NextRead]
                \/ NextRead \in {"rung", "aop"} /\ got'[NextRead] = ShortRead[NextRead]
           /\ ask' \cap Late # {} => "record" \in ask' \/ NextRead # "record" \/
                                       ("record" \in have' /\ got'["record"].written)
<1>1. ask # {} /\ ask \subseteq Reads /\ have \subseteq Reads /\ DOMAIN got = Files
  BY DEF KeptInv, TypeInv, Fetches
<1>2. NextRead \in ask /\ NextRead \notin have /\ NextRead \in Files
  BY <1>1, NextReadIs DEF AskInv, Files
<1> DEFINE f == NextRead
<1>3. CASE /\ file[f] = "full" /\ ~Raises(f)
           /\ Takes(f, dump[f])
           /\ IF f = "record" /\ ~dump[f].written THEN Abandons(f) ELSE ask' = ask \ {f}
           /\ tool' = "finally" /\ UNCHANGED exit
  <2>1. got'[f] = dump[f] /\ \A g \in have : got'[g] = got[g]
    BY <1>1, <1>2, <1>3 DEF Takes
  <2>2. have' = have \cup {f}
    BY <1>3 DEF Takes
  <2>3. CASE f = "record" /\ ~dump[f].written
    <3>1. ask' = {}
      BY <1>3, <2>3 DEF Abandons, SeedReads
    <3> QED
      BY <1>2, <1>3, <2>1, <2>2, <3>1
  <2>4. CASE ~(f = "record" /\ ~dump[f].written)
    <3>1. ask' = ask \ {f}
      BY <1>3, <2>4
    <3>2. f = "record" => "record" \in have' /\ got'["record"].written
      BY <2>1, <2>2, <2>4
    <3> QED
      BY <1>2, <1>3, <2>1, <2>2, <3>1, <3>2
  <2> QED
    BY <2>3, <2>4
<1>4. CASE file[f] = "none" /\ Abandons(f) /\ tool' = "finally" /\ UNCHANGED <<have, got, exit>>
  <2>1. ask' \subseteq ask /\ f \notin ask' /\ (f = "record" => ask' = {})
    BY <1>4 DEF Abandons, SeedReads
  <2> QED
    BY <1>2, <1>4, <2>1
<1>5. CASE /\ file[f] = "short" /\ f \in DOMAIN ShortRead
           /\ ask' = ask \ {f}
           /\ IF f \in {"tables", "backing"} THEN UNCHANGED <<have, got>> ELSE Takes(f, ShortRead[f])
           /\ tool' = "finally" /\ UNCHANGED exit
  <2>1. f \in {"tables", "backing", "rung", "aop"}
    BY <1>5 DEF ShortRead
  <2>2. CASE f \in {"tables", "backing"}
    BY <1>2, <1>5, <2>2
  <2>3. CASE f \in {"rung", "aop"}
    <3>1. Takes(f, ShortRead[f])
      BY <1>5, <2>3
    <3>2. have' = have \cup {f} /\ got' = [got EXCEPT ![f] = ShortRead[f]]
      BY <3>1 DEF Takes
    <3> HIDE DEF f
    <3>3. got'[f] = ShortRead[f] /\ \A g \in have : got'[g] = got[g]
      BY <1>1, <1>2, <3>2 DEF f
    <3> QED
      BY <1>2, <1>5, <2>3, <3>2, <3>3 DEF f
  <2> QED
    BY <2>1, <2>2, <2>3
<1>6. CASE Raises(f) /\ tool' = "done" /\ UNCHANGED readback
  BY <1>2, <1>6 DEF readback
<1> QED
  BY <1>3, <1>4, <1>5, <1>6 DEF Fetches

LEMMA RecordKept ==
    ASSUME KeptInv, AskInv, [Next]_vars, RecordTaken PROVE RecordTaken'
<1>1. CASE Fetches
  BY <1>1, FetchesTakes DEF RecordTaken
<1>2. CASE ~Fetches
  <2>1. UNCHANGED <<have, got>>
    BY <1>2
       DEF Next, Tool, Qemu, Guest, Prepares, Launches, Connects, ConnectTimesOut, Samples,
           ReadsPrompt, PromptTimesOut, JoinsScreen, PassesOver, NoDump, LoopEnds, EntersFinally,
           Asks, Terminates, Reports, Listens, Opens, Scans, Saves, StubStarts, BeginsRow, EndsRow, Wipes, WritesRegister,
           WritesElsewhere, Done, vars, readback
  <2> QED
    BY <2>1 DEF RecordTaken
<1> QED
  BY <1>1, <1>2

(* A read behind the record is made only of a record that is there. *)
LEMMA LateReads ==
    ASSUME KeptInv, AskInv, ask # {}, NextRead \in Late
    PROVE  RecordTaken /\ seed /\ (NextRead = "aop" => aop)
<1>1. NextRead \in ask /\ \A g \in ask : Rank[NextRead] <= Rank[g]
  BY NextReadIs DEF KeptInv, TypeInv
<1>2. "record" \notin ask
  <2>1. Rank["record"] < Rank[NextRead]
    BY RankProps
  <2>2. Rank["record"] \in 1..8 /\ Rank[NextRead] \in 1..8
    BY <1>1, RankProps DEF Reads, KeptInv, TypeInv
  <2> QED
    BY <1>1, <2>1, <2>2
<1>3. NextRead \in SeedReads
  BY DEF Late, SeedReads
<1> QED
  BY <1>1, <1>2, <1>3 DEF AskInv

LEMMA AskStep ==
    ASSUME KeptInv, AskInv, [Next]_vars PROVE AskInv'
<1>1. CASE Prepares
  <2>1. UNCHANGED <<have, got, ask, command, file>> /\ tool = "options"
    BY <1>1 DEF Prepares, readback, monitor
  <2>2. have = {} /\ ask = {} /\ exit = "none" /\ \A f \in Reads : ~Asked(f)
    BY <2>1 DEF AskInv, Before
  <2>3. \A f \in Reads : ~Asked(f)'
    BY <2>1, <2>2 DEF Asked
  <2>4. tool' \in Before => exit' = exit
    BY <1>1 DEF Prepares, Dies, Before, verdict
  <2>5. tool' \notin Looping
    BY <1>1 DEF Prepares, Dies, Looping
  <2> QED
    BY <2>1, <2>2, <2>3, <2>4, <2>5 DEF AskInv, Late, Reads
<1>2. CASE ~Prepares
  <2>1. UNCHANGED <<seed, aop>>
    BY <1>2
       DEF Next, Tool, Qemu, Guest, Launches, Connects, ConnectTimesOut, Samples,
           ReadsPrompt, PromptTimesOut, JoinsScreen, PassesOver, NoDump, LoopEnds,
           Asks, Fetches, Terminates, Reports, Listens, Opens, Scans, Saves, StubStarts, BeginsRow, EndsRow, Wipes,
           WritesRegister, WritesElsewhere, Done, vars, derived
  (* Before the loop has ended there is nothing. *)
  <2>2. ASSUME tool' \in Before \cup Looping
        PROVE  /\ have' = {} /\ ask' = {} /\ exit' = "none"
               /\ \A f \in Reads : ~Asked(f)'
    <3>1. tool \in Before \cup Looping /\ UNCHANGED <<have, ask, exit>> /\ ~Asks /\ ~Fetches
      BY <1>2, <2>2
         DEF Next, Tool, Qemu, Guest, Launches, Connects, ConnectTimesOut, Dies, Samples,
             ReadsPrompt, PromptTimesOut, Waits, Answered, JoinsScreen, PassesOver, NoDump, LoopEnds,
             EntersFinally, Asks, Fetches, Terminates, Reports, Listens, Opens, Scans, Saves, StubStarts,
             BeginsRow, EndsRow, Wipes, WritesRegister, WritesElsewhere, Done, vars, readback, verdict, Before, Looping
    <3> QED
      BY <3>1, AskedStep DEF AskInv
  <2>3. CASE NoDump \/ LoopEnds
    <3>1. /\ UNCHANGED have /\ have = {}
          /\ ask' = {f \in Reads : /\ opts.stub /\ opts.zero
                                   /\ f \in SeedReads => seed
                                   /\ f = "aop" => aop}
          /\ ~Asks /\ ~Fetches
          /\ \A f \in Reads : ~Asked(f)
      BY <2>3 DEF NoDump, LoopEnds, EntersFinally, Asks, Fetches, AskInv, Looping
    <3>2. \A f \in Reads : ~Asked(f)'
      BY <3>1, AskedStep
    <3>3. ask' \cap Late # {} => "record" \in ask'
      BY <3>1 DEF Late, Reads, SeedReads
    <3> QED
      BY <2>1, <2>2, <3>1, <3>2, <3>3 DEF AskInv, Late, Reads
  <2>4. CASE ~(NoDump \/ LoopEnds)
    <3>1. Fetches => ask' \subseteq ask /\ ask' \cap have' = {}
      <4>1. CASE Fetches
        <5>1. CASE tool' = "done"
          <6>1. UNCHANGED <<have, ask>>
            BY <4>1, <5>1 DEF Fetches, readback
          <6> QED
            BY <6>1 DEF AskInv
        <5>2. CASE tool' # "done"
          BY <4>1, <5>2, FetchesTakes DEF AskInv
        <5> QED
          BY <5>1, <5>2
      <4> QED
        BY <4>1
    <3>2. ~Fetches => UNCHANGED <<have, ask>>
      BY <1>2, <2>4
         DEF Next, Tool, Qemu, Guest, Launches, Connects, ConnectTimesOut, Samples,
             ReadsPrompt, PromptTimesOut, JoinsScreen, PassesOver,
             Asks, Terminates, Reports, Listens, Opens, Scans, Saves, StubStarts, BeginsRow, EndsRow, Wipes,
             WritesRegister, WritesElsewhere, Done, vars, readback
    <3>3. ask' \subseteq ask /\ ask' \cap have' = {}
      BY <3>1, <3>2 DEF AskInv
    <3>4. \A f \in ask' : (f \in SeedReads => seed') /\ (f = "aop" => aop')
      BY <2>1, <3>3 DEF AskInv
    <3>5. ask' \cap Late # {} => "record" \in ask' \/ RecordTaken'
      <4>1. SUFFICES ASSUME ask' \cap Late # {}, "record" \notin ask' PROVE RecordTaken'
        OBVIOUS
      <4>2. CASE RecordTaken
        BY <4>2, RecordKept
      <4>3. CASE ~RecordTaken
        <5>1. "record" \in ask
          BY <3>3, <4>1, <4>3 DEF AskInv
        <5>2. Fetches
          BY <3>2, <4>1, <5>1
        <5>3. NextRead = "record"
          <6>1. ask \cap Late # {}
            BY <3>3, <4>1
          <6>2. ask' \cap Late # {} /\ "record" \notin ask' /\ "record" \in ask
            BY <4>1, <5>1
          <6>3. ASSUME NextRead # "record" PROVE FALSE
            <7>1. NextRead \notin Late
              BY <4>3, <5>1, LateReads
            <7>2. \/ ask' = ask \ {NextRead} \/ ask' = ask \cap SeedReads \/ ask' = {} \/ ask' = ask
              BY <5>2 DEF Fetches, Abandons, readback
            <7> QED
              BY <6>2, <6>3, <7>2 DEF SeedReads
          <6> QED
            BY <6>3
        <5> QED
          BY <4>1, <5>2, <5>3, FetchesTakes DEF RecordTaken
      <4> QED
        BY <4>2, <4>3
    <3>6. \A f \in Late : Asked(f)' => RecordTaken' /\ seed' /\ (f = "aop" => aop')
      <4>1. SUFFICES ASSUME NEW f \in Late, Asked(f)' PROVE RecordTaken' /\ seed /\ (f = "aop" => aop)
        BY <2>1
      <4>2. f \in Reads
        BY DEF Late, Reads
      <4>3. Asks \/ Fetches => ask # {}
        BY DEF Asks, Fetches, KeptInv, TypeInv
      <4>4. RecordTaken /\ seed /\ (f = "aop" => aop)
        <5>1. CASE Asked(f)
          BY <4>1, <5>1 DEF AskInv
        <5>2. CASE ~Asked(f)
          BY <4>1, <4>2, <4>3, <5>2, AskedStep, LateReads
        <5> QED
          BY <5>1, <5>2
      <4> QED
        BY <4>4, RecordKept
    <3> QED
      BY <2>2, <3>3, <3>4, <3>5, <3>6 DEF AskInv
  <2> QED
    BY <2>3, <2>4
<1> QED
  BY <1>1, <1>2

-----------------------------------------------------------------------------
(* What a step has to leave alone for a value that is fresh to stay so. *)
LEMMA FreshFrame ==
    ASSUME NEW f \in Reads, NEW v, Fresh(f, v), KeptInv,
           f \in Late => seed /\ (f = "aop" => aop),
           UNCHANGED plan,
           guest = "payload" => guest' = "payload",
           table' = table \/ touched'.table,
           touched.table => touched'.table,
           f \in Late => /\ \A a \in Pool : ram'[a] = ram[a] \/ a \in touched'.ram
                         /\ touched.ram \subseteq touched'.ram
                         /\ smem' = smem \/ touched'.smem
                         /\ touched.smem => touched'.smem
    PROVE  Fresh(f, v)'
<1>1. SmemAt' = SmemAt /\ AopAt' = AopAt
  BY DEF SmemAt, AopAt
<1>2. CASE f = "tables"
  BY <1>2 DEF Fresh
<1>3. CASE f = "record"
  BY <1>1, <1>3 DEF Fresh, NextWord
<1>4. CASE f \in {"diag", "backing"}
  BY <1>4 DEF Fresh
<1>5. CASE f \in Late
  <2>1. f \in Late => NextWord(SmemAt) \in Pool /\ (f = "aop" => AopAt \in Pool /\ NextWord(AopAt) \in Pool)
    <3>1. PlanInv /\ (f \in Late => plan # <<>>)
      BY DEF KeptInv, IInv, PlanInv
    <3> QED
      BY <3>1, SeedWords, BehindIsPrivate
  <2>2. NextWord(SmemAt)' = NextWord(SmemAt) /\ NextWord(AopAt)' = NextWord(AopAt)
    BY <1>1 DEF NextWord
  <2>3. CASE f = "body"
    BY <1>5, <2>1, <2>2, <2>3 DEF Fresh
  <2>4. CASE f \in {"flag", "rung"}
    BY <1>5, <2>4 DEF Fresh
  <2>5. CASE f = "aop"
    BY <1>1, <1>5, <2>1, <2>2, <2>5 DEF Fresh
  <2> QED
    BY <1>5, <2>3, <2>4, <2>5 DEF Late
<1> QED
  BY <1>2, <1>3, <1>4, <1>5 DEF Reads, Late

(* The steps a value that was read, or dumped, stays fresh over. *)
LEMMA FreshKept ==
    ASSUME KeptInv, AskInv, FreshInv, [Next]_vars, ~Prepares, ~NoDump, ~LoopEnds,
           NEW f \in Reads, NEW v, Fresh(f, v), Asked(f)
    PROVE  Fresh(f, v)'
<1>1. f \in Late => /\ RecordTaken /\ seed /\ (f = "aop" => aop)
  BY DEF AskInv
<1>2. f \in Late => guest = "payload"
  <2>1. SUFFICES ASSUME f \in Late PROVE guest = "payload"
    OBVIOUS
  <2>2. Fresh("record", got["record"]) /\ got["record"].written
    BY <1>1, <2>1 DEF FreshInv, RecordTaken
  <2> QED
    BY <2>2 DEF Fresh
<1>3. UNCHANGED plan
  BY DEF Next, Tool, Qemu, Guest, Launches, Connects, ConnectTimesOut, Samples,
         ReadsPrompt, PromptTimesOut, JoinsScreen, PassesOver, Asks, Fetches, Terminates, Reports,
         Listens, Opens, Scans, Saves, StubStarts, BeginsRow, EndsRow, Wipes, WritesRegister, WritesElsewhere, Done, vars,
         derived
<1>4. CASE Launches
  <2>1. tool = "launch" /\ f \notin Late
    <3>1. tool = "launch"
      BY <1>4 DEF Launches
    <3> QED
      BY <3>1 DEF AskInv, Before
  <2>2. ~Asked(f)
    BY <2>1 DEF AskInv, Before
  <2> QED
    BY <2>2
<1>5. CASE StubStarts
  <2>1. f \notin Late /\ guest # "payload" /\ UNCHANGED <<table, touched>>
    BY <1>2, <1>5 DEF StubStarts
  <2> QED
    BY <1>3, <2>1, FreshFrame
<1>6. CASE WritesRegister
  <2>1. PICK a \in Declared(regions) :
          /\ Walk(table, a) \in Pool
          /\ ram' = [ram EXCEPT ![Walk(table, a)] = "driver"]
          /\ touched' = [touched EXCEPT !.ram = @ \cup {Walk(table, a)}]
    BY <1>6 DEF WritesRegister
  <2>2. UNCHANGED <<table, smem, guest>>
    BY <1>6 DEF WritesRegister, console
  <2>3. /\ touched'.table = touched.table /\ touched'.smem = touched.smem
        /\ touched'.ram = touched.ram \cup {Walk(table, a)}
    BY <2>1 DEF KeptInv, TypeInv
  <2>4. \A x \in Pool : ram'[x] = ram[x] \/ x \in touched'.ram
    BY <2>1, <2>3 DEF KeptInv, TypeInv
  <2> QED
    BY <1>1, <1>3, <2>2, <2>3, <2>4, FreshFrame
<1>7. CASE WritesElsewhere
  <2>1. UNCHANGED <<ram, guest>>
    BY <1>7 DEF WritesElsewhere, console
  <2>2. /\ touched.table => touched'.table
        /\ touched.smem => touched'.smem
        /\ touched'.ram = touched.ram
        /\ table' = table \/ touched'.table
        /\ smem' = smem \/ touched'.smem
    BY <1>7 DEF WritesElsewhere, KeptInv, TypeInv
  <2> QED
    BY <1>1, <1>3, <2>1, <2>2, FreshFrame
<1>8. CASE ~(Launches \/ StubStarts \/ WritesRegister \/ WritesElsewhere)
  <2>1. UNCHANGED <<guest, table, ram, smem, touched>>
    BY <1>8
       DEF Next, Tool, Qemu, Guest, Connects, ConnectTimesOut, Samples,
           ReadsPrompt, PromptTimesOut, JoinsScreen, PassesOver, Asks, Fetches, Terminates, Reports,
           Listens, Opens, Scans, Saves, BeginsRow, EndsRow, Wipes, Done, vars, memory, console
  <2> QED
    BY <1>1, <1>3, <2>1, FreshFrame
<1> QED
  BY <1>4, <1>5, <1>6, <1>7, <1>8

(* A dump that was just written is what is there. *)
LEMMA FreshSnapshot ==
    ASSUME NEW f \in Reads PROVE Fresh(f, Snapshot(f))
<1>1. CASE f \in {"tables", "diag", "backing"}
  BY <1>1 DEF Fresh, Snapshot
<1>2. CASE f = "record"
  BY <1>2 DEF Fresh, Snapshot
<1>3. CASE f \in {"body", "flag", "rung"}
  BY <1>3 DEF Fresh, Snapshot
<1>4. CASE f = "aop"
  BY <1>4 DEF Fresh, Snapshot
<1> QED
  BY <1>1, <1>2, <1>3, <1>4 DEF Reads

LEMMA FreshStep ==
    ASSUME KeptInv, AskInv, FreshInv, [Next]_vars PROVE FreshInv'
<1>1. CASE Prepares \/ NoDump \/ LoopEnds
  <2>1. UNCHANGED <<have, file>> /\ tool \in Before \cup Looping
    BY <1>1 DEF Prepares, NoDump, LoopEnds, EntersFinally, readback, monitor, Before, Looping
  <2>2. have = {} /\ \A f \in Reads : file[f] = "none"
    BY <2>1 DEF AskInv, Asked, KeptInv, TypeInv
  <2> QED
    BY <2>1, <2>2 DEF FreshInv
<1>2. CASE ~(Prepares \/ NoDump \/ LoopEnds)
  <2>1. ASSUME NEW f \in Reads, NEW v, v = dump[f], v = dump'[f], file[f] = "full"
        PROVE  Fresh(f, dump[f])'
    <3>1. Fresh(f, v) /\ Asked(f)
      BY <2>1 DEF FreshInv, Asked
    <3>2. Fresh(f, v)'
      BY <1>2, <3>1, FreshKept
    <3> QED
      BY <2>1, <3>2 DEF Fresh
  <2>2. ASSUME NEW f \in have, NEW v, v = got[f], v = got'[f]
        PROVE  Fresh(f, got[f])' \/ (f \in {"rung", "aop"} /\ got'[f] = ShortRead[f])
    <3>1. CASE f \in {"rung", "aop"} /\ got[f] = ShortRead[f]
      BY <2>2, <3>1
    <3>2. CASE ~(f \in {"rung", "aop"} /\ got[f] = ShortRead[f])
      <4>1. Fresh(f, v) /\ Asked(f) /\ f \in Reads
        <5>1. Fresh(f, got[f])
          BY <2>2, <3>2 DEF FreshInv
        <5>2. have \subseteq Reads
          BY DEF KeptInv, TypeInv
        <5> QED
          BY <2>2, <5>1, <5>2 DEF Asked
      <4>2. Fresh(f, v)'
        BY <1>2, <4>1, FreshKept
      <4> QED
        BY <2>2, <4>2 DEF Fresh
    <3> QED
      BY <3>1, <3>2
  <2>3. ASSUME NEW f \in Reads, file'[f] = "full" PROVE Fresh(f, dump[f])'
    <3>1. CASE file[f] = "full" /\ dump'[f] = dump[f]
      BY <2>1, <3>1
    <3>2. CASE ~(file[f] = "full" /\ dump'[f] = dump[f])
      <4>1. f \in Files /\ file \in [Files -> {"none", "short", "full"}] /\ DOMAIN dump = Files
        BY DEF Files, KeptInv, TypeInv
      <4>2. CASE Saves
        <5>1. UNCHANGED <<guest, plan, table, ram, smem, touched>>
          BY <4>2 DEF Saves, derived, memory, console
        <5>2. dump'[f] = Snapshot(f)
          BY <2>3, <3>2, <4>1, <4>2 DEF Saves, Reads
        <5>3. PICK v : v = Snapshot(f)
          OBVIOUS
        <5>4. Fresh(f, v)
          BY <5>3, FreshSnapshot
        <5>5. SmemAt' = SmemAt /\ AopAt' = AopAt /\ NextWord(SmemAt)' = NextWord(SmemAt)
              /\ NextWord(AopAt)' = NextWord(AopAt)
          BY <5>1 DEF SmemAt, AopAt, NextWord
        <5>6. dump'[f] = v
          BY <5>2, <5>3
        <5> QED
          BY <5>1, <5>4, <5>5, <5>6 DEF Fresh
      <4>3. CASE Opens
        <5>1. /\ file' = [file EXCEPT ![Head(command)] = "short"]
              /\ dump'[f] = dump[f]
          BY <4>1, <4>3 DEF Opens, Reads
        <5> QED
          BY <2>3, <3>2, <4>1, <5>1
      <4>4. CASE Scans
        <5>1. file' = file /\ dump'[f] = dump[f]
          BY <4>1, <4>4 DEF Scans, Reads
        <5> QED
          BY <2>3, <3>2, <5>1
      <4>5. CASE ~(Saves \/ Opens \/ Scans)
        <5>1. UNCHANGED <<file, dump>>
          BY <1>2, <4>5
             DEF Next, Tool, Qemu, Guest, Launches, Connects, ConnectTimesOut, Samples,
                 ReadsPrompt, PromptTimesOut, JoinsScreen, PassesOver, Asks, Fetches, Terminates,
                 Reports, Listens, StubStarts, BeginsRow, EndsRow, Wipes, WritesRegister, WritesElsewhere, Done,
                 vars, monitor
        <5> QED
          BY <2>3, <3>2, <5>1
      <4> QED
        BY <4>2, <4>3, <4>4, <4>5
    <3> QED
      BY <3>1, <3>2
  <2>4. ASSUME NEW f \in have'
        PROVE  Fresh(f, got[f])' \/ (f \in {"rung", "aop"} /\ got'[f] = ShortRead[f])
    <3>1. CASE Fetches
      <4>1. CASE f \in have
        <5>1. got'[f] = got[f]
          BY <3>1, <4>1, FetchesTakes
        <5> QED
          BY <2>2, <4>1, <5>1
      <4>2. CASE f \notin have
        <5>1. f = NextRead /\ f \in Reads
          BY <2>4, <3>1, <4>2, FetchesTakes DEF KeptInv, TypeInv
        <5>2. CASE file[f] = "full" /\ got'[f] = dump[f]
          <6>1. UNCHANGED <<file, dump>>
            BY <3>1 DEF Fetches, monitor
          <6>2. Fresh(f, dump[f])'
            BY <2>3, <5>1, <5>2, <6>1
          <6>3. got'[f] = dump'[f]
            BY <5>2, <6>1
          <6> QED
            BY <6>2, <6>3 DEF Fresh
        <5>3. CASE f \in {"rung", "aop"} /\ got'[f] = ShortRead[f]
          BY <5>3
        <5> QED
          BY <2>4, <3>1, <5>1, <5>2, <5>3, FetchesTakes
      <4> QED
        BY <4>1, <4>2
    <3>2. CASE ~Fetches
      <4>1. UNCHANGED <<have, got>>
        BY <1>2, <3>2
           DEF Next, Tool, Qemu, Guest, Launches, Connects, ConnectTimesOut, Samples,
               ReadsPrompt, PromptTimesOut, JoinsScreen, PassesOver, Asks, Terminates,
               Reports, Listens, Opens, Scans, Saves, StubStarts, BeginsRow, EndsRow, Wipes, WritesRegister,
               WritesElsewhere, Done, vars, readback
      <4> QED
        BY <2>2, <2>4, <4>1
    <3> QED
      BY <3>1, <3>2
  <2> QED
    BY <2>3, <2>4 DEF FreshInv
<1> QED
  BY <1>1, <1>2

(* Memory, and what the guest is before it runs. *)
LEMMA CleanStep ==
    ASSUME KeptInv, CleanInv, [Next]_vars PROVE CleanInv'
<1>1. CASE Prepares
  <2>1. tool = "options" /\ UNCHANGED <<qemu, guest, table, ram, smem, writes, touched>>
    BY <1>1 DEF Prepares, memory, console
  <2>2. qemu = "none" /\ guest = "none"
    BY <2>1 DEF KeptInv, IInv, ResetInv, CleanInv
  <2> QED
    BY <2>1, <2>2 DEF CleanInv
<1>2. CASE Launches
  <2>1. /\ tool = "launch" /\ UNCHANGED <<plan, seed, aop, ram, smem, writes, touched>>
        /\ guest' = IF opts.stub THEN "stub" ELSE "payload"
        /\ table' = IF opts.stub /\ opts.zero THEN L2(plan) ELSE <<>>
        /\ qemu' # "none"
    BY <1>2 DEF Launches, derived
  <2>2. plan # <<>> <=> opts.stub /\ opts.zero
    BY <2>1 DEF KeptInv, LaunchInv
  <2>3. plan # <<>> => DOMAIN table' = 0..L2Entries - 1 /\ table' = L2(plan)
    BY <2>1, <2>2 DEF L2
  <2>4. ~(guest' = "payload" /\ seed)
    BY <2>1, <2>2 DEF KeptInv, IInv, PlanInv
  <2> QED
    BY <2>1, <2>3, <2>4 DEF CleanInv
<1>3. CASE StubStarts
  <2>1. /\ UNCHANGED <<qemu, plan, seed, aop, table, writes, touched>> /\ qemu # "none"
        /\ seed => ram' = Seeded /\ smem' = [flag |-> "seed", rung |-> "seed"]
    BY <1>3 DEF StubStarts, Running, derived
  <2>2. SmemAt' = SmemAt /\ AopAt' = AopAt /\ NextWord(SmemAt)' = NextWord(SmemAt)
        /\ NextWord(AopAt)' = NextWord(AopAt)
    BY <2>1 DEF SmemAt, AopAt, NextWord
  <2>3. ASSUME seed
        PROVE  /\ Seeded[NextWord(SmemAt)] = "struct"
               /\ aop => Seeded[AopAt] = "mailbox" /\ Seeded[NextWord(AopAt)] = "record"
    <3> DEFINE p == SmemAt
               q == NextWord(SmemAt)
               x == AopAt
               y == NextWord(AopAt)
    <3>1. PlanInv /\ plan # <<>> /\ seed = TRUE
      BY <2>3 DEF KeptInv, IInv, PlanInv
    <3>2. /\ p \in Pool /\ q \in Pool /\ p # q
          /\ aop => /\ x \in Pool /\ y \in Pool /\ x # y
                    /\ x \notin {p, q} /\ y \notin {p, q}
      BY <3>1, SeedWords, BehindIsPrivate
    <3>3. Seeded = IF aop THEN [[ram EXCEPT ![p] = "pointer", ![q] = "struct"]
                                      EXCEPT ![x] = "mailbox", ![y] = "record"]
                   ELSE [ram EXCEPT ![p] = "pointer", ![q] = "struct"]
      BY DEF Seeded
    <3> HIDE DEF p, q, x, y
    <3>4. DOMAIN ram = Pool
      BY DEF KeptInv, TypeInv
    <3>5. /\ Seeded[q] = "struct"
          /\ aop => Seeded[x] = "mailbox" /\ Seeded[y] = "record"
      BY <3>2, <3>3, <3>4
    <3> QED
      BY <3>5 DEF q, x, y
  <2> QED
    BY <2>1, <2>2, <2>3 DEF CleanInv
<1>4. CASE WritesRegister \/ WritesElsewhere
  <2>1. UNCHANGED <<plan, qemu, guest>> /\ writes' = writes + 1 /\ writes' # 0
    BY <1>4 DEF WritesRegister, WritesElsewhere, derived, console, KeptInv, TypeInv
  <2>2. DOMAIN table' = DOMAIN table
    BY <1>4 DEF WritesRegister, WritesElsewhere
  <2> QED
    BY <2>1, <2>2 DEF CleanInv
<1>5. CASE ~(Prepares \/ Launches \/ StubStarts \/ WritesRegister \/ WritesElsewhere)
  <2>1. /\ UNCHANGED <<plan, seed, aop, guest, table, ram, smem, writes>>
        /\ touched' \in {touched, [table |-> FALSE, ram |-> {}, smem |-> FALSE]}
    BY <1>5
       DEF Next, Tool, Qemu, Guest, Connects, ConnectTimesOut, Samples,
           ReadsPrompt, PromptTimesOut, JoinsScreen, PassesOver, NoDump, LoopEnds, EntersFinally,
           Asks, Fetches, Terminates, Reports, Listens, Opens, Scans, Saves, BeginsRow, EndsRow, Wipes, Done,
           vars, derived, memory, console
  <2>2. qemu' = qemu \/ (qemu # "none" /\ qemu' = "terminated")
    <3>1. CASE Terminates
      BY <3>1 DEF Terminates, KeptInv, LaunchInv, Before
    <3>2. CASE ~Terminates
      BY <1>5, <3>2
         DEF Next, Tool, Qemu, Guest, Connects, ConnectTimesOut, Samples,
             ReadsPrompt, PromptTimesOut, JoinsScreen, PassesOver, NoDump, LoopEnds,
             Asks, Fetches, Reports, Listens, Opens, Scans, Saves, BeginsRow, EndsRow, Wipes, Done, vars
    <3> QED
      BY <3>1, <3>2
  <2>3. SmemAt' = SmemAt /\ AopAt' = AopAt /\ NextWord(SmemAt)' = NextWord(SmemAt)
        /\ NextWord(AopAt)' = NextWord(AopAt)
    BY <2>1 DEF SmemAt, AopAt, NextWord
  <2> QED
    BY <2>1, <2>2, <2>3 DEF CleanInv
<1> QED
  BY <1>1, <1>2, <1>3, <1>4, <1>5

-----------------------------------------------------------------------------
(* What the plan and the table say of the seeded words. *)
LEMMA SeedPlan ==
    ASSUME KeptInv, CleanInv, seed, qemu # "none"
    PROVE  /\ plan # <<>> /\ SmemWord[1] \in DOMAIN plan /\ DOMAIN plan \subseteq DOMAIN table
           /\ aop => AopWord[1] \in DOMAIN plan
<1>1. /\ plan # <<>> /\ regions \subseteq Region /\ WellFormed(regions)
      /\ plan = Plan(Blocks(regions)) /\ HasBlock(SmemWord)
      /\ aop => HasBlock(AopWord)
  BY DEF KeptInv, IInv, PlanInv, TypeInv
<1>2. DOMAIN plan = Blocks(regions)
  BY <1>1 DEF Plan
<1>3. Blocks(regions) \subseteq 0..L2Entries - 1
  BY <1>1, BlocksAreLow
<1>4. DOMAIN table = 0..L2Entries - 1
  BY <1>1 DEF CleanInv
<1> QED
  BY <1>1, <1>2, <1>3, <1>4 DEF HasBlock

(* A read-back that is called good is what the guest finds, *)
LEMMA GoodIsTrue ==
    ASSUME KeptInv, AskInv, FreshInv, CleanInv, qemu # "none", TablesRead, SeedRead,
           WalkOk, seed, ~touched.table
    PROVE  /\ SeedConsistent /\ ~touched.smem =>
                LET struct == Walk(table, NextWord(SmemWord)) IN
                /\ struct \notin touched.ram => ram[struct] = "struct"
                /\ smem = [flag |-> "seed", rung |-> "seed"]
           /\ aop /\ AopConsistent =>
                LET word == Walk(table, AopWord) IN
                {word, NextWord(word)} \cap touched.ram = {} =>
                    ram[word] = "mailbox" /\ ram[NextWord(word)] = "record"
<1>1. /\ plan # <<>> /\ SmemWord[1] \in DOMAIN plan /\ DOMAIN plan \subseteq DOMAIN table
      /\ aop => AopWord[1] \in DOMAIN plan
  BY SeedPlan
<1>2. \A b \in DOMAIN plan : table[b] = plan[b]
  <2>1. Fresh("tables", got["tables"])
    BY DEF FreshInv, TablesRead
  <2>2. got["tables"] = table
    BY <2>1 DEF Fresh
  <2> QED
    BY <2>2 DEF WalkOk
<1>3. Walk(table, NextWord(SmemWord)) = NextWord(SmemAt)
  BY <1>1, <1>2 DEF Walk, NextWord, SmemAt
<1>4. aop => Walk(table, AopWord) = AopAt
  BY <1>1, <1>2 DEF Walk, AopAt
<1>5. ASSUME SeedConsistent, ~touched.smem
      PROVE  /\ NextWord(SmemAt) \notin touched.ram => ram[NextWord(SmemAt)] = "struct"
             /\ smem = [flag |-> "seed", rung |-> "seed"]
  <2>1. got["body"] = "struct" /\ got["flag"] = "seed" /\ got["rung"] = "seed"
    BY <1>5 DEF SeedConsistent
  <2>2. "body" \in have /\ "flag" \in have /\ "rung" \in have
    BY DEF SeedRead
  <2>3. ShortRead["rung"] = "short"
    BY DEF ShortRead
  <2>4. Fresh("body", got["body"]) /\ Fresh("flag", got["flag"]) /\ Fresh("rung", got["rung"])
    BY <2>1, <2>2, <2>3 DEF FreshInv
  <2>5. smem.flag = "seed" /\ smem.rung = "seed"
    BY <1>5, <2>1, <2>4 DEF Fresh
  <2>6. smem = [flag |-> "seed", rung |-> "seed"]
    BY <2>5 DEF KeptInv, TypeInv
  <2>7. NextWord(SmemAt) \notin touched.ram => ram[NextWord(SmemAt)] = "struct"
    BY <2>1, <2>4 DEF Fresh
  <2> QED
    BY <2>6, <2>7
<1>6. ASSUME aop, AopConsistent
      PROVE  {AopAt, NextWord(AopAt)} \cap touched.ram = {} =>
                ram[AopAt] = "mailbox" /\ ram[NextWord(AopAt)] = "record"
  <2>1. "aop" \in have /\ got["aop"] = <<"mailbox", "record">>
    BY <1>6 DEF SeedRead, AopConsistent
  <2>2. ShortRead["aop"] = <<"short", "short">>
    BY DEF ShortRead
  <2>3. ShortRead["aop"] # got["aop"]
    BY <2>1, <2>2
  <2>4. Fresh("aop", got["aop"])
    BY <2>1, <2>3 DEF FreshInv
  <2>5. PICK v : v = got["aop"]
    OBVIOUS
  <2>6. Fresh("aop", v) /\ v = <<"mailbox", "record">>
    BY <2>1, <2>4, <2>5
  <2> QED
    BY <2>6 DEF Fresh
<1> QED
  BY <1>3, <1>4, <1>5, <1>6

(* ... and while the guest has written nothing a complete one is good. *)
LEMMA CleanIsGood ==
    ASSUME KeptInv, AskInv, FreshInv, CleanInv, qemu # "none", plan # <<>>, writes = 0
    PROVE  /\ TablesRead => WalkOk
           /\ seed /\ SeedRead /\ got["rung"] # "short" => SeedConsistent
           /\ seed /\ aop /\ SeedRead /\ got["aop"] # ShortRead.aop => AopConsistent
<1>1. /\ table = L2(plan) /\ ~touched.table /\ ~touched.smem /\ touched.ram = {}
      /\ guest = "payload" /\ seed =>
              /\ ram[NextWord(SmemAt)] = "struct" /\ smem = [flag |-> "seed", rung |-> "seed"]
              /\ aop => ram[AopAt] = "mailbox" /\ ram[NextWord(AopAt)] = "record"
  BY DEF CleanInv
<1>2. TablesRead => WalkOk
  <2>1. SUFFICES ASSUME TablesRead PROVE WalkOk
    OBVIOUS
  <2>2. Fresh("tables", got["tables"])
    BY <2>1 DEF FreshInv, TablesRead
  <2>3. got["tables"] = L2(plan)
    BY <1>1, <2>2 DEF Fresh
  <2>4. DOMAIN plan \subseteq 0..L2Entries - 1
    <3>1. plan = Plan(Blocks(regions)) /\ regions \subseteq Region /\ WellFormed(regions)
      BY DEF KeptInv, IInv, PlanInv
    <3> QED
      BY <3>1, BlocksAreLow DEF Plan
  <2> QED
    BY <2>3, <2>4 DEF WalkOk, L2
<1>3. ASSUME seed, SeedRead
      PROVE  /\ guest = "payload"
             /\ got["record"] = [written |-> TRUE, page |-> SmemAt,
                                 pointer |-> NextWord(SmemWord), struct |-> NextWord(SmemAt)]
  <2>1. RecordTaken
    BY <1>3 DEF SeedRead, AskInv, Asked, Late
  <2>2. Fresh("record", got["record"])
    BY <2>1 DEF FreshInv, RecordTaken
  <2> QED
    BY <2>1, <2>2 DEF Fresh, RecordTaken
<1>4. ASSUME seed, SeedRead, got["rung"] # "short" PROVE SeedConsistent
  <2>1. Fresh("body", got["body"]) /\ Fresh("flag", got["flag"]) /\ Fresh("rung", got["rung"])
    <3>1. ShortRead["rung"] = "short"
      BY DEF ShortRead
    <3> QED
      BY <1>4, <3>1 DEF FreshInv, SeedRead
  <2>2. got["body"] = "struct" /\ got["flag"] = "seed" /\ got["rung"] = "seed"
    BY <1>1, <1>3, <1>4, <2>1 DEF Fresh
  <2>3. PICK r : r = got["record"]
    OBVIOUS
  <2>4. r.pointer[1] = SmemWord[1] /\ r.struct = NextWord(r.page) /\ r.struct[1] = r.page[1]
    BY <1>3, <1>4, <2>3 DEF NextWord
  <2> QED
    BY <2>2, <2>3, <2>4 DEF SeedConsistent
<1>5. ASSUME seed, aop, SeedRead, got["aop"] # ShortRead.aop PROVE AopConsistent
  <2>1. PICK v : v = got["aop"]
    OBVIOUS
  <2>2. Fresh("aop", v)
    BY <1>5, <2>1 DEF FreshInv, SeedRead
  <2>3. v = <<v[1], v[2]>> /\ v[1] = "mailbox" /\ v[2] = "record"
    BY <1>1, <1>3, <1>5, <2>2 DEF Fresh
  <2> QED
    BY <2>1, <2>3 DEF AopConsistent
<1> QED
  BY <1>2, <1>4, <1>5

LEMMA ReportStep ==
    ASSUME KeptInv, AskInv, FreshInv, CleanInv, ReportInv, [Next]_vars PROVE ReportInv'
<1>1. CASE Reports
  <2>1. /\ tool = "report" /\ tool' = "done" /\ qemu = "terminated" /\ UNCHANGED qemu
        /\ walk' = Verdict(opts.stub /\ opts.zero, TablesRead, TablesRead /\ WalkOk)
        /\ seedOk' = Verdict(seed, TablesRead /\ SeedRead, SeedRead /\ SeedConsistent)
        /\ aopOk' = Verdict(aop, TablesRead /\ SeedRead, SeedRead /\ AopConsistent)
        /\ UNCHANGED <<got, aop, table, ram, smem, writes, touched>>
    BY <1>1 DEF Reports, ReportInv, derived, readback, memory
  <2>2. /\ walk' = "good" => opts.stub /\ opts.zero /\ TablesRead /\ WalkOk
        /\ walk' = "bad" => opts.stub /\ opts.zero /\ TablesRead /\ ~WalkOk
        /\ seedOk' = "good" => seed /\ TablesRead /\ SeedRead /\ SeedConsistent
        /\ seedOk' = "bad" => seed /\ TablesRead /\ SeedRead /\ ~SeedConsistent
        /\ aopOk' = "good" => aop /\ TablesRead /\ SeedRead /\ AopConsistent
        /\ aopOk' = "bad" => aop /\ TablesRead /\ SeedRead /\ ~AopConsistent
    BY <2>1 DEF Verdict
  (* "aop" is asked for and read behind the record of a seed alone. *)
  <2>3. aop /\ SeedRead => seed
    BY DEF SeedRead, AskInv, Asked, Late
  <2>4. plan # <<>> <=> opts.stub /\ opts.zero
    BY <2>1 DEF KeptInv, LaunchInv
  <2>5. ConsistentMeansStruct'
    <3>1. SUFFICES ASSUME seedOk' = "good", walk' = "good", ~touched.table, ~touched.smem
                   PROVE  LET struct == Walk(table, NextWord(SmemWord)) IN
                          /\ struct \notin touched.ram => ram[struct] = "struct"
                          /\ smem = [flag |-> "seed", rung |-> "seed"]
      BY <2>1 DEF ConsistentMeansStruct
    <3>2. seed /\ TablesRead /\ SeedRead /\ SeedConsistent /\ WalkOk
      BY <2>2, <3>1
    <3> QED
      BY <2>1, <3>1, <3>2, GoodIsTrue
  <2>6. AopMeansGateOpens'
    <3>1. SUFFICES ASSUME aopOk' = "good", walk' = "good", ~touched.table
                   PROVE  LET word == Walk(table, AopWord) IN
                          {word, NextWord(word)} \cap touched.ram = {} =>
                              ram[word] = "mailbox" /\ ram[NextWord(word)] = "record"
      BY <2>1 DEF AopMeansGateOpens
    <3>2. seed /\ aop /\ TablesRead /\ SeedRead /\ AopConsistent /\ WalkOk
      BY <2>2, <2>3, <3>1
    <3> QED
      BY <2>1, <3>1, <3>2, GoodIsTrue
  <2>7. AlarmMeansDamage'
    <3>1. SUFFICES ASSUME writes = 0
                   PROVE  /\ walk' # "bad"
                          /\ seedOk' = "bad" => got["rung"] = "short"
                          /\ aopOk' = "bad" => got["aop"] = ShortRead.aop
      BY <2>1 DEF AlarmMeansDamage
    <3>2. seed => plan # <<>>
      BY DEF KeptInv, IInv, PlanInv
    <3>3. qemu # "none"
      BY <2>1
    <3>4. walk' # "bad"
      BY <2>2, <2>4, <3>1, <3>3, CleanIsGood
    <3>5. seedOk' = "bad" => got["rung"] = "short"
      BY <2>2, <3>1, <3>2, <3>3, CleanIsGood
    <3>6. aopOk' = "bad" => got["aop"] = ShortRead.aop
      BY <2>2, <2>3, <3>1, <3>2, <3>3, CleanIsGood
    <3> QED
      BY <3>4, <3>5, <3>6
  <2> QED
    BY <2>1, <2>5, <2>6, <2>7 DEF ReportInv, VerdictsMeanState
<1>2. CASE ~Reports /\ {walk, seedOk, aopOk} = {"none"}
  <2>1. UNCHANGED <<walk, seedOk, aopOk>>
    BY <1>2
       DEF Next, Tool, Qemu, Guest, Prepares, Dies, Launches, Connects, ConnectTimesOut, Samples,
           ReadsPrompt, PromptTimesOut, JoinsScreen, PassesOver, NoDump, LoopEnds,
           Asks, Fetches, Terminates, Listens, Opens, Scans, Saves, StubStarts, BeginsRow, EndsRow, Wipes,
           WritesRegister, WritesElsewhere, Done, vars, verdict
  <2>2. walk' = "none" /\ seedOk' = "none" /\ aopOk' = "none"
    BY <1>2, <2>1
  <2>3. VerdictsMeanState' /\ AlarmMeansDamage'
    BY <2>2 DEF VerdictsMeanState, ConsistentMeansStruct, AopMeansGateOpens, AlarmMeansDamage
  <2>4. tool' = "report" => qemu' = "terminated"
    <3>1. CASE Terminates
      BY <3>1 DEF Terminates
    <3>2. CASE ~Terminates
      BY <1>2, <3>2
         DEF ReportInv, Next, Tool, Qemu, Guest, Prepares, Dies, Launches, Connects, ConnectTimesOut,
             Samples, ReadsPrompt, PromptTimesOut, Waits, Answered, JoinsScreen, PassesOver, NoDump,
             LoopEnds, EntersFinally, Asks, Fetches, Listens, Opens, Scans, Saves, StubStarts, BeginsRow, EndsRow, Wipes,
             WritesRegister, WritesElsewhere, Done, vars
    <3> QED
      BY <3>1, <3>2
  <2> QED
    BY <2>2, <2>3, <2>4 DEF ReportInv
(* Behind the report nothing moves. *)
<1>3. CASE ~Reports /\ {walk, seedOk, aopOk} # {"none"}
  <2>1. tool = "done" /\ qemu = "terminated"
    BY <1>3 DEF ReportInv
  <2>2. UNCHANGED vars
    BY <2>1
       DEF Next, Tool, Qemu, Guest, Prepares, Launches, Connects, ConnectTimesOut,
           Samples, ReadsPrompt, PromptTimesOut, Waits, JoinsScreen, PassesOver, NoDump,
           LoopEnds, Asks, Fetches, Terminates, Reports, Listens, Opens, Scans, Saves, StubStarts, BeginsRow, EndsRow, Wipes,
           WritesRegister, WritesElsewhere, Firmware, Running, Done
  <2>3. UNCHANGED <<tool, qemu, plan, aop, walk, seedOk, aopOk, got, table, ram, smem, writes, touched>>
    BY <2>2 DEF vars, derived, readback, verdict, memory
  <2> QED
    BY <2>3 DEF ReportInv, VerdictsMeanState, ConsistentMeansStruct, AopMeansGateOpens,
                AlarmMeansDamage
<1> QED
  BY <1>1, <1>2, <1>3

LEMMA InitRead == Init => ReadInv
<1> SUFFICES ASSUME Init PROVE ReadInv
  OBVIOUS
<1>1. \A f \in Reads : file[f] = "none" /\ ~Asked(f)
  BY EmptySeq DEF Init, Files, Asked
<1>2. AskInv
  BY <1>1 DEF Init, AskInv, Late, Reads
<1>3. FreshInv
  BY <1>1 DEF Init, FreshInv
<1>4. CleanInv
  BY DEF Init, CleanInv
<1>5. ReportInv
  BY DEF Init, ReportInv, VerdictsMeanState, ConsistentMeansStruct, AopMeansGateOpens, AlarmMeansDamage
<1> QED
  BY <1>2, <1>3, <1>4, <1>5 DEF ReadInv

LEMMA StepRead == ASSUME KeptInv, ReadInv, [Next]_vars PROVE ReadInv'
  BY AskStep, FreshStep, CleanStep, ReportStep DEF ReadInv

(* A verdict of the read-back is one about the guest, whatever it wrote    *)
(* while it was read: for every memory map, every place of the seeds and   *)
(* every order of the monitor's answers.                                   *)
THEOREM VerdictsAreSound == Spec => []VerdictsMeanState
<1>1. ReadInv => VerdictsMeanState
  BY DEF ReadInv, ReportInv
<1> QED
  BY <1>1, InitKept, StepKept, InitRead, StepRead, PTL DEF Spec

(* ... and never an alarm about a machine in which nothing was overwritten. *)
THEOREM NoFalseAlarm == Spec => []AlarmMeansDamage
<1>1. ReadInv => AlarmMeansDamage
  BY DEF ReadInv, ReportInv
<1> QED
  BY <1>1, InitKept, StepKept, InitRead, StepRead, PTL DEF Spec
=============================================================================
