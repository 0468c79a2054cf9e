------------------------ MODULE DeviceSession_proofs ------------------------
(***************************************************************************)
(* Proofs of what the session's tools say (SessionInv).                    *)
(*                                                                         *)
(* A dump read-dram.py calls good is the range that was asked for, and     *)
(* what it calls found or missing is so (DumpIsTheRange), for every block  *)
(* size, range and chunk, and every way a chunk may come back; a bus       *)
(* watch-usb.sh called stable is corrected when it goes (StableIsCorrected)*)
(* for every set of buses and any number of events; the logs are listed    *)
(* back from the boot the recovery was reached by (PulledInOrder); the     *)
(* regions of a range are its rows (RegionsAddUp); and a carved partition  *)
(* is the partition, an image cut short yields none that is not, and a     *)
(* whole one yields them all (CarvedIsWhole).                              *)
(***************************************************************************)
EXTENDS DeviceSession, SequenceTheorems, FiniteSetTheorems, WellFoundedInduction, TLAPS

-----------------------------------------------------------------------------
(* Division by a block size that is a constant. *)
LEMMA ModRange ==
    ASSUME NEW a \in Nat, NEW b \in Nat \ {0}
    PROVE  /\ a % b \in Nat /\ a % b < b /\ a % b <= a
           /\ a \div b \in Nat /\ a = b * (a \div b) + (a % b)
<1>1. a % b \in 0..(b - 1)
  OBVIOUS
<1>2. a = b * (a \div b) + (a % b) /\ a \div b \in Int
  OBVIOUS
<1>3. a \div b >= 0
  BY <1>1, <1>2
<1> QED
  BY <1>1, <1>2, <1>3

LEMMA ModUnique ==
    ASSUME NEW b \in Nat \ {0}, NEW q \in Nat, NEW r \in 0..(b - 1)
    PROVE  (b * q + r) % b = r
<1> DEFINE a == b * q + r
<1>1. a \in Nat
  OBVIOUS
<1>2. a % b \in 0..(b - 1) /\ a \div b \in Nat /\ a = b * (a \div b) + (a % b)
  BY <1>1, ModRange
<1>3. b * (q - (a \div b)) = (a % b) - r
  BY <1>1, <1>2
<1>4. q = a \div b
  BY <1>2, <1>3
<1> QED
  BY <1>2, <1>4

(* Whole blocks more or less do not change what is left of one. *)
LEMMA ModSum ==
    ASSUME NEW b \in Nat \ {0}, NEW a \in Nat, NEW c \in Nat, a % b = 0
    PROVE  (a + c) % b = c % b
<1> DEFINE q == a \div b
           p == c \div b
           r == c % b
<1>1. q \in Nat /\ a = b * q
  BY ModRange
<1>2. p \in Nat /\ r \in 0..(b - 1) /\ c = b * p + r
  BY ModRange
<1>3. a + c = b * (q + p) + r /\ q + p \in Nat
  BY <1>1, <1>2
<1>4. (b * (q + p) + r) % b = r
  <2> HIDE DEF q, p, r
  <2> QED
    BY <1>2, <1>3, ModUnique
<1> QED
  BY <1>3, <1>4

-----------------------------------------------------------------------------
(* The reader of the memory. *)

ReadTyped ==
    /\ read = [at |-> read.at, addr |-> read.addr, size |-> read.size,
               chunk |-> read.chunk, needle |-> read.needle]
    /\ read.at \in {"idle", "reading", "saving", "done"}
    /\ read.addr \in Nat \ {0} /\ read.size \in Nat /\ read.chunk \in Nat /\ read.needle \in Nat
    /\ got \in Seq(Nat) /\ error \in BOOLEAN /\ cut \in BOOLEAN

(* A dump that was accepted is whole blocks, a chunk is too, and no more   *)
(* comes back than is asked for.                                           *)
AskedInv ==
    /\ (read.at # "idle" /\ read.size > 0) => ~Refused(read)
    /\ read.chunk % BLOCK = 0
    /\ Len(got) <= read.size

(* What came back of a read that began on a block and was not cut short:   *)
(* the range, but for the last block if that one is not whole; and as long *)
(* as the last block is not reached, whole blocks.                         *)
Rest(n) == n % BLOCK
WholeBlocks(n) == n - Rest(n)
IsOfRange(g, addr, size) ==
    /\ Rest(Len(g)) = 0 \/ Len(g) >= WholeBlocks(size)
    /\ \A i \in 1..Len(g) : g[i] = addr + i - 1 \/ (g[i] = 0 /\ i > WholeBlocks(size))
BytesInv == (Rest(read.addr) = 0 /\ ~cut) => IsOfRange(got, read.addr, read.size)

(* How far it has come, and what it says of that. *)
StageInv ==
    /\ read.at = "reading" => ~error /\ checked = "none"
    /\ error => checked = "none"
    /\ (read.at = "saving" /\ ~error) => Len(got) = read.size
    /\ (read.at = "done" /\ read.size > 0 /\ read.needle = 0) =>
          exit = IF got = <<>> \/ error THEN 1 ELSE 0
    /\ (read.at = "done" /\ read.size > 0 /\ ~error) => Len(got) = read.size
    /\ (read.at = "done" /\ read.needle # 0) =>
          hits = {read.addr + i - 1 : i \in {j \in DOMAIN got : got[j] = read.needle}}
    /\ checked = "ok" => got = [i \in 1..read.size |-> read.addr + i - 1]

DramInv == ReadTyped /\ AskedInv /\ BytesInv /\ StageInv

-----------------------------------------------------------------------------
(* The watch. *)

LogTyped ==
    /\ lines \in Seq([what : {"deregistered", "root hub", "device"}, bus : BUSES])
    /\ watch = [at |-> watch.at, listed |-> watch.listed, flapping |-> watch.flapping]
    /\ up \subseteq BUSES

(* A bus of the list that is gone: its loss has been printed, is in the    *)
(* lines that are still to be read, or came before they were followed.     *)
ToBePrinted(b) == \E i \in 1..Len(lines) : lines[i] = [what |-> "deregistered", bus |-> b]
LossInv ==
    /\ watch.at = "idle" => told = {}
    /\ watch.at = "listed" => watch.listed \ up \subseteq gap /\ told = {}
    /\ watch.at = "following" =>
          \A b \in watch.listed \ up : b \in warned \cup gap \/ ToBePrinted(b)

(* Only a bus of the list is called stable. *)
ToldInv == \A v \in told : v.verdict = "stable" => v.bus \in watch.listed

WatchInv == LogTyped /\ LossInv /\ ToldInv
-----------------------------------------------------------------------------
(* What is left of a block, and whole blocks; Rest is not expanded below. *)
LEMMA RestRange ==
    ASSUME NEW a \in Nat
    PROVE  /\ BLOCK \in Nat \ {0} /\ Rest(a) \in Nat /\ Rest(a) < BLOCK /\ Rest(a) <= a
           /\ WholeBlocks(a) \in Nat /\ WholeBlocks(a) = a - Rest(a) /\ Rest(WholeBlocks(a)) = 0
           /\ a < BLOCK => Rest(a) = a
<1>1. BLOCK \in Nat \ {0}
  BY DramAssumption
<1>2. /\ a % BLOCK \in Nat /\ a % BLOCK < BLOCK /\ a % BLOCK <= a
      /\ a \div BLOCK \in Nat /\ a = BLOCK * (a \div BLOCK) + (a % BLOCK)
  BY <1>1, ModRange
<1> DEFINE q == a \div BLOCK
           r == a % BLOCK
<1>3. q \in Nat /\ r \in Nat /\ a = BLOCK * q + r /\ Rest(a) = r
  BY <1>2 DEF Rest
<1> HIDE DEF q, r
<1>4. a - r = BLOCK * q + 0
  BY <1>1, <1>3
<1>5. (BLOCK * q + 0) % BLOCK = 0
  <2>1. 0 \in 0..(BLOCK - 1)
    BY <1>1
  <2> QED
    BY <1>1, <1>3, <2>1, ModUnique
<1>6. (a - r) % BLOCK = 0
  BY <1>4, <1>5
<1>7. ASSUME a < BLOCK PROVE Rest(a) = a
  <2>1. a \in 0..(BLOCK - 1) /\ BLOCK * 0 + a = a
    BY <1>1, <1>7
  <2>2. (BLOCK * 0 + a) % BLOCK = a
    BY <1>1, <2>1, ModUnique
  <2> QED
    BY <2>1, <2>2 DEF Rest
<1>8. WholeBlocks(a) = a - r
  BY <1>3 DEF WholeBlocks
<1>9. Rest(WholeBlocks(a)) = 0
  BY <1>6, <1>8 DEF Rest
<1>10. Rest(a) \in Nat /\ Rest(a) < BLOCK /\ Rest(a) <= a
  BY <1>2 DEF Rest
<1> QED
  BY <1>1, <1>3, <1>7, <1>8, <1>9, <1>10

LEMMA RestSum ==
    ASSUME NEW a \in Nat, NEW c \in Nat, Rest(a) = 0
    PROVE  Rest(a + c) = Rest(c)
<1>1. BLOCK \in Nat \ {0} /\ a % BLOCK = 0
  BY DramAssumption DEF Rest
<1>2. (a + c) % BLOCK = c % BLOCK
  BY <1>1, ModSum
<1> QED
  BY <1>2 DEF Rest

(* What dd gives, and what is taken of it. *)
LEMMA CutFacts ==
    ASSUME NEW s \in Seq(Nat), NEW n \in Int
    PROVE  /\ Cut(s, n) \in Seq(Nat)
           /\ Len(Cut(s, n)) = IF n >= Len(s) THEN Len(s) ELSE IF n > 0 THEN n ELSE 0
           /\ \A i \in 1..Len(Cut(s, n)) : Cut(s, n)[i] = s[i]
<1> DEFINE m == IF n < Len(s) THEN n ELSE Len(s)
<1>1. Len(s) \in Nat /\ m \in Int /\ m <= Len(s)
  BY LenProperties
<1>2. Cut(s, n) = SubSeq(s, 1, m)
  BY DEF Cut
<1>3. /\ SubSeq(s, 1, m) \in Seq(Nat) /\ Len(SubSeq(s, 1, m)) = IF 1 <= m THEN m ELSE 0
      /\ \A i \in 1..m : SubSeq(s, 1, m)[i] = s[i]
  <2>1. 1 \in 1..(Len(s) + 1) /\ m \in Int
    BY <1>1
  <2> QED
    BY <1>1, SubSeqProperties
<1> QED
  BY <1>1, <1>2, <1>3

Behind(s, t) == s \o t
LEMMA JoinFacts ==
    ASSUME NEW s \in Seq(Nat), NEW t \in Seq(Nat)
    PROVE  /\ Behind(s, t) \in Seq(Nat) /\ Len(Behind(s, t)) = Len(s) + Len(t)
           /\ \A i \in 1..Len(Behind(s, t)) : Behind(s, t)[i] = IF i <= Len(s) THEN s[i] ELSE t[i - Len(s)]
BY ConcatProperties DEF Behind

LEMMA BlocksFacts ==
    ASSUME NEW from \in Nat, NEW want \in Nat
    PROVE  /\ WholeBlocks(want) \in Nat /\ WholeBlocks(want) <= want
           /\ Blocks(from, want) \in Seq(Nat) /\ Len(Blocks(from, want)) = WholeBlocks(want)
           /\ \A i \in 1..WholeBlocks(want) : Blocks(from, want)[i] = from - Rest(from) + i - 1
<1> DEFINE w == WholeBlocks(want)
           r == Rest(from)
<1>1. w \in Nat /\ w <= want /\ r \in Nat /\ r <= from
  BY RestRange
<1>2. Blocks(from, want) = [i \in 1..w |-> from - r + i - 1]
  BY DEF Blocks, WholeBlocks, Rest
<1> HIDE DEF w, r
<1>3. \A i \in 1..w : from - r + i - 1 \in Nat
  BY <1>1
<1>4. Blocks(from, want) \in [1..w -> Nat]
  BY <1>2, <1>3
<1>5. Blocks(from, want) \in Seq(Nat) /\ Len(Blocks(from, want)) = w
  BY <1>1, <1>2, <1>4
<1>6. \A i \in 1..w : Blocks(from, want)[i] = from - r + i - 1
  BY <1>2
<1> QED
  BY <1>1, <1>5, <1>6 DEF w, r

(* What a whole chunk adds to what has come back. *)
LEMMA ChunkIsOfRange ==
    ASSUME NEW addr \in Nat \ {0}, NEW size \in Nat, NEW chunk \in Nat, NEW g \in Seq(Nat),
           NEW stats \in {<<>>, << 0 >>}, NEW want \in Nat,
           Rest(addr) = 0, Rest(chunk) = 0, Len(g) < size, IsOfRange(g, addr, size),
           want <= chunk, want <= size - Len(g), want = chunk \/ want = size - Len(g)
    PROVE  IsOfRange(g \o Cut(Blocks(addr + Len(g), want) \o stats, want), addr, size)
<1> DEFINE n == Len(g)
           from == addr + n
           data == Blocks(from, want)
           w == WholeBlocks(want)
           z == WholeBlocks(size)
           out == Behind(data, stats)
           c == Cut(out, want)
<1>1. n \in Nat /\ from \in Nat /\ n < size /\ from = addr + n
  BY LenProperties
<1>a. want \in Nat /\ want <= size - n /\ want <= chunk /\ (want = chunk \/ want = size - n)
  BY <1>1
<1>b. /\ BLOCK \in Nat \ {0} /\ Rest(size) \in Nat /\ Rest(size) < BLOCK /\ Rest(size) <= size
      /\ Rest(want) \in Nat /\ Rest(w) = 0 /\ (want < BLOCK => Rest(want) = want)
      /\ z = size - Rest(size) /\ w = want - Rest(want)
  BY RestRange
<1>2. /\ w \in Nat /\ w <= want /\ data \in Seq(Nat) /\ Len(data) = w
      /\ \A i \in 1..w : data[i] = from - Rest(from) + i - 1
  BY <1>1, BlocksFacts
<1>3. stats \in Seq(Nat) /\ Len(stats) <= 1 /\ Len(stats) \in Nat /\ \A i \in 1..Len(stats) : stats[i] = 0
  <2>1. CASE stats = <<>>
    BY <2>1, EmptySeq
  <2>2. CASE stats = << 0 >>
    BY <2>2
  <2> QED
    BY <2>1, <2>2
<1>7. /\ z \in Nat /\ z <= size /\ size - z < BLOCK
      /\ Rest(n) = 0 \/ n >= z
      /\ \A i \in 1..n : g[i] = addr + i - 1 \/ (g[i] = 0 /\ i > z)
  <2>1. z \in Nat /\ z <= size /\ size - z < BLOCK
    BY <1>b
  <2> QED
    BY <2>1 DEF IsOfRange
<1> HIDE DEF n, from, data, w, z
<1>4. /\ out \in Seq(Nat) /\ Len(out) = w + Len(stats)
      /\ \A i \in 1..Len(out) : out[i] = IF i <= w THEN data[i] ELSE stats[i - w]
  <2>1. data \in Seq(Nat) /\ stats \in Seq(Nat) /\ Len(data) = w
    BY <1>2, <1>3
  <2>2. /\ out \in Seq(Nat) /\ Len(out) = Len(data) + Len(stats)
        /\ \A i \in 1..Len(out) : out[i] = IF i <= Len(data) THEN data[i] ELSE stats[i - Len(data)]
    BY <2>1, JoinFacts
  <2> QED
    BY <2>1, <2>2
<1> HIDE DEF out
<1>c. c \in Seq(Nat) /\ Len(c) = (IF want >= Len(out) THEN Len(out) ELSE IF want > 0 THEN want ELSE 0)
      /\ \A i \in 1..Len(c) : c[i] = out[i]
  <2>1. want \in Int
    BY <1>a
  <2> QED
    BY <1>4, <2>1, CutFacts
<1> HIDE DEF c
<1>5. /\ Len(c) \in Nat /\ w <= Len(c) /\ Len(c) <= want /\ Len(c) <= w + 1
      /\ \A i \in 1..Len(c) : c[i] = IF i <= w THEN data[i] ELSE 0
  <2>1. Len(out) \in Nat /\ w <= Len(out) /\ Len(out) <= w + 1
    BY <1>2, <1>3, <1>4
  <2>2. Len(c) \in Nat /\ w <= Len(c) /\ Len(c) <= want /\ Len(c) <= Len(out)
    BY <1>2, <1>a, <1>c, <2>1
  <2>3. ASSUME NEW i \in 1..Len(c) PROVE c[i] = IF i <= w THEN data[i] ELSE 0
    <3>1. i \in 1..Len(out) /\ c[i] = out[i]
      BY <1>c, <2>1, <2>2
    <3>2. CASE i <= w
      BY <3>1, <3>2, <1>4
    <3>3. CASE ~(i <= w)
      <4>1. i - w \in 1..Len(stats)
        BY <3>1, <3>3, <1>2, <1>3, <1>4
      <4> QED
        BY <3>1, <3>3, <4>1, <1>3, <1>4
    <3> QED
      BY <3>2, <3>3
  <2>4. Len(c) <= w + 1
    BY <2>1, <2>2, <1>2
  <2> QED
    BY <2>2, <2>3, <2>4
<1>6. /\ Behind(g, c) \in Seq(Nat) /\ Len(Behind(g, c)) = n + Len(c)
      /\ \A i \in 1..Len(Behind(g, c)) : Behind(g, c)[i] = IF i <= n THEN g[i] ELSE c[i - n]
  <2>1. Len(g) = n
    BY DEF n
  <2>2. g \in Seq(Nat) /\ c \in Seq(Nat)
    BY <1>c
  <2>3. /\ Behind(g, c) \in Seq(Nat) /\ Len(Behind(g, c)) = Len(g) + Len(c)
        /\ \A i \in 1..Len(Behind(g, c)) : Behind(g, c)[i] = IF i <= Len(g) THEN g[i] ELSE c[i - Len(g)]
    BY <2>2, JoinFacts
  <2> QED
    BY <2>1, <2>3
(* A last block is only begun when all others are there. *)
<1>8. ASSUME Rest(n) = 0, Len(c) > w PROVE z = n + w
  <2>1. w # want
    BY <1>2, <1>5, <1>a, <1>8
  <2>2. want # chunk
    BY <2>1, <1>b, <1>a
  <2>3. size = n + want
    BY <1>1, <1>a, <2>2
  <2>4. Rest(n + want) = Rest(want)
    BY <1>1, <1>a, <1>8, RestSum
  <2> QED
    BY <1>1, <1>a, <1>b, <2>3, <2>4
<1>9. ASSUME Rest(n) = 0 PROVE Rest(from) = 0 /\ Rest(n + w) = 0
  <2>1. Rest(addr + n) = Rest(n) /\ Rest(n + w) = Rest(w)
    BY <1>1, <1>2, <1>9, RestSum
  <2> QED
    BY <2>1, <1>1, <1>9, <1>b
(* Of a last block that is not whole nothing comes. *)
<1>10. ASSUME n >= z PROVE w = 0
  <2>1. want < BLOCK
    <3>1. z \in Nat /\ size - z < BLOCK /\ BLOCK \in Nat
      BY <1>7, <1>b
    <3> QED
      BY <3>1, <1>1, <1>10, <1>a
  <2>2. Rest(want) = want /\ w = want - Rest(want)
    BY <2>1, <1>b
  <2> QED
    BY <2>2
<1>11. Rest(Len(Behind(g, c))) = 0 \/ Len(Behind(g, c)) >= z
  <2>0. Len(Behind(g, c)) = n + Len(c) /\ Len(c) \in Nat
    BY <1>5, <1>6
  <2>1. CASE n >= z
    BY <2>0, <2>1, <1>1, <1>7
  <2>2. CASE Rest(n) = 0 /\ Len(c) = w
    BY <2>2, <1>6, <1>9
  <2>3. CASE Rest(n) = 0 /\ Len(c) > w
    BY <2>3, <1>1, <1>2, <1>5, <1>6, <1>8
  <2> QED
    BY <2>1, <2>2, <2>3, <1>2, <1>5, <1>7
<1>12. ASSUME NEW i \in 1..Len(Behind(g, c))
       PROVE  Behind(g, c)[i] = addr + i - 1 \/ (Behind(g, c)[i] = 0 /\ i > z)
  <2>1. i \in 1..(n + Len(c)) /\ Behind(g, c)[i] = IF i <= n THEN g[i] ELSE c[i - n]
    BY <1>6
  <2>2. CASE i <= n
    <3>1. i \in 1..n
      BY <2>1, <2>2, <1>1
    <3> QED
      BY <2>1, <2>2, <3>1, <1>7
  <2> DEFINE j == i - n
  <2>6. i \in Nat /\ j \in Int /\ i = n + j
    BY <1>1, <2>1
  <2>7. CASE ~(i <= n)
    <3>1. j \in 1..Len(c) /\ Behind(g, c)[i] = c[j]
      BY <2>1, <2>7, <1>1, <1>5
    <3> HIDE DEF j
    <3>2. c[j] = IF j <= w THEN data[j] ELSE 0
      BY <3>1, <1>5
    <3>3. CASE j <= w
      <4>1. j \in 1..w /\ j \in 1..Len(c) /\ w # 0
        BY <3>1, <3>3, <1>2
      <4>2. Rest(n) = 0
        BY <4>1, <1>7, <1>10
      <4>3. Rest(from) = 0
        BY <4>2, <1>9
      <4>4. data[j] = from - 0 + j - 1
        BY <4>1, <4>3, <1>2
      <4> QED
        BY <3>1, <3>2, <3>3, <4>4, <2>6, <1>1
    <3>4. CASE ~(j <= w)
      <4>1. c[j] = 0 /\ Len(c) > w
        BY <3>1, <3>2, <3>4, <1>2, <1>5
      <4>2. z = n + w \/ n >= z
        BY <4>1, <1>7, <1>8
      <4>3. i > z
        BY <3>1, <3>4, <4>2, <2>6, <1>1, <1>2, <1>7
      <4> QED
        BY <3>1, <4>1, <4>3
    <3> QED
      BY <3>3, <3>4
  <2> QED
    BY <2>2, <2>7, <1>7
<1> QED
  BY <1>11, <1>12 DEF IsOfRange, c, z, out, data, from, n, Behind

-----------------------------------------------------------------------------
(* One lemma per step of the reader. *)
LEMMA NoReadRest == BLOCK \in Nat \ {0} /\ Rest(BLOCK) = 0 /\ Rest(0) = 0
<1>1. BLOCK \in Nat \ {0} /\ 0 \in Nat
  BY DramAssumption
<1>2. (BLOCK * 1 + 0) % BLOCK = 0 /\ (BLOCK * 0 + 0) % BLOCK = 0
  <2>1. 0 \in 0..(BLOCK - 1)
    BY <1>1
  <2> QED
    BY <1>1, <2>1, ModUnique
<1>3. BLOCK * 1 + 0 = BLOCK /\ BLOCK * 0 + 0 = 0
  BY <1>1
<1> QED
  BY <1>1, <1>2, <1>3 DEF Rest

LEMMA DramStart == Init => DramInv
<1> SUFFICES ASSUME Init PROVE DramInv
  OBVIOUS
<1>1. /\ read = NoRead /\ got = <<>> /\ error = FALSE
      /\ checked = "none" /\ hits = {} /\ exit = -1 /\ cut = FALSE
  BY DEF Init, DramInit
<1>2. BLOCK \in Nat \ {0} /\ Rest(BLOCK) = 0 /\ Rest(0) = 0 /\ Len(got) = 0 /\ got \in Seq(Nat)
  BY <1>1, NoReadRest, EmptySeq
<1>3. /\ read.at = "idle" /\ read.addr = 1 /\ read.size = 0 /\ read.chunk = BLOCK /\ read.needle = 0
  BY <1>1 DEF NoRead
<1>4. ReadTyped
  <2>1. read = [at |-> read.at, addr |-> read.addr, size |-> read.size,
                chunk |-> read.chunk, needle |-> read.needle]
    BY <1>1 DEF NoRead
  <2>2. error \in BOOLEAN /\ cut \in BOOLEAN
    BY <1>1
  <2> QED
    BY <1>2, <1>3, <2>1, <2>2 DEF ReadTyped
<1>5. AskedInv
  BY <1>2, <1>3 DEF AskedInv, Rest
<1>6. BytesInv
  BY <1>2, <1>3 DEF BytesInv, IsOfRange
<1>7. StageInv
  BY <1>1, <1>3 DEF StageInv
<1> QED
  BY <1>4, <1>5, <1>6, <1>7 DEF DramInv

LEMMA StartsReadStep == ASSUME DramInv, StartsRead PROVE DramInv'
<1>1. PICK r \in Ranges :
          /\ read' = IF Refused(r) THEN [NoRead EXCEPT !.at = "done"]
                     ELSE [at |-> "reading", addr |-> r.addr, size |-> r.size,
                           chunk |-> r.chunk - (r.chunk % BLOCK), needle |-> r.needle]
          /\ exit' = IF Refused(r) THEN 1 ELSE -1
  BY DEF StartsRead
<1>2. got' = <<>> /\ error' = FALSE /\ checked' = "none" /\ hits' = {} /\ cut' = FALSE
  BY DEF StartsRead
<1>3. /\ r.addr \in Nat \ {0} /\ r.size \in Nat /\ r.chunk \in Nat /\ r.needle \in Nat
      /\ BLOCK \in Nat \ {0} /\ Rest(BLOCK) = 0 /\ Rest(0) = 0
  BY DramAssumption, NoReadRest
<1>4. r.chunk - (r.chunk % BLOCK) \in Nat /\ Rest(r.chunk - (r.chunk % BLOCK)) = 0
  <2>1. WholeBlocks(r.chunk) \in Nat /\ Rest(WholeBlocks(r.chunk)) = 0
    BY <1>3, RestRange
  <2>2. WholeBlocks(r.chunk) = r.chunk - (r.chunk % BLOCK)
    BY DEF WholeBlocks, Rest
  <2> QED
    BY <2>1, <2>2
<1>5. Len(got') = 0 /\ got' \in Seq(Nat)
  BY <1>2, EmptySeq
<1> DEFINE chunk == r.chunk - (r.chunk % BLOCK)
<1>6. CASE Refused(r)
  <2>1. /\ read' = [at |-> read'.at, addr |-> read'.addr, size |-> read'.size,
                    chunk |-> read'.chunk, needle |-> read'.needle]
        /\ read'.at = "done" /\ read'.addr = 1 /\ read'.size = 0 /\ read'.chunk = BLOCK /\ read'.needle = 0
    BY <1>1, <1>6 DEF NoRead
  <2>2. ReadTyped'
    <3>1. error' \in BOOLEAN /\ cut' \in BOOLEAN
      BY <1>2
    <3> QED
      BY <1>3, <1>5, <2>1, <3>1 DEF ReadTyped
  <2>3. AskedInv'
    BY <1>3, <1>5, <2>1 DEF AskedInv, Rest
  <2>4. BytesInv'
    BY <1>3, <1>5, <2>1 DEF BytesInv, IsOfRange
  <2>5. StageInv'
    BY <1>2, <2>1 DEF StageInv
  <2> QED
    BY <2>2, <2>3, <2>4, <2>5 DEF DramInv
<1>7. CASE ~Refused(r)
  <2>0. read' = [at |-> "reading", addr |-> r.addr, size |-> r.size, chunk |-> chunk, needle |-> r.needle]
    BY <1>1, <1>7
  <2>n. chunk \in Nat /\ Rest(chunk) = 0
    BY <1>4
  <2> HIDE DEF chunk
  <2>1. /\ read' = [at |-> read'.at, addr |-> read'.addr, size |-> read'.size,
                    chunk |-> read'.chunk, needle |-> read'.needle]
        /\ read'.at = "reading" /\ read'.addr = r.addr /\ read'.size = r.size
        /\ read'.chunk = chunk /\ read'.needle = r.needle
    BY <2>0
  <2>2. ReadTyped'
    <3>1. error' \in BOOLEAN /\ cut' \in BOOLEAN
      BY <1>2
    <3> QED
      BY <1>3, <1>5, <2>1, <2>n, <3>1 DEF ReadTyped
  <2>3. AskedInv'
    <3>1. ~Refused(read')
      BY <1>7, <2>1 DEF Refused
    <3>2. Refused(read)' = Refused(read')
      BY DEF Refused
    <3> QED
      BY <1>3, <1>5, <2>1, <2>n, <3>1, <3>2 DEF AskedInv, Rest
  <2>4. BytesInv'
    BY <1>3, <1>5, <2>1 DEF BytesInv, IsOfRange
  <2>5. StageInv'
    BY <1>2, <2>1 DEF StageInv
  <2> QED
    BY <2>2, <2>3, <2>4, <2>5 DEF DramInv
<1> QED
  BY <1>6, <1>7

LEMMA ChecksStep == ASSUME DramInv, Checks PROVE DramInv'
<1>1. /\ read.at = "reading" /\ read.needle = 0 /\ Len(got) >= read.size
      /\ read' = [read EXCEPT !.at = "saving"]
      /\ UNCHANGED <<got, error, hits, exit, cut>>
  BY DEF Checks
<1>2. ReadTyped /\ AskedInv /\ BytesInv /\ StageInv
  BY DEF DramInv
<1>3. /\ read' = [at |-> read'.at, addr |-> read'.addr, size |-> read'.size,
                  chunk |-> read'.chunk, needle |-> read'.needle]
      /\ read'.at = "saving" /\ read'.addr = read.addr /\ read'.size = read.size
      /\ read'.chunk = read.chunk /\ read'.needle = read.needle
  BY <1>1, <1>2 DEF ReadTyped
<1>4. Len(got) \in Nat /\ Len(got) = read.size
  BY <1>1, <1>2, LenProperties DEF ReadTyped, AskedInv
<1>5. ReadTyped'
  BY <1>1, <1>2, <1>3 DEF ReadTyped
<1>6. AskedInv'
  BY <1>1, <1>2, <1>3 DEF AskedInv, Refused
<1>7. BytesInv'
  BY <1>1, <1>2, <1>3 DEF BytesInv, IsOfRange
<1>8. checked' = "ok" => got = [i \in 1..read.size |-> read.addr + i - 1]
  <2> SUFFICES ASSUME checked' = "ok" PROVE got = [i \in 1..read.size |-> read.addr + i - 1]
    OBVIOUS
  <2> DEFINE n == Len(got)
             whole == n - (n % BLOCK)
  <2>1. SubSeq(got, 1, whole) = Blocks(read.addr, whole)
    BY DEF Checks
  <2>2. CASE read.size = 0
    BY <1>2, <1>4, <2>2, EmptySeq DEF ReadTyped
  <2>3. CASE read.size > 0
    <3>1. Rest(read.addr) = 0 /\ Rest(read.size) = 0
      BY <1>1, <1>2, <2>3 DEF AskedInv, Refused, Rest
    <3>2. n - (n % BLOCK) = n /\ read.size = n
      BY <1>4, <3>1 DEF Rest
    <3>3. SubSeq(got, 1, n) = Blocks(read.addr, n)
      BY <2>1, <3>2
    <3>4. SubSeq(got, 1, n) = got
      BY <1>2, <1>4, SubSeqProperties DEF ReadTyped
    <3>5. Blocks(read.addr, n) = [i \in 1..(n - Rest(n)) |-> read.addr - Rest(read.addr) + i - 1]
      BY DEF Blocks, Rest
    <3>6. n - Rest(n) = n /\ read.addr - Rest(read.addr) = read.addr
      BY <1>2, <1>4, <3>1, <3>2 DEF ReadTyped
    <3> QED
      BY <3>2, <3>3, <3>4, <3>5, <3>6
  <2> QED
    BY <2>2, <2>3, <1>2 DEF ReadTyped
<1>9. StageInv'
  BY <1>1, <1>2, <1>3, <1>4, <1>8 DEF StageInv
<1> QED
  BY <1>5, <1>6, <1>7, <1>9 DEF DramInv

LEMMA SavesStep == ASSUME DramInv, Saves PROVE DramInv'
<1>1. /\ read.at = "saving" /\ read.needle = 0
      /\ exit' = IF got = <<>> \/ error THEN 1 ELSE 0
      /\ read' = [read EXCEPT !.at = "done"]
      /\ UNCHANGED <<got, error, checked, hits, cut>>
  BY DEF Saves
<1>2. ReadTyped /\ AskedInv /\ BytesInv /\ StageInv
  BY DEF DramInv
<1>3. /\ read' = [at |-> read'.at, addr |-> read'.addr, size |-> read'.size,
                  chunk |-> read'.chunk, needle |-> read'.needle]
      /\ read'.at = "done" /\ read'.addr = read.addr /\ read'.size = read.size
      /\ read'.chunk = read.chunk /\ read'.needle = read.needle
  BY <1>1, <1>2 DEF ReadTyped
<1>5. ReadTyped'
  BY <1>1, <1>2, <1>3 DEF ReadTyped
<1>6. AskedInv'
  BY <1>1, <1>2, <1>3 DEF AskedInv, Refused
<1>7. BytesInv'
  BY <1>1, <1>2, <1>3 DEF BytesInv, IsOfRange
<1>9. StageInv'
  BY <1>1, <1>2, <1>3 DEF StageInv
<1> QED
  BY <1>5, <1>6, <1>7, <1>9 DEF DramInv

LEMMA SearchesStep == ASSUME DramInv, Searches PROVE DramInv'
<1>1. /\ read.needle # 0 /\ (read.at = "saving" \/ (read.at = "reading" /\ Len(got) >= read.size))
      /\ hits' = {read.addr + i - 1 : i \in {j \in DOMAIN got : got[j] = read.needle}}
      /\ read' = [read EXCEPT !.at = "done"]
      /\ UNCHANGED <<got, error, checked, cut>>
  BY DEF Searches
<1>2. ReadTyped /\ AskedInv /\ BytesInv /\ StageInv
  BY DEF DramInv
<1>3. /\ read' = [at |-> read'.at, addr |-> read'.addr, size |-> read'.size,
                  chunk |-> read'.chunk, needle |-> read'.needle]
      /\ read'.at = "done" /\ read'.addr = read.addr /\ read'.size = read.size
      /\ read'.chunk = read.chunk /\ read'.needle = read.needle
  BY <1>1, <1>2 DEF ReadTyped
<1>4. Len(got) \in Nat /\ Len(got) <= read.size /\ (~error => Len(got) = read.size)
  <2>1. Len(got) \in Nat /\ Len(got) <= read.size /\ read.size \in Nat
    BY <1>2, LenProperties DEF ReadTyped, AskedInv
  <2> QED
    BY <2>1, <1>1, <1>2 DEF StageInv
<1>5. ReadTyped'
  BY <1>1, <1>2, <1>3 DEF ReadTyped
<1>6. AskedInv'
  BY <1>1, <1>2, <1>3 DEF AskedInv, Refused
<1>7. BytesInv'
  BY <1>1, <1>2, <1>3 DEF BytesInv, IsOfRange
<1>9. StageInv'
  BY <1>1, <1>2, <1>3, <1>4 DEF StageInv
<1> QED
  BY <1>5, <1>6, <1>7, <1>9 DEF DramInv
LEMMA TakesChunkStep == ASSUME DramInv, TakesChunk PROVE DramInv'
<1> DEFINE want == Want
           data == Blocks(read.addr + Len(got), want)
<1>1. read.at = "reading" /\ Len(got) < read.size /\ UNCHANGED <<checked, hits, exit>>
  BY DEF TakesChunk
<1>2. ReadTyped /\ AskedInv /\ BytesInv /\ StageInv
  BY DEF DramInv
<1>3. /\ Len(got) \in Nat /\ read.size \in Nat /\ read.addr \in Nat \ {0} /\ read.chunk \in Nat
      /\ got \in Seq(Nat) /\ cut \in BOOLEAN /\ Rest(read.chunk) = 0
      /\ ~error /\ checked = "none"
  BY <1>1, <1>2, LenProperties DEF ReadTyped, AskedInv, StageInv, Rest
<1>4. /\ want \in Nat /\ want <= read.chunk /\ want <= read.size - Len(got)
      /\ want = read.chunk \/ want = read.size - Len(got)
  BY <1>1, <1>3 DEF Want
<1>5. PICK stats \in {<<>>, << 0 >>}, n \in 0..BLOCK, failed \in BOOLEAN :
        LET out == Cut(data, Len(data) - n) \o IF n = 0 THEN stats ELSE <<>>
            ok  == ~failed /\ out # <<>>
        IN  /\ got' = IF ok THEN got \o Cut(out, Want) ELSE got
            /\ error' = ~ok /\ cut' = (cut \/ (ok /\ n > 0))
            /\ read' = [read EXCEPT !.at = IF ok THEN @ ELSE "saving"]
  BY DEF TakesChunk
<1> DEFINE out == Cut(data, Len(data) - n) \o IF n = 0 THEN stats ELSE <<>>
           ok  == ~failed /\ out # <<>>
           c == Cut(out, want)
<1>6. data \in Seq(Nat) /\ Len(data) \in Nat
  <2>1. read.addr + Len(got) \in Nat
    BY <1>3
  <2> QED
    BY <2>1, <1>4, BlocksFacts, LenProperties
<1>7. out \in Seq(Nat) /\ (n = 0 => out = data \o stats)
  <2>1. BLOCK \in Nat /\ n \in Nat
    BY DramAssumption
  <2> HIDE DEF data
  <2>2. Len(data) - n \in Int
    BY <1>6, <2>1
  <2>3. Cut(data, Len(data) - n) \in Seq(Nat)
    BY <1>6, <2>2, CutFacts
  <2>4. (IF n = 0 THEN stats ELSE <<>>) \in Seq(Nat)
    <3>1. <<>> \in Seq(Nat) /\ << 0 >> \in Seq(Nat)
      BY EmptySeq
    <3> QED
      BY <3>1
  <2>5. n = 0 => Cut(data, Len(data) - n) = data
    <3> SUFFICES ASSUME n = 0 PROVE Cut(data, Len(data)) = data
      BY <1>6
    <3>1. Cut(data, Len(data)) = SubSeq(data, 1, Len(data))
      BY <1>6 DEF Cut
    <3> QED
      BY <1>6, <3>1, SubSeqProperties
  <2> QED
    BY <2>3, <2>4, <2>5, ConcatProperties
<1>8. /\ got' = (IF ok THEN got \o c ELSE got) /\ error' = ~ok /\ cut' = (cut \/ (ok /\ n > 0))
      /\ read' = [read EXCEPT !.at = IF ok THEN @ ELSE "saving"]
  BY <1>5
<1>9. c \in Seq(Nat) /\ Len(c) \in Nat /\ Len(c) <= want
  <2> HIDE DEF out
  <2>1. c \in Seq(Nat) /\ Len(c) = IF want >= Len(out) THEN Len(out) ELSE IF want > 0 THEN want ELSE 0
    BY <1>4, <1>7, CutFacts
  <2>2. Len(out) \in Nat
    BY <1>7, LenProperties
  <2> QED
    BY <1>4, <2>1, <2>2
<1>10. got \o c \in Seq(Nat) /\ Len(got \o c) = Len(got) + Len(c)
  BY <1>3, <1>9, ConcatProperties
<1>11. (Rest(read.addr) = 0 /\ ~cut /\ n = 0) => IsOfRange(got \o c, read.addr, read.size)
  <2> SUFFICES ASSUME Rest(read.addr) = 0, ~cut, n = 0 PROVE IsOfRange(got \o c, read.addr, read.size)
    OBVIOUS
  <2>1. IsOfRange(got, read.addr, read.size)
    BY <1>2 DEF BytesInv
  <2>2. c = Cut(Blocks(read.addr + Len(got), want) \o stats, want)
    BY <1>7
  <2> HIDE DEF want, c
  <2> QED
    BY <1>1, <1>3, <1>4, <2>1, <2>2, ChunkIsOfRange
<1> HIDE DEF want, data, out, ok, c
<1>12. /\ read' = [at |-> read'.at, addr |-> read'.addr, size |-> read'.size,
                   chunk |-> read'.chunk, needle |-> read'.needle]
       /\ read'.at = (IF ok THEN "reading" ELSE "saving") /\ read'.addr = read.addr /\ read'.size = read.size
       /\ read'.chunk = read.chunk /\ read'.needle = read.needle
  BY <1>1, <1>2, <1>8 DEF ReadTyped
<1>13. got' \in Seq(Nat) /\ Len(got') \in Nat /\ Len(got') <= read.size
  BY <1>1, <1>3, <1>4, <1>8, <1>9, <1>10
<1>14. ReadTyped'
  <2>1. error' \in BOOLEAN /\ cut' \in BOOLEAN
    BY <1>8
  <2>2. read'.at \in {"reading", "saving"}
    BY <1>12
  <2>3. read.needle \in Nat
    BY <1>2 DEF ReadTyped
  <2> QED
    BY <1>3, <1>12, <1>13, <2>1, <2>2, <2>3 DEF ReadTyped
<1>15. AskedInv'
  BY <1>1, <1>2, <1>12, <1>13 DEF AskedInv, Refused
<1>16. BytesInv'
  <2>1. CASE ~ok
    BY <2>1, <1>2, <1>8, <1>12 DEF BytesInv
  <2>2. CASE ok /\ n # 0
    <3>1. n > 0
      BY <2>2, DramAssumption
    <3> QED
      BY <2>2, <3>1, <1>8 DEF BytesInv
  <2>3. CASE ok /\ n = 0
    <3>1. cut' = cut /\ got' = got \o c
      BY <2>3, <1>8, <1>3
    <3> QED
      BY <2>3, <3>1, <1>11, <1>12 DEF BytesInv
  <2> QED
    BY <2>1, <2>2, <2>3
<1>17. StageInv'
  BY <1>1, <1>3, <1>8, <1>12 DEF StageInv
<1> QED
  BY <1>14, <1>15, <1>16, <1>17 DEF DramInv
LEMMA DramStays == ASSUME DramInv, UNCHANGED dramVars PROVE DramInv'
<1>1. UNCHANGED <<read, got, error, checked, hits, exit, cut>>
  BY DEF dramVars
<1> QED
  BY <1>1 DEF DramInv, ReadTyped, AskedInv, Refused, BytesInv, IsOfRange, StageInv

LEMMA DramStep == ASSUME DramInv, [Next]_vars PROVE DramInv'
<1>1. \/ StartsRead \/ TakesChunk \/ Checks \/ Saves \/ Searches \/ UNCHANGED dramVars
  <2>1. ASSUME Next PROVE StartsRead \/ TakesChunk \/ Checks \/ Saves \/ Searches \/ UNCHANGED dramVars
    BY <2>1 DEF Next, WithLogs, WithBackup, WithWatch, WithDram, Idle
  <2>2. UNCHANGED vars => UNCHANGED dramVars
    BY DEF vars
  <2> QED
    BY <2>1, <2>2
<1> QED
  BY <1>1, StartsReadStep, TakesChunkStep, ChecksStep, SavesStep, SearchesStep, DramStays

(* What the invariant says of a read that is done. *)
LEMMA DramTells == DramInv => DumpIsTheRange
<1> SUFFICES ASSUME DramInv PROVE DumpIsTheRange
  OBVIOUS
<1> DEFINE dump    == read.at = "done" /\ read.size > 0 /\ read.needle = 0
           search  == read.at = "done" /\ read.needle # 0 /\ read.addr % BLOCK = 0 /\ ~cut
           inRange == read.needle \in read.addr..(read.addr + read.size - 1)
           blocks  == read.size - (read.size % BLOCK)
<1>1. ReadTyped /\ AskedInv /\ BytesInv /\ StageInv
  BY DEF DramInv
<1>2. /\ Len(got) \in Nat /\ read.size \in Nat /\ read.addr \in Nat \ {0} /\ read.needle \in Nat
      /\ got \in Seq(Nat) /\ DOMAIN got = 1..Len(got) /\ Len(got) <= read.size
  BY <1>1, LenProperties DEF ReadTyped, AskedInv
<1>3. blocks = WholeBlocks(read.size) /\ blocks \in Nat /\ blocks <= read.size
  <2>1. blocks = WholeBlocks(read.size)
    BY DEF WholeBlocks, Rest
  <2>2. WholeBlocks(read.size) \in Nat /\ WholeBlocks(read.size) <= read.size
    BY <1>2, BlocksFacts
  <2> QED
    BY <2>1, <2>2
<1> HIDE DEF blocks
<1>4. checked = "ok" => got = [i \in 1..read.size |-> read.addr + i - 1]
  BY <1>1 DEF StageInv
<1>5. dump /\ exit = 0 => Len(got) = read.size
  <2> SUFFICES ASSUME dump, exit = 0 PROVE Len(got) = read.size
    OBVIOUS
  <2>1. ~error
    BY <1>1 DEF StageInv
  <2> QED
    BY <1>1, <2>1 DEF StageInv
<1>6. dump /\ exit = 1 /\ got # <<>> => error /\ checked = "none"
  BY <1>1 DEF StageInv
<1>7. ASSUME search
      PROVE  /\ hits \subseteq {read.needle} /\ (hits # {} => inRange)
             /\ inRange /\ hits = {} => Len(got) < read.size \/ read.needle >= read.addr + blocks
  <2>1. hits = {read.addr + i - 1 : i \in {j \in DOMAIN got : got[j] = read.needle}}
    BY <1>1, <1>7 DEF StageInv
  <2>2. \A i \in 1..Len(got) : got[i] = read.addr + i - 1 \/ (got[i] = 0 /\ i > blocks)
    BY <1>1, <1>3, <1>7 DEF BytesInv, IsOfRange, Rest
  <2>3. ASSUME NEW h \in hits PROVE h = read.needle /\ inRange
    <3>1. PICK i \in 1..Len(got) : got[i] = read.needle /\ h = read.addr + i - 1
      BY <1>2, <2>1
    <3>2. got[i] = read.addr + i - 1
      BY <1>7, <2>2, <3>1
    <3>3. h = read.needle
      BY <3>1, <3>2
    <3>4. read.addr <= read.needle /\ read.needle <= read.addr + read.size - 1
      BY <1>2, <3>1, <3>2
    <3> QED
      BY <1>2, <3>3, <3>4
  <2>4. ASSUME inRange, hits = {} PROVE Len(got) < read.size \/ read.needle >= read.addr + blocks
    <3> SUFFICES ASSUME Len(got) = read.size, read.needle < read.addr + blocks PROVE FALSE
      BY <1>2, <1>3
    <3>1. PICK i \in 1..Len(got) : read.addr + i - 1 = read.needle /\ i <= blocks
      <4>1. read.needle - read.addr + 1 \in 1..Len(got)
        BY <1>2, <2>4
      <4>2. read.addr + (read.needle - read.addr + 1) - 1 = read.needle /\ read.needle - read.addr + 1 <= blocks
        BY <1>2, <1>3
      <4> QED
        BY <4>1, <4>2
    <3>2. got[i] = read.needle
      <4>1. ~(i > blocks)
        BY <1>3, <3>1
      <4> QED
        BY <2>2, <3>1, <4>1
    <3>3. read.needle \in hits
      BY <1>2, <2>1, <3>1, <3>2
    <3> QED
      BY <2>4, <3>3
  <2> QED
    BY <2>3, <2>4
<1> QED
  BY <1>4, <1>5, <1>6, <1>7 DEF DumpIsTheRange, blocks

-----------------------------------------------------------------------------
(* One lemma per kind of step of the watch. *)
Line == [what : {"deregistered", "root hub", "device"}, bus : BUSES]

LEMMA WatchStart == Init => WatchInv
<1> SUFFICES ASSUME Init PROVE WatchInv
  OBVIOUS
<1>1. /\ lines = <<>> /\ watch = [at |-> "idle", listed |-> {}, flapping |-> {}] /\ told = {} /\ up = BUSES
  BY DEF Init, WatchInit
<1>2. LogTyped
  BY <1>1, EmptySeq DEF LogTyped
<1>3. LossInv /\ ToldInv
  BY <1>1 DEF LossInv, ToldInv
<1> QED
  BY <1>2, <1>3 DEF WatchInv

(* A line of the log comes behind those that were there. *)
LEMMA LineBehind ==
    ASSUME NEW s \in Seq(Line), NEW e \in Line
    PROVE  /\ Append(s, e) \in Seq(Line)
           /\ \A i \in 1..Len(s) : i \in 1..Len(Append(s, e)) /\ Append(s, e)[i] = s[i]
           /\ \E i \in 1..Len(Append(s, e)) : Append(s, e)[i] = e
<1>1. Len(s) \in Nat
  BY LenProperties
<1>2. Append(s, e) \in Seq(Line) /\ Len(Append(s, e)) = Len(s) + 1
  BY AppendProperties
<1>3. Append(s, e)[Len(s) + 1] = e
  BY AppendProperties
<1>4. ASSUME NEW i \in 1..Len(s) PROVE Append(s, e)[i] = s[i] /\ i \in 1..Len(Append(s, e))
  BY <1>1, <1>2, AppendProperties
<1>5. Len(s) + 1 \in 1..Len(Append(s, e))
  BY <1>1, <1>2
<1> QED
  BY <1>2, <1>3, <1>4, <1>5

(* What happens on the buses, as long as what the kernel logs of it comes  *)
(* behind what it had logged.                                              *)
LEMMA BusStep ==
    ASSUME WatchInv, UNCHANGED <<watch, told, warned>>, gap \subseteq gap',
           NEW what \in {"deregistered", "root hub", "device"}, NEW b \in BUSES, Logs(what, b),
           up' \subseteq BUSES,
           up \subseteq up' \/
             (what = "deregistered" /\ up' = up \ {b} /\ (watch.at = "listed" => b \in gap'))
    PROVE  WatchInv'
<1> DEFINE line == [what |-> what, bus |-> b]
<1> DEFINE longer == Append(lines, line)
<1>1. LogTyped /\ LossInv /\ ToldInv
  BY DEF WatchInv
<1>2. line \in Line /\ lines \in Seq(Line) /\ Len(lines) \in Nat
  BY <1>1, LenProperties DEF LogTyped, Line
<1>4. lines' = IF watch.at = "following" THEN longer ELSE lines
  BY DEF Logs
<1> HIDE DEF line
<1>3. /\ longer \in Seq(Line)
      /\ \A i \in 1..Len(lines) : i \in 1..Len(longer) /\ longer[i] = lines[i]
      /\ \E i \in 1..Len(longer) : longer[i] = line
  BY <1>2, LineBehind
<1> HIDE DEF longer
<1>5. LogTyped'
  <2>1. lines' \in Seq(Line)
    BY <1>2, <1>3, <1>4
  <2> QED
    BY <1>1, <2>1 DEF LogTyped, Line
<1>6. ASSUME watch.at = "following", NEW x \in watch.listed \ up' PROVE x \in warned \cup gap' \/ ToBePrinted(x)'
  <2>1. CASE x \notin up
    <3>1. x \in warned \cup gap \/ ToBePrinted(x)
      BY <1>1, <1>6, <2>1 DEF LossInv
    <3>2. ToBePrinted(x) => ToBePrinted(x)'
      <4> SUFFICES ASSUME NEW i \in 1..Len(lines), lines[i] = [what |-> "deregistered", bus |-> x]
                   PROVE  i \in 1..Len(lines') /\ lines'[i] = [what |-> "deregistered", bus |-> x]
        BY DEF ToBePrinted
      <4>0. lines' = longer
        BY <1>4, <1>6
      <4> QED
        BY <1>3, <4>0
    <3> QED
      BY <3>1, <3>2
  <2>2. CASE x \in up
    <3>1. what = "deregistered" /\ x = b
      BY <1>6, <2>2
    <3>a. lines' = longer
      BY <1>4, <1>6
    <3>2. \E i \in 1..Len(lines') : lines'[i] = line
      BY <1>3, <3>a
    <3> QED
      BY <3>1, <3>2 DEF ToBePrinted, line
  <2> QED
    BY <2>1, <2>2
<1>7. LossInv'
  BY <1>1, <1>6 DEF LossInv
<1>8. ToldInv'
  BY <1>1 DEF ToldInv
<1> QED
  BY <1>5, <1>7, <1>8 DEF WatchInv

(* A line is read: what it says is printed. *)
LEMMA ReadsLineStep == ASSUME WatchInv, ReadsLine PROVE WatchInv'
<1>1. /\ watch.at = "following" /\ lines # <<>> /\ lines' = Tail(lines)
      /\ told' = Told(Head(lines)) /\ warned' = Warned(Head(lines))
      /\ watch' = [watch EXCEPT !.at = IF timeUp THEN "ended" ELSE @]
      /\ UNCHANGED <<up, gap>>
  BY DEF ReadsLine
<1>2. LogTyped /\ LossInv /\ ToldInv /\ lines \in Seq(Line)
  BY DEF WatchInv, LogTyped, Line
<1>3. /\ lines' \in Seq(Line) /\ Head(lines) \in Line /\ Head(lines) = lines[1]
      /\ Len(lines) \in Nat /\ Len(lines') = Len(lines) - 1
      /\ \A i \in 1..Len(lines') : lines'[i] = lines[i + 1]
  BY <1>1, <1>2, HeadTailProperties, LenProperties
<1>4. /\ watch' = [at |-> watch'.at, listed |-> watch'.listed, flapping |-> watch'.flapping]
      /\ watch'.at \in {"following", "ended"} /\ watch'.listed = watch.listed
  BY <1>1, <1>2 DEF LogTyped
<1>5. LogTyped'
  BY <1>1, <1>2, <1>3, <1>4 DEF LogTyped, Line
<1>6. ASSUME NEW x \in watch.listed \ up PROVE x \in warned' \cup gap \/ ToBePrinted(x)'
  <2>1. x \in warned \cup gap \/ ToBePrinted(x)
    BY <1>1, <1>2, <1>6 DEF LossInv
  <2>2. warned \subseteq warned'
    BY <1>1 DEF Warned
  <2>3. ASSUME NEW i \in 1..Len(lines), lines[i] = [what |-> "deregistered", bus |-> x]
        PROVE  x \in warned' \/ ToBePrinted(x)'
    <3>1. CASE i = 1
      BY <1>1, <1>3, <2>3, <3>1 DEF Warned
    <3>2. CASE i # 1
      <4>1. i - 1 \in 1..Len(lines') /\ lines'[i - 1] = lines[i]
        BY <1>3, <3>2
      <4> QED
        BY <2>3, <4>1 DEF ToBePrinted
    <3> QED
      BY <3>1, <3>2
  <2> QED
    BY <2>1, <2>2, <2>3 DEF ToBePrinted
<1>7. LossInv'
  BY <1>1, <1>4, <1>6 DEF LossInv
<1>8. ToldInv'
  <2>1. ASSUME NEW v \in told', v.verdict = "stable" PROVE v.bus \in watch.listed
    <3>1. CASE v \in told
      BY <1>2, <2>1, <3>1 DEF ToldInv
    <3>2. CASE v = [bus |-> Head(lines).bus, verdict |-> Verdict(Head(lines).bus)]
      <4>1. v.bus = Head(lines).bus /\ Verdict(Head(lines).bus) = "stable"
        BY <2>1, <3>2
      <4> QED
        BY <4>1 DEF Verdict
    <3> QED
      BY <1>1, <2>1, <3>1, <3>2 DEF Told
  <2> QED
    BY <1>4, <2>1 DEF ToldInv
<1> QED
  BY <1>5, <1>7, <1>8 DEF WatchInv

LEMMA WatchStep == ASSUME WatchInv, [Next]_vars PROVE WatchInv'
<1>1. \/ Deregisters \/ Registers \/ Enumerates \/ FiveMinutesPass \/ TimePasses
      \/ ListsBuses \/ Follows \/ ReadsLine \/ UNCHANGED watchVars
  <2>1. ASSUME Next
        PROVE  \/ Deregisters \/ Registers \/ Enumerates \/ FiveMinutesPass \/ TimePasses
               \/ ListsBuses \/ Follows \/ ReadsLine \/ UNCHANGED watchVars
    BY <2>1 DEF Next, WithLogs, WithBackup, WithWatch, WithDram, Idle
  <2>2. UNCHANGED vars => UNCHANGED watchVars
    BY DEF vars
  <2> QED
    BY <2>1, <2>2
<1>a. LogTyped /\ LossInv /\ ToldInv
  BY DEF WatchInv
<1>2. ASSUME Deregisters PROVE WatchInv'
  <2>1. PICK b \in up : /\ up' = up \ {b} /\ Logs("deregistered", b)
                        /\ gap' = IF watch.at = "listed" THEN gap \cup {b} ELSE gap
    BY <1>2 DEF Deregisters
  <2>2. UNCHANGED <<watch, told, warned>>
    BY <1>2 DEF Deregisters, Happens
  <2>3. up' \subseteq BUSES /\ up \subseteq BUSES
    BY <2>1, <2>2, <1>a DEF LogTyped
  <2> QED
    BY <2>1, <2>2, <2>3, BusStep
<1>3. ASSUME Registers PROVE WatchInv'
  <2>1. PICK b \in BUSES \ up : up' = up \cup {b} /\ Logs("root hub", b)
    BY <1>3 DEF Registers
  <2>2. UNCHANGED <<watch, told, warned, gap>>
    BY <1>3 DEF Registers, Happens
  <2>3. up' \subseteq BUSES /\ up \subseteq BUSES
    BY <2>1, <2>2, <1>a DEF LogTyped
  <2> QED
    BY <2>1, <2>2, <2>3, BusStep
<1>4. ASSUME Enumerates PROVE WatchInv'
  <2>1. PICK b \in up : Logs("device", b)
    BY <1>4 DEF Enumerates
  <2>2. UNCHANGED <<watch, told, warned, gap, up>>
    BY <1>4 DEF Enumerates, Happens
  <2>3. up' \subseteq BUSES /\ up \subseteq BUSES
    BY <2>1, <2>2, <1>a DEF LogTyped
  <2> QED
    BY <2>1, <2>2, <2>3, BusStep
<1>5. ASSUME ListsBuses PROVE WatchInv'
  <2>1. /\ watch.at = "idle" /\ watch' = [at |-> "listed", listed |-> up, flapping |-> up \cap lately]
        /\ UNCHANGED <<up, lines, gap, told>>
    BY <1>5 DEF ListsBuses
  <2> QED
    BY <2>1, <1>a DEF WatchInv, LogTyped, LossInv, ToldInv
<1>6. ASSUME Follows PROVE WatchInv'
  <2>1. /\ watch.at = "listed" /\ watch' = [watch EXCEPT !.at = "following"]
        /\ UNCHANGED <<up, lines, gap, told, warned>>
    BY <1>6 DEF Follows
  <2> QED
    BY <2>1, <1>a DEF WatchInv, LogTyped, LossInv, ToldInv
<1>7. ASSUME UNCHANGED <<up, lines, watch, gap, told, warned>> PROVE WatchInv'
  BY <1>7, <1>a DEF WatchInv, LogTyped, LossInv, ToldInv, ToBePrinted
<1>8. FiveMinutesPass \/ TimePasses \/ UNCHANGED watchVars => UNCHANGED <<up, lines, watch, gap, told, warned>>
  BY DEF FiveMinutesPass, TimePasses, watchVars, Happens
<1> QED
  BY <1>1, <1>2, <1>3, <1>4, <1>5, <1>6, <1>7, <1>8, ReadsLineStep
(* A bus called stable was on the list, and its loss is accounted for.    *)
LEMMA WatchTells == WatchInv => StableIsCorrected
<1> SUFFICES ASSUME WatchInv, NEW b \in BUSES, watch.at = "following",
                    [bus |-> b, verdict |-> "stable"] \in told, b \notin up
             PROVE  b \in warned \cup gap
                    \/ \E i \in DOMAIN lines : lines[i] = [what |-> "deregistered", bus |-> b]
  BY DEF StableIsCorrected
<1>1. LogTyped /\ LossInv /\ ToldInv
  BY DEF WatchInv
<1>2. b \in watch.listed
  BY <1>1 DEF ToldInv
<1>3. b \in warned \cup gap \/ ToBePrinted(b)
  BY <1>1, <1>2 DEF LossInv
<1>4. DOMAIN lines = 1..Len(lines)
  BY <1>1, LenProperties DEF LogTyped
<1> QED
  BY <1>3, <1>4 DEF ToBePrinted

-----------------------------------------------------------------------------
(* read-dram.py: a dump whose hash agreed is the range; one that is not    *)
(* partial has its length; a hit is where the string is, and a search of   *)
(* whole blocks that misses it had not read as far (DumpIsTheRange).       *)
THEOREM DumpHolds == Spec => []DumpIsTheRange
<1>1. Spec => []DramInv
  BY DramStart, DramStep, PTL DEF Spec
<1> QED
  BY <1>1, DramTells, PTL

(* watch-usb.sh: while the log is followed, a bus called stable is there,  *)
(* or its loss is printed, about to be, or fell before the first line      *)
(* (StableIsCorrected).                                                    *)
THEOREM WatchHolds == Spec => []StableIsCorrected
<1>1. Spec => []WatchInv
  BY WatchStart, WatchStep, PTL DEF Spec
<1> QED
  BY <1>1, WatchTells, PTL

(* What the tools say while the phone goes on living is so, for every      *)
(* memory, range, bus and number of events (ReadingsHold).                 *)
THEOREM ReadingsAreTrue == Spec => []ReadingsHold
BY DumpHolds, WatchHolds, PTL DEF ReadingsHold

-----------------------------------------------------------------------------
(* Induction, from the order of the naturals: every set of them has a      *)
(* least element, so one that grows by one from 0 is all of them.          *)
LEMMA LeastOfNaturals ==
    ASSUME NEW S \in SUBSET Nat, S # {}
    PROVE  \E n \in S : \A m \in S : n <= m
<1> DEFINE less == OpToRel(<, Nat)
<1>1. IsWellFoundedOn(less, Nat)
  BY NatLessThanWellFounded
<1>2. \A i, j \in Nat : i < j => <<i, j>> \in less
  BY DEF OpToRel
<1> HIDE DEF less
<1>3. PICK n \in S : \A m \in S : ~ (<<m, n>> \in less)
  BY <1>1, WFMin
<1>4. \A m \in S : m \in Nat /\ n \in Nat /\ ~(m < n)
  BY <1>2, <1>3
<1> QED BY <1>3, <1>4

(* What holds of 0 and of every next number holds of all. *)
LEMMA Induction ==
    ASSUME NEW S \in SUBSET Nat, 0 \in S, \A n \in S : n + 1 \in S
    PROVE  S = Nat
<1> SUFFICES ASSUME Nat \ S # {} PROVE FALSE
  OBVIOUS
<1>1. Nat \ S \in SUBSET Nat
  OBVIOUS
<1>2. PICK n \in Nat \ S : \A m \in Nat \ S : n <= m
  BY <1>1, LeastOfNaturals
<1>3. n # 0 /\ n - 1 \in Nat /\ (n - 1) + 1 = n
  BY <1>2
<1>4. n - 1 \in S
  BY <1>2, <1>3
<1> QED BY <1>2, <1>3, <1>4

(* The greatest number of a set of indices, as the folds use it. *)
LEMMA MaxOf ==
    ASSUME NEW n \in Nat, NEW s \in SUBSET (1..n), s # {}
    PROVE  Max(s) \in s /\ \A x \in s : x <= Max(s)
<1> DEFINE above == {u \in Nat : \A x \in s : x <= u}
<1>1. n \in above
  OBVIOUS
<1>2. PICK u \in above : \A v \in above : u <= v
  BY <1>1, LeastOfNaturals
<1>3. u \in s
  <2> SUFFICES ASSUME u \notin s PROVE FALSE
    OBVIOUS
  <2>1. \A x \in s : x \in Nat /\ x >= 1 /\ x <= u /\ x # u
    BY <1>2
  <2>2. u - 1 \in Nat
    <3>1. PICK x \in s : TRUE
      OBVIOUS
    <3>2. x \in Nat /\ x >= 1 /\ x <= u /\ u \in Nat
      BY <1>2, <2>1
    <3> QED BY <3>2
  <2>3. \A x \in s : x <= u - 1
    BY <1>2, <2>1
  <2>4. u - 1 \in above
    BY <2>2, <2>3
  <2> QED BY <1>2, <2>4
<1>4. \A x \in s : u >= x
  BY <1>2
<1>5. Max(s) \in s /\ \A x \in s : Max(s) >= x
  BY <1>3, <1>4 DEF Max
<1> QED BY <1>5

(* ... and of the first k. *)
LEMMA MaxOfRun ==
    ASSUME NEW k \in Nat \ {0}
    PROVE  Max(1..k) = k /\ (1..k) \ {Max(1..k)} = 1..(k - 1)
<1>1. 1..k \in SUBSET (1..k) /\ k \in 1..k
  OBVIOUS
<1>2. Max(1..k) \in 1..k /\ k <= Max(1..k)
  BY <1>1, MaxOf
<1>3. Max(1..k) = k
  BY <1>2
<1> QED BY <1>3

(* The recursion of a fold has a solution: G[k] is what its k-th step does. *)
Solves(f, A, base, G, m) ==
    /\ f \in [SUBSET (1..m) -> A]
    /\ \A s \in SUBSET (1..m) : f[s] = IF s = {} THEN base ELSE G[Max(s)][f[s \ {Max(s)}]]

(* A fold over nothing has a graph. *)
LEMMA FoldStarts ==
    ASSUME NEW A, NEW base \in A, NEW G
    PROVE  \E f : Solves(f, A, base, G, 0)
<1> DEFINE f == [s \in SUBSET (1..0) |-> base]
<1>1. \A s \in SUBSET (1..0) : s = {}
  OBVIOUS
<1>2. f \in [SUBSET (1..0) -> A] /\ \A s \in SUBSET (1..0) : f[s] = base
  OBVIOUS
<1> HIDE DEF f
<1>3. Solves(f, A, base, G, 0)
  BY <1>1, <1>2 DEF Solves
<1> QED BY <1>3

(* ... over one element more too. *)
LEMMA FoldGoesOn ==
    ASSUME NEW A, NEW n \in Nat, NEW m \in 0..(n - 1), NEW base \in A, NEW G \in [1..n -> [A -> A]],
           NEW g, Solves(g, A, base, G, m)
    PROVE  \E f : Solves(f, A, base, G, m + 1)
<1> DEFINE f == [s \in SUBSET (1..(m + 1)) |-> IF m + 1 \in s THEN G[m + 1][g[s \ {m + 1}]] ELSE g[s]]
<1>1. m \in Nat /\ m + 1 \in Nat /\ m + 1 \in 1..n
  OBVIOUS
<1>2. \A s \in SUBSET (1..(m + 1)) : s \ {m + 1} \in SUBSET (1..m) /\ (m + 1 \notin s => s \in SUBSET (1..m))
  BY <1>1
<1>3. /\ g \in [SUBSET (1..m) -> A]
      /\ \A s \in SUBSET (1..m) : g[s] = IF s = {} THEN base ELSE G[Max(s)][g[s \ {Max(s)}]]
  BY DEF Solves
<1>4. \A s \in SUBSET (1..(m + 1)) : f[s] = IF m + 1 \in s THEN G[m + 1][g[s \ {m + 1}]] ELSE g[s]
  OBVIOUS
<1>5. f \in [SUBSET (1..(m + 1)) -> A]
  <2>1. \A s \in SUBSET (1..(m + 1)) : (IF m + 1 \in s THEN G[m + 1][g[s \ {m + 1}]] ELSE g[s]) \in A
    BY <1>1, <1>2, <1>3
  <2> QED BY <2>1
<1> HIDE DEF f
<1>6. ASSUME NEW s \in SUBSET (1..(m + 1)), s # {} PROVE f[s] = G[Max(s)][f[s \ {Max(s)}]]
  <2>1. Max(s) \in s /\ \A x \in s : x <= Max(s)
    BY <1>1, <1>6, MaxOf
  <2>2. CASE m + 1 \in s
    <3>1. Max(s) = m + 1
      <4>1. Max(s) \in 1..(m + 1) /\ m + 1 <= Max(s)
        BY <2>1, <2>2
      <4> QED BY <1>1, <4>1
    <3>2. m + 1 \notin s \ {m + 1} /\ s \ {m + 1} \in SUBSET (1..(m + 1))
      OBVIOUS
    <3>3. f[s \ {m + 1}] = g[s \ {m + 1}]
      BY <1>4, <3>2
    <3> QED BY <1>4, <2>2, <3>1, <3>3
  <2>3. CASE m + 1 \notin s
    <3>1. s \in SUBSET (1..m) /\ s \ {Max(s)} \in SUBSET (1..(m + 1)) /\ m + 1 \notin s \ {Max(s)}
      BY <1>2, <2>3
    <3>2. f[s] = g[s] /\ f[s \ {Max(s)}] = g[s \ {Max(s)}]
      BY <1>4, <2>3, <3>1
    <3>3. g[s] = G[Max(s)][g[s \ {Max(s)}]]
      BY <1>3, <1>6, <3>1
    <3> QED BY <3>2, <3>3
  <2> QED BY <2>2, <2>3
<1>7. f[{}] = base
  <2>1. {} \in SUBSET (1..(m + 1)) /\ m + 1 \notin {} /\ {} \in SUBSET (1..m)
    OBVIOUS
  <2>2. g[{}] = base
    BY <1>3, <2>1
  <2> QED BY <1>4, <2>1, <2>2
<1>8. Solves(f, A, base, G, m + 1)
  BY <1>5, <1>6, <1>7 DEF Solves
<1> QED BY <1>8

(* ... and over any list, as long as its steps stay within A. *)
LEMMA FoldGraph ==
    ASSUME NEW A, NEW n \in Nat, NEW base \in A, NEW G \in [1..n -> [A -> A]]
    PROVE  \E f : Solves(f, A, base, G, n)
<1> DEFINE S == {m \in Nat : m <= n => \E f : Solves(f, A, base, G, m)}
<1>1. 0 \in S
  BY FoldStarts
<1>2. ASSUME NEW m \in S PROVE m + 1 \in S
  <2>1. m \in Nat /\ m + 1 \in Nat
    OBVIOUS
  <2>2. CASE m + 1 <= n
    <3>1. m \in 0..(n - 1) /\ \E g : Solves(g, A, base, G, m)
      BY <2>1, <2>2
    <3>2. \E f : Solves(f, A, base, G, m + 1)
      BY <3>1, FoldGoesOn
    <3> QED BY <2>1, <3>2
  <2> QED BY <2>1, <2>2
<1>3. S \in SUBSET Nat
  OBVIOUS
<1> HIDE DEF S
<1>4. S = Nat
  BY <1>1, <1>2, <1>3, Induction
<1>5. n \in S
  BY <1>4
<1> QED BY <1>5 DEF S

(* What is picked out of a list one by one, as a fold does: F[k] is what has *)
(* been picked of the first k.  It is picked in order, and all of it.      *)
Picks(F, n, T, H) ==
    /\ F[0] = <<>>
    /\ \A k \in 1..n : F[k] = IF k \in T THEN Append(F[k - 1], H[k]) ELSE F[k - 1]

PickedAs(v, S, U, H) ==
    /\ v \in Seq(S) /\ IsFiniteSet(U) /\ Len(v) = Cardinality(U)
    /\ \E at \in [1..Len(v) -> U] :
          /\ \A i \in 1..Len(v) : v[i] = H[at[i]]
          /\ \A i, j \in 1..Len(v) : i < j => at[i] < at[j]
          /\ \A u \in U : \E i \in 1..Len(v) : at[i] = u
PickedSoFar(F, S, T, H, k) == PickedAs(F[k], S, T \cap 1..k, H)

(* Of nothing, nothing is picked. *)
LEMMA PickStarts ==
    ASSUME NEW S, NEW n \in Nat, NEW T \in SUBSET (1..n), NEW H \in [1..n -> S], NEW F, Picks(F, n, T, H)
    PROVE  PickedSoFar(F, S, T, H, 0)
<1>1. F[0] = <<>> /\ <<>> \in Seq(S) /\ Len(<<>>) = 0
  BY EmptySeq DEF Picks
<1>2. T \cap 1..0 = {} /\ 1..0 = {}
  OBVIOUS
<1>3. IsFiniteSet({}) /\ Cardinality({}) = 0
  BY FS_EmptySet
<1> DEFINE at == [i \in {} |-> 0]
<1>4. at \in [{} -> {}]
  OBVIOUS
<1>5. \E a \in [1..0 -> T \cap 1..0] : TRUE
  BY <1>2, <1>4
<1> QED BY <1>1, <1>2, <1>3, <1>5 DEF PickedSoFar, PickedAs

(* From the places it was picked from. *)
LEMMA PickedBy ==
    ASSUME NEW v, NEW S, NEW U, NEW H, NEW c, NEW a \in [1..c -> U],
           v \in Seq(S), IsFiniteSet(U), Cardinality(U) = c, Len(v) = c,
           \A i \in 1..c : v[i] = H[a[i]],
           \A i \in 1..c, j \in 1..c : i < j => a[i] < a[j],
           \A u \in U : \E i \in 1..c : a[i] = u
    PROVE  PickedAs(v, S, U, H)
<1>1. Len(v) = Cardinality(U)
  OBVIOUS
<1>2. a \in [1..Len(v) -> U]
  OBVIOUS
<1>3. /\ \A i \in 1..Len(v) : v[i] = H[a[i]]
      /\ \A i, j \in 1..Len(v) : i < j => a[i] < a[j]
      /\ \A u \in U : \E i \in 1..Len(v) : a[i] = u
  OBVIOUS
<1> QED BY ONLY v \in Seq(S), IsFiniteSet(U), <1>1, <1>2, <1>3, Zenon DEF PickedAs

(* One element more is picked or passed over. *)
LEMMA PickGoesOn ==
    ASSUME NEW S, NEW n \in Nat, NEW T \in SUBSET (1..n), NEW H \in [1..n -> S], NEW F, Picks(F, n, T, H),
           NEW k \in 0..(n - 1), PickedSoFar(F, S, T, H, k)
    PROVE  PickedSoFar(F, S, T, H, k + 1)
<1> DEFINE was == T \cap 1..k
           now == T \cap 1..(k + 1)
           m == Len(F[k])
<1>0. F[k] \in Seq(S) /\ IsFiniteSet(was) /\ m = Cardinality(was)
  BY DEF PickedSoFar, PickedAs
<1>1. /\ F[k] \in Seq(S) /\ m \in Nat /\ IsFiniteSet(was) /\ m = Cardinality(was)
      /\ k \in Nat /\ k + 1 \in 1..n /\ (k + 1) - 1 = k
  <2> HIDE DEF was
  <2> QED BY <1>0, LenProperties
<1>2. PICK at \in [1..m -> was] :
          /\ \A i \in 1..m : F[k][i] = H[at[i]]
          /\ \A i, j \in 1..m : i < j => at[i] < at[j]
          /\ \A t \in was : \E i \in 1..m : at[i] = t
  BY DEF PickedSoFar, PickedAs
<1>3. F[k + 1] = IF k + 1 \in T THEN Append(F[k], H[k + 1]) ELSE F[k]
  BY <1>1 DEF Picks
<1>4. CASE k + 1 \notin T
  <2>1. T \cap 1..(k + 1) = T \cap 1..k /\ F[k + 1] = F[k]
    BY <1>1, <1>3, <1>4
  <2> QED BY ONLY PickedSoFar(F, S, T, H, k), <2>1, Zenon DEF PickedSoFar
<1>5. CASE k + 1 \in T
  <2>1. F[k + 1] = Append(F[k], H[k + 1]) /\ H[k + 1] \in S
    BY <1>1, <1>3, <1>5
  <2>2. /\ F[k + 1] \in Seq(S) /\ Len(F[k + 1]) = m + 1
        /\ \A i \in 1..m : F[k + 1][i] = F[k][i]
        /\ F[k + 1][m + 1] = H[k + 1]
    <3> HIDE DEF was, now
    <3> QED BY <1>1, <2>1, AppendProperties
  <2>3. now = was \cup {k + 1} /\ k + 1 \notin was
    BY <1>1, <1>5
  <2>4. IsFiniteSet(now) /\ Cardinality(now) = m + 1
    <3> HIDE DEF now, was, m
    <3> QED BY <1>1, <2>3, FS_AddElement
  <2> DEFINE a == [i \in 1..(m + 1) |-> IF i = m + 1 THEN k + 1 ELSE at[i]]
  <2>5. a \in [1..(m + 1) -> now]
    <3>1. \A i \in 1..(m + 1) : i # m + 1 => i \in 1..m
      BY <1>1
    <3> QED BY <1>2, <2>3, <3>1
  <2>6. a[m + 1] = k + 1 /\ \A i \in 1..m : a[i] = at[i] /\ at[i] \in Nat /\ at[i] < k + 1
    <3>1. m + 1 \in 1..(m + 1) /\ \A i \in 1..m : i \in 1..(m + 1) /\ i # m + 1
      <4>1. \A x \in Nat : x + 1 \in 1..(x + 1) /\ \A i \in 1..x : i \in 1..(x + 1) /\ i # x + 1
        OBVIOUS
      <4> HIDE DEF m
      <4> QED BY ONLY <1>1, <4>1
    <3>2. \A t \in was : t \in Nat /\ t < k + 1
      BY <1>1
    <3> QED BY <1>2, <3>1, <3>2
  <2> HIDE DEF a, was, now, m
  <2>7. \A i \in 1..(m + 1) : i = m + 1 \/ i \in 1..m
    BY <1>1
  <2>8. \A i \in 1..(m + 1) : F[k + 1][i] = H[a[i]]
    BY <1>2, <2>2, <2>6, <2>7
  <2>9. \A i \in 1..(m + 1), j \in 1..(m + 1) : i < j => a[i] < a[j]
    <3> SUFFICES ASSUME NEW i \in 1..(m + 1), NEW j \in 1..(m + 1), i < j PROVE a[i] < a[j]
      OBVIOUS
    <3>1. i \in 1..m
      BY <1>1
    <3> QED BY <1>2, <2>6, <2>7, <3>1
  <2>10. \A t \in now : \E i \in 1..(m + 1) : a[i] = t
    <3>1. m + 1 \in 1..(m + 1) /\ \A i \in 1..m : i \in 1..(m + 1)
      BY <1>1
    <3> QED BY <1>2, <2>3, <2>6, <3>1
  <2>11. /\ Len(F[k + 1]) = m + 1 /\ IsFiniteSet(T \cap 1..(k + 1))
         /\ Cardinality(T \cap 1..(k + 1)) = m + 1 /\ a \in [1..(m + 1) -> T \cap 1..(k + 1)]
         /\ \A t \in T \cap 1..(k + 1) : \E i \in 1..(m + 1) : a[i] = t
    BY <2>2, <2>4, <2>5, <2>10 DEF now
  <2>12. PickedAs(F[k + 1], S, T \cap 1..(k + 1), H)
    BY ONLY <2>2, <2>8, <2>9, <2>11, PickedBy
  <2> QED BY <2>12 DEF PickedSoFar
<1> QED BY <1>4, <1>5

(* After k elements the fold has picked those of T. *)
LEMMA PickFacts ==
    ASSUME NEW S, NEW n \in Nat, NEW T \in SUBSET (1..n), NEW H \in [1..n -> S], NEW F, Picks(F, n, T, H),
           NEW k \in 0..n
    PROVE  PickedSoFar(F, S, T, H, k)
<1> DEFINE I == {j \in Nat : j <= n => PickedSoFar(F, S, T, H, j)}
<1>1. 0 \in I
  BY PickStarts
<1>2. ASSUME NEW j \in I PROVE j + 1 \in I
  <2>1. CASE j + 1 <= n
    <3>1. j \in 0..(n - 1) /\ PickedSoFar(F, S, T, H, j)
      BY <2>1
    <3> QED BY <3>1, PickGoesOn
  <2> QED BY <2>1
<1>3. I \in SUBSET Nat
  OBVIOUS
<1> HIDE DEF I
<1>4. I = Nat
  BY <1>1, <1>2, <1>3, Induction
<1>5. k \in Nat /\ k \in I
  BY <1>4
<1> QED BY <1>5 DEF I

(* The fold that picks: H[k] is added when k is one of T. *)
PickRule(f, n, T, H) ==
    f = [u \in SUBSET (1..n) |->
            IF u = {} THEN <<>>
            ELSE IF Max(u) \in T THEN Append(f[u \ {Max(u)}], H[Max(u)]) ELSE f[u \ {Max(u)}]]

(* The graph of such a fold is there, *)
LEMMA PickGraph ==
    ASSUME NEW S, NEW n \in Nat, NEW T \in SUBSET (1..n), NEW H \in [1..n -> S]
    PROVE  \E f : PickRule(f, n, T, H)
<1> DEFINE G == [k \in 1..n |-> [a \in Seq(S) |-> IF k \in T THEN Append(a, H[k]) ELSE a]]
<1>1. G \in [1..n -> [Seq(S) -> Seq(S)]]
  <2>1. \A k \in 1..n, a \in Seq(S) : (IF k \in T THEN Append(a, H[k]) ELSE a) \in Seq(S)
    BY AppendProperties
  <2> QED BY <2>1
<1>2. <<>> \in Seq(S)
  BY EmptySeq
<1>3. \A k \in 1..n, a \in Seq(S) : G[k][a] = IF k \in T THEN Append(a, H[k]) ELSE a
  OBVIOUS
<1> HIDE DEF G
<1>4a. \E f : Solves(f, Seq(S), <<>>, G, n)
  BY <1>1, <1>2, FoldGraph
<1>4. PICK f \in [SUBSET (1..n) -> Seq(S)] : \A s \in SUBSET (1..n) :
          f[s] = IF s = {} THEN <<>> ELSE G[Max(s)][f[s \ {Max(s)}]]
  BY <1>4a DEF Solves
<1>5. ASSUME NEW u \in SUBSET (1..n)
      PROVE  f[u] = IF u = {} THEN <<>>
                    ELSE IF Max(u) \in T THEN Append(f[u \ {Max(u)}], H[Max(u)]) ELSE f[u \ {Max(u)}]
  <2>1. CASE u = {}
    BY <1>4, <2>1
  <2>2. CASE u # {}
    <3>1. Max(u) \in 1..n /\ u \ {Max(u)} \in SUBSET (1..n)
      BY <2>2, MaxOf
    <3>2. f[u \ {Max(u)}] \in Seq(S)
      BY <3>1
    <3>3. f[u] = G[Max(u)][f[u \ {Max(u)}]]
      BY <1>4, <2>2
    <3> QED BY <1>3, <2>2, <3>1, <3>2, <3>3
  <2> QED BY <2>1, <2>2
<1>6. PickRule(f, n, T, H)
  BY <1>5 DEF PickRule
<1> QED BY <1>6

(* and its values are those of a run along the list; *)
LEMMA PickRun ==
    ASSUME NEW n \in Nat, NEW T, NEW H, NEW it, PickRule(it, n, T, H)
    PROVE  Picks([k \in 0..n |-> it[1..k]], n, T, H)
<1> DEFINE F == [k \in 0..n |-> it[1..k]]
<1>1. \A u \in SUBSET (1..n) :
         it[u] = IF u = {} THEN <<>>
                 ELSE IF Max(u) \in T THEN Append(it[u \ {Max(u)}], H[Max(u)]) ELSE it[u \ {Max(u)}]
  BY DEF PickRule
<1>2. F[0] = <<>>
  <2>1. 0 \in 0..n /\ 1..0 = {} /\ {} \in SUBSET (1..n)
    OBVIOUS
  <2> QED BY <1>1, <2>1
<1>3. ASSUME NEW k \in 1..n PROVE F[k] = IF k \in T THEN Append(F[k - 1], H[k]) ELSE F[k - 1]
  <2>1. k \in Nat \ {0} /\ k \in 0..n /\ k - 1 \in 0..n /\ 1..k \in SUBSET (1..n) /\ 1..k # {}
    OBVIOUS
  <2>2. Max(1..k) = k /\ (1..k) \ {Max(1..k)} = 1..(k - 1)
    BY <2>1, MaxOfRun
  <2>3. F[k] = it[1..k] /\ F[k - 1] = it[1..(k - 1)]
    BY <2>1
  <2>4. it[1..k] = IF k \in T THEN Append(it[1..(k - 1)], H[k]) ELSE it[1..(k - 1)]
    BY <1>1, <2>1, <2>2
  <2> QED BY <2>3, <2>4
<1> QED BY <1>2, <1>3 DEF Picks

(* ... so it picks the H[k] of T, in order. *)
LEMMA PickRuleFacts ==
    ASSUME NEW S, NEW n \in Nat, NEW T \in SUBSET (1..n), NEW H \in [1..n -> S],
           NEW it, PickRule(it, n, T, H)
    PROVE  PickedAs(it[1..n], S, T, H)
<1> DEFINE F == [k \in 0..n |-> it[1..k]]
<1>1. Picks(F, n, T, H)
  BY PickRun
<1>2. F[n] = it[1..n] /\ n \in 0..n /\ T \cap 1..n = T
  <2>1. n \in 0..n
    OBVIOUS
  <2>2. F[n] = it[1..n]
    BY <2>1
  <2> QED BY <2>1, <2>2
<1> HIDE DEF F
<1>3. PickedSoFar(F, S, T, H, n)
  BY <1>1, <1>2, PickFacts
<1> QED BY ONLY <1>2, <1>3, Zenon DEF PickedSoFar

(* What is live of a directory, as FoldLeft computes it. *)
LEMMA LiveIsPicked ==
    ASSUME NEW S, NEW s \in Seq(S)
    PROVE  PickedAs(Live(s), S, {k \in 1..Len(s) : ~s[k].deleted}, s)
<1> DEFINE n == Len(s)
           T == {k \in 1..n : ~s[k].deleted}
           P(it) == it = [u \in SUBSET DOMAIN s |->
                            IF u = {} THEN <<>>
                            ELSE IF s[Max(u)].deleted THEN it[u \ {Max(u)}]
                                 ELSE Append(it[u \ {Max(u)}], s[Max(u)])]
<1>1. n \in Nat /\ DOMAIN s = 1..n /\ s \in [1..n -> S]
  BY LenProperties
<1>2. Live(s) = (CHOOSE it : P(it))[DOMAIN s]
  BY ONLY Zenon DEF Live, FoldLeft, MapThenFoldSet
<1> HIDE DEF n
<1>3. ASSUME NEW u \in SUBSET (1..n), u # {} PROVE Max(u) \in 1..n /\ (Max(u) \in T <=> ~s[Max(u)].deleted)
  BY <1>1, <1>3, MaxOf
<1> HIDE DEF T
<1>4. ASSUME NEW it PROVE P(it) <=> PickRule(it, n, T, s)
  <2>1. \A u \in SUBSET (1..n) :
          (IF u = {} THEN <<>> ELSE IF s[Max(u)].deleted THEN it[u \ {Max(u)}]
                                    ELSE Append(it[u \ {Max(u)}], s[Max(u)]))
          = (IF u = {} THEN <<>> ELSE IF Max(u) \in T THEN Append(it[u \ {Max(u)}], s[Max(u)])
                                      ELSE it[u \ {Max(u)}])
    BY <1>3
  <2> QED BY <1>1, <2>1 DEF PickRule
<1> DEFINE it == CHOOSE it : P(it)
<1>5. PickRule(it, n, T, s)
  <2>1. T \in SUBSET (1..n)
    BY DEF T
  <2>2. \E f : PickRule(f, n, T, s)
    BY <1>1, <2>1, PickGraph
  <2>3. \E f : P(f)
    BY <1>4, <2>2
  <2> HIDE DEF P
  <2>4. P(it)
    BY <2>3
  <2> QED BY <1>4, <2>4
<1> HIDE DEF it
<1>6. T \in SUBSET (1..n)
  BY DEF T
<1>7. PickedAs(it[1..n], S, T, s)
  BY <1>1, <1>5, <1>6, PickRuleFacts
<1> QED BY <1>1, <1>2, <1>7, Zenon DEF T, n, it

-----------------------------------------------------------------------------
(* The logs. *)
Log   == [boot : Nat, reached : SUBSET Nat]
Entry == [name : Nat, deleted : BOOLEAN, log : Log]

LogsTyped ==
    /\ phone = [mode |-> phone.mode, boot |-> phone.boot, stage |-> phone.stage]
    /\ phone.mode \in {"off", "abl", "fastboot", "twrp", "payload"}
    /\ phone.boot \in Nat /\ phone.stage \in Nat
    /\ phone.mode \in {"abl", "fastboot"} => phone.stage \in 1..(Len(STAGES) - 1)
    /\ logfs \in Seq(Entry)

(* The live slots are numbered down to 0 in the order of the directory, and *)
(* each is of a boot that handed over, the last of them the newest.        *)
Whole(live) ==
    \A i \in 1..Len(live) : live[i].name = Len(live) - i /\ live[i].log.reached = 1..Len(STAGES)
Ascending(live) ==
    \A i, j \in 1..Len(live) : i < j => live[i].log.boot < live[j].log.boot
UpTo(live, boot, mode) ==
    /\ \A i \in 1..Len(live) : live[i].log.boot <= boot
    /\ mode \in {"abl", "fastboot"} => \A i \in 1..Len(live) : live[i].log.boot < boot
    /\ mode \in {"twrp", "payload"} => Len(live) > 0 /\ live[Len(live)].log.boot = boot
SlotsInv ==
    LET live == Live(logfs)
    IN  Len(live) <= Slots /\ Whole(live) /\ Ascending(live) /\ UpTo(live, phone.boot, phone.mode)

LogsInv == LogsTyped /\ SlotsInv /\ PulledInOrder

(* Numbers that ascend, as many as there is room for, are all of them. *)
LEMMA OnlyWay ==
    ASSUME NEW r \in Nat, NEW d \in Nat, NEW at \in [1..r -> (d + 1)..(d + r)],
           \A i, j \in 1..r : i < j => at[i] < at[j]
    PROVE  \A i \in 1..r : at[i] = d + i
<1> DEFINE L == {k \in Nat : k < r => at[k + 1] >= d + (k + 1)}
           U == {k \in Nat : k < r => at[r - k] <= d + (r - k)}
<1>1. L = Nat
  <2>1. 0 \in L
    <3>1. ASSUME 0 < r PROVE at[0 + 1] >= d + (0 + 1)
      <4>1. 0 + 1 \in 1..r
        BY <3>1
      <4> QED BY <4>1
    <3> QED BY <3>1
  <2>2. ASSUME NEW k \in L PROVE k + 1 \in L
    <3>1. ASSUME k + 1 < r PROVE at[(k + 1) + 1] >= d + ((k + 1) + 1)
      <4>1. k \in Nat /\ k < r /\ k + 1 \in 1..r /\ (k + 1) + 1 \in 1..r /\ k + 1 < (k + 1) + 1
        BY <3>1
      <4>2. at[k + 1] >= d + (k + 1) /\ at[k + 1] < at[(k + 1) + 1]
        BY <4>1
      <4>3. at[k + 1] \in Nat /\ at[(k + 1) + 1] \in Nat
        BY <4>1
      <4> QED BY <4>1, <4>2, <4>3
    <3> QED BY <3>1
  <2>3. L \in SUBSET Nat
    OBVIOUS
  <2> HIDE DEF L
  <2> QED BY <2>1, <2>2, <2>3, Induction
<1>2. U = Nat
  <2>1. 0 \in U
    <3>1. ASSUME 0 < r PROVE at[r - 0] <= d + (r - 0)
      <4>1. r - 0 = r /\ r \in 1..r
        BY <3>1
      <4> QED BY <4>1
    <3> QED BY <3>1
  <2>2. ASSUME NEW k \in U PROVE k + 1 \in U
    <3>1. ASSUME k + 1 < r PROVE at[r - (k + 1)] <= d + (r - (k + 1))
      <4>1. k \in Nat /\ k < r /\ r - k \in 1..r /\ r - (k + 1) \in 1..r /\ r - (k + 1) < r - k
        BY <3>1
      <4>2. at[r - k] <= d + (r - k) /\ at[r - (k + 1)] < at[r - k]
        BY <4>1
      <4>3. at[r - k] \in Nat /\ at[r - (k + 1)] \in Nat
        BY <4>1
      <4> QED BY <4>1, <4>2, <4>3
    <3> QED BY <3>1
  <2>3. U \in SUBSET Nat
    OBVIOUS
  <2> HIDE DEF U
  <2> QED BY <2>1, <2>2, <2>3, Induction
<1>3. ASSUME NEW i \in 1..r PROVE at[i] = d + i
  <2>1. i - 1 \in L /\ r - i \in U
    <3>1. i - 1 \in Nat /\ r - i \in Nat
      OBVIOUS
    <3> HIDE DEF L, U
    <3> QED BY <1>1, <1>2, <3>1
  <2>2. i - 1 < r /\ r - i < r /\ (i - 1) + 1 = i /\ r - (r - i) = i
    OBVIOUS
  <2>3. at[i] >= d + i /\ at[i] <= d + i
    BY <2>1, <2>2
  <2>4. at[i] \in Nat
    OBVIOUS
  <2> QED BY <2>3, <2>4
<1> QED BY <1>3

(* What follows deleted entries and is not deleted is what is live. *)
LEMMA LiveOfJoin ==
    ASSUME NEW S, NEW d \in Seq(S), NEW e \in Seq(S),
           \A i \in 1..Len(d) : d[i].deleted, \A i \in 1..Len(e) : ~e[i].deleted
    PROVE  Live(d \o e) = e
<1> DEFINE s == d \o e
           m == Len(d)
           r == Len(e)
           T == {k \in 1..Len(s) : ~s[k].deleted}
<1>1. /\ m \in Nat /\ r \in Nat /\ s \in Seq(S) /\ Len(s) = m + r
      /\ \A i \in 1..(m + r) : s[i] = IF i <= m THEN d[i] ELSE e[i - m]
  BY ConcatProperties, LenProperties
<1>2. PickedAs(Live(s), S, T, s)
  <2> HIDE DEF s
  <2> QED BY <1>1, LiveIsPicked
<1>3. T = (m + 1)..(m + r)
  <2> HIDE DEF s, m, r
  <2>1. \A i \in 1..m : i \in 1..(m + r) /\ ~(i \in (m + 1)..(m + r)) /\ s[i] = d[i]
    BY <1>1
  <2>2. \A i \in (m + 1)..(m + r) : i \in 1..(m + r) /\ i - m \in 1..r /\ s[i] = e[i - m]
    BY <1>1
  <2>3. \A i \in 1..(m + r) : i \in 1..m \/ i \in (m + 1)..(m + r)
    BY <1>1
  <2>4. \A i \in 1..m : d[i].deleted
    BY DEF m
  <2>5. \A i \in 1..r : ~e[i].deleted
    BY DEF r
  <2> QED BY <1>1, <2>1, <2>2, <2>3, <2>4, <2>5
<1>4. Cardinality(T) = r
  <2>1. m + 1 \in Int /\ m + r \in Int
    BY <1>1
  <2>2. Cardinality((m + 1)..(m + r)) = IF m + 1 > m + r THEN 0 ELSE (m + r) - (m + 1) + 1
    BY <2>1, FS_Interval
  <2> HIDE DEF m, r, T
  <2> QED BY <1>1, <1>3, <2>2
<1> DEFINE v == Live(s)
<1> HIDE DEF v, T
<1>5. v \in Seq(S) /\ Len(v) = r
  BY <1>2, <1>4 DEF PickedAs, v
<1>6. PICK at \in [1..r -> T] :
          /\ \A i \in 1..r : v[i] = s[at[i]]
          /\ \A i, j \in 1..r : i < j => at[i] < at[j]
  <2> HIDE DEF s, r
  <2> QED BY <1>2, <1>5 DEF PickedAs, v
<1>7. \A i \in 1..r : at[i] = m + i
  <2> HIDE DEF m, r, s
  <2>1. at \in [1..r -> (m + 1)..(m + r)] /\ m \in Nat /\ r \in Nat
    BY <1>1, <1>3, <1>6
  <2>2. \A i, j \in 1..r : i < j => at[i] < at[j]
    BY <1>6
  <2> QED BY ONLY <2>1, <2>2, OnlyWay
<1>8. \A i \in 1..r : v[i] = e[i]
  <2> HIDE DEF m, r, s
  <2>1. \A i \in 1..r : m + i \in 1..(m + r) /\ ~(m + i <= m) /\ (m + i) - m = i
    BY <1>1
  <2> QED BY <1>1, <1>6, <1>7, <2>1
<1> QED BY <1>5, <1>8, SeqEqual DEF v

-----------------------------------------------------------------------------
(* A live entry is one of the directory. *)
LEMMA LiveFacts ==
    ASSUME NEW s \in Seq(Entry)
    PROVE  /\ Live(s) \in Seq(Entry)
           /\ \A i \in 1..Len(Live(s)) : \E k \in 1..Len(s) : Live(s)[i] = s[k]
<1> DEFINE T == {k \in 1..Len(s) : ~s[k].deleted}
<1>1. PickedAs(Live(s), Entry, T, s)
  BY LiveIsPicked
<1> HIDE DEF T
<1>2. T \subseteq 1..Len(s)
  BY DEF T
<1> QED BY <1>1, <1>2 DEF PickedAs

(* Nothing is live of an empty directory. *)
LEMMA LiveOfNothing == Live(<<>>) = <<>>
<1>1. <<>> \in Seq(Entry) /\ Len(<<>>) = 0
  BY EmptySeq
<1>2. <<>> \o <<>> = <<>>
  BY <1>1, ConcatEmptySeq
<1> DEFINE e == <<>>
<1>3. Live(e \o e) = e
  <2>1. e \in Seq(Entry) /\ Len(e) = 0 /\ 1..0 = {}
    BY <1>1
  <2> HIDE DEF e
  <2>2. 1..Len(e) = {}
    BY <2>1
  <2> QED BY <2>1, <2>2, LiveOfJoin
<1> QED BY <1>2, <1>3

(* One more log: all move up by one, and of as many as there are slots the *)
(* oldest is dropped.                                                      *)
Dropped(live) == IF Len(live) < Slots THEN 0 ELSE 1
LEMMA RotatedFacts ==
    ASSUME NEW live \in Seq(Entry), Len(live) <= Slots, NEW log \in Log
    PROVE  LET r   == Len(live) + 1 - Dropped(live)
               new == Rotated(live, log)
           IN  /\ new \in Seq(Entry) /\ Len(new) = r /\ r <= Slots
               /\ \A i \in 1..r : new[i] = [name |-> r - i, deleted |-> FALSE,
                      log |-> IF i = r THEN log ELSE live[i + Dropped(live)].log]
<1> DEFINE n == Len(live)
           d == Dropped(live)
           kept == SubSeq(live, IF n < Slots THEN 1 ELSE 2, n)
           logs == Append([i \in DOMAIN kept |-> kept[i].log], log)
           r == n + 1 - d
<1>1. Slots \in Nat \ {0} /\ n \in Nat /\ n <= Slots
  BY LogsAssumption, LenProperties
<1>2. d \in {0, 1} /\ r \in Nat \ {0} /\ r <= Slots /\ (IF n < Slots THEN 1 ELSE 2) = d + 1 /\ r - 1 <= n /\ r - 1 \in Nat
  <2> HIDE DEF n
  <2>1. d = IF n < Slots THEN 0 ELSE 1
    BY DEF Dropped, n
  <2> QED BY <1>1, <2>1
<1>3. /\ kept \in Seq(Entry) /\ Len(kept) = r - 1
      /\ \A i \in 1..(r - 1) : kept[i] = live[i + d]
  <2>1. kept = SubSeq(live, d + 1, n)
    BY <1>2, Zenon
  <2>2. \A i \in (d + 1)..n : live[i] \in Entry
    <3>1. \A i \in (d + 1)..n : i \in 1..n
      <4> HIDE DEF n, d
      <4> QED BY <1>1, <1>2
    <3> QED BY <3>1, ElementOfSeq
  <2> HIDE DEF n, d
  <2>3. d + 1 \in Int /\ n \in Int /\ n - (d + 1) + 1 = r - 1 /\ (d + 1 <= n => n - (d + 1) + 1 = r - 1) /\ (~(d + 1 <= n) => r - 1 = 0)
    BY <1>1, <1>2
  <2>4. /\ SubSeq(live, d + 1, n) \in Seq(Entry)
        /\ Len(SubSeq(live, d + 1, n)) = IF d + 1 <= n THEN n - (d + 1) + 1 ELSE 0
        /\ \A i \in 1..(n - (d + 1) + 1) : SubSeq(live, d + 1, n)[i] = live[(d + 1) + i - 1]
    BY <2>2, <2>3, SubSeqProperties
  <2>5. \A i \in 1..(r - 1) : (d + 1) + i - 1 = i + d
    BY <1>2
  <2> HIDE DEF kept, r
  <2> QED BY <2>1, <2>3, <2>4, <2>5
<1> HIDE DEF kept, d, n
<1> DEFINE q == [i \in DOMAIN kept |-> kept[i].log]
<1>4. DOMAIN kept = 1..(r - 1)
  BY <1>3, LenProperties
<1>5. q \in Seq(Log) /\ Len(q) = r - 1 /\ \A i \in 1..(r - 1) : q[i] = live[i + d].log
  <2>1. \A i \in 1..(r - 1) : kept[i] \in Entry
    BY <1>3, ElementOfSeq
  <2>2. \A i \in 1..(r - 1) : kept[i].log \in Log
    BY <2>1 DEF Entry
  <2>3. q = [i \in 1..(r - 1) |-> kept[i].log]
    BY <1>4
  <2> HIDE DEF r
  <2>4. q \in [1..(r - 1) -> Log]
    BY <2>2, <2>3
  <2>5. q \in Seq(Log) /\ Len(q) = r - 1
    BY <1>2, <2>3, <2>4
  <2>6. \A i \in 1..(r - 1) : q[i] = live[i + d].log
    BY <1>3, <2>3
  <2> QED BY <2>5, <2>6
<1> HIDE DEF q, r
<1>6. /\ logs \in Seq(Log) /\ Len(logs) = r
      /\ \A i \in 1..(r - 1) : logs[i] = live[i + d].log
      /\ logs[r] = log
  <2>1. logs = Append(q, log)
    BY DEF q
  <2>2. /\ Append(q, log) \in Seq(Log) /\ Len(Append(q, log)) = (r - 1) + 1
        /\ \A i \in 1..(r - 1) : Append(q, log)[i] = q[i]
        /\ Append(q, log)[(r - 1) + 1] = log
    BY <1>5, AppendProperties
  <2>3. (r - 1) + 1 = r
    BY <1>2
  <2> HIDE DEF logs
  <2> QED BY <1>5, <2>1, <2>2, <2>3
<1> HIDE DEF logs
<1> DEFINE new == [i \in DOMAIN logs |-> [name |-> Len(logs) - i, deleted |-> FALSE, log |-> logs[i]]]
<1>7. Rotated(live, log) = new
  BY DEF Rotated, new, logs, q, kept, n
<1>8. DOMAIN logs = 1..r
  BY <1>6, LenProperties
<1>9. new = [i \in 1..r |-> [name |-> r - i, deleted |-> FALSE, log |-> logs[i]]]
  BY <1>6, <1>8
<1>10. ASSUME NEW i \in 1..r PROVE [name |-> r - i, deleted |-> FALSE, log |-> logs[i]] \in Entry
  <2>1. r - i \in Nat
    BY <1>2
  <2>2. logs[i] \in Log
    BY <1>6, ElementOfSeq
  <2> QED BY <2>1, <2>2 DEF Entry
<1> HIDE DEF new
<1>11. new \in Seq(Entry) /\ Len(new) = r
  <2>1. new \in [1..r -> Entry]
    BY <1>9, <1>10
  <2> QED BY <1>2, <1>9, <2>1
<1>12. ASSUME NEW i \in 1..r
       PROVE  new[i] = [name |-> r - i, deleted |-> FALSE, log |-> IF i = r THEN log ELSE live[i + d].log]
  <2>1. new[i] = [name |-> r - i, deleted |-> FALSE, log |-> logs[i]]
    BY <1>9
  <2>2. i # r => i \in 1..(r - 1)
    BY <1>2
  <2>3. logs[i] = IF i = r THEN log ELSE live[i + d].log
    BY <1>6, <2>2
  <2> QED BY <2>1, <2>3
<1>13. r = Len(live) + 1 - Dropped(live)
  BY DEF r, n, d
<1> QED BY <1>2, <1>7, <1>11, <1>12, <1>13 DEF d

(* The logs of a phone that was never on. *)
LEMMA LogsStart == Init => LogsInv
<1> SUFFICES ASSUME Init PROVE LogsInv
  OBVIOUS
<1>1. /\ phone = [mode |-> "off", boot |-> 0, stage |-> 0] /\ logfs = <<>>
      /\ pulled = [route |-> "none", at |-> 0, items |-> <<>>]
  BY DEF Init, LogsInit, NotPulled
<1>2. <<>> \in Seq(Entry) /\ Len(<<>>) = 0 /\ Live(logfs) = <<>>
  BY <1>1, EmptySeq, LiveOfNothing
<1>3. LogsTyped
  BY <1>1, <1>2 DEF LogsTyped
<1>4. SlotsInv
  <2>1. Len(Live(logfs)) = 0 /\ Slots \in Nat /\ 1..0 = {}
    BY <1>2, LogsAssumption
  <2>2. 0 <= Slots /\ phone.mode = "off"
    BY <1>1, <2>1
  <2> QED BY <2>1, <2>2 DEF SlotsInv, Whole, Ascending, UpTo
<1>5. PulledInOrder
  BY <1>1 DEF PulledInOrder
<1> QED BY <1>3, <1>4, <1>5 DEF LogsInv

(* The invariant is about the phone, logfs and what was pulled. *)
LEMMA LogsStay == ASSUME LogsInv, UNCHANGED <<phone, logfs, pulled>> PROVE LogsInv'
BY DEF LogsInv, LogsTyped, SlotsInv, PulledInOrder

(* The phone, but for a handover. *)
LEMMA UpToMoves ==
    ASSUME NEW s \in Seq(Entry), NEW b \in Nat, NEW m, NEW c \in Nat, NEW k, UpTo(s, b, m),
           \/ c = b + 1 /\ k = "abl"
           \/ c = b /\ k = "off"
           \/ c = b /\ m = "abl" /\ k \in {"abl", "fastboot"}
    PROVE  UpTo(s, c, k)
<1>1. \A i \in 1..Len(s) : s[i].log.boot \in Nat
  <2>1. \A i \in 1..Len(s) : s[i] \in Entry
    BY ElementOfSeq
  <2> QED BY <2>1 DEF Entry, Log
<1> QED BY <1>1 DEF UpTo

LEMMA PhoneStep ==
    ASSUME LogsInv, PowersOn \/ AblGoesOn \/ EntersFastboot \/ Panics \/ PowerCut
    PROVE  LogsInv'
<1>0. /\ phone = [mode |-> phone.mode, boot |-> phone.boot, stage |-> phone.stage]
      /\ phone.boot \in Nat /\ phone.stage \in Nat /\ logfs \in Seq(Entry)
      /\ phone.mode \in {"abl", "fastboot"} => phone.stage \in 1..(Len(STAGES) - 1)
      /\ Len(STAGES) \in Nat /\ Len(STAGES) >= 2
      /\ SlotsInv /\ PulledInOrder
  BY LogsAssumption, LenProperties DEF LogsInv, LogsTyped
<1>1. UNCHANGED <<logfs, pulled>>
  BY DEF PowersOn, AblGoesOn, EntersFastboot, Panics, PowerCut
<1>2. /\ phone' = [mode |-> phone'.mode, boot |-> phone'.boot, stage |-> phone'.stage]
      /\ \/ phone'.boot = phone.boot + 1 /\ phone'.mode = "abl" /\ phone'.stage = 1
         \/ phone'.boot = phone.boot /\ phone'.mode = "off" /\ phone'.stage = 0
         \/ /\ phone'.boot = phone.boot /\ phone.mode = "abl" /\ phone'.mode \in {"abl", "fastboot"}
            /\ phone'.stage = phone.stage \/ (phone.stage < Len(STAGES) - 1 /\ phone'.stage = phone.stage + 1)
  <2>1. ASSUME PowersOn \/ Panics PROVE phone' = [mode |-> "abl", boot |-> phone.boot + 1, stage |-> 1]
    BY <2>1 DEF PowersOn, Panics, BootsAbl
  <2>2. ASSUME AblGoesOn
        PROVE  /\ phone' = [mode |-> phone.mode, boot |-> phone.boot, stage |-> phone.stage + 1]
               /\ phone.mode = "abl" /\ phone.stage < Len(STAGES) - 1
    BY <1>0, <2>2 DEF AblGoesOn
  <2>3. ASSUME EntersFastboot
        PROVE  phone' = [mode |-> "fastboot", boot |-> phone.boot, stage |-> phone.stage] /\ phone.mode = "abl"
    BY <1>0, <2>3 DEF EntersFastboot
  <2>4. ASSUME PowerCut PROVE phone' = [mode |-> "off", boot |-> phone.boot, stage |-> 0]
    BY <1>0, <2>4 DEF PowerCut
  <2>5. CASE PowersOn \/ Panics
    BY <2>1, <2>5
  <2>6. CASE AblGoesOn
    BY <2>2, <2>6
  <2>7. CASE EntersFastboot
    BY <2>3, <2>7
  <2>8. CASE PowerCut
    BY <2>4, <2>8
  <2> QED BY <2>5, <2>6, <2>7, <2>8
<1>3. LogsTyped'
  <2>1. phone'.boot \in Nat /\ phone'.stage \in Nat /\ phone'.mode \in {"off", "abl", "fastboot", "twrp", "payload"}
    BY <1>0, <1>2
  <2>2. phone'.mode \in {"abl", "fastboot"} => phone'.stage \in 1..(Len(STAGES) - 1)
    BY <1>0, <1>2
  <2> QED BY <1>0, <1>1, <1>2, <2>1, <2>2 DEF LogsTyped
<1>4. SlotsInv'
  <2> DEFINE live == Live(logfs)
  <2>1. Live(logfs') = live
    BY <1>1
  <2>2. live \in Seq(Entry)
    BY <1>0, LiveFacts
  <2>3. Len(live) <= Slots /\ Whole(live) /\ Ascending(live) /\ UpTo(live, phone.boot, phone.mode)
    BY <1>0 DEF SlotsInv
  <2> HIDE DEF live
  <2>4. UpTo(live, phone'.boot, phone'.mode)
    <3>1. phone'.boot \in Nat
      BY <1>3 DEF LogsTyped
    <3>2. \/ phone'.boot = phone.boot + 1 /\ phone'.mode = "abl"
          \/ phone'.boot = phone.boot /\ phone'.mode = "off"
          \/ phone'.boot = phone.boot /\ phone.mode = "abl" /\ phone'.mode \in {"abl", "fastboot"}
      BY <1>2
    <3> QED BY <1>0, <2>2, <2>3, <3>1, <3>2, UpToMoves
  <2> QED BY <2>1, <2>3, <2>4 DEF SlotsInv
<1>5. PulledInOrder'
  BY <1>0, <1>1 DEF PulledInOrder
<1> QED BY <1>3, <1>4, <1>5 DEF LogsInv

(* A handover: the old slots are deleted, the new ones follow. *)
LEMMA HandsOverStep == ASSUME LogsInv, HandsOver PROVE LogsInv'
<1> DEFINE live == Live(logfs)
           n == Len(live)
           d == Dropped(live)
           log == LogOf(phone.boot, Len(STAGES))
           new == Rotated(live, log)
           gone == [i \in DOMAIN live |-> [live[i] EXCEPT !.deleted = TRUE]]
<1>0. /\ phone = [mode |-> phone.mode, boot |-> phone.boot, stage |-> phone.stage]
      /\ phone.boot \in Nat /\ phone.stage \in Nat /\ logfs \in Seq(Entry)
      /\ Len(STAGES) \in Nat /\ Len(STAGES) >= 2 /\ Slots \in Nat \ {0}
      /\ SlotsInv /\ PulledInOrder
  BY LogsAssumption, LenProperties DEF LogsInv, LogsTyped
<1>1. live \in Seq(Entry) /\ n \in Nat /\ DOMAIN live = 1..n
  BY <1>0, LiveFacts, LenProperties
<1>2. /\ phone.mode = "abl" /\ pulled' = pulled
      /\ \E os \in {"twrp", "payload"} : phone' = [phone EXCEPT !.mode = os, !.stage = Len(STAGES)]
      /\ logfs' = gone \o new
  BY DEF HandsOver
<1>3. /\ phone' = [mode |-> phone'.mode, boot |-> phone.boot, stage |-> Len(STAGES)]
      /\ phone'.mode \in {"twrp", "payload"} /\ phone'.boot = phone.boot /\ phone'.stage = Len(STAGES)
  BY <1>0, <1>2
<1>4. n <= Slots /\ Whole(live) /\ Ascending(live) /\ \A i \in 1..n : live[i].log.boot < phone.boot
  BY <1>0, <1>2 DEF SlotsInv, UpTo
<1>5. log \in Log /\ log.boot = phone.boot /\ log.reached = 1..Len(STAGES)
  BY <1>0 DEF Log, LogOf
<1> HIDE DEF live, n, log
<1>6. gone \in Seq(Entry) /\ \A i \in 1..Len(gone) : gone[i].deleted
  <2>1. \A i \in 1..n : live[i] \in Entry
    BY <1>1, ElementOfSeq DEF n
  <2>2. \A i \in 1..n : [live[i] EXCEPT !.deleted = TRUE] \in Entry /\ [live[i] EXCEPT !.deleted = TRUE].deleted
    BY <2>1 DEF Entry
  <2>3. gone = [i \in 1..n |-> [live[i] EXCEPT !.deleted = TRUE]]
    BY <1>1
  <2>4. gone \in [1..n -> Entry] /\ \A i \in 1..n : gone[i].deleted
    BY <2>2, <2>3
  <2>5. gone \in Seq(Entry) /\ Len(gone) = n
    BY <1>1, <2>3, <2>4
  <2> QED BY <2>4, <2>5
<1> DEFINE r == n + 1 - d
<1>7. /\ new \in Seq(Entry) /\ Len(new) = r /\ r <= Slots
      /\ \A i \in 1..r : new[i] = [name |-> r - i, deleted |-> FALSE,
                                   log |-> IF i = r THEN log ELSE live[i + d].log]
  BY <1>1, <1>4, <1>5, RotatedFacts DEF n
<1>8. d \in {0, 1} /\ (d = 1 => n >= 1) /\ r \in Nat \ {0}
  <2>1. d = IF n < Slots THEN 0 ELSE 1
    BY DEF Dropped, n
  <2> HIDE DEF d
  <2> QED BY <1>0, <1>1, <2>1
<1> HIDE DEF gone, new, d, r
<1>9. Live(logfs') = new
  <2>1. \A i \in 1..Len(new) : ~new[i].deleted
    BY <1>7
  <2> QED BY <1>2, <1>6, <1>7, <2>1, LiveOfJoin
<1>10. LogsTyped'
  <2>1. logfs' \in Seq(Entry)
    BY <1>2, <1>6, <1>7, ConcatProperties
  <2> QED BY <1>0, <1>3, <2>1 DEF LogsTyped
<1>11. /\ \A i \in 1..r : i # r => i + d \in 1..n /\ new[i].log = live[i + d].log
       /\ r \in 1..r /\ new[r].log = log
       /\ \A i \in 1..r : new[i].name = r - i
  <2>1. \A i \in 1..r : i # r => i + d \in 1..n
    BY <1>1, <1>8 DEF r
  <2>2. r \in 1..r
    BY <1>8
  <2> QED BY <1>7, <2>1, <2>2
<1>12. Whole(new)
  <2>1. ASSUME NEW i \in 1..r PROVE new[i].log.reached = 1..Len(STAGES)
    <3>1. CASE i = r
      BY <1>5, <1>11, <3>1
    <3>2. CASE i # r
      <4>1. i + d \in 1..n /\ new[i].log = live[i + d].log
        BY <1>11, <3>2
      <4> QED BY <1>4, <4>1 DEF Whole, n
    <3> QED BY <3>1, <3>2
  <2> QED BY <1>7, <1>11, <2>1 DEF Whole
<1>13. \A i \in 1..n : live[i].log.boot \in Nat
  <2>1. \A i \in 1..n : live[i] \in Entry
    BY <1>1, ElementOfSeq DEF n
  <2> QED BY <2>1 DEF Entry, Log
<1>14. Ascending(new)
  <2>1. ASSUME NEW i \in 1..r, NEW j \in 1..r, i < j PROVE new[i].log.boot < new[j].log.boot
    <3>1. i # r /\ i + d \in 1..n /\ new[i].log = live[i + d].log
      BY <1>8, <1>11, <2>1
    <3>2. CASE j = r
      BY <1>4, <1>5, <1>11, <3>1, <3>2
    <3>3. CASE j # r
      <4>1. j + d \in 1..n /\ new[j].log = live[j + d].log /\ i + d < j + d
        BY <1>8, <1>11, <2>1, <3>3
      <4> QED BY <1>4, <3>1, <4>1 DEF Ascending, n
    <3> QED BY <3>2, <3>3
  <2> QED BY <1>7, <2>1 DEF Ascending
<1>15. UpTo(new, phone'.boot, phone'.mode)
  <2>1. \A i \in 1..r : new[i].log.boot <= phone.boot
    <3>1. ASSUME NEW i \in 1..r, i # r PROVE new[i].log.boot <= phone.boot
      <4>1. i + d \in 1..n /\ new[i].log = live[i + d].log
        BY <1>11, <3>1
      <4>2. new[i].log.boot \in Nat /\ new[i].log.boot < phone.boot
        BY <1>4, <1>13, <4>1
      <4> QED BY <1>0, <4>2
    <3> QED BY <1>0, <1>5, <1>11, <3>1
  <2>2. Len(new) > 0 /\ new[Len(new)].log.boot = phone.boot
    BY <1>5, <1>7, <1>8, <1>11
  <2> QED BY <1>3, <1>7, <2>1, <2>2 DEF UpTo
<1>16. SlotsInv'
  BY <1>7, <1>9, <1>12, <1>14, <1>15 DEF SlotsInv
<1>17. PulledInOrder'
  BY <1>0, <1>2 DEF PulledInOrder
<1> QED BY <1>10, <1>16, <1>17 DEF LogsInv

-----------------------------------------------------------------------------
(* What is listed. *)
LEMMA SummariseFacts ==
    ASSUME NEW log, NEW k \in Nat \ {0}, log.reached = 1..k
    PROVE  Summarise(log) = [boot |-> log.boot, last |-> k, complete |-> k = Len(STAGES)]
<1>1. Max(1..k) = k
  BY MaxOfRun
<1> QED BY <1>1 DEF Summarise

(* Distinct names that fall: the i-th by name is the i-th from the end.    *)
LEMMA ItemsFacts ==
    ASSUME NEW s \in Seq(Entry), Whole(Live(s)), Len(STAGES) >= 2
    PROVE  LET n == Len(Live(s))
           IN  /\ Len(Items(s)) = n /\ DOMAIN Items(s) = 1..n
               /\ \A i \in 1..n : /\ n + 1 - i \in 1..n
                                  /\ Items(s)[i].boot = Live(s)[n + 1 - i].log.boot
                                  /\ Items(s)[i].complete
<1> DEFINE live == Live(s)
           n == Len(live)
           all == ToSet(live)
           Before(e) == {o \in all : o.name < e.name}
           E(i) == CHOOSE e \in all : Cardinality(Before(e)) = i - 1
<1>1. live \in Seq(Entry) /\ n \in Nat /\ DOMAIN live = 1..n
  BY LiveFacts, LenProperties
<1>2. \A i \in 1..n : live[i].name = n - i /\ live[i].log.reached = 1..Len(STAGES)
  BY DEF Whole
<1>3. Items(s) = [i \in 1..Cardinality(all) |-> Summarise(E(i).log)]
  BY ONLY Zenon DEF Items
<1>4. all = {live[i] : i \in 1..n}
  BY <1>1 DEF ToSet
<1> HIDE DEF live, n, all
<1>5. \A i, j \in 1..n : live[i] = live[j] => i = j
  BY <1>1, <1>2
<1>6. ASSUME NEW lo \in 1..(n + 1) PROVE Cardinality({live[i] : i \in lo..n}) = n + 1 - lo
  <2> DEFINE f == [i \in lo..n |-> live[i]]
             img == {live[i] : i \in lo..n}
  <2>1. \A i \in lo..n : i \in 1..n
    BY <1>1
  <2>2. f \in Bijection(lo..n, img)
    <3>1. f \in [lo..n -> img] /\ \A y \in img : \E i \in lo..n : f[i] = y
      OBVIOUS
    <3>2. \A i, j \in lo..n : f[i] = f[j] => i = j
      BY <1>5, <2>1
    <3> HIDE DEF f, img
    <3>3. f \in Injection(lo..n, img)
      BY ONLY <3>1, <3>2, Zenon DEF Injection, IsInjective
    <3>4. f \in Surjection(lo..n, img)
      BY ONLY <3>1, Zenon DEF Surjection
    <3> QED BY ONLY <3>3, <3>4, Zenon DEF Bijection
  <2> HIDE DEF f, img
  <2>3. lo \in Int /\ n \in Int
    BY <1>1
  <2>4. IsFiniteSet(lo..n) /\ Cardinality(lo..n) = IF lo > n THEN 0 ELSE n - lo + 1
    BY <2>3, FS_Interval
  <2>5. Cardinality(img) = Cardinality(lo..n)
    <3>1. ExistsBijection(lo..n, img)
      BY <2>2 DEF ExistsBijection
    <3> QED BY <2>4, <3>1, FS_Bijection
  <2> QED BY <1>1, <2>4, <2>5 DEF img
<1>7. Cardinality(all) = n
  <2>1. 1 \in 1..(n + 1) /\ n + 1 - 1 = n
    BY <1>1
  <2> QED BY <1>4, <1>6, <2>1
<1>8. ASSUME NEW k \in 1..n PROVE Cardinality(Before(live[k])) = n - k
  <2>1. Before(live[k]) = {live[i] : i \in (k + 1)..n}
    <3>1. \A i \in 1..n : live[i].name < live[k].name <=> i \in (k + 1)..n
      BY <1>1, <1>2
    <3>2. \A i \in (k + 1)..n : i \in 1..n
      BY <1>1
    <3> QED BY <1>4, <3>1, <3>2
  <2>2. k + 1 \in 1..(n + 1) /\ n + 1 - (k + 1) = n - k
    BY <1>1
  <2> HIDE DEF Before
  <2> QED BY <1>6, <2>1, <2>2
<1> HIDE DEF Before
<1>9. ASSUME NEW i \in 1..n PROVE n + 1 - i \in 1..n /\ E(i) = live[n + 1 - i]
  <2>1. n + 1 - i \in 1..n /\ n - (n + 1 - i) = i - 1
    BY <1>1
  <2>2. live[n + 1 - i] \in all /\ Cardinality(Before(live[n + 1 - i])) = i - 1
    BY <1>4, <1>8, <2>1
  <2>3. E(i) \in all /\ Cardinality(Before(E(i))) = i - 1
    BY <2>2
  <2> HIDE DEF E
  <2>4. PICK k \in 1..n : E(i) = live[k]
    BY <1>4, <2>3
  <2>5. n - k = i - 1
    BY <1>8, <2>3, <2>4
  <2>6. k = n + 1 - i
    BY <1>1, <2>5
  <2> QED BY <2>1, <2>4, <2>6
<1> HIDE DEF E
<1>10. Items(s) = [i \in 1..n |-> Summarise(E(i).log)]
  BY <1>3, <1>7, Zenon
<1>11. Len(STAGES) \in Nat \ {0}
  BY LogsAssumption, LenProperties
<1>12. ASSUME NEW i \in 1..n
       PROVE  Items(s)[i].boot = live[n + 1 - i].log.boot /\ Items(s)[i].complete
  <2> DEFINE k == n + 1 - i
  <2>1. k \in 1..n /\ Items(s)[i] = Summarise(live[k].log)
    BY <1>9, <1>10
  <2> HIDE DEF k
  <2>2. live[k].log.reached = 1..Len(STAGES)
    BY <1>2, <2>1
  <2>3. Summarise(live[k].log) = [boot |-> live[k].log.boot, last |-> Len(STAGES), complete |-> TRUE]
    BY <1>11, <2>2, SummariseFacts
  <2>4. Items(s)[i].boot = live[k].log.boot /\ Items(s)[i].complete
    <3>1. Items(s)[i] = [boot |-> live[k].log.boot, last |-> Len(STAGES), complete |-> TRUE]
      BY ONLY <2>1, <2>3, Zenon
    <3> HIDE DEF live
    <3> QED BY ONLY <3>1
  <2> QED BY <2>4 DEF k
<1>13. DOMAIN Items(s) = 1..n /\ Len(Items(s)) = n
  BY <1>1, <1>10
<1> QED BY <1>9, <1>12, <1>13 DEF n, live

-----------------------------------------------------------------------------
(* The pulls. *)
LEMMA PullsPartitionStep == ASSUME LogsInv, PullsPartition PROVE LogsInv'
<1> DEFINE live == Live(logfs)
           n == Len(live)
           q == Items(logfs)
<1>0. /\ phone.boot \in Nat /\ logfs \in Seq(Entry) /\ Len(STAGES) >= 2 /\ Slots \in Nat
      /\ LogsTyped /\ SlotsInv
  BY LogsAssumption DEF LogsInv, LogsTyped
<1>1. /\ phone.mode = "twrp" /\ UNCHANGED <<phone, logfs>>
      /\ pulled' = [route |-> "adb", at |-> phone.boot, items |-> q]
  BY DEF PullsPartition
<1>2. n \in Nat /\ n <= Slots /\ Whole(live) /\ Ascending(live) /\ n > 0 /\ live[n].log.boot = phone.boot
  BY <1>0, <1>1, LiveFacts, LenProperties DEF SlotsInv, UpTo
<1>3. /\ Len(q) = n /\ DOMAIN q = 1..n
      /\ \A i \in 1..n : /\ n + 1 - i \in 1..n
                         /\ q[i].boot = live[n + 1 - i].log.boot /\ q[i].complete
  BY <1>0, <1>2, ItemsFacts
<1>4. \A i \in 1..n : live[i].log.boot \in Nat
  <2>1. \A i \in 1..n : live[i] \in Entry
    BY <1>0, LiveFacts, ElementOfSeq
  <2> QED BY <2>1 DEF Entry, Log
<1>5. \A i, j \in 1..n : i < j => live[i].log.boot < live[j].log.boot
  BY <1>2 DEF Ascending
<1>6. pulled'.route = "adb" /\ pulled'.at = phone.boot /\ pulled'.items = q
  BY <1>1
<1> HIDE DEF q, n, live
<1>7. q # <<>> /\ q[1].boot = phone.boot
  <2>1. 1 \in 1..n /\ n + 1 - 1 = n
    BY <1>2
  <2>2. Len(q) # 0 /\ Len(<<>>) = 0
    BY <1>2, <1>3, EmptySeq
  <2>3. q # <<>>
    BY <2>2
  <2> QED BY <1>2, <1>3, <2>1, <2>3
<1>8. \A i \in DOMAIN q : q[i].complete
  BY <1>3
<1>9. ASSUME NEW i \in 1..(Len(q) - 1) PROVE q[i].boot > q[i + 1].boot
  <2>1. i \in 1..n /\ i + 1 \in 1..n /\ n + 1 - (i + 1) < n + 1 - i
    BY <1>2, <1>3
  <2>2. n + 1 - i \in 1..n /\ n + 1 - (i + 1) \in 1..n
    BY <1>3, <2>1
  <2>3. live[n + 1 - (i + 1)].log.boot < live[n + 1 - i].log.boot
    BY <1>5, <2>1, <2>2
  <2>4. q[i].boot = live[n + 1 - i].log.boot /\ q[i + 1].boot = live[n + 1 - (i + 1)].log.boot
    BY <1>3, <2>1
  <2>5. live[n + 1 - i].log.boot \in Nat /\ live[n + 1 - (i + 1)].log.boot \in Nat
    BY <1>4, <2>2
  <2>6. \A a \in Nat, b \in Nat : a < b => b > a
    OBVIOUS
  <2> QED BY ONLY <2>3, <2>4, <2>5, <2>6
<1>10. PulledInOrder'
  BY <1>2, <1>3, <1>6, <1>7, <1>8, <1>9 DEF PulledInOrder
<1>11. LogsTyped' /\ SlotsInv'
  BY <1>0, <1>1 DEF LogsTyped, SlotsInv
<1> QED BY <1>10, <1>11 DEF LogsInv

(* Over fastboot: one table, of a boot that has not handed over. *)
LEMMA PullsLiveStep == ASSUME LogsInv, PullsLive PROVE LogsInv'
<1> DEFINE k == phone.stage
           item == Summarise(LogOf(phone.boot, k))
<1>1. /\ phone.mode = "fastboot" /\ UNCHANGED <<phone, logfs>>
      /\ pulled' = [route |-> "fastboot", at |-> phone.boot, items |-> <<item>>]
  BY DEF PullsLive
<1>2. Len(STAGES) \in Nat /\ k \in Nat \ {0} /\ k # Len(STAGES)
  <2>1. k \in 1..(Len(STAGES) - 1) /\ Len(STAGES) \in Nat
    BY <1>1, LogsAssumption, LenProperties DEF LogsInv, LogsTyped
  <2> QED BY <2>1
<1>3. item = [boot |-> phone.boot, last |-> k, complete |-> k = Len(STAGES)]
  <2> DEFINE log == LogOf(phone.boot, k)
  <2>1. log.reached = 1..k /\ log.boot = phone.boot
    BY DEF LogOf
  <2> HIDE DEF log, k
  <2>2. Summarise(log) = [boot |-> log.boot, last |-> k, complete |-> k = Len(STAGES)]
    BY <1>2, <2>1, SummariseFacts
  <2> QED BY <2>1, <2>2 DEF log
<1>4. item = [boot |-> phone.boot, last |-> k, complete |-> FALSE]
  BY <1>2, <1>3
<1> HIDE DEF item, k
<1>5. item.boot = phone.boot /\ ~item.complete
  BY <1>4
<1>6. <<item>> \in Seq({item}) /\ Len(<<item>>) = 1 /\ <<item>>[1] = item
  OBVIOUS
<1>7. pulled'.route = "fastboot" /\ pulled'.at = phone.boot /\ pulled'.items = <<item>>
  BY <1>1
<1>8. PulledInOrder'
  BY <1>5, <1>6, <1>7 DEF PulledInOrder
<1>9. LogsTyped' /\ SlotsInv'
  BY <1>1 DEF LogsInv, LogsTyped, SlotsInv
<1> QED BY <1>8, <1>9 DEF LogsInv

(* The copy of the first day is no boot of this phone. *)
LEMMA PullsBackupStep == ASSUME LogsInv, PullsBackup PROVE LogsInv'
<1>1. UNCHANGED <<phone, logfs>> /\ pulled'.route = "backup"
  BY DEF PullsBackup
<1>2. PulledInOrder'
  BY <1>1 DEF PulledInOrder
<1>3. LogsTyped' /\ SlotsInv'
  BY <1>1 DEF LogsInv, LogsTyped, SlotsInv
<1> QED BY <1>2, <1>3 DEF LogsInv

(* The tools that are not about the logs leave them alone. *)
LEMMA LogsStep == ASSUME LogsInv, [Next]_vars PROVE LogsInv'
<1>1. CASE UNCHANGED logVars
  BY <1>1, LogsStay DEF logVars
<1>2. CASE UNCHANGED vars
  <2>1. UNCHANGED logVars
    BY <1>2 DEF vars
  <2> QED BY <1>1, <2>1
<1>3. CASE PowersOn \/ AblGoesOn \/ EntersFastboot \/ Panics \/ PowerCut
  BY <1>3, PhoneStep
<1>4. CASE HandsOver
  BY <1>4, HandsOverStep
<1>5. CASE InitReports
  <2>1. UNCHANGED <<phone, logfs, pulled>>
    BY <1>5 DEF InitReports
  <2> QED BY <2>1, LogsStay
<1>6. CASE PullsLive \/ PullsPartition \/ PullsBackup
  BY <1>6, PullsLiveStep, PullsPartitionStep, PullsBackupStep
<1>7. CASE WithDram \/ WithBackup \/ WithWatch
  <2>1. UNCHANGED logVars
    BY <1>7 DEF WithDram, WithBackup, WithWatch, Idle
  <2> QED BY <1>1, <2>1
<1> QED
  BY <1>2, <1>3, <1>4, <1>5, <1>6, <1>7 DEF Next

(* read-logfs.py's order: over adb the first table is the boot the recovery *)
(* was reached by and the others go back from it, complete; over fastboot  *)
(* there is one, that has not handed over (PulledInOrder).                 *)
THEOREM LogsAreInOrder == Spec => []PulledInOrder
<1>1. LogsInv => PulledInOrder
  BY DEF LogsInv
<1> QED
  BY <1>1, LogsStart, LogsStep, PTL DEF Spec

-----------------------------------------------------------------------------
(* The regions of a read. *)
LEMMA PairFacts ==
    ASSUME NEW a \in Int, NEW b \in Int
    PROVE  Max({a, b}) = (IF a >= b THEN a ELSE b) /\ Min({a, b}) = (IF a <= b THEN a ELSE b)
<1> DEFINE p == IF a >= b THEN a ELSE b
           q == IF a <= b THEN a ELSE b
<1>1. p \in {a, b} /\ \A y \in {a, b} : p >= y
  OBVIOUS
<1>2. q \in {a, b} /\ \A y \in {a, b} : q <= y
  OBVIOUS
<1>3. \A x \in {a, b} : (\A y \in {a, b} : x >= y) => x = p
  OBVIOUS
<1>4. \A x \in {a, b} : (\A y \in {a, b} : x <= y) => x = q
  OBVIOUS
<1> HIDE DEF p, q
<1>5. Max({a, b}) = p
  BY <1>1, <1>3 DEF Max
<1>6. Min({a, b}) = q
  BY <1>2, <1>4 DEF Min
<1> QED BY <1>5, <1>6 DEF p, q

(* What two stretches of bytes have in common. *)
LEMMA OverlapFacts ==
    ASSUME NEW row, row.base \in Nat, row.size \in Nat, NEW addr \in Nat, NEW size \in Nat,
           NEW both, both = Bytes(row.base, row.size) \cap Bytes(addr, size)
    PROVE  /\ Shared(row, addr, size) \in Int
           /\ Shared(row, addr, size) > 0 <=> both # {}
           /\ both # {} => Shared(row, addr, size) = Cardinality(both)
<1> DEFINE b == row.base
           e == row.base + row.size
           f == addr + size
           lo == Max({b, addr})
           hi == Min({e, f})
<1>1. b \in Int /\ e \in Int /\ f \in Int /\ addr \in Int
  OBVIOUS
<1>2. lo = (IF b >= addr THEN b ELSE addr) /\ hi = (IF e <= f THEN e ELSE f)
  <2> HIDE DEF b, e, f
  <2> QED BY <1>1, PairFacts
<1>3. Shared(row, addr, size) = hi - lo
  BY DEF Shared
<1>4. both = b..(e - 1) \cap addr..(f - 1)
  BY DEF Bytes
<1> HIDE DEF b, e, f, lo, hi
<1>5. both = lo..(hi - 1) /\ lo \in Int /\ hi \in Int
  BY <1>1, <1>2, <1>4
<1>6. hi - lo > 0 <=> both # {}
  <2>1. ASSUME hi - lo > 0 PROVE lo \in lo..(hi - 1)
    BY <1>5, <2>1
  <2>2. ASSUME both # {} PROVE hi - lo > 0
    BY <1>5, <2>2
  <2> QED BY <1>5, <2>1, <2>2
<1>7. both # {} => Cardinality(both) = hi - lo
  <2>1. hi - 1 \in Int
    BY <1>5
  <2>2. Cardinality(lo..(hi - 1)) = IF lo > hi - 1 THEN 0 ELSE (hi - 1) - lo + 1
    BY <1>5, <2>1, FS_Interval
  <2>3. hi - lo > 0 => Cardinality(lo..(hi - 1)) = hi - lo
    BY <1>5, <2>2
  <2> QED BY <1>5, <1>6, <2>3
<1>8. hi - lo \in Int
  BY <1>5
<1> QED BY <1>3, <1>6, <1>7, <1>8

Region(i, addr, size) == [label |-> MAP[i].label, bytes |-> Shared(MAP[i], addr, size)]
(* The regions of a range are picked from the rows. *)
LEMMA RegionsArePicked ==
    ASSUME NEW S, NEW addr, NEW size, \A k \in 1..Len(MAP) : Region(k, addr, size) \in S
    PROVE  PickedAs(RegionFor(addr, size), S, {k \in 1..Len(MAP) : Shared(MAP[k], addr, size) > 0},
                    [k \in 1..Len(MAP) |-> Region(k, addr, size)])
<1> DEFINE n == Len(MAP)
           T == {k \in 1..n : Shared(MAP[k], addr, size) > 0}
           H == [k \in 1..n |-> Region(k, addr, size)]
           P(it) == it = [u \in SUBSET DOMAIN MAP |->
                            IF u = {} THEN <<>>
                            ELSE IF Shared(MAP[Max(u)], addr, size) > 0
                              THEN Append(it[u \ {Max(u)}],
                                          [label |-> MAP[Max(u)].label, bytes |-> Shared(MAP[Max(u)], addr, size)])
                              ELSE it[u \ {Max(u)}]]
<1>1. n \in Nat /\ DOMAIN MAP = 1..n
  BY DramAssumption, LenProperties
<1>2. RegionFor(addr, size) = (CHOOSE it : P(it))[DOMAIN MAP]
  BY ONLY Zenon DEF RegionFor, FoldLeft, MapThenFoldSet
<1> HIDE DEF n
<1>3. ASSUME NEW u \in SUBSET (1..n), u # {}
      PROVE  /\ Max(u) \in 1..n /\ (Max(u) \in T <=> Shared(MAP[Max(u)], addr, size) > 0)
             /\ H[Max(u)] = [label |-> MAP[Max(u)].label, bytes |-> Shared(MAP[Max(u)], addr, size)]
  <2>1. Max(u) \in 1..n
    BY <1>1, <1>3, MaxOf
  <2> QED BY <2>1 DEF Region
<1>4. T \in SUBSET (1..n) /\ H \in [1..n -> S]
  BY DEF n
<1> HIDE DEF T, H
<1>5. ASSUME NEW it PROVE P(it) <=> PickRule(it, n, T, H)
  <2>1. \A u \in SUBSET (1..n) :
          (IF u = {} THEN <<>>
           ELSE IF Shared(MAP[Max(u)], addr, size) > 0
             THEN Append(it[u \ {Max(u)}],
                         [label |-> MAP[Max(u)].label, bytes |-> Shared(MAP[Max(u)], addr, size)])
             ELSE it[u \ {Max(u)}])
          = (IF u = {} THEN <<>> ELSE IF Max(u) \in T THEN Append(it[u \ {Max(u)}], H[Max(u)])
                                      ELSE it[u \ {Max(u)}])
    BY <1>3
  <2> QED BY <1>1, <2>1 DEF PickRule
<1> DEFINE it == CHOOSE it : P(it)
<1>6. PickRule(it, n, T, H)
  <2>1. \E f : PickRule(f, n, T, H)
    BY <1>1, <1>4, PickGraph
  <2>2. \E f : P(f)
    BY <1>5, <2>1
  <2> HIDE DEF P
  <2>3. P(it)
    BY <2>2
  <2> QED BY <1>5, <2>3
<1> HIDE DEF it
<1>7. PickedAs(it[1..n], S, T, H)
  BY <1>1, <1>4, <1>6, PickRuleFacts
<1> QED BY <1>1, <1>2, <1>7, Zenon DEF T, H, n, it

(* What is picked, as a set. *)
LEMMA PickedSet ==
    ASSUME NEW v, NEW S, NEW U, NEW H, PickedAs(v, S, U, H)
    PROVE  ToSet(v) = {H[u] : u \in U}
<1>1. v \in Seq(S) /\ DOMAIN v = 1..Len(v)
  BY LenProperties DEF PickedAs
<1>2. PICK at \in [1..Len(v) -> U] :
          /\ \A i \in 1..Len(v) : v[i] = H[at[i]]
          /\ \A u \in U : \E i \in 1..Len(v) : at[i] = u
  BY DEF PickedAs
<1> DEFINE n == Len(v)
<1>3. DOMAIN v = 1..n /\ at \in [1..n -> U] /\ \A i \in 1..n : v[i] = H[at[i]]
  BY <1>1, <1>2
<1>4. \A u \in U : \E i \in 1..n : at[i] = u
  BY <1>2
<1> HIDE DEF n
<1>5. ASSUME NEW x \in ToSet(v) PROVE x \in {H[u] : u \in U}
  <2>1. PICK i \in 1..n : x = v[i]
    BY <1>3 DEF ToSet
  <2>2. at[i] \in U /\ x = H[at[i]]
    BY <1>3, <2>1
  <2> QED BY <2>2
<1>6. \A x \in {H[u] : u \in U} : x \in ToSet(v)
  BY <1>3, <1>4 DEF ToSet
<1> QED BY <1>5, <1>6

(* A label is that of a row the address is in (label_for). *)
LEMMA FirstRow ==
    ASSUME NEW addr, LabelFor(addr) # "none"
    PROVE  \E i \in 1..Len(MAP) : /\ MAP[i].label = LabelFor(addr)
                                  /\ MAP[i].base <= addr /\ addr < MAP[i].base + MAP[i].size
<1> DEFINE I == {i \in 1..Len(MAP) : MAP[i].base <= addr /\ addr < MAP[i].base + MAP[i].size}
           j == IF I # {} THEN Min(I) ELSE 0
<1>1. LabelFor(addr) = IF j = 0 THEN "none" ELSE MAP[j].label
  BY DEF LabelFor, SelectInSeq
<1>2. Len(MAP) \in Nat
  BY DramAssumption, LenProperties
<1>3. I # {} /\ j = Min(I) /\ LabelFor(addr) = MAP[j].label
  <2> HIDE DEF I
  <2> QED BY <1>1
<1>4. \E i \in I : \A k \in I : i <= k
  <2>1. I \in SUBSET Nat
    OBVIOUS
  <2>2. PICK x \in I : TRUE
    BY <1>3
  <2> HIDE DEF I
  <2> QED BY <2>1, <2>2, LeastOfNaturals
<1>5. j \in I
  <2> HIDE DEF I
  <2> QED BY <1>3, <1>4 DEF Min
<1> QED BY <1>3, <1>5

(* Whatever range is read, its regions add up. *)
LEMMA RegionsTell == ASSUME read.addr \in Nat, read.size \in Nat PROVE RegionsAddUp
<1> DEFINE addr == read.addr
           size == read.size
           n == Len(MAP)
           T == {k \in 1..n : Shared(MAP[k], addr, size) > 0}
           H == [k \in 1..n |-> Region(k, addr, size)]
           over == {i \in DOMAIN MAP : Taken(i) # {}}
           parts == RegionFor(addr, size)
           S == [label : STRING, bytes : Int]
<1>1. addr \in Nat /\ size \in Nat
  OBVIOUS
<1>2. /\ n \in Nat /\ DOMAIN MAP = 1..n
      /\ \A i \in 1..n : MAP[i].base \in Nat /\ MAP[i].size \in Nat /\ MAP[i].label \in STRING
  <2>1. n \in Nat /\ DOMAIN MAP = 1..n
    BY DramAssumption, LenProperties
  <2>2. \A i \in 1..n : MAP[i] \in [base : Nat, size : Nat, label : STRING]
    BY DramAssumption, ElementOfSeq
  <2> QED BY <2>1, <2>2
<1> HIDE DEF addr, size, n
<1>3. ASSUME NEW i \in 1..n
      PROVE  /\ Shared(MAP[i], addr, size) \in Int
             /\ Shared(MAP[i], addr, size) > 0 <=> Taken(i) # {}
             /\ Taken(i) # {} => Shared(MAP[i], addr, size) = Cardinality(Taken(i))
  <2>1. Taken(i) = Bytes(MAP[i].base, MAP[i].size) \cap Bytes(addr, size)
    BY DEF Taken, addr, size
  <2> DEFINE row == MAP[i]
  <2>2. row.base \in Nat /\ row.size \in Nat /\ Taken(i) = Bytes(row.base, row.size) \cap Bytes(addr, size)
    BY <1>2, <2>1
  <2> HIDE DEF row
  <2>3. /\ Shared(row, addr, size) \in Int
        /\ Shared(row, addr, size) > 0 <=> Taken(i) # {}
        /\ Taken(i) # {} => Shared(row, addr, size) = Cardinality(Taken(i))
    BY ONLY <1>1, <2>2, OverlapFacts
  <2> QED BY <2>3 DEF row
<1>4. T = over
  BY <1>2, <1>3
<1>5. PickedAs(parts, S, T, H)
  <2>1. \A k \in 1..n : Region(k, addr, size) \in S
    BY <1>2, <1>3 DEF Region
  <2> HIDE DEF S
  <2> QED BY <2>1, RegionsArePicked DEF n
<1>6. \A i \in over : H[i] = [label |-> MAP[i].label, bytes |-> Cardinality(Taken(i))]
  BY <1>2, <1>3 DEF Region
<1> HIDE DEF T, H, parts, S
<1>7. ToSet(parts) = {[label |-> MAP[i].label, bytes |-> Cardinality(Taken(i))] : i \in over}
  <2>1. ToSet(parts) = {H[i] : i \in T}
    BY <1>5, PickedSet
  <2> HIDE DEF over
  <2> QED BY <1>4, <1>6, <2>1
<1>8. Len(parts) = Cardinality(over)
  BY <1>4, <1>5 DEF PickedAs
<1>9. ASSUME size > 0, LabelFor(addr) # "none" PROVE \E i \in DOMAIN parts : parts[i].label = LabelFor(addr)
  <2>1. PICK i \in 1..n : /\ MAP[i].label = LabelFor(addr)
                          /\ MAP[i].base <= addr /\ addr < MAP[i].base + MAP[i].size
    BY <1>9, FirstRow DEF n
  <2>2. addr \in Taken(i)
    <3>1. addr \in Bytes(MAP[i].base, MAP[i].size)
      BY <1>1, <1>2, <2>1 DEF Bytes
    <3>2. addr \in Bytes(addr, size)
      BY <1>1, <1>9 DEF Bytes
    <3> QED BY <3>1, <3>2 DEF Taken, addr, size
  <2>3. i \in over
    BY <1>2, <2>2
  <2>4. PICK p \in ToSet(parts) : p = [label |-> MAP[i].label, bytes |-> Cardinality(Taken(i))]
    BY <1>7, <2>3
  <2>5. p.label = LabelFor(addr)
    BY <2>1, <2>4
  <2> QED BY <2>5 DEF ToSet
<1> QED BY <1>7, <1>8, <1>9 DEF RegionsAddUp, addr, size, parts

-----------------------------------------------------------------------------
(* The backup. *)
Parts(l) == {l.parts[i] : i \in 1..Len(l.parts)}
PartType(l) == [name : STRING, first : Nat, last : 0..l.last]

(* What the tables of a LUN are taken to be. *)
LEMMA LunFacts ==
    ASSUME NEW l \in LUNS
    PROVE  /\ l.ss \in {1, 4, 8} /\ l.last \in Nat \ {0} /\ l.num \in Nat
           /\ l.parts \in Seq(PartType(l)) /\ Len(l.parts) \in Nat /\ DOMAIN l.parts = 1..Len(l.parts)
           /\ 2 * l.ss + l.num <= (l.last + 1) * l.ss
           /\ ToSet(l.parts) = Parts(l) /\ Parts(l) \subseteq PartType(l)
           /\ \A p \in Parts(l), q \in Parts(l) : p.name = q.name => p = q
           /\ PartNames(l) = {p.name : p \in Parts(l)}
           /\ \A p \in Parts(l) : p.name \notin DOMAIN NAMED
<1> DEFINE n == Len(l.parts)
<1>1. /\ l.ss \in {1, 4, 8} /\ l.last \in Nat \ {0} /\ l.num \in Nat
      /\ l.parts \in Seq(PartType(l)) /\ 2 * l.ss + l.num <= (l.last + 1) * l.ss
  BY BackupAssumption DEF PartType
<1>2. /\ \A i, j \in DOMAIN l.parts : l.parts[i].name = l.parts[j].name => i = j
      /\ \A i \in DOMAIN l.parts : l.parts[i].name \notin DOMAIN NAMED
  BY BackupAssumption
<1>3. n \in Nat /\ DOMAIN l.parts = 1..n
  BY <1>1, LenProperties
<1>4. \A i \in 1..n : l.parts[i] \in PartType(l)
  BY <1>1, ElementOfSeq
<1>5. ToSet(l.parts) = Parts(l) /\ PartNames(l) = {l.parts[i].name : i \in 1..n}
  BY <1>3 DEF ToSet, Parts, PartNames
<1> HIDE DEF n
<1>6. \A p \in Parts(l) : \E i \in 1..n : p = l.parts[i]
  BY DEF Parts, n
<1>7. \A i \in 1..n : l.parts[i] \in Parts(l)
  BY DEF Parts, n
<1>8. Parts(l) \subseteq PartType(l)
  BY <1>4, <1>6
<1>9. \A p \in Parts(l), q \in Parts(l) : p.name = q.name => p = q
  BY <1>2, <1>3, <1>6
<1>10. PartNames(l) = {p.name : p \in Parts(l)}
  BY <1>5, <1>6, <1>7
<1>11. \A p \in Parts(l) : p.name \notin DOMAIN NAMED
  BY <1>2, <1>3, <1>6
<1> QED BY <1>1, <1>3, <1>5, <1>8, <1>9, <1>10, <1>11 DEF n

(* A header that tells its own place is found with the LUN's sector. *)
LEMMA HeaderFacts ==
    ASSUME NEW l \in LUNS, NEW h \in Headers(l)
    PROVE  /\ h.lba \in Nat \ {0}
           /\ h.entries * l.ss + l.num <= LunSize(l)
           /\ EntriesAt(l, h.entries * l.ss) = l.parts
<1> DEFINE ss == l.ss
           last == l.last
           num == l.num
<1>1. ss \in {1, 4, 8} /\ last \in Nat \ {0} /\ num \in Nat /\ 2 * ss + num <= (last + 1) * ss
  BY LunFacts
<1>2. /\ h = [lba |-> 1, entries |-> 2] \/ h = [lba |-> last, entries |-> last - num \div ss]
      /\ LunSize(l) = (last + 1) * ss
  BY DEF Headers, LunSize
<1>3. EntriesAt(l, h.entries * ss) = l.parts
  BY DEF EntriesAt
<1> HIDE DEF ss, last, num
<1>4. CASE h = [lba |-> 1, entries |-> 2]
  <2>1. h.lba = 1 /\ h.entries = 2
    BY <1>4
  <2>2. h.lba \in Nat \ {0} /\ h.entries * ss + num <= (last + 1) * ss
    BY <1>1, <2>1
  <2> QED BY <1>2, <1>3, <2>2 DEF ss, num
<1>5. CASE h = [lba |-> last, entries |-> last - num \div ss]
  <2>1. h.lba = last /\ h.entries = last - num \div ss
    BY <1>5
  <2>2. (last - num \div ss) * ss + num <= (last + 1) * ss
    <3>1. CASE ss = 1
      BY <1>1, <3>1
    <3>2. CASE ss = 4
      BY <1>1, <3>2
    <3>3. CASE ss = 8
      BY <1>1, <3>3
    <3> QED BY <1>1, <3>1, <3>2, <3>3
  <2>3. h.lba \in Nat \ {0}
    BY <1>1, <2>1
  <2> QED BY <1>2, <1>3, <2>1, <2>2, <2>3 DEF ss, num
<1> QED BY <1>2, <1>4, <1>5

(* The places find_gpt looks at; the header of sector 1 is one of them. *)
LEMMA TriedFacts ==
    /\ Len(Tried) = 24
    /\ \A i \in 1..24 : Tried[i].ss \in {1, 4, 8} /\ Tried[i].lba \in Nat \ {0}
    /\ Tried[1] = [ss |-> 8, lba |-> 1] /\ Tried[9] = [ss |-> 1, lba |-> 1]
    /\ Tried[17] = [ss |-> 4, lba |-> 1]
<1>1. Tried \in Seq({Tried[i] : i \in 1..24}) /\ Len(Tried) = 24
  BY DEF Tried
<1>2. ASSUME NEW i \in 1..24
      PROVE  /\ (i - 1) \div 8 \in 0..2 /\ (i - 1) % 8 \in 0..7
             /\ Tried[i] = [ss  |-> <<8, 1, 4>>[((i - 1) \div 8) + 1],
                            lba |-> <<1, 2, 4, 8, 16, 32, 64, 128>>[((i - 1) % 8) + 1]]
  BY DEF Tried
<1>3. ASSUME NEW a \in 0..2 PROVE <<8, 1, 4>>[a + 1] \in {1, 4, 8}
  <2>1. a = 0 \/ a = 1 \/ a = 2
    OBVIOUS
  <2> QED BY <2>1
<1>4. ASSUME NEW a \in 0..7 PROVE <<1, 2, 4, 8, 16, 32, 64, 128>>[a + 1] \in Nat \ {0}
  <2>1. a = 0 \/ a = 1 \/ a = 2 \/ a = 3 \/ a = 4 \/ a = 5 \/ a = 6 \/ a = 7
    OBVIOUS
  <2> QED BY <2>1
<1>5. \A i \in 1..24 : Tried[i].ss \in {1, 4, 8} /\ Tried[i].lba \in Nat \ {0}
  BY <1>2, <1>3, <1>4
<1>6. Tried[1] = [ss |-> 8, lba |-> 1]
  BY DEF Tried
<1>7. Tried[9] = [ss |-> 1, lba |-> 1]
  BY DEF Tried
<1>8. Tried[17] = [ss |-> 4, lba |-> 1]
  BY DEF Tried
<1> QED BY <1>1, <1>5, <1>6, <1>7, <1>8

(* The search for a table: what is accepted has the LUN's sector.          *)
AcceptedAt(l, len) == {i \in 1..24 : Accepts(l, len, Tried[i])}

LEMMA AcceptedFacts ==
    ASSUME NEW l \in LUNS, NEW len, NEW i \in AcceptedAt(l, len)
    PROVE  /\ Tried[i].ss = l.ss
           /\ HeaderIn(l, len, Tried[i].lba * Tried[i].ss) # {}
           /\ HeaderIn(l, len, Tried[i].lba * Tried[i].ss) \subseteq Headers(l)
<1> DEFINE t == Tried[i]
<1>1. i \in 1..24 /\ Accepts(l, len, t)
  BY DEF AcceptedAt
<1>2. t.ss \in {1, 4, 8} /\ t.lba \in Nat \ {0} /\ l.ss \in {1, 4, 8}
  BY <1>1, TriedFacts, LunFacts
<1> HIDE DEF t
<1>3. PICK h \in HeaderIn(l, len, t.lba * t.ss) : h.lba = t.lba
  BY <1>1 DEF Accepts
<1>4. h.lba * l.ss = t.lba * t.ss
  BY <1>3 DEF HeaderIn
<1> DEFINE a == t.lba
           x == t.ss
           y == l.ss
<1>5. a * y = a * x /\ a \in Nat \ {0} /\ x \in {1, 4, 8} /\ y \in {1, 4, 8}
  BY <1>2, <1>3, <1>4
<1> HIDE DEF a, x, y
<1>6. x = y
  BY <1>5
<1>7. HeaderIn(l, len, t.lba * t.ss) \subseteq Headers(l)
  BY DEF HeaderIn
<1> QED BY <1>3, <1>6, <1>7 DEF x, y, t

(* find_gpt finds nothing, or the sector and a header of the LUN. *)
LEMMA FindFacts ==
    ASSUME NEW l \in LUNS, NEW len
    PROVE  /\ AcceptedAt(l, len) = {} => FindGpt(l, len).ss = 0
           /\ AcceptedAt(l, len) # {} =>
                 FindGpt(l, len).ss = l.ss /\ \E h \in Headers(l) : FindGpt(l, len).entries = h.entries
<1> DEFINE I == AcceptedAt(l, len)
           j == IF I # {} THEN Min(I) ELSE 0
           In(i) == HeaderIn(l, len, Tried[i].lba * Tried[i].ss)
<1>1. FindGpt(l, len) = IF j = 0 THEN [ss |-> 0, entries |-> 0]
                        ELSE [ss |-> Tried[j].ss, entries |-> (CHOOSE h \in In(j) : TRUE).entries]
  <2>1. Len(Tried) = 24
    BY TriedFacts
  <2> QED BY <2>1, Zenon DEF FindGpt, SelectInSeq, AcceptedAt
<1>2. I \subseteq 1..24
  BY DEF AcceptedAt
<1> HIDE DEF I, In
<1>3. CASE I = {}
  <2>1. j = 0
    BY <1>3
  <2> HIDE DEF j
  <2>2. FindGpt(l, len) = [ss |-> 0, entries |-> 0]
    BY ONLY <1>1, <2>1, Zenon
  <2> QED BY <1>3, <2>2 DEF I
<1>4. CASE I # {}
  <2>1. \E i \in I : \A k \in I : i <= k
    <3>1. I \in SUBSET Nat
      BY <1>2
    <3>2. PICK x \in I : TRUE
      BY <1>4
    <3> QED BY <3>1, <3>2, LeastOfNaturals
  <2>2. j \in I
    BY <1>4, <2>1 DEF Min
  <2>3. j # 0
    BY <1>2, <2>2
  <2> HIDE DEF j
  <2>4. Tried[j].ss = l.ss /\ In(j) # {} /\ In(j) \subseteq Headers(l)
    BY <2>2, AcceptedFacts DEF I, In
  <2> DEFINE h == CHOOSE h \in In(j) : TRUE
  <2>5. h \in Headers(l)
    BY <2>4
  <2> HIDE DEF h
  <2>6. FindGpt(l, len) = [ss |-> l.ss, entries |-> h.entries]
    BY <1>1, <2>3, <2>4 DEF h
  <2>7. FindGpt(l, len).ss = l.ss /\ FindGpt(l, len).entries = h.entries
    BY <2>6
  <2> QED BY <1>4, <2>5, <2>7 DEF I
<1> QED BY <1>3, <1>4

-----------------------------------------------------------------------------
(* Its table: nothing, or of the partitions those that are not passed over. *)
Passed(p, ss, len) == p.first > p.last \/ p.last * ss >= len + ss
PartsFrom(parts, ss, len) ==
    FoldLeft(LAMBDA out, p :
                IF p.first > p.last \/ p.last * ss >= len + ss THEN out ELSE Append(out, p),
             <<>>, parts)

(* What parse_gpt lists is picked from the entries. *)
LEMMA PartsArePicked ==
    ASSUME NEW S, NEW s \in Seq(S), NEW ss, NEW len
    PROVE  PickedAs(PartsFrom(s, ss, len), S, {k \in 1..Len(s) : ~Passed(s[k], ss, len)}, s)
<1> DEFINE n == Len(s)
           T == {k \in 1..n : ~Passed(s[k], ss, len)}
           P(it) == it = [u \in SUBSET DOMAIN s |->
                            IF u = {} THEN <<>>
                            ELSE IF s[Max(u)].first > s[Max(u)].last \/ s[Max(u)].last * ss >= len + ss
                              THEN it[u \ {Max(u)}]
                              ELSE Append(it[u \ {Max(u)}], s[Max(u)])]
<1>1. n \in Nat /\ DOMAIN s = 1..n /\ s \in [1..n -> S]
  BY LenProperties
<1>2. PartsFrom(s, ss, len) = (CHOOSE it : P(it))[DOMAIN s]
  BY ONLY Zenon DEF PartsFrom, FoldLeft, MapThenFoldSet
<1> HIDE DEF n
<1>3. ASSUME NEW u \in SUBSET (1..n), u # {}
      PROVE  Max(u) \in T <=> ~(s[Max(u)].first > s[Max(u)].last \/ s[Max(u)].last * ss >= len + ss)
  <2>1. Max(u) \in 1..n
    BY <1>1, <1>3, MaxOf
  <2> QED BY <2>1 DEF Passed
<1>4. T \in SUBSET (1..n)
  OBVIOUS
<1> HIDE DEF T
<1>5. ASSUME NEW it PROVE P(it) <=> PickRule(it, n, T, s)
  <2>1. \A u \in SUBSET (1..n) :
          (IF u = {} THEN <<>>
           ELSE IF s[Max(u)].first > s[Max(u)].last \/ s[Max(u)].last * ss >= len + ss
             THEN it[u \ {Max(u)}] ELSE Append(it[u \ {Max(u)}], s[Max(u)]))
          = (IF u = {} THEN <<>> ELSE IF Max(u) \in T THEN Append(it[u \ {Max(u)}], s[Max(u)])
                                      ELSE it[u \ {Max(u)}])
    BY <1>3
  <2> QED BY <1>1, <2>1 DEF PickRule
<1> DEFINE it == CHOOSE it : P(it)
<1>6. PickRule(it, n, T, s)
  <2>1. \E f : PickRule(f, n, T, s)
    BY <1>1, <1>4, PickGraph
  <2>2. \E f : P(f)
    BY <1>5, <2>1
  <2> HIDE DEF P
  <2>3. P(it)
    BY <2>2
  <2> QED BY <1>5, <2>3
<1> HIDE DEF it
<1>7. PickedAs(it[1..n], S, T, s)
  BY <1>1, <1>4, <1>6, PickRuleFacts
<1> QED BY <1>1, <1>2, <1>7, Zenon DEF T, n, it

(* parse_gpt tells nothing, or the sector and the partitions of the LUN. *)
LEMMA ParseFacts ==
    ASSUME NEW l \in LUNS, NEW len
    PROVE  LET table == ParseGpt(l, len)
           IN  \/ table = [ss |-> 0, parts |-> <<>>]
               \/ table = [ss |-> l.ss, parts |-> PartsFrom(l.parts, l.ss, len)]
<1> DEFINE g == FindGpt(l, len)
<1>1. \/ ParseGpt(l, len) = [ss |-> 0, parts |-> <<>>]
      \/ /\ g.ss # 0
         /\ ParseGpt(l, len) = [ss |-> g.ss, parts |-> PartsFrom(EntriesAt(l, g.entries * g.ss), g.ss, len)]
  BY Zenon DEF ParseGpt, PartsFrom
<1> HIDE DEF g
<1>2. ASSUME g.ss # 0 PROVE g.ss = l.ss /\ EntriesAt(l, g.entries * g.ss) = l.parts
  <2>1. g.ss = l.ss /\ \E h \in Headers(l) : g.entries = h.entries
    BY <1>2, FindFacts DEF g
  <2> QED BY <2>1, HeaderFacts
<1> QED BY <1>1, <1>2

(* A whole image is never told nothing of. *)
LEMMA WholeImage ==
    ASSUME NEW l \in LUNS
    PROVE  LET table == ParseGpt(l, LunSize(l))
           IN  table = [ss |-> l.ss, parts |-> PartsFrom(l.parts, l.ss, LunSize(l))]
<1> DEFINE len == LunSize(l)
           g == FindGpt(l, len)
<1>1. l.ss \in {1, 4, 8} /\ l.last \in Nat \ {0} /\ len = (l.last + 1) * l.ss
  BY LunFacts DEF LunSize
<1> HIDE DEF len
<1>2. AcceptedAt(l, len) # {}
  <2>1. PICK i \in 1..24 : Tried[i] = [ss |-> l.ss, lba |-> 1]
    BY <1>1, TriedFacts
  <2> DEFINE h == [lba |-> 1, entries |-> 2]
  <2>2. h \in Headers(l) /\ h.lba = 1
    BY DEF Headers
  <2>3. 1 * l.ss = l.ss /\ l.ss < len
    BY <1>1
  <2>4. Tried[i].lba = 1 /\ Tried[i].ss = l.ss
    BY <2>1
  <2> HIDE DEF h
  <2>5. Accepts(l, len, Tried[i])
    <3>1. Tried[i].lba * Tried[i].ss = l.ss /\ h.lba * l.ss = l.ss
      BY <2>2, <2>3, <2>4
    <3>2. h \in HeaderIn(l, len, Tried[i].lba * Tried[i].ss)
      BY <2>2, <2>3, <3>1 DEF HeaderIn
    <3> QED BY <2>2, <2>4, <3>2 DEF Accepts
  <2> QED BY <2>5 DEF AcceptedAt
<1>3. PICK h \in Headers(l) : g.ss = l.ss /\ g.entries = h.entries
  BY <1>2, FindFacts
<1> HIDE DEF g
<1>4. /\ g.ss # 0 /\ EntriesAt(l, g.entries * g.ss) = l.parts
      /\ g.entries * g.ss + l.num <= len
  BY <1>1, <1>3, HeaderFacts DEF len
<1>5. ~(g.entries * g.ss + l.num > len)
  <2>1. g.entries * g.ss + l.num \in Int /\ len \in Int
    <3>1. l.num \in Nat /\ g.entries \in Int
      <4>1. h.entries \in Int
        <5> DEFINE ss == l.ss
                   last == l.last
                   num == l.num
        <5>1. ss \in {1, 4, 8} /\ last \in Nat /\ num \in Nat
          BY LunFacts
        <5>2. h.entries = 2 \/ h.entries = last - num \div ss
          BY DEF Headers
        <5> HIDE DEF ss, last, num
        <5>3. num \div ss \in Int
          BY <5>1
        <5> QED BY <5>1, <5>2, <5>3
      <4> QED BY <1>3, <4>1, LunFacts
    <3> QED BY <1>1, <1>3, <3>1
  <2> DEFINE a == g.entries * g.ss + l.num
  <2>2. a \in Int /\ len \in Int /\ a <= len
    BY <1>4, <2>1
  <2> HIDE DEF a
  <2>3. ~(a > len)
    BY <2>2
  <2> QED BY <2>3 DEF a
<1>6. ParseGpt(l, len) = [ss |-> g.ss, parts |-> PartsFrom(EntriesAt(l, g.entries * g.ss), g.ss, len)]
  BY <1>4, <1>5, Zenon DEF ParseGpt, PartsFrom, g
<1> QED BY <1>3, <1>4, <1>6 DEF len

-----------------------------------------------------------------------------
(* The files: a partition that is there is the partition. *)
Names(l) == PartNames(l) \cup DOMAIN NAMED
WholeFile(p, ss) == [lo |-> p.first * ss, hi |-> (p.last + 1) * ss]
Good(l) ==
    {fs \in [Names(l) -> [lo : Nat, hi : Nat]] :
        \A p \in Parts(l) : fs[p.name] = NoFile \/ fs[p.name] = WholeFile(p, l.ss)}

BackupInv == lun \in LUNS /\ files \in Good(lun)

(* One partition carved: it stays as it was or is the partition. *)
LEMMA CarvedFacts ==
    ASSUME NEW l \in LUNS, NEW fs \in Good(l), NEW p \in Parts(l), NEW len, NEW force
    PROVE  Carved(fs, p, l.ss, len, force) \in Good(l)
<1> DEFINE w == WholeFile(p, l.ss)
           gs == [fs EXCEPT ![p.name] = w]
<1>1. Carved(fs, p, l.ss, len, force) \in {fs, gs}
  BY DEF Carved, WholeFile
<1>2. p.name \in Names(l) /\ p.first \in Nat /\ p.last \in Nat /\ l.ss \in Nat
  <2>1. p \in PartType(l) /\ l.last \in Nat /\ l.ss \in {1, 4, 8} /\ p.name \in PartNames(l)
    BY LunFacts
  <2> QED BY <2>1 DEF PartType, Names
<1>3. w \in [lo : Nat, hi : Nat]
  <2>1. p.first * l.ss \in Nat /\ (p.last + 1) * l.ss \in Nat
    BY <1>2
  <2> QED BY <2>1 DEF WholeFile
<1>4. fs \in [Names(l) -> [lo : Nat, hi : Nat]]
  BY DEF Good
<1>5. \A q \in Parts(l) : fs[q.name] = NoFile \/ fs[q.name] = WholeFile(q, l.ss)
  BY DEF Good
<1> HIDE DEF w
<1>6. gs \in [Names(l) -> [lo : Nat, hi : Nat]]
  BY <1>2, <1>3, <1>4
<1>7. ASSUME NEW q \in Parts(l) PROVE gs[q.name] = NoFile \/ gs[q.name] = WholeFile(q, l.ss)
  <2>1. q.name \in Names(l)
    BY LunFacts DEF Names
  <2>2. CASE q.name = p.name
    <3>1. q = p
      BY <2>2, LunFacts
    <3>2. gs[q.name] = w
      BY <1>4, <2>1, <2>2
    <3> QED BY <3>1, <3>2 DEF w
  <2>3. CASE q.name # p.name
    <3>1. gs[q.name] = fs[q.name]
      BY <1>4, <2>1, <2>3
    <3> QED BY <1>5, <3>1
  <2> QED BY <2>2, <2>3
<1>8. gs \in Good(l)
  BY <1>6, <1>7 DEF Good
<1> QED BY <1>1, <1>8

(* carve, over a whole table. *)
CarvedAll(fs, s, ss, len, force) == FoldLeft(LAMBDA a, p : Carved(a, p, ss, len, force), fs, s)
LEMMA CarvedAllFacts ==
    ASSUME NEW l \in LUNS, NEW s \in Seq(Parts(l)), NEW ss, Len(s) > 0 => ss = l.ss,
           NEW fs \in Good(l), NEW len, NEW force
    PROVE  CarvedAll(fs, s, ss, len, force) \in Good(l)
<1> DEFINE n == Len(s)
           A == Good(l)
           P(it) == it = [u \in SUBSET DOMAIN s |->
                            IF u = {} THEN fs ELSE Carved(it[u \ {Max(u)}], s[Max(u)], ss, len, force)]
           it == CHOOSE it : P(it)
           end == CarvedAll(fs, s, ss, len, force)
<1>1. n \in Nat /\ DOMAIN s = 1..n /\ \A k \in 1..n : s[k] \in Parts(l)
  BY LenProperties, ElementOfSeq
<1>2. end = (CHOOSE it0 : P(it0))[DOMAIN s]
  BY ONLY Zenon DEF CarvedAll, FoldLeft, MapThenFoldSet
<1> HIDE DEF n, A
<1>3. ASSUME NEW k \in 1..n, NEW a \in A PROVE Carved(a, s[k], ss, len, force) \in A
  <2>1. ss = l.ss
    BY <1>1, <1>3 DEF n
  <2> QED BY <1>1, <1>3, <2>1, CarvedFacts DEF A
<1> DEFINE G == [k \in 1..n |-> [a \in A |-> Carved(a, s[k], ss, len, force)]]
<1>4. G \in [1..n -> [A -> A]]
  BY <1>3
<1>5. \A k \in 1..n, a \in A : G[k][a] = Carved(a, s[k], ss, len, force)
  OBVIOUS
<1> HIDE DEF G
<1>6. \E f : P(f)
  <2>1. \E f : Solves(f, A, fs, G, n)
    BY <1>1, <1>4, FoldGraph DEF A
  <2>2. PICK f \in [SUBSET (1..n) -> A] : \A u \in SUBSET (1..n) :
          f[u] = IF u = {} THEN fs ELSE G[Max(u)][f[u \ {Max(u)}]]
    BY <2>1 DEF Solves
  <2>3. ASSUME NEW u \in SUBSET (1..n)
        PROVE  f[u] = IF u = {} THEN fs ELSE Carved(f[u \ {Max(u)}], s[Max(u)], ss, len, force)
    <3>1. CASE u = {}
      BY <2>2, <3>1
    <3>2. CASE u # {}
      <4>1. Max(u) \in 1..n /\ u \ {Max(u)} \in SUBSET (1..n)
        BY <1>1, <3>2, MaxOf
      <4>2. f[u \ {Max(u)}] \in A
        BY <2>2, <4>1
      <4>3. f[u] = G[Max(u)][f[u \ {Max(u)}]]
        BY <2>2, <3>2
      <4> QED BY <1>5, <3>2, <4>1, <4>2, <4>3
    <3> QED BY <3>1, <3>2
  <2>4. P(f)
    BY <1>1, <2>2, <2>3
  <2> QED BY <2>4
<1>7. P(it)
  <2> HIDE DEF P
  <2> QED BY <1>6
<1> HIDE DEF it
<1>8. \A u \in SUBSET (1..n) :
         it[u] = IF u = {} THEN fs ELSE Carved(it[u \ {Max(u)}], s[Max(u)], ss, len, force)
  BY <1>1, <1>7
<1> DEFINE I == {k \in Nat : k <= n => it[1..k] \in A}
<1>9. 0 \in I
  <2>1. 1..0 = {} /\ {} \in SUBSET (1..n)
    OBVIOUS
  <2>2. it[1..0] = fs
    BY <1>8, <2>1
  <2> QED BY <2>2 DEF A
<1>10. ASSUME NEW k \in I PROVE k + 1 \in I
  <2>1. k \in Nat /\ k + 1 \in Nat
    OBVIOUS
  <2>2. ASSUME k + 1 <= n PROVE it[1..(k + 1)] \in A
    <3>1. k + 1 \in 1..n /\ it[1..k] \in A /\ 1..(k + 1) \in SUBSET (1..n) /\ 1..(k + 1) # {}
      <4>1. k <= n /\ k + 1 \in 1..n /\ 1..(k + 1) \in SUBSET (1..n) /\ k + 1 \in 1..(k + 1)
        BY <1>1, <2>1, <2>2
      <4> QED BY <4>1
    <3>2. Max(1..(k + 1)) = k + 1 /\ (1..(k + 1)) \ {Max(1..(k + 1))} = 1..k
      <4>1. k + 1 \in Nat \ {0} /\ (k + 1) - 1 = k
        BY <2>1
      <4> QED BY <4>1, MaxOfRun
    <3>3. it[1..(k + 1)] = Carved(it[1..k], s[k + 1], ss, len, force)
      BY <1>8, <3>1, <3>2
    <3> QED BY <1>3, <3>1, <3>3
  <2> QED BY <2>1, <2>2
<1>11. I \in SUBSET Nat
  OBVIOUS
<1> HIDE DEF I
<1>12. I = Nat
  BY <1>9, <1>10, <1>11, Induction
<1>13. n \in I
  BY <1>1, <1>12
<1>14. it[1..n] \in A
  BY <1>1, <1>13 DEF I
<1>15. end = it[1..n]
  BY <1>1, <1>2, Zenon DEF it
<1> HIDE DEF end
<1>16. end \in A
  BY <1>14, <1>15
<1> QED BY <1>16 DEF end, A

(* What is carved is partitions of the LUN, with its sector. *)
LEMMA ParsedParts ==
    ASSUME NEW l \in LUNS, NEW len
    PROVE  /\ ParseGpt(l, len).parts \in Seq(Parts(l))
           /\ Len(ParseGpt(l, len).parts) > 0 => ParseGpt(l, len).ss = l.ss
<1> DEFINE q == PartsFrom(l.parts, l.ss, len)
<1>1. l.parts \in Seq(Parts(l))
  <2>1. Len(l.parts) \in Nat /\ \A i \in 1..Len(l.parts) : l.parts[i] \in Parts(l)
    BY LunFacts DEF Parts
  <2>2. l.parts \in Seq(PartType(l))
    BY LunFacts
  <2>3. l.parts = [i \in 1..Len(l.parts) |-> l.parts[i]]
    BY <2>2, LenProperties
  <2> DEFINE n == Len(l.parts)
             s == l.parts
  <2>4. n \in Nat /\ s = [i \in 1..n |-> s[i]] /\ \A i \in 1..n : s[i] \in Parts(l)
    BY <2>1, <2>3
  <2> HIDE DEF n, s
  <2>5. s \in Seq(Parts(l))
    BY <2>4
  <2> QED BY <2>5 DEF s
<1>2. q \in Seq(Parts(l))
  BY <1>1, PartsArePicked DEF PickedAs
<1> HIDE DEF q
<1>3. CASE ParseGpt(l, len) = [ss |-> 0, parts |-> <<>>]
  <2>1. <<>> \in Seq(Parts(l)) /\ Len(<<>>) = 0
    BY EmptySeq
  <2> DEFINE e == <<>>
  <2>2. ParseGpt(l, len).parts = e /\ e \in Seq(Parts(l)) /\ Len(e) = 0
    BY <1>3, <2>1
  <2> HIDE DEF e
  <2>3. ~(Len(e) > 0)
    BY <2>2
  <2> QED BY <2>2, <2>3
<1>4. CASE ParseGpt(l, len) = [ss |-> l.ss, parts |-> q]
  BY <1>2, <1>4
<1> QED BY <1>3, <1>4, ParseFacts DEF q

(* All of them, however long the table is. *)
LEMMA CarvesStep == ASSUME BackupInv, Carves PROVE BackupInv'
<1> DEFINE table == ParseGpt(lun, image)
           s == table.parts
           ss == table.ss
<1>1. lun \in LUNS /\ files \in Good(lun)
  BY DEF BackupInv
<1>2. /\ lun' = lun
      /\ \E force \in BOOLEAN :
            files' = CarvedAll(files, s, ss, image, force)
  BY Zenon DEF Carves, CarvedAll
<1>3. s \in Seq(Parts(lun)) /\ (Len(s) > 0 => ss = lun.ss)
  BY <1>1, ParsedParts
<1> HIDE DEF s, ss
<1>4. PICK force \in BOOLEAN : files' = CarvedAll(files, s, ss, image, force)
  BY <1>2
<1> DEFINE end == CarvedAll(files, s, ss, image, force)
<1>5. end \in Good(lun)
  BY <1>1, <1>3, CarvedAllFacts
<1> HIDE DEF end
<1>6. files' \in Good(lun)
  BY <1>4, <1>5 DEF end
<1>7. Good(lun') = Good(lun)
  BY <1>2
<1> QED BY <1>1, <1>2, <1>6, <1>7 DEF BackupInv

(* A dump by name is no partition of this LUN. *)
LEMMA DumpsPartStep == ASSUME BackupInv, DumpsPart PROVE BackupInv'
<1>1. lun \in LUNS /\ files \in Good(lun) /\ lun' = lun
  BY DEF BackupInv, DumpsPart
<1>2. PICK n \in DOMAIN NAMED, hi \in Nat : files' = [files EXCEPT ![n] = [lo |-> 0, hi |-> hi]]
  <2>1. \A n \in DOMAIN NAMED : NAMED[n] \in Nat
    BY BackupAssumption
  <2>2. PICK n \in DOMAIN NAMED : \E hi \in {0, 1, NAMED[n]} : files' = [files EXCEPT ![n] = [lo |-> 0, hi |-> hi]]
    BY DEF DumpsPart
  <2>3. PICK hi \in {0, 1, NAMED[n]} : files' = [files EXCEPT ![n] = [lo |-> 0, hi |-> hi]]
    BY <2>2
  <2>4. hi \in Nat
    BY <2>1
  <2> QED BY <2>3, <2>4
<1>3. files' \in [Names(lun) -> [lo : Nat, hi : Nat]]
  BY <1>1, <1>2 DEF Good, Names
<1>4. ASSUME NEW p \in Parts(lun) PROVE files'[p.name] = files[p.name]
  <2>1. p.name # n /\ p.name \in Names(lun)
    BY <1>1, LunFacts DEF Names
  <2> QED BY <1>1, <1>2, <2>1 DEF Good
<1>5. files' \in Good(lun)
  BY <1>1, <1>3, <1>4 DEF Good
<1>6. Good(lun') = Good(lun)
  BY <1>1
<1> QED BY <1>1, <1>5, <1>6 DEF BackupInv

(* Nothing has been dumped. *)
LEMMA BackupStart == Init => BackupInv
<1> SUFFICES ASSUME Init PROVE BackupInv
  OBVIOUS
<1>1. lun \in LUNS /\ files = [n \in Names(lun) |-> NoFile]
  BY DEF Init, BackupInit, Names
<1>2. NoFile \in [lo : Nat, hi : Nat]
  BY DEF NoFile
<1>3. \A p \in Parts(lun) : p.name \in Names(lun)
  BY <1>1, LunFacts DEF Names
<1>4. files \in Good(lun)
  BY <1>1, <1>2, <1>3 DEF Good
<1> QED BY <1>1, <1>4 DEF BackupInv

(* The invariant is about the LUN and the files. *)
LEMMA BackupStay == ASSUME BackupInv, UNCHANGED <<lun, files>> PROVE BackupInv'
<1>1. Good(lun') = Good(lun)
  OBVIOUS
<1> QED BY <1>1 DEF BackupInv

(* Only the backup touches them. *)
LEMMA BackupStep == ASSUME BackupInv, [Next]_vars PROVE BackupInv'
<1>1. CASE UNCHANGED <<lun, files>>
  BY <1>1, BackupStay
<1>2. CASE UNCHANGED vars
  <2>1. UNCHANGED <<lun, files>>
    BY <1>2 DEF vars, backupVars
  <2> QED BY <1>1, <2>1
<1>3. CASE DumpsLun
  <2>1. UNCHANGED <<lun, files>>
    BY <1>3 DEF DumpsLun
  <2> QED BY <1>1, <2>1
<1>4. CASE DumpsPart
  BY <1>4, DumpsPartStep
<1>5. CASE Carves
  BY <1>5, CarvesStep
<1>6. CASE WithLogs \/ WithDram \/ WithWatch
  <2>1. UNCHANGED <<lun, files>>
    BY <1>6 DEF WithLogs, WithDram, WithWatch, Idle, backupVars
  <2> QED BY <1>1, <2>1
<1> QED
  BY <1>2, <1>3, <1>4, <1>5, <1>6 DEF Next

(* What the files and the table are then taken for. *)
LEMMA BackupTells == BackupInv => CarvedIsWhole
<1> SUFFICES ASSUME BackupInv PROVE CarvedIsWhole
  OBVIOUS
<1> DEFINE l == lun
           len == LunSize(l)
<1>0. lun \in LUNS /\ files \in Good(lun)
  BY DEF BackupInv
<1>1. ASSUME NEW n \in PartNames(lun)
      PROVE  files[n] = NoFile \/ files[n] = [lo |-> PartOf(n).first * lun.ss,
                                              hi |-> (PartOf(n).last + 1) * lun.ss]
  <2>1. PICK p \in Parts(lun) : p.name = n
    BY <1>0, LunFacts
  <2>2. \A q \in Parts(lun) : q.name = n => q = p
    BY <1>0, <2>1, LunFacts
  <2>3. ToSet(lun.parts) = Parts(lun)
    BY <1>0, LunFacts
  <2>4. PartOf(n) = p
    BY <2>1, <2>2, <2>3 DEF PartOf
  <2>5. files[p.name] = NoFile \/ files[p.name] = WholeFile(p, lun.ss)
    BY <1>0 DEF Good
  <2> QED BY <2>1, <2>4, <2>5 DEF WholeFile
<1>2. lun.ss \in {1, 4, 8} /\ lun.last \in Nat \ {0} /\ len = (lun.last + 1) * lun.ss
  BY <1>0, LunFacts DEF LunSize
<1>3. ToSet(ParseGpt(l, len).parts) = {p \in ToSet(l.parts) : p.first <= p.last}
  <2> DEFINE q == PartsFrom(l.parts, l.ss, len)
             T == {k \in 1..Len(l.parts) : ~Passed(l.parts[k], l.ss, len)}
             S == PartType(l)
  <2>1. ParseGpt(l, len) = [ss |-> l.ss, parts |-> q]
    BY <1>0, WholeImage
  <2>2. l.parts \in Seq(S) /\ ToSet(l.parts) = {l.parts[k] : k \in 1..Len(l.parts)}
    BY <1>0, LunFacts DEF Parts
  <2>3. PickedAs(q, S, T, l.parts)
    <3> HIDE DEF S, len
    <3> QED BY <2>2, PartsArePicked
  <2>4. \A k \in 1..Len(l.parts) : Passed(l.parts[k], l.ss, len) <=> ~(l.parts[k].first <= l.parts[k].last)
    <3>1. ASSUME NEW p \in S PROVE Passed(p, l.ss, len) <=> ~(p.first <= p.last)
      <4>1. p.first \in Nat /\ p.last \in 0..lun.last
        BY <3>1 DEF PartType
      <4> DEFINE a == p.first
                 b == p.last
                 x == lun.ss
                 y == lun.last
      <4>2. a \in Nat /\ b \in 0..y /\ x \in {1, 4, 8} /\ y \in Nat \ {0}
        BY <1>2, <4>1
      <4> HIDE DEF a, b, x, y
      <4>3. ~(b * x >= (y + 1) * x + x)
        BY <4>2
      <4>4. ~(p.last * l.ss >= len + l.ss)
        BY <1>2, <4>3 DEF b, x, y
      <4>5. a > b <=> ~(a <= b)
        BY <4>2
      <4> QED BY <4>4, <4>5 DEF Passed, a, b
    <3>2. \A k \in 1..Len(l.parts) : l.parts[k] \in S
      <4> HIDE DEF S
      <4> QED BY <2>2, ElementOfSeq
    <3> QED BY <3>1, <3>2
  <2>5. ToSet(q) = {l.parts[k] : k \in T}
    <3> HIDE DEF S, len, T, q
    <3> QED BY <2>3, PickedSet
  <2> DEFINE n == Len(l.parts)
             s == l.parts
  <2>6. /\ T = {k \in 1..n : s[k].first <= s[k].last}
        /\ ToSet(q) = {s[k] : k \in T} /\ ToSet(s) = {s[k] : k \in 1..n}
    BY <2>2, <2>4, <2>5
  <2> HIDE DEF q, T, s, n
  <2>7. ToSet(q) = {p \in ToSet(s) : p.first <= p.last}
    BY <2>6
  <2> QED BY <2>1, <2>7 DEF s
<1>4. ASSUME lun.ss \in {1, 8} PROVE GptParse(l, len) = [ss |-> lun.ss, parts |-> lun.parts]
  <2> DEFINE h == [lba |-> 1, entries |-> 2]
  <2>1. h \in Headers(lun) /\ h.entries = 2
    BY DEF Headers
  <2>2. EntriesAt(lun, 2 * lun.ss) = lun.parts
    <3> HIDE DEF h
    <3> QED BY <2>1 DEF EntriesAt
  <2>3. ~(lun.ss >= len)
    BY <1>2
  <2> QED BY <1>4, <2>2, <2>3 DEF GptParse
<1> QED
  BY <1>1, <1>3, <1>4 DEF CarvedIsWhole

(* carve-partitions.py: a partition that was carved is the partition, and   *)
(* a whole image yields all of them, as gpt.py does (CarvedIsWhole).       *)
THEOREM CarvingHolds == Spec => []CarvedIsWhole
  BY BackupStart, BackupStep, BackupTells, PTL DEF Spec

(* region_for: the regions of a read are the rows it has a byte of, each   *)
(* once and with as many bytes as they share (RegionsAddUp).               *)
THEOREM RegionsHold == Spec => []RegionsAddUp
<1>1. DramInv => RegionsAddUp
  <2> SUFFICES ASSUME DramInv PROVE RegionsAddUp
    OBVIOUS
  <2>1. read.addr \in Nat /\ read.size \in Nat
    BY DEF DramInv, ReadTyped
  <2> QED BY <2>1, RegionsTell
<1> QED
  BY <1>1, DramStart, DramStep, PTL DEF Spec

(* What a tool of the session calls newest, whole or shared is so, for     *)
(* every list of markers, number of slots, map, LUN and number of boots    *)
(* (SessionInv).                                                           *)
THEOREM SessionHolds == Spec => []SessionInv
BY LogsAreInOrder, RegionsHold, CarvingHolds, PTL DEF SessionInv
=============================================================================
