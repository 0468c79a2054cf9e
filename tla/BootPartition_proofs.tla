------------------------- MODULE BootPartition_proofs -------------------------
(***************************************************************************)
(* Proofs about the three tools that write and name the boot partition:    *)
(* for every set of images, builds and backups, every size of partition,   *)
(* chunk and read, and links that drop at any call.                        *)
(***************************************************************************)
EXTENDS BootPartition, SequenceTheorems, TLAPS

Images == {s \in Seq(Unit) : Len(s) <= Size}      \* what fits into the partition
Copies == {s \in Seq(Unit) : Len(s) <= Size + 1}  \* ... and what is padded of it

TypeInv ==
    /\ part \in Seq(Unit) /\ Len(part) = Size
    /\ before \in Seq(Unit) /\ Len(before) = Size
    /\ files \in [Name -> Builds] /\ backup \in Backups /\ img \in Name
    /\ mode \in {"fastboot", "recovery", "none"}
    /\ copied \in BOOLEAN /\ flashSrc \in Copies /\ pushed \in Copies /\ sha \in Copies
    /\ size \in 0..Size /\ swapped \in BOOLEAN
    /\ report \in {"none", "done", "died", "no match"}
    /\ readback \in Seq(Unit) /\ Len(readback) < ReadSize + Chunk
    /\ hashed \in {"none", "ok", "mismatch"}
    /\ named \in Name \cup {"none"}

(* Which tool is where, by which route it writes, and that it has written  *)
(* nothing before it gets there.                                           *)
PlaceInv ==
    /\ op \in {"none", "flash", "restore", "identify"}
    /\ pc \in {"off", "refuse", "stat", "copy", "digest", "route", "fastboot", "twrp",
               "dd", "readback", "read", "hash", "compare"}
    /\ pc \in {"stat", "copy", "digest"} => op = "flash"
    /\ pc = "copy" => size % 2 # 0
    /\ pc \in {"refuse", "route", "fastboot", "twrp", "dd", "readback"} => op \in {"flash", "restore"}
    /\ pc \in {"read", "hash", "compare"} => op = "identify"
    /\ pc \in {"twrp", "dd", "readback"} => route = "twrp"
    /\ pc = "fastboot" => route = "fastboot"
    /\ pc \in {"stat", "copy", "digest", "route", "fastboot", "twrp", "dd"} => part = before
    /\ pc # "off" => report = "none"

(* A restore that goes on has hashed the backup: unless that was changed   *)
(* before its transfer, what is transferred is stock.  EXPECT is stock's.  *)
RestoreInv ==
    op = "restore" /\ pc \in {"route", "fastboot", "twrp", "dd", "readback"} =>
        /\ sha = Stock
        /\ ~swapped /\ pc \in {"route", "fastboot", "twrp"} => backup = Stock
        /\ ~swapped /\ pc \in {"dd", "readback"} => pushed = Stock

(* When the dd is over, with or without an error that was seen, some units *)
(* are those of the file and the others what was there before.             *)
WrittenInv ==
    pc = "readback" =>
        \E k \in 0..Len(pushed) :
            \A i \in 1..Size : part[i] = IF i <= k THEN pushed[i] ELSE before[i]

(* The phone's hash agreed with what was read of the partition.            *)
HashedInv ==
    pc = "compare" /\ hashed = "ok" =>
        Len(readback) <= Size /\ \A i \in 1..Len(readback) : readback[i] = part[i]

IInv == TypeInv /\ PlaceInv /\ RestoreInv /\ WrittenInv /\ HashedInv /\ DoneMeansWritten

-----------------------------------------------------------------------------
(* The first n units of a sequence, and what is behind them. *)
LEMMA FirstOf ==
    ASSUME NEW s \in Seq(Unit), NEW n \in 0..Len(s)
    PROVE  /\ SubSeq(s, 1, n) \in Seq(Unit) /\ Len(SubSeq(s, 1, n)) = n
           /\ \A i \in 1..n : SubSeq(s, 1, n)[i] = s[i]
<1>1. Len(s) \in Nat /\ \A i \in 1..n : s[i] \in Unit
  BY LenProperties, ElementOfSeq
<1> QED
  BY <1>1, SubSeqProperties

(* What s makes of t when it is written over it.                           *)
LEMMA WrittenOver ==
    ASSUME NEW t \in Seq(Unit), Len(t) = Size, NEW s \in Images
    PROVE  LET whole == s \o SubSeq(t, Len(s) + 1, Size)
           IN  /\ whole \in Seq(Unit) /\ Len(whole) = Size
               /\ \A i \in 1..Size : whole[i] = IF i <= Len(s) THEN s[i] ELSE t[i]
<1> DEFINE rest == SubSeq(t, Len(s) + 1, Size)
<1>1. Len(s) \in 0..Size /\ Size \in Nat /\ s \in Seq(Unit)
  BY LenProperties, PartitionAssumption DEF Images
<1>2. \A i \in (Len(s) + 1)..Size : t[i] \in Unit
  BY <1>1, ElementOfSeq
<1>3. /\ rest \in Seq(Unit) /\ Len(rest) = Size - Len(s)
      /\ \A i \in 1..(Size - Len(s)) : rest[i] = t[Len(s) + i]
  <2>1. /\ rest \in Seq(Unit) /\ Len(rest) = IF Len(s) + 1 <= Size THEN Size - (Len(s) + 1) + 1 ELSE 0
        /\ \A i \in 1..Size - (Len(s) + 1) + 1 : rest[i] = t[Len(s) + 1 + i - 1]
    BY <1>1, <1>2, SubSeqProperties
  <2> QED
    BY <1>1, <2>1
<1> HIDE DEF rest
<1>4. /\ s \o rest \in Seq(Unit) /\ Len(s \o rest) = Size
      /\ \A i \in 1..Size : (s \o rest)[i] = IF i <= Len(s) THEN s[i] ELSE rest[i - Len(s)]
  BY <1>1, <1>3, ConcatProperties
<1>5. ASSUME NEW i \in 1..Size, i > Len(s) PROVE rest[i - Len(s)] = t[i]
  <2>1. i - Len(s) \in 1..(Size - Len(s)) /\ Len(s) + (i - Len(s)) = i
    BY <1>1, <1>5
  <2> QED
    BY <2>1, <1>3
<1>6. /\ s \o rest \in Seq(Unit) /\ Len(s \o rest) = Size
      /\ \A i \in 1..Size : (s \o rest)[i] = IF i <= Len(s) THEN s[i] ELSE t[i]
  BY <1>1, <1>4, <1>5
<1> QED
  BY <1>6 DEF rest

(* A write of s leaves the partition a partition, and behind s as it was.  *)
LEMMA Overwritten ==
    ASSUME TypeInv, NEW s \in Images
    PROVE  /\ Overwrite(s) \in Seq(Unit) /\ Len(Overwrite(s)) = Size
           /\ \A i \in 1..Size : Overwrite(s)[i] = IF i <= Len(s) THEN s[i] ELSE part[i]
<1>1. part \in Seq(Unit) /\ Len(part) = Size
  BY DEF TypeInv
<1> QED
  BY <1>1, WrittenOver DEF Overwrite

(* A file is padded to whole blocks, with whatever unit, and still fits.   *)
LEMMA PaddedFits ==
    ASSUME NEW s \in Seq(Unit), Len(s) <= Size, NEW u \in Unit
    PROVE  LET p == IF Len(s) % 2 = 0 THEN s ELSE Append(s, u)
           IN  p \in Images /\ Len(p) % 2 = 0
<1>1. Len(s) \in Nat /\ Size \in Nat /\ Size % 2 = 0
  BY LenProperties, PartitionAssumption
<1>2. Len(s) % 2 # 0 => Len(s) + 1 <= Size /\ (Len(s) + 1) % 2 = 0
  BY <1>1
<1>3. Append(s, u) \in Seq(Unit) /\ Len(Append(s, u)) = Len(s) + 1
  BY AppendProperties
<1> QED
  BY <1>1, <1>2, <1>3 DEF Images

(* The images on the host and the backup fit, and what is pushed of them,  *)
(* a unit of padding in excess.                                            *)
LEMMA SourcesFit ==
    ASSUME TypeInv
    PROVE  /\ \A n \in Name : files[n] \in Images
           /\ backup \in Images /\ Source \in Copies /\ Stock \in Images /\ Zero \in Unit
           /\ Images \subseteq Copies
<1>1. \A s \in Builds \cup Backups : s \in Images
  <2> SUFFICES ASSUME NEW s \in Builds \cup Backups PROVE s \in Images
    OBVIOUS
  <2>1. s \in Seq(Unit) /\ Len(s) \in 1..Size /\ Size \in Nat
    BY PartitionAssumption
  <2> QED
    BY <2>1 DEF Images
<1>2. Stock \in Images /\ Zero \in Unit
  <2>1. Stock \in Seq(Unit) /\ Len(Stock) = Size /\ Size \in Nat
    BY PartitionAssumption
  <2>2. Zero \in Unit
    BY DEF Unit
  <2> QED
    BY <2>1, <2>2 DEF Images
<1>3. \A n \in Name : files[n] \in Builds
  BY DEF TypeInv
<1>4. Images \subseteq Copies
  <2> SUFFICES ASSUME NEW s \in Images PROVE s \in Copies
    OBVIOUS
  <2>1. s \in Seq(Unit) /\ Len(s) <= Size /\ Len(s) \in Nat /\ Size \in Nat
    BY LenProperties, PartitionAssumption DEF Images
  <2> QED
    BY <2>1 DEF Copies
<1> QED
  BY <1>1, <1>2, <1>3, <1>4 DEF TypeInv, Source

(* As much as a read-back counts is on the partition.                      *)
LEMMA CountedFits ==
    ASSUME TypeInv
    PROVE  Counted \in 0..Size /\ 2 * Blocks \in 0..Size
<1>1. Counted \in 0..Size /\ Size \in Nat
  <2>1. backup \in Images /\ size \in 0..Size /\ Size \in Nat
    BY SourcesFit, PartitionAssumption DEF TypeInv
  <2>2. Len(backup) \in Nat /\ Len(backup) <= Size
    BY <2>1, LenProperties DEF Images
  <2> QED
    BY <2>1, <2>2 DEF Counted
<1>2. 2 * (Counted \div 2) \in 0..Size
  BY <1>1
<1> QED
  BY <1>1, <1>2 DEF Blocks

(* What a read-back of whole blocks finds right is right.                  *)
LEMMA VerifiedMeans ==
    ASSUME TypeInv, Verified
    PROVE  /\ FirstUnits(Len(sha)) = sha
           /\ sha \in Images
           /\ \A i \in 1..Len(sha) : part[i] = sha[i]
<1>1. /\ part \in Seq(Unit) /\ Len(part) = Size /\ Size \in Nat /\ 2 * Blocks \in 0..Size
  BY CountedFits, PartitionAssumption DEF TypeInv
<1> DEFINE n == 2 * Blocks
<1>2. n \in 0..Len(part) /\ n <= Size
  BY <1>1
<1>3. sha = SubSeq(part, 1, n)
  BY DEF Verified, FirstUnits
<1> HIDE DEF n
<1>4. /\ sha \in Seq(Unit) /\ Len(sha) = n
      /\ \A i \in 1..n : SubSeq(part, 1, n)[i] = part[i]
  BY <1>1, <1>2, <1>3, FirstOf
<1>5. sha \in Images
  BY <1>2, <1>4 DEF Images
<1> QED
  BY <1>3, <1>4, <1>5 DEF FirstUnits

(* A partition that agrees with s as far as s goes and with t behind it is *)
(* s written over t.                                                       *)
LEMMA ThenItIs ==
    ASSUME NEW p \in Seq(Unit), Len(p) = Size, NEW t \in Seq(Unit), Len(t) = Size,
           NEW s \in Images,
           \A i \in 1..Size : p[i] = IF i <= Len(s) THEN s[i] ELSE t[i]
    PROVE  p = s \o SubSeq(t, Len(s) + 1, Size)
<1> DEFINE whole == s \o SubSeq(t, Len(s) + 1, Size)
<1>1. /\ whole \in Seq(Unit) /\ Len(whole) = Size
      /\ \A i \in 1..Size : whole[i] = IF i <= Len(s) THEN s[i] ELSE t[i]
  BY WrittenOver
<1> HIDE DEF whole
<1>2. \A i \in 1..Len(p) : p[i] = whole[i]
  BY <1>1
<1>3. p = whole
  BY <1>1, <1>2, SeqEqual
<1> QED
  BY <1>3 DEF whole

-----------------------------------------------------------------------------
(* A tool starts. *)
LEMMA FlashStartKeeps == ASSUME IInv, FlashStarts PROVE IInv'
<1>1. TypeInv'
  BY DEF IInv, TypeInv, FlashStarts, Starts, device, reader
<1>2. PlaceInv'
  BY DEF IInv, PlaceInv, FlashStarts, Starts, device
<1>3. RestoreInv' /\ WrittenInv' /\ HashedInv' /\ DoneMeansWritten'
  BY DEF RestoreInv, WrittenInv, HashedInv, DoneMeansWritten, FlashStarts, Starts
<1> QED
  BY <1>1, <1>2, <1>3 DEF IInv

LEMMA RestoreStartKeeps == ASSUME IInv, RestoreStarts PROVE IInv'
<1>1. Stock \in Copies
  BY SourcesFit DEF IInv
<1>2. TypeInv'
  BY <1>1 DEF IInv, TypeInv, RestoreStarts, Starts, device, reader
<1>3. PlaceInv'
  BY DEF IInv, PlaceInv, RestoreStarts, Starts, device
<1>4. RestoreInv' /\ WrittenInv' /\ HashedInv' /\ DoneMeansWritten'
  BY DEF RestoreInv, WrittenInv, HashedInv, DoneMeansWritten, RestoreStarts, Starts
<1> QED
  BY <1>2, <1>3, <1>4 DEF IInv

LEMMA IdentifyStartKeeps == ASSUME IInv, IdentifyStarts PROVE IInv'
<1>1. <<>> \in Seq(Unit) /\ Len(<<>>) = 0
  BY EmptySeq
<1>2. 0 < ReadSize + Chunk
  BY PartitionAssumption
<1>3. TypeInv'
  BY <1>1, <1>2 DEF IInv, TypeInv, IdentifyStarts, Starts, device
<1>4. PlaceInv'
  BY DEF IInv, PlaceInv, IdentifyStarts, Starts, device
<1>5. RestoreInv' /\ WrittenInv' /\ HashedInv' /\ DoneMeansWritten'
  BY DEF RestoreInv, WrittenInv, HashedInv, DoneMeansWritten, IdentifyStarts, Starts
<1> QED
  BY <1>3, <1>4, <1>5 DEF IInv

(* It refuses, or computes what it will hash for, or chooses its route.    *)
LEMMA RefusalKeeps == ASSUME IInv, Refuses PROVE IInv'
<1>1. TypeInv' /\ PlaceInv'
  BY DEF IInv, TypeInv, PlaceInv, Refuses, Ends, device, script, reader, past
<1>2. RestoreInv' /\ WrittenInv' /\ HashedInv' /\ DoneMeansWritten'
  BY DEF RestoreInv, WrittenInv, HashedInv, DoneMeansWritten, Refuses, Ends, past
<1> QED
  BY <1>1, <1>2 DEF IInv

LEMMA SizingKeeps == ASSUME IInv, FlashStats PROVE IInv'
<1>1. Len(files[img]) \in 0..Size
  <2>1. files[img] \in Images /\ Size \in Nat
    BY SourcesFit, PartitionAssumption DEF IInv, TypeInv
  <2> QED
    BY <2>1, LenProperties DEF Images
<1>2. TypeInv'
  BY <1>1 DEF IInv, TypeInv, FlashStats, device, reader, past
<1>3. PlaceInv'
  BY <1>1 DEF IInv, PlaceInv, FlashStats, device, past
<1>4. RestoreInv' /\ WrittenInv' /\ HashedInv' /\ DoneMeansWritten'
  BY DEF IInv, PlaceInv, RestoreInv, WrittenInv, HashedInv, DoneMeansWritten, FlashStats, past
<1> QED
  BY <1>2, <1>3, <1>4 DEF IInv

LEMMA CopyKeeps == ASSUME IInv, FlashCopies PROVE IInv'
<1>1. Append(files[img], Zero) \in Copies
  <2>1. files[img] \in Seq(Unit) /\ Len(files[img]) <= Size /\ Zero \in Unit
    BY SourcesFit DEF IInv, TypeInv, Images
  <2>2. Len(files[img]) \in Nat /\ Size \in Nat
    BY <2>1, LenProperties, PartitionAssumption
  <2>3. /\ Append(files[img], Zero) \in Seq(Unit)
        /\ Len(Append(files[img], Zero)) = Len(files[img]) + 1
    BY <2>1, AppendProperties
  <2>4. Len(files[img]) + 1 <= Size + 1
    BY <2>1, <2>2
  <2> QED
    BY <2>3, <2>4 DEF Copies
<1>2. size + 1 \in 0..Size
  <2>1. size \in 0..Size /\ size % 2 # 0 /\ Size \in Nat /\ Size % 2 = 0
    BY PartitionAssumption DEF IInv, TypeInv, PlaceInv, FlashCopies
  <2> QED
    BY <2>1
<1>3. TypeInv'
  BY <1>1, <1>2 DEF IInv, TypeInv, FlashCopies, device, reader, past
<1>4. PlaceInv'
  BY DEF IInv, PlaceInv, FlashCopies, device, past
<1>5. RestoreInv' /\ WrittenInv' /\ HashedInv' /\ DoneMeansWritten'
  BY DEF IInv, PlaceInv, RestoreInv, WrittenInv, HashedInv, DoneMeansWritten, FlashCopies, past
<1> QED
  BY <1>3, <1>4, <1>5 DEF IInv

LEMMA DigestKeeps == ASSUME IInv, FlashHashes PROVE IInv'
<1>1. Source \in Copies
  BY SourcesFit DEF IInv
<1>2. TypeInv'
  BY <1>1 DEF IInv, TypeInv, FlashHashes, device, reader, past
<1>3. PlaceInv'
  BY DEF IInv, PlaceInv, FlashHashes, device, past
<1>4. RestoreInv' /\ WrittenInv' /\ HashedInv' /\ DoneMeansWritten'
  BY DEF IInv, PlaceInv, RestoreInv, WrittenInv, HashedInv, DoneMeansWritten, FlashHashes, past
<1> QED
  BY <1>2, <1>3, <1>4 DEF IInv

LEMMA RouteKeeps == ASSUME IInv, RoutePicks PROVE IInv'
<1>1. Reachable \in {"fastboot", "twrp", "none"}
  BY DEF IInv, TypeInv, Reachable
<1>2. \/ pc' = route' /\ route' \in {"fastboot", "twrp"} /\ UNCHANGED report
      \/ pc' = "off" /\ report' = "died"
  BY <1>1 DEF RoutePicks, Ends
<1>3. TypeInv'
  BY <1>2 DEF IInv, TypeInv, RoutePicks, device, reader, past
<1>4. PlaceInv'
  BY <1>2 DEF IInv, PlaceInv, RoutePicks, device, past
<1>5. RestoreInv' /\ WrittenInv' /\ HashedInv' /\ DoneMeansWritten'
  BY <1>2 DEF IInv, RestoreInv, WrittenInv, HashedInv, DoneMeansWritten, RoutePicks, past
<1> QED
  BY <1>3, <1>4, <1>5 DEF IInv

(* ABL writes a whole file, or the link drops in the middle of it.         *)
LEMMA FastbootKeeps == ASSUME IInv, FastbootFlashes PROVE IInv'
<1> DEFINE s == IF op = "restore" THEN backup ELSE files[img]
<1>1. part' \in Seq(Unit) /\ Len(part') = Size
  <2>1. /\ s \in Images /\ s \in Seq(Unit) /\ Len(s) <= Size /\ Zero \in Unit
        /\ part \in Seq(Unit) /\ Len(part) = Size /\ Len(s) \in 1..Size
    <3>1. s \in Builds \cup Backups
      BY DEF IInv, TypeInv
    <3> QED
      BY <3>1, SourcesFit, PartitionAssumption DEF IInv, TypeInv, Images
  <2> DEFINE n == Len(s) + (Len(s) % 2)
  <2>2. n \in 1..Size
    <3>1. Size \in Nat /\ Size % 2 = 0
      BY PartitionAssumption
    <3> HIDE DEF s
    <3> QED
      BY <2>1, <3>1
  <2>3. part[n] \in Unit
    <3> HIDE DEF n
    <3> QED
      BY <2>1, <2>2, ElementOfSeq
  <2>4. CASE UNCHANGED part
    BY <2>1, <2>4
  <2>5. ASSUME NEW u \in {Zero, part[n]},
               part' = Overwrite(IF Len(s) % 2 = 0 THEN s ELSE Append(s, u))
        PROVE  part' \in Seq(Unit) /\ Len(part') = Size
    <3>1. u \in Unit
      BY <2>1, <2>3
    <3> DEFINE p == IF Len(s) % 2 = 0 THEN s ELSE Append(s, u)
    <3>2. p \in Images
      BY <2>1, <3>1, PaddedFits
    <3> HIDE DEF p, s
    <3>3. Overwrite(p) \in Seq(Unit) /\ Len(Overwrite(p)) = Size
      BY <3>2, Overwritten DEF IInv
    <3> QED
      BY <3>3, <2>5 DEF p
  <2> QED
    BY <2>4, <2>5 DEF FastbootFlashes
<1>2. TypeInv'
  BY <1>1 DEF IInv, TypeInv, FastbootFlashes, script, reader, Ends, past
<1>3. PlaceInv'
  BY DEF IInv, PlaceInv, FastbootFlashes, script, Ends, past
<1>4. RestoreInv' /\ WrittenInv' /\ HashedInv'
  BY DEF RestoreInv, WrittenInv, HashedInv, FastbootFlashes, Ends, past
<1>5. DoneMeansWritten'
  <2>1. route' = "fastboot"
    BY DEF IInv, PlaceInv, FastbootFlashes, script, past
  <2> QED
    BY <2>1 DEF DoneMeansWritten
<1> QED
  BY <1>2, <1>3, <1>4, <1>5 DEF IInv

(* The push: the whole file, or the beginning of it. *)
LEMMA PushKeeps == ASSUME IInv, Pushes PROVE IInv'
<1>1. pushed' \in Copies /\ (pc' = "dd" => pushed' = Source)
  <2>1. /\ Source \in Copies /\ Source \in Seq(Unit) /\ Len(Source) \in Nat
        /\ Len(Source) <= Size + 1
    <3>1. Source \in Copies
      BY SourcesFit DEF IInv
    <3> QED
      BY <3>1, LenProperties DEF Copies
  <2>2. CASE pushed' = Source
    BY <2>1, <2>2
  <2>3. ASSUME NEW k \in 0..(Len(Source) - 1), pushed' = SubSeq(Source, 1, k)
        PROVE  pushed' \in Copies
    <3>1. k \in 0..Len(Source) /\ k <= Size + 1
      BY <2>1, PartitionAssumption
    <3>2. SubSeq(Source, 1, k) \in Seq(Unit) /\ Len(SubSeq(Source, 1, k)) = k
      BY <2>1, <3>1, FirstOf
    <3> QED
      BY <2>3, <3>1, <3>2 DEF Copies
  <2> QED
    BY <2>2, <2>3 DEF Pushes, Ends
<1>2. TypeInv'
  BY <1>1 DEF IInv, TypeInv, Pushes, device, reader, Ends, past
<1>3. PlaceInv'
  BY DEF IInv, PlaceInv, Pushes, device, Ends, past
<1>4. RestoreInv'
  BY <1>1 DEF IInv, RestoreInv, Pushes, Source, Ends, past
<1>5. WrittenInv' /\ HashedInv' /\ DoneMeansWritten'
  BY DEF IInv, PlaceInv, WrittenInv, HashedInv, DoneMeansWritten, Pushes, Ends, past
<1> QED
  BY <1>2, <1>3, <1>4, <1>5 DEF IInv

(* Where a dd has got to: some of the file over what was there before. *)
LEMMA WrittenSoFar ==
    ASSUME IInv, Writes
    PROVE  /\ part' \in Seq(Unit) /\ Len(part') = Size
           /\ \E k \in 0..Len(pushed) :
                 \A i \in 1..Size : part'[i] = IF i <= k THEN pushed[i] ELSE part[i]
<1>1. /\ pushed \in Seq(Unit) /\ Len(pushed) \in Nat /\ Size \in Nat
      /\ part \in Seq(Unit) /\ Len(part) = Size
  BY LenProperties, PartitionAssumption DEF IInv, TypeInv, Copies
<1>2. TypeInv
  BY DEF IInv
<1>3. CASE Fits(pushed) /\ part' = Overwrite(pushed)
  <2>1. pushed \in Images
    BY <1>1, <1>3 DEF Images, Fits
  <2>2. /\ part' \in Seq(Unit) /\ Len(part') = Size
        /\ \A i \in 1..Size : part'[i] = IF i <= Len(pushed) THEN pushed[i] ELSE part[i]
    BY <1>2, <1>3, <2>1, Overwritten
  <2>3. Len(pushed) \in 0..Len(pushed)
    BY <1>1
  <2> QED
    BY <2>2, <2>3
<1>4. CASE ~Fits(pushed) /\ part' = SubSeq(pushed, 1, Size)
  <2>1. Size \in 0..Len(pushed)
    BY <1>1, <1>4 DEF Fits
  <2>2. /\ part' \in Seq(Unit) /\ Len(part') = Size
        /\ \A i \in 1..Size : part'[i] = pushed[i]
    BY <1>1, <1>4, <2>1, FirstOf
  <2>3. \A i \in 1..Size : i <= Size
    BY <1>1
  <2> QED
    BY <2>1, <2>2, <2>3
<1>5. ASSUME NEW k \in 0..Len(pushed), k <= Size, part' = Overwrite(SubSeq(pushed, 1, k))
      PROVE  /\ part' \in Seq(Unit) /\ Len(part') = Size
             /\ \A i \in 1..Size : part'[i] = IF i <= k THEN pushed[i] ELSE part[i]
  <2> DEFINE s == SubSeq(pushed, 1, k)
  <2>1. s \in Seq(Unit) /\ Len(s) = k /\ \A i \in 1..k : s[i] = pushed[i]
    BY <1>1, FirstOf
  <2> HIDE DEF s
  <2>2. s \in Images
    BY <1>5, <2>1 DEF Images
  <2>3. /\ Overwrite(s) \in Seq(Unit) /\ Len(Overwrite(s)) = Size
        /\ \A i \in 1..Size : Overwrite(s)[i] = IF i <= Len(s) THEN s[i] ELSE part[i]
    BY <1>2, <2>2, Overwritten
  <2>4. part' = Overwrite(s)
    BY <1>5 DEF s
  <2>5. \A i \in 1..Size : i <= k => i \in 1..k
    BY <1>1
  <2> QED
    BY <2>1, <2>3, <2>4, <2>5
<1> QED
  BY <1>3, <1>4, <1>5 DEF Writes

LEMMA WriteKeeps == ASSUME IInv, Writes PROVE IInv'
<1>1. TypeInv'
  BY WrittenSoFar DEF IInv, TypeInv, Writes, script, reader, Ends, past
<1>2. PlaceInv'
  BY DEF IInv, PlaceInv, Writes, script, Ends, past
<1>3. RestoreInv'
  BY DEF IInv, RestoreInv, Writes, script, Ends, past
<1>4. WrittenInv'
  <2>1. pushed' = pushed /\ before' = before /\ part = before
    BY DEF IInv, PlaceInv, Writes, script, past
  <2> QED
    BY <2>1, WrittenSoFar DEF WrittenInv
<1>5. HashedInv' /\ DoneMeansWritten'
  BY DEF HashedInv, DoneMeansWritten, Writes, Ends
<1> QED
  BY <1>1, <1>2, <1>3, <1>4, <1>5 DEF IInv

(* The read-back, over as many whole blocks as were hashed. *)
LEMMA ReadBackKeeps == ASSUME IInv, ReadsBack PROVE IInv'
<1>1. TypeInv' /\ PlaceInv'
  BY DEF IInv, TypeInv, PlaceInv, ReadsBack, device, script, reader, Ends, past
<1>2. RestoreInv' /\ WrittenInv' /\ HashedInv'
  BY DEF RestoreInv, WrittenInv, HashedInv, ReadsBack, Ends, past
<1>3. UNCHANGED <<part, before, sha, pushed, op, route>>
  BY DEF ReadsBack, device, script, past
<1>4. ASSUME Verified
      PROVE  /\ FirstUnits(Len(sha)) = sha
             /\ pushed = sha => part = sha \o SubSeq(before, Len(sha) + 1, Size)
  <2>1. /\ FirstUnits(Len(sha)) = sha /\ sha \in Images
        /\ \A i \in 1..Len(sha) : part[i] = sha[i]
    BY <1>4, VerifiedMeans DEF IInv
  <2>2. ASSUME pushed = sha PROVE part = sha \o SubSeq(before, Len(sha) + 1, Size)
    <3>1. /\ part \in Seq(Unit) /\ Len(part) = Size /\ before \in Seq(Unit) /\ Len(before) = Size
          /\ sha \in Images
      BY <2>1 DEF IInv, TypeInv
    <3>2. PICK k \in 0..Len(sha) :
             \A i \in 1..Size : part[i] = IF i <= k THEN sha[i] ELSE before[i]
      BY <2>2 DEF IInv, WrittenInv, ReadsBack
    <3>3. Len(sha) \in Nat /\ Size \in Nat
      BY <3>1, LenProperties, PartitionAssumption DEF Images
    <3>4. \A i \in 1..Size : part[i] = IF i <= Len(sha) THEN sha[i] ELSE before[i]
      BY <2>1, <3>2, <3>3
    <3> QED
      BY <3>1, <3>4, ThenItIs
  <2> QED
    BY <2>1, <2>2
<1>5. DoneMeansWritten'
  <2>1. report' = "done" => Verified
    BY DEF ReadsBack, Ends
  <2> QED
    BY <1>3, <1>4, <2>1 DEF DoneMeansWritten, FirstUnits
<1> QED
  BY <1>1, <1>2, <1>5 DEF IInv

LEMMA QuotientIsNat == ASSUME NEW a \in Nat, NEW b \in Nat \ {0} PROVE a \div b \in Nat
<1> QED
  OBVIOUS

(* What identify-boot.py reads per call is at most a chunk of units.       *)
LEMMA ChunkFits ==
    ASSUME TypeInv,
           NEW data, data = SubSeq(part, Skip * Chunk + 1,
                                   IF (Skip + 1) * Chunk > Size THEN Size ELSE (Skip + 1) * Chunk)
    PROVE  data \in Seq(Unit) /\ Len(data) \in 0..Chunk
<1>1. Chunk \in Nat \ {0} /\ Size \in Nat /\ Len(readback) \in Nat
  BY PartitionAssumption, LenProperties DEF TypeInv
<1>2. Skip \in Nat
  BY <1>1, QuotientIsNat DEF Skip
<1> DEFINE from == Skip * Chunk
           to   == IF from + Chunk > Size THEN Size ELSE from + Chunk
<1>3. from \in Nat /\ (Skip + 1) * Chunk = from + Chunk
  BY <1>1, <1>2
<1> HIDE DEF from
<1>4. to \in Nat /\ to <= Size /\ to - from <= Chunk
  BY <1>1, <1>3
<1>5. data = SubSeq(part, from + 1, to)
  BY <1>3 DEF from
<1> HIDE DEF to
<1>6. \A i \in (from + 1)..to : part[i] \in Unit
  <2>1. \A i \in (from + 1)..to : i \in 1..Size
    BY <1>1, <1>3, <1>4
  <2> QED
    BY <2>1, ElementOfSeq DEF TypeInv
<1>7. /\ SubSeq(part, from + 1, to) \in Seq(Unit)
      /\ Len(SubSeq(part, from + 1, to)) = IF from + 1 <= to THEN to - (from + 1) + 1 ELSE 0
  BY <1>3, <1>4, <1>6, SubSeqProperties
<1>8. Len(data) = IF from + 1 <= to THEN to - (from + 1) + 1 ELSE 0
  BY <1>5, <1>7
<1>9. Len(data) \in 0..Chunk
  <2>1. (IF from + 1 <= to THEN to - (from + 1) + 1 ELSE 0) \in 0..Chunk
    <3>1. from \in Nat /\ to \in Nat /\ to - from <= Chunk /\ Chunk \in Nat
      BY <1>1, <1>3, <1>4
    <3> QED
      BY <3>1
  <2> QED
    BY <1>8, <2>1
<1> QED
  BY <1>5, <1>7, <1>9

LEMMA ChunkKeeps == ASSUME IInv, ReadsChunk PROVE IInv'
<1> DEFINE data == SubSeq(part, Skip * Chunk + 1,
                          IF (Skip + 1) * Chunk > Size THEN Size ELSE (Skip + 1) * Chunk)
<1>1. data \in Seq(Unit) /\ Len(data) \in 0..Chunk
  BY ChunkFits DEF IInv
<1>2. \/ readback' = readback \o data
      \/ \E k \in 1..(Len(data) - 1) : readback' = readback \o SubSeq(data, 1, k)
      \/ readback' = readback
  BY DEF ReadsChunk
<1> HIDE DEF data
<1>3. /\ readback \in Seq(Unit) /\ Len(readback) \in Nat /\ Len(readback) < ReadSize
      /\ Chunk \in Nat /\ Chunk > 0 /\ ReadSize \in Nat
  <2>1. readback \in Seq(Unit) /\ Len(readback) < ReadSize
    BY DEF IInv, TypeInv, ReadsChunk
  <2>2. Len(readback) \in Nat
    BY <2>1, LenProperties
  <2>3. Chunk \in Nat /\ Chunk > 0 /\ ReadSize \in Nat
    BY PartitionAssumption
  <2> QED
    BY <2>1, <2>2, <2>3
<1>4. ASSUME NEW s \in Seq(Unit), Len(s) \in 0..Chunk, readback' = readback \o s
      PROVE  readback' \in Seq(Unit) /\ Len(readback') < ReadSize + Chunk
  <2>1. readback' \in Seq(Unit) /\ Len(readback') = Len(readback) + Len(s)
    BY <1>3, <1>4, ConcatProperties
  <2> QED
    BY <1>3, <1>4, <2>1
<1>5. readback' \in Seq(Unit) /\ Len(readback') < ReadSize + Chunk
  <2>1. CASE readback' = readback \o data
    BY <1>1, <1>4, <2>1
  <2>2. ASSUME NEW k \in 1..(Len(data) - 1), readback' = readback \o SubSeq(data, 1, k)
        PROVE  readback' \in Seq(Unit) /\ Len(readback') < ReadSize + Chunk
    <3>1. k \in 0..Len(data) /\ k \in 0..Chunk
      BY <1>1, <1>3
    <3>2. SubSeq(data, 1, k) \in Seq(Unit) /\ Len(SubSeq(data, 1, k)) = k
      BY <1>1, <3>1, FirstOf
    <3> QED
      BY <1>4, <2>2, <3>1, <3>2
  <2>3. CASE readback' = readback
    BY <1>3, <2>3
  <2> QED
    BY <1>2, <2>1, <2>2, <2>3
<1>6. TypeInv'
  BY <1>5 DEF IInv, TypeInv, ReadsChunk, device, script, past
<1>7. PlaceInv'
  BY DEF IInv, PlaceInv, ReadsChunk, device, script, past
<1>8. RestoreInv' /\ WrittenInv' /\ HashedInv' /\ DoneMeansWritten'
  BY DEF RestoreInv, WrittenInv, HashedInv, DoneMeansWritten, ReadsChunk, past
<1> QED
  BY <1>6, <1>7, <1>8 DEF IInv

LEMMA ReadEndKeeps == ASSUME IInv, ReadEnds PROVE IInv'
<1>1. TypeInv' /\ PlaceInv'
  BY DEF IInv, TypeInv, PlaceInv, ReadEnds, device, script, reader, past
<1>2. RestoreInv' /\ WrittenInv' /\ HashedInv' /\ DoneMeansWritten'
  BY DEF RestoreInv, WrittenInv, HashedInv, DoneMeansWritten, ReadEnds, past
<1> QED
  BY <1>1, <1>2 DEF IInv

(* The phone's own hash of the range, or no answer. *)
LEMMA HashKeeps == ASSUME IInv, Hashes PROVE IInv'
<1>1. TypeInv'
  BY DEF IInv, TypeInv, Hashes, device, script, Ends, past
<1>2. PlaceInv'
  BY DEF IInv, PlaceInv, Hashes, device, script, Ends, past
<1>3. RestoreInv' /\ WrittenInv' /\ DoneMeansWritten'
  BY DEF IInv, PlaceInv, RestoreInv, WrittenInv, DoneMeansWritten, Hashes, script, Ends, past
<1>4. HashedInv'
  <2> SUFFICES ASSUME Len(readback) <= Size, readback = FirstUnits(Len(readback))
               PROVE  \A i \in 1..Len(readback) : readback[i] = part[i]
    BY DEF HashedInv, Hashes, device
  <2>1. part \in Seq(Unit) /\ Len(part) = Size /\ Len(readback) \in Nat /\ Size \in Nat
    BY LenProperties, PartitionAssumption DEF IInv, TypeInv
  <2> DEFINE n == Len(readback)
  <2>2. n \in 0..Len(part)
    BY <2>1
  <2>3. \A i \in 1..n : SubSeq(part, 1, n)[i] = part[i]
    BY <2>1, <2>2, FirstOf
  <2> QED
    BY <2>3 DEF FirstUnits
<1> QED
  BY <1>1, <1>2, <1>3, <1>4 DEF IInv

LEMMA ComparisonKeeps == ASSUME IInv, Compares PROVE IInv'
<1>1. named' \in Name \cup {"none"} /\ report' \in {"no match", "done"} /\ pc' = "off"
  BY DEF Compares, Ends
<1>2. TypeInv'
  BY <1>1 DEF IInv, TypeInv, Compares, device, script, past
<1>3. PlaceInv'
  BY <1>1 DEF IInv, PlaceInv, Compares, device, script, past
<1>4. RestoreInv' /\ WrittenInv' /\ HashedInv'
  BY <1>1 DEF RestoreInv, WrittenInv, HashedInv, past
<1>5. DoneMeansWritten'
  BY DEF IInv, PlaceInv, DoneMeansWritten, Compares, script, past
<1> QED
  BY <1>2, <1>3, <1>4, <1>5 DEF IInv

(* The phone restarts; a build replaces an image. *)
LEMMA RestartKeeps == ASSUME IInv, Restarts PROVE IInv'
<1>1. TypeInv'
  BY DEF IInv, TypeInv, Restarts, script, reader, past
<1>2. PlaceInv'
  BY DEF IInv, PlaceInv, Restarts, script, reader, past
<1>3. RestoreInv' /\ WrittenInv' /\ HashedInv' /\ DoneMeansWritten'
  BY DEF IInv, RestoreInv, WrittenInv, HashedInv, DoneMeansWritten, FirstUnits, Restarts, script, reader, past
<1> QED
  BY <1>1, <1>2, <1>3 DEF IInv

LEMMA RebuildKeeps == ASSUME IInv, Rebuilds PROVE IInv'
<1>1. TypeInv'
  <2>1. files' \in [Name -> Builds]
    BY DEF IInv, TypeInv, Rebuilds
  <2> QED
    BY <2>1 DEF IInv, TypeInv, Rebuilds, device, script, reader, past
<1>2. PlaceInv'
  BY DEF IInv, PlaceInv, Rebuilds, device, script, past
<1>3. RestoreInv' /\ WrittenInv' /\ HashedInv' /\ DoneMeansWritten'
  BY DEF IInv, RestoreInv, WrittenInv, HashedInv, DoneMeansWritten, FirstUnits, Rebuilds, device,
         script, reader, past
<1> QED
  BY <1>1, <1>2, <1>3 DEF IInv

LEMMA BackupKeeps == ASSUME IInv, BackupChanges PROVE IInv'
<1>1. TypeInv'
  BY DEF IInv, TypeInv, BackupChanges, device, script, reader
<1>2. PlaceInv'
  BY DEF IInv, PlaceInv, BackupChanges, device, script
<1>3. RestoreInv'
  BY DEF IInv, TypeInv, RestoreInv, BackupChanges, script
<1>4. WrittenInv' /\ HashedInv' /\ DoneMeansWritten'
  BY DEF IInv, WrittenInv, HashedInv, DoneMeansWritten, FirstUnits, BackupChanges, device,
         script, reader
<1> QED
  BY <1>1, <1>2, <1>3, <1>4 DEF IInv

LEMMA StutterKeeps == ASSUME IInv, UNCHANGED vars PROVE IInv'
<1>1. TypeInv'
  BY DEF IInv, TypeInv, vars, device, script, reader, past
<1>2. PlaceInv'
  BY DEF IInv, PlaceInv, vars, device, script, reader, past
<1>3. RestoreInv' /\ WrittenInv' /\ HashedInv' /\ DoneMeansWritten'
  BY DEF IInv, RestoreInv, WrittenInv, HashedInv, DoneMeansWritten, FirstUnits, vars, device,
         script, reader, past
<1> QED
  BY <1>1, <1>2, <1>3 DEF IInv

LEMMA InitHolds == ASSUME Init PROVE IInv
<1>1. <<>> \in Seq(Unit) /\ Len(<<>>) = 0
  BY EmptySeq
<1>2. Size \in Nat /\ 0 < ReadSize + Chunk /\ Stock \in Seq(Unit) /\ Len(Stock) = Size
  BY PartitionAssumption
<1>3. <<>> \in Copies /\ 0 \in 0..Size
  BY <1>1, <1>2 DEF Copies
<1>4. TypeInv
  BY <1>1, <1>2, <1>3 DEF Init, TypeInv
<1>5. PlaceInv /\ RestoreInv /\ WrittenInv /\ HashedInv /\ DoneMeansWritten
  BY DEF Init, PlaceInv, RestoreInv, WrittenInv, HashedInv, DoneMeansWritten
<1> QED
  BY <1>4, <1>5 DEF IInv

LEMMA StepKeeps == ASSUME IInv, [Next]_vars PROVE IInv'
<1>1. CASE FlashStarts \/ RestoreStarts \/ IdentifyStarts
  BY <1>1, FlashStartKeeps, RestoreStartKeeps, IdentifyStartKeeps
<1>2. CASE Refuses \/ FlashStats \/ FlashCopies \/ FlashHashes \/ RoutePicks
  BY <1>2, RefusalKeeps, SizingKeeps, CopyKeeps, DigestKeeps, RouteKeeps
<1>3. CASE FastbootFlashes \/ Pushes \/ Writes \/ ReadsBack
  BY <1>3, FastbootKeeps, PushKeeps, WriteKeeps, ReadBackKeeps
<1>4. CASE ReadsChunk \/ ReadEnds \/ Hashes \/ Compares
  BY <1>4, ChunkKeeps, ReadEndKeeps, HashKeeps, ComparisonKeeps
<1>5. CASE Restarts \/ Rebuilds \/ BackupChanges
  BY <1>5, RestartKeeps, RebuildKeeps, BackupKeeps
<1>6. CASE Rests \/ UNCHANGED vars
  BY <1>6, StutterKeeps DEF Rests
<1> QED
  BY <1>1, <1>2, <1>3, <1>4, <1>5, <1>6 DEF Next, Tool

LEMMA Invariant == Spec => []IInv
<1> QED
  BY InitHolds, StepKeeps, PTL DEF Spec

-----------------------------------------------------------------------------
(* On the TWRP route "Done" means that the partition begins with what was  *)
(* hashed and, when that was pushed, holds behind it what it held before:  *)
(* whatever the link did to the dd and a build to the file.                *)
THEOREM DoneIsWritten == Spec => []BootInv
<1>1. IInv => BootInv
  BY DEF IInv, TypeInv, PlaceInv, Copies, BootInv, TypeOK
<1> QED
  BY <1>1, Invariant, PTL

(* A restore whose backup is not changed between its hash and its transfer *)
(* turns no unit of the partition into anything but stock.                 *)
LEMMA UnswappedWritesStock ==
    ASSUME IInv, [Next]_vars, op = "restore", pc # "off", ~swapped,
           NEW i \in 1..Size, part'[i] # part[i]
    PROVE  part'[i] = Stock[i]
<1>1. FastbootFlashes \/ Writes
  BY DEF Next, Tool, FlashStarts, RestoreStarts, IdentifyStarts, Starts, Refuses,
         FlashStats, FlashCopies, FlashHashes, RoutePicks, Pushes, ReadsBack, ReadsChunk,
         ReadEnds, Hashes, Compares, Restarts, Rebuilds, BackupChanges, Rests, vars, device
<1>2. CASE FastbootFlashes
  <2>1. backup = Stock
    BY <1>2 DEF IInv, RestoreInv, FastbootFlashes
  <2>2. part' = Overwrite(Stock)
    BY <1>2, <2>1, PartitionAssumption DEF FastbootFlashes
  <2>3. \A j \in 1..Size : Overwrite(Stock)[j] = IF j <= Len(Stock) THEN Stock[j] ELSE part[j]
    BY SourcesFit, Overwritten DEF IInv
  <2> QED
    BY <2>2, <2>3
<1>3. CASE Writes
  <2>1. pushed = Stock
    BY <1>3 DEF IInv, RestoreInv, Writes
  <2> QED
    BY <1>3, <2>1, WrittenSoFar
<1> QED
  BY <1>1, <1>2, <1>3

(* A restore that ends with "Done" has left stock: over TWRP by its        *)
(* read-back, over fastboot by its hash, if the backup is still that file. *)
LEMMA DoneIsStock ==
    ASSUME IInv, [Next]_vars, op = "restore", pc # "off", pc' = "off", report' = "done",
           route = "twrp" \/ ~swapped
    PROVE  part' = Stock
<1>1. ReadsBack \/ (FastbootFlashes /\ report' = "done")
  BY DEF IInv, PlaceInv, Next, Tool, FlashStarts, RestoreStarts, IdentifyStarts, Starts, Refuses,
         FlashStats, FlashCopies, FlashHashes, RoutePicks, Pushes, Writes, ReadsChunk, ReadEnds,
         Hashes, Compares, Restarts, Rebuilds, BackupChanges, Rests, Ends, vars, script, past
<1>2. Stock \in Seq(Unit) /\ Len(Stock) = Size /\ Size \in Nat /\ Size % 2 = 0
  BY PartitionAssumption
<1>3. part \in Seq(Unit) /\ Len(part) = Size
  BY DEF IInv, TypeInv
<1>4. CASE ReadsBack
  <2>1. Verified /\ part' = part
    BY <1>4 DEF ReadsBack, Ends, device
  <2>2. sha = Stock
    BY <1>4 DEF IInv, RestoreInv, ReadsBack
  <2>3. SubSeq(part, 1, Len(part)) = Stock
    BY <1>2, <1>3, <2>1, <2>2, VerifiedMeans DEF IInv, FirstUnits
  <2> QED
    BY <1>3, <2>1, <2>3, SubSeqFull
<1>5. CASE FastbootFlashes /\ report' = "done"
  <2>1. route = "fastboot" /\ report = "none"
    BY <1>5 DEF IInv, PlaceInv, FastbootFlashes
  <2>2. backup = Stock
    BY <1>5, <2>1 DEF IInv, RestoreInv, FastbootFlashes
  <2>3. part' = Overwrite(Stock)
    BY <1>2, <1>5, <2>2 DEF FastbootFlashes, Ends
  <2>4. /\ Overwrite(Stock) \in Seq(Unit) /\ Len(Overwrite(Stock)) = Size
        /\ \A i \in 1..Size : Overwrite(Stock)[i] = IF i <= Len(Stock) THEN Stock[i] ELSE part[i]
    BY SourcesFit, Overwritten DEF IInv
  <2>5. \A i \in 1..Len(Stock) : Overwrite(Stock)[i] = Stock[i]
    BY <1>2, <2>4
  <2> QED
    BY <1>2, <2>3, <2>4, <2>5, SeqEqual
<1> QED
  BY <1>1, <1>4, <1>5

(* A restore writes nothing but stock unless the backup is changed between *)
(* its hash and its transfer, and "Done" over TWRP means stock even then.  *)
THEOREM RestoresOnlyStock == Spec => OnlyStockIsRestored
<1>1. IInv /\ [Next]_vars =>
        [op = "restore" /\ pc # "off" =>
           /\ ~swapped => \A u \in 1..Size : part'[u] # part[u] => part'[u] = Stock[u]
           /\ pc' = "off" /\ report' = "done" /\ (route = "twrp" \/ ~swapped)
                => part' = Stock]_vars
  BY UnswappedWritesStock, DoneIsStock
<1> QED
  BY <1>1, Invariant, PTL DEF Spec, OnlyStockIsRestored

(* One sequence begins another, unit by unit. *)
LEMMA PrefixMeans ==
    ASSUME NEW s \in Seq(Unit), NEW t \in Seq(Unit)
    PROVE  IsPrefix(s, t) <=> Len(s) <= Len(t) /\ \A i \in 1..Len(s) : s[i] = t[i]
<1>1. Len(s) \in Nat /\ Len(t) \in Nat
  BY LenProperties
<1> SUFFICES ASSUME Len(s) <= Len(t)
             PROVE  SubSeq(s, 1, Len(s)) = SubSeq(t, 1, Len(s)) <=> \A i \in 1..Len(s) : s[i] = t[i]
  BY DEF IsPrefix
<1>2. SubSeq(s, 1, Len(s)) = s
  BY SubSeqFull
<1>3. /\ SubSeq(t, 1, Len(s)) \in Seq(Unit) /\ Len(SubSeq(t, 1, Len(s))) = Len(s)
      /\ \A i \in 1..Len(s) : SubSeq(t, 1, Len(s))[i] = t[i]
  BY <1>1, FirstOf
<1>4. ASSUME \A i \in 1..Len(s) : s[i] = t[i] PROVE s = SubSeq(t, 1, Len(s))
  <2>1. \A i \in 1..Len(s) : s[i] = SubSeq(t, 1, Len(s))[i]
    BY <1>3, <1>4
  <2> QED
    BY <1>3, <2>1, SeqEqual
<1> QED
  BY <1>2, <1>3, <1>4

(* A candidate is compared unit by unit, as far as it was read. *)
LEMMA SameMeans ==
    ASSUME TypeInv, NEW c \in Images
    PROVE  /\ Shorter(Len(c), Len(readback)) \in Nat
           /\ SameOverReadback(c) <=>
                \A i \in 1..Shorter(Len(c), Len(readback)) : c[i] = readback[i]
<1>1. c \in Seq(Unit) /\ Len(c) \in Nat /\ readback \in Seq(Unit) /\ Len(readback) \in Nat
  <2>1. c \in Seq(Unit) /\ readback \in Seq(Unit)
    BY DEF Images, TypeInv
  <2> QED
    BY <2>1, LenProperties
<1> DEFINE m == Shorter(Len(c), Len(readback))
<1>2. m \in 0..Len(c) /\ m \in 0..Len(readback)
  BY <1>1 DEF Shorter
<1>3. SubSeq(c, 1, m) \in Seq(Unit) /\ Len(SubSeq(c, 1, m)) = m /\ \A i \in 1..m : SubSeq(c, 1, m)[i] = c[i]
  BY <1>1, <1>2, FirstOf
<1> HIDE DEF m
<1>4. IsPrefix(SubSeq(c, 1, m), readback)
        <=> m <= Len(readback) /\ \A i \in 1..m : SubSeq(c, 1, m)[i] = readback[i]
  BY <1>1, <1>3, PrefixMeans
<1>5. m \in Nat /\ m <= Len(readback)
  BY <1>2
<1>6. IsPrefix(SubSeq(c, 1, m), readback) <=> \A i \in 1..m : c[i] = readback[i]
  BY <1>3, <1>4, <1>5
<1> QED
  BY <1>5, <1>6 DEF m, SameOverReadback

(* When the phone's hash agrees with the reader's, an image that is named  *)
(* and was read to its end is on the partition, and when none is named,    *)
(* none of them is.                                                        *)
THEOREM NamesWhatIsThere == Spec => IdentifyIsRight
<1>1. ASSUME IInv, [Next]_vars, pc = "compare", pc' = "off", hashed = "ok"
      PROVE  IF named' = "none" THEN \A n \in Name : ~IsPrefix(files[n], part)
             ELSE Len(files[named']) <= Len(readback) => IsPrefix(files[named'], part)
  <2>1. Compares
    BY <1>1 DEF Next, Tool, FlashStarts, RestoreStarts, IdentifyStarts, Starts, Refuses,
                FlashStats, FlashCopies, FlashHashes, RoutePicks, FastbootFlashes, Pushes, Writes, ReadsBack, ReadsChunk,
                ReadEnds, Hashes, Restarts, Rebuilds, BackupChanges, Rests, vars
  <2>2. /\ part \in Seq(Unit) /\ Len(part) = Size /\ Size \in Nat
        /\ Len(readback) \in Nat /\ Len(readback) <= Size
        /\ \A i \in 1..Len(readback) : readback[i] = part[i]
    <3>1. part \in Seq(Unit) /\ Len(part) = Size /\ readback \in Seq(Unit)
      BY <1>1 DEF IInv, TypeInv
    <3>2. Len(readback) <= Size /\ \A i \in 1..Len(readback) : readback[i] = part[i]
      BY <1>1 DEF IInv, HashedInv
    <3> QED
      BY <3>1, <3>2, LenProperties, PartitionAssumption
  <2>3. ASSUME NEW n \in Name
        PROVE  /\ IsPrefix(files[n], part) => SameOverReadback(files[n])
               /\ SameOverReadback(files[n]) /\ Len(files[n]) <= Len(readback)
                    => IsPrefix(files[n], part)
    <3> DEFINE c == files[n]
               m == Shorter(Len(c), Len(readback))
    <3>1. c \in Images /\ c \in Seq(Unit) /\ Len(c) \in Nat
      <4>1. c \in Images
        BY <1>1, SourcesFit DEF IInv
      <4> QED
        BY <4>1, LenProperties DEF Images
    <3>2. SameOverReadback(c) <=> \A i \in 1..m : c[i] = readback[i]
      BY <1>1, <3>1, SameMeans DEF IInv
    <3>3. IsPrefix(c, part) <=> Len(c) <= Size /\ \A i \in 1..Len(c) : c[i] = part[i]
      BY <2>2, <3>1, PrefixMeans
    <3>4. /\ m \in Nat /\ m <= Len(c) /\ m <= Len(readback)
          /\ Len(c) <= Len(readback) => m = Len(c)
      BY <2>2, <3>1 DEF Shorter
    <3> HIDE DEF c, m
    <3>5. \A i \in 1..m : i \in 1..Len(c) /\ i \in 1..Len(readback)
      BY <2>2, <3>1, <3>4
    <3>6. IsPrefix(c, part) => SameOverReadback(c)
      BY <2>2, <3>2, <3>3, <3>5
    <3>7. SameOverReadback(c) /\ Len(c) <= Len(readback) => IsPrefix(c, part)
      <4> SUFFICES ASSUME SameOverReadback(c), Len(c) <= Len(readback)
                   PROVE  IsPrefix(c, part)
        OBVIOUS
      <4>1. \A i \in 1..Len(c) : c[i] = readback[i] /\ i \in 1..Len(readback)
        BY <3>2, <3>4, <3>5
      <4>2. Len(c) <= Size
        BY <2>2, <3>1
      <4> QED
        BY <2>2, <3>3, <4>1, <4>2
    <3> QED
      BY <3>6, <3>7 DEF c
  <2>4. CASE named' = "none"
    <3>1. \A n \in Name : ~SameOverReadback(files[n])
      BY <2>1, <2>4, PartitionAssumption DEF Compares, Matches
    <3> QED
      BY <2>3, <2>4, <3>1
  <2>5. CASE named' # "none"
    <3>1. named' \in Name /\ SameOverReadback(files[named'])
      BY <2>1, <2>5 DEF Compares, Matches
    <3> QED
      BY <2>3, <2>5, <3>1
  <2> QED
    BY <2>4, <2>5
<1>2. IInv /\ [Next]_vars =>
        [pc = "compare" /\ pc' = "off" /\ hashed = "ok" =>
           IF named' = "none" THEN \A n \in Name : ~IsPrefix(files[n], part)
           ELSE Len(files[named']) <= Len(readback) => IsPrefix(files[named'], part)]_vars
  BY <1>1
<1> QED
  BY <1>2, Invariant, PTL DEF Spec, IdentifyIsRight
=============================================================================
