--------------------------- MODULE BootPartition ---------------------------
(***************************************************************************)
(* The three tools that decide what is in the phone's `boot` partition,    *)
(* over a USB link that drops about once a minute: tools/flash-boot.sh     *)
(* writes a payload, tools/restore-stock-boot.sh writes the stock image    *)
(* back, and tools/identify-boot.py reads the partition and names the      *)
(* image that is in it.                                                    *)
(*                                                                         *)
(* Data is counted in units of half a 4096-byte block, the page size that  *)
(* makes a payload end in the middle of a block.  A sha256 is modelled by  *)
(* what it is taken of.  adb, TWRP's dd and ABL's flash command are        *)
(* external: each may be cut short by the link.                            *)
(***************************************************************************)
EXTENDS Integers, Sequences, FiniteSets, SequencesExt

CONSTANTS
    Name,           \* the boot images under work/out
    Builds,         \* what a build may leave there: a set of unit sequences
    Stock,          \* the image STOCK_SHA and EXPECT are the hash of
    Backups,        \* what the backup file may hold
    Zero,           \* a unit of padding
    Size,           \* units of the partition
    Chunk,          \* units identify-boot.py reads per adb call
    ReadSize,       \* units it asks for, 4 MiB in the build
    MaxRuns, MaxDrops,              \* bounds on the run that is explored
    MaxBuilds                       \* ... how often a file on the host changes

Unit == {Zero} \cup UNION {{s[i] : i \in 1..Len(s)} : s \in Builds \cup {Stock} \cup Backups}

ASSUME PartitionAssumption ==
    /\ Size \in Nat /\ Size % 2 = 0
    /\ Stock \in Seq(Unit) /\ Len(Stock) = Size
    /\ Builds \subseteq Seq(Unit) /\ Backups \subseteq Seq(Unit)
    /\ \A s \in Builds \cup Backups : Len(s) \in 1..Size
    /\ "none" \notin Name
    /\ Chunk \in Nat \ {0} /\ ReadSize \in 1..Size
    /\ {MaxRuns, MaxDrops, MaxBuilds} \subseteq Nat

VARIABLES
    part,       \* the partition
    files,      \* the images on the host
    backup,     \* the backup file
    mode,       \* what answers on the phone: ABL's fastboot, TWRP, or nothing
    op,         \* the tool that runs
    pc, img, route,
    copied,     \* FLASH_SRC is a padded temporary copy
    flashSrc,   \* ... and this is it
    size,       \* SRC_SIZE
    sha,        \* FLASH_SHA, or EXPECT
    pushed,     \* /tmp/payload.img on the phone
    report,     \* how the last tool ended
    readback, hashed, named,    \* identify-boot.py: what it read, checked, said
    before,     \* history: the partition when the tool started
    swapped,    \* history: the backup changed between its hash and its transfer
    runs, drops, builds         \* used of the three bounds

device == <<part, mode>>
script == <<op, img, route, copied, flashSrc, size, sha, pushed>>
reader == <<readback, hashed, named>>
bounds == <<runs, drops, builds>>
past   == <<before, swapped>>
vars   == <<device, files, backup, script, pc, report, reader, past, bounds>>

Init ==
    /\ part = Stock
    /\ files \in [Name -> Builds]
    /\ backup \in Backups
    /\ mode \in {"fastboot", "recovery"}
    /\ op = "none" /\ pc = "off" /\ img \in Name /\ route = "none"
    /\ copied = FALSE /\ flashSrc = <<>> /\ size = 0 /\ sha = <<>> /\ pushed = <<>>
    /\ report = "none"
    /\ readback = <<>> /\ hashed = "none" /\ named = "none"
    /\ before = Stock /\ swapped = FALSE
    /\ runs = 0 /\ drops = 0 /\ builds = 0

-----------------------------------------------------------------------------
(* The first n units of the partition, and the partition after a write. *)
FirstUnits(n) == SubSeq(part, 1, n)
Overwrite(s)  == s \o SubSeq(part, Len(s) + 1, Size)

(* A call over the link fails; what it had done by then stays done. *)
Drops == drops < MaxDrops /\ drops' = drops + 1

Ends(how) == pc' = "off" /\ report' = how

(* The phone restarts into ABL or into TWRP, by its buttons. *)
Restarts ==
    /\ pc = "off"
    /\ mode' \in {"fastboot", "recovery"}
    /\ UNCHANGED <<part, files, backup, script, pc, report, reader, past, bounds>>

(* A build replaces an image, in another terminal. *)
Rebuilds ==
    /\ builds < MaxBuilds
    /\ builds' = builds + 1
    /\ \E n \in Name, s \in Builds : files' = [files EXCEPT ![n] = s]
    /\ UNCHANGED <<device, backup, script, pc, report, reader, past, runs, drops>>

(* The backup is damaged, cut short or made good again, at any moment: no  *)
(* lock keeps it between its hash and the transfer.                        *)
BackupChanges ==
    /\ builds < MaxBuilds
    /\ builds' = builds + 1
    /\ backup' \in Backups
    /\ swapped' = (swapped \/ (op = "restore" /\ pc \in {"route", "fastboot", "twrp"}))
    /\ UNCHANGED <<device, files, script, pc, report, reader, before, runs, drops>>

Starts(tool) ==
    /\ pc = "off" /\ runs < MaxRuns
    /\ runs' = runs + 1
    /\ op' = tool
    /\ before' = part /\ swapped' = FALSE
    /\ report' = "none"
    /\ UNCHANGED <<device, files, backup, drops, builds>>

-----------------------------------------------------------------------------
(* flash-boot.sh: the arguments, SRC_SHA, and the refusal of the stock     *)
(* image, which has a tool of its own.                                     *)
FlashStarts ==
    /\ Starts("flash")
    /\ img' \in Name
    /\ route' \in {"auto", "twrp", "fastboot"}
    /\ copied' = FALSE
    /\ pc' = IF files[img'] = Stock THEN "refuse" ELSE "stat"
    /\ UNCHANGED <<flashSrc, size, sha, pushed, reader>>

Refuses ==
    /\ pc = "refuse"
    /\ Ends("died")
    /\ UNCHANGED <<device, files, backup, script, reader, past, bounds>>

(* SRC_SIZE, the padded copy of a file that ends in the middle of a block, *)
(* and FLASH_SHA: three looks at the file, and a build may come between.   *)
(* PAD and PAD_BYTES are those of the size that was looked at first.       *)
FlashStats ==
    /\ pc = "stat"
    /\ size' = Len(files[img])
    /\ pc' = IF size' % 2 # 0 THEN "copy" ELSE "digest"
    /\ UNCHANGED <<device, files, backup, op, img, route, copied, flashSrc, sha, pushed,
                   report, reader, past, bounds>>

FlashCopies ==
    /\ pc = "copy"
    /\ copied' = TRUE
    /\ flashSrc' = Append(files[img], Zero)
    /\ size' = size + 1
    /\ pc' = "digest"
    /\ UNCHANGED <<device, files, backup, op, img, route, sha, pushed, report, reader, past,
                   bounds>>

(* The file that a route transfers: $IMG or its copy, or the backup, as it *)
(* is by then.                                                             *)
Source == IF op = "restore" THEN backup ELSE IF copied THEN flashSrc ELSE files[img]

FlashHashes ==
    /\ pc = "digest"
    /\ sha' = Source
    /\ pc' = "route"
    /\ UNCHANGED <<device, files, backup, op, img, route, copied, flashSrc, size, pushed,
                   report, reader, past, bounds>>

(* Mutant: the hash is printed and not compared. *)
RestoreStartsUnchecked ==
    /\ Starts("restore")
    /\ route' \in {"auto", "twrp"}
    /\ sha' = Stock
    /\ pc' = "route"
    /\ UNCHANGED <<img, copied, flashSrc, size, pushed, reader>>

(* restore-stock-boot.sh: the backup is hashed before anything is written. *)
(* It is not held: what the route transfers is the file of that time.      *)
RestoreStarts ==
    /\ Starts("restore")
    /\ route' \in {"auto", "twrp"}
    /\ sha' = Stock
    /\ pc' = IF backup = Stock THEN "route" ELSE "refuse"
    /\ UNCHANGED <<img, copied, flashSrc, size, pushed, reader>>

(* Only an answered `getvar` selects fastboot; TWRP is the other route. *)
Reachable == CASE mode = "fastboot" -> "fastboot"
               [] mode = "recovery" -> "twrp"
               [] OTHER             -> "none"

RoutePicks ==
    /\ pc = "route"
    /\ route' = IF route = "auto" THEN Reachable ELSE route
    /\ IF route' = Reachable /\ Reachable # "none"
         THEN pc' = route' /\ UNCHANGED report
         ELSE Ends("died")
    /\ UNCHANGED <<device, files, backup, op, img, copied, flashSrc, size, sha, pushed, reader,
                   past, bounds>>

-----------------------------------------------------------------------------
(* The fastboot route: `fastboot flash boot "$IMG"`, not read back.  What  *)
(* ABL puts behind a file that ends in the middle of a block is its own.   *)
FastbootFlashes ==
    LET s == IF op = "restore" THEN backup ELSE files[img] IN
    /\ pc = "fastboot"
    /\ \/ /\ \E u \in {Zero, part[Len(s) + (Len(s) % 2)]} :
                part' = Overwrite(IF Len(s) % 2 = 0 THEN s ELSE Append(s, u))
          /\ Ends("done")
          /\ UNCHANGED <<mode, drops>>
       \/ /\ Drops                      \* mid-download: ABL is left waiting for data
          /\ mode' = "none"
          /\ Ends("died")
          /\ UNCHANGED part
    /\ UNCHANGED <<files, backup, script, reader, past, runs, builds>>

(* The TWRP route: the push, *)
Pushes ==
    /\ pc = "twrp"
    /\ \/ /\ pushed' = Source
          /\ pc' = "dd"
          /\ UNCHANGED <<report, drops>>
       \/ /\ Drops
          /\ \E k \in 0..(Len(Source) - 1) : pushed' = SubSeq(Source, 1, k)
          /\ Ends("died")
    /\ UNCHANGED <<device, files, backup, op, img, route, copied, flashSrc, size, sha, reader,
                   past, runs, builds>>

(* ... the dd, which a padded copy that a build has made too long fills,   *)
Fits(s) == Len(s) <= Size

Writes ==
    /\ pc = "dd"
    /\ \/ /\ Fits(pushed)
          /\ part' = Overwrite(pushed)
          /\ pc' = "readback"
          /\ UNCHANGED <<report, drops>>
       \/ /\ ~Fits(pushed)             \* no space is left on the device
          /\ part' = SubSeq(pushed, 1, Size)
          /\ Ends("died")
          /\ UNCHANGED drops
       \/ /\ Drops
          /\ \E k \in 0..Len(pushed) :
                /\ k % 2 = 0 /\ k <= Size
                /\ part' = Overwrite(SubSeq(pushed, 1, k))
          /\ \/ Ends("died")
             \/ pc' = "readback" /\ UNCHANGED report      \* no error is seen
    /\ UNCHANGED <<mode, files, backup, script, reader, past, runs, builds>>

(* ... and the partition hashed on the phone, over whole blocks: BLOCKS of *)
(* SRC_SIZE, or as many as the backup has by then, which must be whole.    *)
Counted         == IF op = "restore" THEN Len(backup) ELSE size
BlocksShort     == Counted \div 2 - 1                              \* mutant
Blocks          == Counted \div 2
VerifiedShorter == IsPrefix(FirstUnits(2 * (Blocks - 1)), sha)      \* mutant
VerifiedByFile  == FirstUnits(2 * Blocks) = IF op = "restore" THEN backup ELSE sha  \* mutant
Verified        == FirstUnits(2 * Blocks) = sha

ReadsBack ==
    /\ pc = "readback"
    /\ \/ /\ Ends(IF Counted % 2 = 0 /\ Verified THEN "done" ELSE "died")
          /\ UNCHANGED drops
       \/ Drops /\ Ends("died")
    /\ UNCHANGED <<device, files, backup, script, reader, past, runs, builds>>

-----------------------------------------------------------------------------
(* identify-boot.py --read, one adb call per chunk.  `skip` is computed    *)
(* from what has been read, so a chunk that came back short is read again. *)
IdentifyStarts ==
    /\ Starts("identify")
    /\ readback' = <<>> /\ hashed' = "none" /\ named' = "none"
    /\ pc' = IF mode = "recovery" THEN "read" ELSE "hash"
    /\ UNCHANGED <<img, route, copied, flashSrc, size, sha, pushed>>

Skip == Len(readback) \div Chunk

ReadsChunk ==
    LET data == SubSeq(part, Skip * Chunk + 1, IF (Skip + 1) * Chunk > Size THEN Size
                                               ELSE (Skip + 1) * Chunk)
    IN
    /\ pc = "read"
    /\ Len(readback) < ReadSize
    /\ \/ /\ data # <<>>
          /\ readback' = readback \o data
          /\ UNCHANGED <<pc, drops>>
       \/ /\ Drops                      \* rc = 0: the tool goes on
          /\ \E k \in 1..(Len(data) - 1) : readback' = readback \o SubSeq(data, 1, k)
          /\ UNCHANGED pc
       \/ /\ Drops                      \* rc # 0: it stops
          /\ pc' = "hash"
          /\ UNCHANGED readback
    /\ UNCHANGED <<device, files, backup, script, report, hashed, named, past, runs, builds>>

ReadEnds ==
    /\ pc = "read" /\ Len(readback) >= ReadSize
    /\ pc' = "hash"
    /\ UNCHANGED <<device, files, backup, script, report, reader, past, bounds>>

(* device_hash: the same range, hashed on the phone.  No answer is no      *)
(* check, and a mismatch is printed.                                       *)
Hashes ==
    /\ pc = "hash"
    /\ \/ /\ hashed' = IF Len(readback) <= Size /\ readback = FirstUnits(Len(readback))
                         THEN "ok" ELSE "mismatch"
          /\ UNCHANGED drops
       \/ Drops /\ hashed' = "none"
    /\ IF readback = <<>> THEN Ends("died") ELSE pc' = "compare" /\ UNCHANGED report
    /\ UNCHANGED <<device, files, backup, script, readback, named, past, runs, builds>>

Shorter(a, b) == IF a < b THEN a ELSE b

(* compare: a candidate is graded over its own extent, as far as it was    *)
(* read.                                                                   *)
SameAtTheStart(c)   == IsPrefix(SubSeq(c, 1, 2), readback)      \* mutant: a fixed window
SameOverReadback(c) == IsPrefix(SubSeq(c, 1, Shorter(Len(c), Len(readback))), readback)
Matches(c)          == SameOverReadback(c) /\ Len(c) <= Len(readback)

(* The ranking: a match, or else a candidate that goes on behind the read. *)
Compares ==
    LET same    == {n \in Name : SameOverReadback(files[n])}
        matches == {n \in Name : Matches(files[n])}
    IN
    /\ pc = "compare"
    /\ IF matches # {} THEN named' \in matches
       ELSE IF same # {} THEN named' \in same ELSE named' = "none"
    /\ Ends(IF named' = "none" THEN "no match" ELSE "done")
    /\ UNCHANGED <<device, files, backup, script, readback, hashed, past, bounds>>

-----------------------------------------------------------------------------
Rests == pc = "off" /\ UNCHANGED vars

Tool ==
    \/ Refuses \/ FlashStats \/ FlashCopies \/ FlashHashes \/ RoutePicks
    \/ FastbootFlashes \/ Pushes \/ Writes \/ ReadsBack
    \/ ReadsChunk \/ ReadEnds \/ Hashes \/ Compares

Next ==
    \/ FlashStarts \/ RestoreStarts \/ IdentifyStarts \/ Tool
    \/ Restarts \/ Rebuilds \/ BackupChanges \/ Rests

Spec == Init /\ [][Next]_vars

(* The tools are scripts that run to their end. *)
FairSpec == Spec /\ WF_vars(Tool)

-----------------------------------------------------------------------------
TypeOK ==
    /\ part \in Seq(Unit) /\ Len(part) = Size
    /\ mode \in {"fastboot", "recovery", "none"}
    /\ op \in {"none", "flash", "restore", "identify"}
    /\ pc \in {"off", "refuse", "stat", "copy", "digest", "route", "fastboot", "twrp",
              "dd", "readback", "read", "hash", "compare"}
    /\ size \in 0..Size /\ sha \in Seq(Unit) /\ Len(sha) <= Size + 1
    /\ report \in {"none", "done", "died", "no match"}
    /\ hashed \in {"none", "ok", "mismatch"}
    /\ named \in Name \cup {"none"}
    /\ Len(readback) < ReadSize + Chunk

(* On the TWRP route "Done" means that the partition begins with the file, *)
(* padded to a block, as it was when it was hashed - whatever a build did  *)
(* to the file since, and whatever the link did to the write.  When what   *)
(* was pushed is what was hashed, all behind it is what was there before.  *)
(* (A longer build that begins with the hashed one passes the read-back.)  *)
DoneMeansWritten ==
    pc = "off" /\ report = "done" /\ op \in {"flash", "restore"} /\ route = "twrp" =>
        /\ FirstUnits(Len(sha)) = sha
        /\ pushed = sha => part = sha \o SubSeq(before, Len(sha) + 1, Size)

(* What every state of the partition and of the scripts is. *)
BootInv == TypeOK /\ DoneMeansWritten

(* The A/B control: a restore turns no unit of the partition into anything *)
(* but stock, unless the backup was changed between its hash and its       *)
(* transfer; and even then "Done" over TWRP means that stock is there, for *)
(* the read-back is compared with EXPECT.  Over fastboot, where nothing is *)
(* read back, a file that is changed in between is written and is Done.    *)
OnlyStockIsRestored ==
    [][op = "restore" /\ pc # "off" =>
         /\ ~swapped => \A u \in 1..Size : part'[u] # part[u] => part'[u] = Stock[u]
         /\ pc' = "off" /\ report' = "done" /\ (route = "twrp" \/ ~swapped)
              => part' = Stock]_vars

(* identify-boot.py, when the phone's hash agrees with its own: an image   *)
(* that it names and has read to its end is on the partition, and when it  *)
(* names none, none of them is - over short chunks and stale tails.        *)
IdentifyIsRight ==
    [][pc = "compare" /\ pc' = "off" /\ hashed = "ok" =>
         IF named' = "none" THEN \A n \in Name : ~IsPrefix(files[n], part)
         ELSE Len(files[named']) <= Len(readback) => IsPrefix(files[named'], part)]_vars

(* "re-run this": however a write was cut short, one restore that the link *)
(* and the backup's owner leave alone ends with stock on the partition,    *)
(* and says so.                                                            *)
RestoreRepairs ==
    [](op = "restore" /\ pc = "route" /\ ~swapped
          /\ drops = MaxDrops /\ builds = MaxBuilds
          /\ (mode = "recovery" \/ (mode = "fastboot" /\ route = "auto"))
         => <>(part = Stock /\ report = "done"))
=============================================================================
