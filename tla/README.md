# Verification of the gauguin bring-up

TLA+ models of the parts of this repository that carry its logic, the TLC runs
that check them, and TLAPS proofs of the properties that matter most.  The
repository brings Windows on ARM up on a Xiaomi phone (gauguin): a UEFI platform
and a patched Mu_Basecore for the phone, and on the host the tools that generate
the platform, build images, write them to the phone, talk to its bootloader over
an unreliable USB link and read back what happened.  The phone has no UART, so
nearly everything that is known about a boot is *inferred*: from a few printed
rows, a hash, a verdict, a list read out of a binary.  What is verified here is
mostly that: **what the program says is what happened**, in the interleavings,
failures and odd inputs that make it hard.

All line numbers below are of files of the repository; `patch` is
`uefi/patches/mu-basecore-local.patch`, and a tool is named without `tools/`.

- [Inventory](#inventory)
- [Modules and how they follow the code](#modules-and-how-they-follow-the-code)
- [Runs](#runs)
- [Where the code and its comments part](#where-the-code-and-its-comments-part)
- [Proofs](#proofs)
- [What is left](#what-is-left)

## Inventory

| component | state | operations | what is hard | what makes it correct |
|---|---|---|---|---|
| DXE dispatcher with the P2BRINGUP records (patch 340-1150, 1165-1493) | discovered list with per-driver flags, the FIFO of scheduled drivers; counters, one slot per promoted Apriori entry, 64 failure records | walk a volume, promote its Apriori file, load, start, record, tick | a volume installed *by* an EntryPoint while others are queued; a walk that returns too little; full arrays; an EntryPoint that hangs | the rows printed at the end tell the dispatch that happened, and what the host's tools foretell of them is so |
| page census and heap probes (patch 459-828, 1404-1412, 1677-1873) | the memory map; one described failure and a tally; cached retry results; a probe flag | ladder of requests, six retries, census of a refused request, 41 copies of a digest | the instrument allocates from the heap it measures and is refused by the allocator that counts refusals; event callbacks between its steps | no page lost, the first copy tells the run and not the instrument, all copies agree on the heap |
| fastboot transport (`unwedge-fastboot.py`, `fastboot-capture.sh`, `pull-bootloader-log.sh`) | ABL's fastboot thread and its two bulk endpoints; a client; the tool's drain, deadlines and verdict | send, read, time out, kill, drain, classify | clients killed mid-reply; a command swallowed as download data; an ABL that is merely late | the verdict names the state ABL was in; `alive` leaves no reply behind; the tool always ends |
| writing and identifying `boot` (`flash-boot.sh`, `restore-stock-boot.sh`, `identify-boot.py`) | the partition, the image files, hashes taken of them, a read-back | hash, pad, push, dd, read back; chunked read, hash on the phone, rank | the link drops mid-write and mid-read; a build replaces a file between hash and push; half blocks; stale tails | "Done" means written, only stock is ever restored, the image named is the image there |
| console panel (`panel-text.py`, `console-budget.py`, the console of patch 1165-1493) | a grid of rows that wipes when full; budgets of rows and columns; dumps joined to a stream | print, wrap, wipe, dump, join, count | which rows are on the panel when it is photographed; lines that end in the last column | a whole digest is held, it costs what the budget says, a joined stream lost nothing it does not report |
| QEMU run and its EL3 stub (`qemu-panel-read.py`, `qemu-el3-stub.S`) | the monitor's socket, the dumps, the guest's tables, redirected memory and seeds | plan, launch, sample, join, read back, judge | a prompt that comes late belongs to another command; a guest that runs while it is read; regions across 2 MB blocks | a redirected register keeps what is written, a verdict is one about the guest, no false alarm, the tool ends |
| firmware volume analysis (`fv-inventory.py`, `fv-census.py`, `apriori-*.py`, `depex-census.py`, `arch-protocol-census.py`, `load-sites.py`, `probe-fingerprint.py`, `pe-facts.py`, `promote-check.py`, `heap-compare.py`) | parsed volumes, sources, observations | walk, replay, order, classify, attribute | agreement with the firmware's own walk; pad files, resynchronisation, corruption; lookups by name | the walks agree, an order called right is the built one, a class foretells the dispatcher |
| boot image layout (`make_boot_image.py`, `mkbootimg.py`, `check-payload.py`, `abl-boot-check.py`, `gauguin.py`, `make_dtbo_sinks.py`, `fdt.py`, `build-device-tree.sh`, `build-p1-payloads.sh`, `build-p2-payloads.sh`) | header fields, offsets; the tree, the phone's dtbo dump, an image | pack, check, replay ABL, overlay, hand over | rounding, forms of kernels, where the tree is; a kept tree; two checks that look for the same thing | what passes the checks boots with the tree that was packed |
| platform generator and build pipeline (`make_uefi_platform.py`, `make_xbl_binaries.py`, `xbl_extract.py`, `sync-uefi-platform.sh`, `regen-mu-basecore-patch.sh`, `build-apriori-variant.sh`) | extracted blobs, a generated tree, a checkout, an image | extract, generate, sync, patch, build, run an experiment and restore | a stage that stops half way; a sync that never removes; a trap under `set -e` | the lists are whole, a ready image carries its experiment, a finished restore leaves the default |
| ACPI censuses (`acpi-*.py`) | a stack of scopes, items, windows; corpora of orders | read a table by braces or by lines, move units, count votes, match a family | two readers of one text, one of which never closes a device | each finds what is there and credits it to its owner |
| ramoops log channel (`initramfs/init.c`, `read-logfs.py`, `pull-bootloader-log.sh`, `read-dram.py`) | a ring in DRAM that survives a warm reset; rotating slots of logfs | write, rotate, snapshot, read in chunks, hash, search | one chance to read; slots that rotate with every handover; a link that cuts chunks | logs are newest first, a dump called good is the range |
| backup and partition tools (`device-backup.sh`, `device-dump-helper.sh`, `carve-partitions.py`, `gpt.py`) | dump files, partition table | dump, resume, find the table, carve | a dump cut short that looks whole; sector sizes that have to be guessed | what is carved is the partition |
| USB watcher (`watch-usb.sh`) | a list of buses taken once, the kernel log | list, follow, label | a stale list; a silent log | a bus called stable is corrected; the watch ends with the next line |
| other Mu_Basecore edits (patch 119-330, 1875-1909); platform data (ASL, DTS, cfg, blobs) | none to speak of | - | - | not modelled: single conditions, and data without behaviour |

How they interact.  The extractor and the generator turn device binaries into
lists and data, the sync and the build into a firmware volume
(`PlatformBuild`); the payload builders wrap it into a boot image with a tree for
the phone's dtbo, and check it (`PayloadBuild`).  `flash-boot.sh` puts the image
on the phone over TWRP or ABL's fastboot (`BootPartition`; a wedged ABL,
`FastbootLink`, closes one of the two routes).  ABL loads it; the DXE dispatcher
runs the volume's drivers (`DxeDispatch`) and prints its digest (`PageCensus` are
its `free=`, `FWHY` and `FWTY` rows) on the panel (`ConsolePanel`).  The panel is
photographed, or sampled under QEMU (`QemuRun`); or a log is read back from ABL,
logfs, ramoops or DRAM (`DeviceSession`).  On the host the volume and its sources
are read beforehand to foretell and afterwards to decode the digest (`FvTools`,
`AprioriTools`), and the ACPI tables to compare phones (`AslTools`).

Where two components share state they are composed in one module: `AprioriTools`
extends `DxeDispatch`, so that the host's predictions are compared with the
device's own counters over one volume; `PayloadBuild` extends the layout, both
checks and ABL; `PlatformBuild` extends the lists and the data; `QemuRun` runs the
redirect, the join and four parties over one memory; `DeviceSession` lets one tool
at a time work with a phone that boots, panics and loses power.

## Modules and how they follow the code

Every definition that stands for code names its lines in `PROJECT.json` "map".
The names are the source's where TLA+ allows.

### DxeDispatch, SeqLine, AprioriTools (MCDxeDispatch, DxeDispatch_proofs)

One action per step of the dispatcher that other code can come between.

| code | action or operator |
|---|---|
| `CoreFwVolEventProtocolNotify`: the walk, `CoreAddToDriverList`, the Apriori read (1008-1063) | `FwVolNotify` - the walk may return any subset of the volume's files |
| the promotion loop (1064-1149) | `PromoteHit`, `PromoteMiss`, `PromoteEnd`, one step per entry |
| the head of the queue is loaded, the load fails (967-986) | `BeginLoad`, `LoadFails(status)`: Untrusted or Initialized, `P2Record`, off the queue, `P2Tick` |
| the load succeeds; the EntryPoint runs, returns, or does not (987-1007) | `BeginStart`, `StartSucceeds`, `StartFails(status)`, `StartHangs` |
| DEPEX evaluation | `ScheduleReady`: any of the waiting drivers, in any order (external) |
| `P2WhyLetter`, `P2MarkSeq`, `P2Record`, `P2Tick`, `P2Key` | `WhyLetter`, `MarkSeq`, `Record`, `Tick`, `FailedSlots`/`KeyErrors`/`KeyAt` |
| the SEQ line of `P2Digest` | `SeqLetters` |

A volume is installed before `CoreDispatcher` runs or by an EntryPoint
(`FwVolNotify` is enabled in phase `starting`), so a promotion can happen while a
driver is running and others are queued.  What the patch does not show of
`CoreDispatcher` - the order of its inner loop, the pop of a loaded driver - is
modelled from the context lines and marked external.  `attempts` is a history
variable: it records what really happened, and the properties compare the
program's own records with it.  `WellFormed` states what the build guarantees and
the proofs rest on: no two files of one GUID, one Apriori file (gauguin.fdf:40),
which starts with the core and names no file twice (APRIORI.inc).

`SeqLine` is the abstract specification: what a person reading the SEQ line
assumes.  It only grows by a `?`, and only its leftmost `?` is replaced.

`AprioriTools` adds the three tools that think about a walk that stopped short:
`apriori-prefix.py` (every field of the APRI line from the number of files seen),
`apriori-index.py` (which driver each letter of a SEQ line belongs to, given the
entries that were not hit) and `fv-census.py` (the name of the stop from a count
and an index).  It has no actions of its own: the predictions are compared in
every state with what `DxeDispatch` has counted.  The third is held to
its word only for a volume with a driver for every entry behind the core's: a walk
that never meets an entry makes the miss say nothing about where it stopped.

### PageCensus (MCPageCensus, PageCensus_proofs)

The memory map is a set of free page numbers; a descriptor is a maximal run
(`Runs`), an alignment clip is `Clip`.  The allocator is external: the highest
run that is long enough, one promotion of untested memory, free pages merge.
`FreeWhy` is `P2FreeWhy` with its flag, its tally and its one-time census;
`EntersLadder .. LeavesLadder` is `P2LargestAlloc`, whose three callers (the tick,
`P2 FREE`, `P2Key`) are `caller`; `RetryAsks`/`RetryReleases` are `P2Retry`;
`DigestBegins .. PrintRetry`, `P2Hold` are one copy of the digest and the pause.
A probe's allocation and its free are separate steps (`probeBlock`), so an event
callback may come between them.  `row`/`rows` are what has been printed.

### FastbootLink (MCFastbootLink, FastbootLink_proofs)

ABL is external and modelled as a thread that waits for a command, writes a reply
packet by packet, waits for download data, or is stuck, and a host that reads,
writes and times out against it.  A packet in `reply` carries the one who asked
for it, so a leftover reply is told from an answer.  The clients are the commands
of `fastboot-capture.sh` (under `timeout`: `limited`), of `pull-bootloader-log.sh`
(not) and of a person at a shell, who may interrupt.  The tool is one action per
libusb call or loop iteration: `ToolStarts`, `Ep0Silent`, `SetsConfiguration`,
`Drains`/`DrainEnds`, `Sends`, `Responds`/`ResponseTimesOut`/`ResponseEnds`,
`Decides`.  Time is counted in read timeouts: how many fit into `--seconds` and
`--wait`.  `late` says whether ABL may exceed the tool's timeouts in this run.

### BootPartition (MCBootPartition, BootPartition_proofs)

The partition and the images are sequences of half blocks, the unit in which a
payload (a multiple of 2048) can miss a block (4096).  A hash is what it is taken
of.  `FlashStarts .. ReadsBack` follow `flash-boot.sh` top to bottom, and
`RestoreStarts` and the shared steps `restore-stock-boot.sh`; `IdentifyStarts ..
Compares` follow `identify-boot.py`.  Every call over the link may fail
(`Drops`), and then what it had done stays done: a prefix pushed, a prefix of whole
blocks written (with the error seen or not), a short chunk read.

No file on the host is held.  `Rebuilds` lets a build replace an image at any moment,
and `flash-boot.sh` looks at it five times: the hash that refuses stock, the size
(`FlashStats`), the padded copy (`FlashCopies`), `FLASH_SHA` (`FlashHashes`) and the
transfer.  `BackupChanges` does the same to the backup, which `restore-stock-boot.sh`
hashes (line 55), transfers (96 or 100), and measures for the read-back (112).  So the
hash is no promise about what is written: `OnlyStockIsRestored` says that a restore
writes nothing but stock *unless* the file was changed between hash and transfer
(`swapped`), and that "Done" then still means stock over TWRP, where the read-back is
compared with EXPECT.  Over fastboot nothing is read back, and such a file is written
and reported as done.

### ConsolePanel, PanelJoin, ConsoleBudget (MCConsolePanel)

The grid of cells, the cursor, and what is still to be printed, one character per
`Prints`.  `WriteFrameBuffer` and `Advance` follow `console_render` and `_advance`
of `panel-text.py`, the transcription of the firmware's console kept in this
repository: a space at the left edge is skipped, the last column wraps, the last
row wipes.  `RowsOf` is `console_rows`, the same layout as text, without its cut to
the last 100 rows: the properties compare the panel with all that was printed.
`Printed` is the tail of the patch, some lines and then the copies of `P2Digest`
with a pause behind each.  `Dumps` is one round of `fb_merge` over a dump taken
between any two characters; the join itself is `PanelJoin`, which `QemuRun` uses
too.  `ConsoleBudget` is `console-budget.py`: what a format costs in rows, on
which columns a field lands, which variant of a line is the widest.

### Stage2Map, QemuRun (MCQemuRun, QemuRun_proofs)

`Stage2Map` is the arithmetic of `--el3-zero-mem`: which 2 MB blocks of low
address the platform declares (`low_regions`), where each is moved (`l2_plan`), the
level 2 table that is assembled for them, and where an access of the guest lands.

`QemuRun` are four parties.  The tool prepares, launches, connects, samples the
console, reads back the tables and the seeds (`Fetches`, one monitor command at a
time) and reports.  The monitor's socket holds what has been asked and the prompts
not yet read: a command whose deadline passes (`PromptTimesOut`) leaves its prompt
for the next one.  QEMU answers at any later moment.  A dump of the panel is not a
moment: `Opens` truncates the file, `Scans` writes one row after the other while the
guest goes on, and `Saves` prompts; each other read is of a few words, in one step.
The guest starts in the stub, writes registers, in some cases overwrites what was
seeded, and prints the rows of a log: a row is drawn (`BeginsRow`), stands
(`EndsRow`), and the panel behind the last one is wiped (`Wipes`).  `Shows` says what
a dump may find in a row: what stands there, what does not stand yet in part (`Begun`,
also a row printed without its newline), what is half wiped, or nothing.
`EntersFinally`, `Terminates` and `Dies` are the tool's `finally` and its error exits.

A row of the log is its text, and logs repeat: the firmware prints 41 equal copies of
the digest, and `fb_overlap` compares text alone.  A stream without a gap is therefore
not the log: between two rows of the same text any number of whole copies may be
missing, and nothing tells.  What `StreamIsContiguous` promises is that no two lines
stand together that were not printed together, except in dumps the guest drew into
(`drawn`), whose own lines it leaves out; the line below such a dump is still claimed.

### FvVolume, AprioriOrder, SourceReaders, FvTools (MCFvTools)

`FvVolume` lays out a volume the way GenFv does (a padding file where the next
header has to be aligned, an extension header that moves the first file) and walks
it as `fv-inventory.py` does.  `FvTools` replays the device's walk in
`fv-census.py`, one action per branch of its loop - erased space, a header that
does not check, a resynchronisation, data that is corrupt, a file listed, the end -
and has the size rules of `apriori-index.py` and the classes of `depex-census.py`,
which evaluates dependency expressions.  `AprioriOrder` is `apriori-order.py`:
conditions in APRIORI.inc, names to INFs to BASE_NAMEs to GUIDs.  `SourceReaders` are `load-sites.py` and `probe-fingerprint.py`, which tie
a verdict or a row to a function of the C sources.

### BootImage, PayloadBuild (MCPayloadBuild, PayloadBuild_proofs)

`BootImage` has the layout two tools write and the structure check that reads it
again, and the replay of ABL's decisions (which tree, which dtbo entry,
which fragment lands where) beside `AblHandsOver`, ABL itself as far as the tools
tell of it.  `PayloadBuild` is the pipeline: a tree is built for the dump of the
dtbo or an old one is kept (`ReusesTree`), an image is built by one of the builders
or by hand, checked, replayed and booted, while the phone's own dtbo may be
another by then.

### DriverLists, PackageData, PlatformBuild (MCPlatformBuild, PlatformBuild_proofs)

`DriverLists` is `rewrite_incs`: the reference's lists without what this phone has
no blob of, extra rows, host drivers behind a guard, and moves within the Apriori
list.  `NothingIsSilent` says that what is left out is named, and states the exception
the code makes: a row of `EXTRA_DRIVERS["APRIORI.inc"]` whose blob DXE.inc has never
reaches the batch and is never named.  `PackageData` is `uefiplat.cfg` through its four readers (the generator,
`promote-check.py`, `heap-compare.py`, `read-dram.py`) and the correction of
bitmaps.  `PlatformBuild` is the sequence of tools over two trees, with
`build-apriori-variant.sh` as a process of its own: every step may stop
(`If(ok, to)`), `Interrupted` enters its trap, `Killed` does not.

### AslWalk, AslTools (MCAslTools)

A disassembled table is written line by line (`OpensDevice`, `Closes`, ... are the
disassembler) while both readers follow: `walk()` of `acpi-usb-pair-census.py`
counts braces, `devices_in()` of `acpi-hid-census.py` never closes a device.
`AslWalk` also has the movable units, the reordering and the votes of
`acpi-order-votes.py` over a corpus; `AslTools` adds which device a `_DEP` or a
`_HID` belongs to and the search for the family a driver set was written for.

### BootLogs, DramRead, DeviceBackup, UsbWatch, DeviceSession (MCDeviceSession, DeviceSession_proofs)

`BootLogs`: boots that are handed over, panic or lose power; ABL's log in rotating
slots of logfs and the kernel's in the ramoops ring; init's report; the three ways
`pull-bootloader-log.sh`/`read-logfs.py` get at a log.  `DramRead`: chunks over a
link that cuts them short or lets dd's statistics through, the hash on the phone,
the search.  `DeviceBackup`: dumps that break off and are resumed, the guess of the
sector size, the table and its carving.  `UsbWatch`: controllers that lose their
bus before, between and after the list and the watch.  `DeviceSession` is the
disjunction: one tool's actions per behaviour over one phone.

## Runs

Eleven runs pass and one is a violation.  Bounds are the smallest that let every
hazard happen; where inputs are enumerated, the sets hold each shape the code
tells apart.

| run | bounds | shows |
|---|---|---|
| `dispatch` | 5 drivers, 2 volumes in both orders, an Apriori file of 5 entries with one that is nowhere, 2 error codes, arrays of 2; 4 layouts of the volumes for the tools; fairness | all rows tell the dispatch that happened: `SeqIsAPrefix`, `UnhitChecksum`, `SlotsTellTheAttempts`, `KeyNamesTheFirstFailure`, `DigestIsComplete`; what the three tools foretell and decode is so: `PredictionsHold`; `KeepsSeqContract` is the refinement of SeqLine; `DispatchInv` is the invariant of the proofs; `Settles`: it ends in a digest, or in an EntryPoint that hangs |
| `census` | 7 pages, one of them promoted late; ladder 4, 2, 1; granularity 2 for runtime memory; 4 requests, or 1 with a callback of 1 or 3 pages between any two steps; 1 tick, 2 copies; fairness | `HeapInv`: no page is lost; `FirstCopyTellsTheRun`; `ProbesMeasureTheHeap`: the census agrees with the search it describes, the ladder brackets the largest run, the copies agree; `DigestEnds` |
| `fastboot` | 3 commands with replies of 1, 2 and 6 packets, 3 commands and 2 tool runs, 1 reset; ABL keeps to the timeouts, or may exceed each; fairness | `LinkInv`: an ABL that answers in time gets the verdict of its state; `ReleasesTheThread`; `NoWorseWedge`; `ToolEnds` |
| `boot` | a partition of 3 blocks; images of 2, 3 and 4 half blocks with a common prefix, and stock; a good, a damaged and a truncated backup; 2 tool runs, 1 drop, 1 change of an image or of the backup (`MaxBuilds`); fairness | `BootInv`: "Done" means written; `OnlyStockIsRestored`: stock or nothing, but for a backup changed behind its hash; `IdentifyIsRight`; `RestoreRepairs`: one undisturbed restore repairs an interrupted write |
| `panel` | 3 columns, 5 rows; lines that fit, wrap, end in the last column; copies of 2 to 5 rows behind heads of up to 4; 3 dumps; every format of up to 4 pieces | `PanelInv`: what a photograph holds, and that the repetition works; `BudgetIsTheCost`: the budget is the cost; `JoinIsLoud`: a stream without a reported gap has none |
| `qemu` | 4 blocks of 2 words, a pool of at most 3 blocks, five maps, all sets of options the tool tells apart; 2 samples on a panel of 3 rows, of a log of 5 different rows and of one of 4 that repeats, a row of which may be found half drawn; or a read-back with one stray write, or with none behind a sample; fairness | `RunInv`: a stream without a gap joins what was printed together; `RegistersRemember`; `VerdictsMeanState`: what is called consistent is what a driver finds; `AlarmMeansDamage`: no false alarm; `RunEnds` |
| `volumes` | volumes of up to 3 pieces of ten kinds, with and without an extension header, built or damaged; 8 APRIORI.inc shapes with every array of up to 3; every dependency of one or two names; small sources; fairness | `VolumesInv`: the host's walk and the replayed one list the same files; `VerdictsHold`: the order check, the classes, the size rule, the attribution to functions; `ReplayEnds` |
| `payload` | memory with a hole and a carveout, 7 boards, 3 dtbos, kernels of each form, 4 command lines, trees kept from any earlier build | `AcceptedBoots`: what the checks pass boots as packed; `CheckersAgree`: they look at the same tree |
| `tables` | tables of up to 9 lines, 3 names, 2 windows; corpora of up to 3 tables; driver sets over 3 generations whose indices collide | `TablesHold`: paths, dependencies and windows go to their owner; reordering conserves, votes are what they are called, a family is found |
| `platform` | 9 blobs, 2 extractions, rows for the batch that DXE.inc has, that no anchor has and that go in, 3 options, 2 experiments, 2 editions of `uefiplat.cfg`, the edits of the ASL and of Mu_Basecore; every stop, interrupt and kill | `PlatformInv`: the lists name what they leave out, but for the one kind of row; the data is read alike by all its readers; `VariantInv`: "ready" carries the experiment, a finished restore is the default |
| `session` | 4 boots over 2 log slots, 3 LUN geometries, 8 ranges, 2 buses with 4 events; fairness | `SessionInv`: logs newest first, regions add up, a carved partition is whole; `ReadingsHold`: a good dump is the range, a stable bus that goes is corrected; `EndsWithTheNextLine` |
| `session_dead` (violation) | the same | `DeadBootIsRead`, next section |

Why these bounds are enough.  `dispatch`: two slots and three promoted drivers put
one promotion beyond the array; two failures fill `mP2Diag` and a third overflows
it; two volumes give a notification during a start.  `census`: seven pages leave
runs of 1, 2, 3 and 4 pages, so each rung both fails and succeeds, and an odd run
at an odd page loses a page or all of itself to the clip.  `fastboot`: a reply of
six packets outlasts a drain of two, and a download of two transfers is either
left parked or completed by the tool's test command.  `boot`: the images end in
the middle of a block or not, one begins with another, and two runs of tools cover
an interrupted write followed by a restore or an identification; the one change of a
file falls between any two looks at it.  `panel`: the
copies put the wipe on every row of a copy, on a row that wraps and on the newline
of KEY; three dumps make a stream that is longer than the panel and is joined
again.  `qemu`: the maps have a region inside a block, over two, ending in the
middle of both, without the seeded words, reaching the stub and crossing the limit;
the panel is wiped between two samples and inside of one, and two rows that repeat
make the join ambiguous.  `volumes`: three pieces put a file, a gap
or a damaged header before, between and after others, and noise where a
resynchronisation lands inside a file.  `tables`: nine lines hold a window whose
device closed before it, an inner device with a `_HID`, and one without.
`platform`: a second edition of the memory map and an unfinished experiment leave each
tree a generation behind the other; the verdict of a variant run is followed until a
tool is called by hand.  `session`: four boots overwrite both slots and the ring; the
ranges begin and end off the block, or end off it with the string sought in the last
block or behind it, and the second LUN's backup header is where a
LUN of another sector size has its own.

**Deadlock** is checked in every run but `tables`, `session` and `session_dead`,
where the behaviour really ends: a table is complete and has been read, a phone has
used up its boots.  Elsewhere a program that has stopped has an explicit stuttering
action (`Halted`, `Done`, `Rests`).

**Fairness.**  `DxeDispatch`: weak fairness of `Step` - one thread of control with
nothing to wait for, and hanging is an action of its own, so nothing is assumed of
drivers.  `PageCensus`: weak fairness of `Instrument`, straight-line code; the
busy-wait is a bounded loop.  `FastbootLink`: weak fairness of the tool, whose
every libusb call has a timeout, and of an ABL that offers a packet it has, only in
the runs in which it is not late.  `BootPartition`: weak fairness of the running
tool; adb calls return, with or without success.  `QemuRun`: weak fairness of the
tool, whose every wait has a deadline of its own; nothing is assumed of QEMU, of
the monitor or of the guest.  `FvTools`: weak fairness of the replay's loop.
`DeviceSession`: weak fairness of the watch reading a line that is there, nothing
else: that time passes on a silent bus is not promised, and the loop does not end
there.

## Where the code and its comments part

One of these is a run, `session_dead`.  `mount_all` (initramfs/init.c:145) mounts
proc, sysfs, devtmpfs and tmpfs and never pstore; `print_pstore_tail` finds no file
under `/sys/fs/pstore` and the report ends without a word of the boot that died.
docs/07-uefi-platform.md:1399 says "That reader is now real rather than
hypothetical", and at 1404 that "the second boot prints the first boot's last 3 KB
on the panel".

The others were met while modelling; the models follow the code.

Instruments.
- patch:999 "the last row on the panel is the last driver attempted": the row is
  printed when the attempt has returned (patch:1003), and a driver that hangs has
  none.
- patch:1484 "P2Digest only reads state": the first copy's retries (patch:738) and
  all ladders write what the next copy prints.
- patch:512 KEY is "the last populated row in every state, including after a wipe":
  if its newline is on the last row the panel is blank during the pause, which is
  why `PanelInv` has an exception.
- `P2WhyLetter` never writes the `'S'` and `'?'` of the legend at patch:442, and
  `apriori-index.py` has `'?'` where the device writes NUL.
- A failed event callback between two rungs is counted with the probe's and is
  missing from the `n` of patch:1668.
- `console-budget.py:348` counts a line of exactly 90 columns as one row; the console
  spends two.  It skips no spaces at the left edge, and ends a field's value at its
  first conversion.

Transport and boot partition.
- `unwedge-fastboot.py:39` "never truncates a response": it gives its own up at the
  deadline (214).  Line 242's "neither of the two known wedges" is also said when the
  interface could not be claimed (135).
- `timeout 30` in `fastboot-capture.sh` kills its own client mid-response, which its
  header rules out at line 14 and `pull-bootloader-log.sh:53` avoids.
- `flash-boot.sh:9` "verified by reading the partition back": not on the fastboot
  route (170), where the image is not padded either.
- `identify-boot.py:133` prints a mismatch with the phone's hash and exits 0, where
  its line 55 says that a read-back "is not evidence until something other than the
  host agrees".
- An aligned image is pushed from where it lies and as many blocks are compared as
  the *hashed* file had: a longer build that begins with it passes.

QEMU.
- `qemu-panel-read.py:1101` refuses `--el3-seed-smem` without the redirect, because
  the run would wear "a header that said it was seeded" - but as an `elif` of
  `--el3-stub`: with the stub it is not refused and nothing is seeded.  A seed whose
  read-back came short leaves `None`, which 1200 calls as good as unread, and exits 0
  (1638).

Images, volumes, lists.
- `abl-boot-check.py:193` returns `ok` as True for a tree that lacks a symbol the
  overlay needs, where ABL, by the docstring above it, fails to apply it.
- `check-payload.py` does not compare the size of the log's region; the replay's
  `round_page` does not wrap at 32 bits as ABL's does; a missing msm-id is only noted.
- `fv-census.py:526` `by_guid.get(g) or 0` puts an entry that is in no volume before
  every stop, so it is never the first miss its docstring (524) promises and the
  device prints; "the walk sees every file" is also said after a corruption.
- `make_uefi_platform.py:615-619` has the missing drivers "inserted at the same anchor
  line alioth puts them after" in both lists, and the table (631-636) has rows for
  APRIORI.inc.  Both lists are made over one set `referenced` (809), so what the first
  pass inserts is never inserted into the second, and no header says so: all four rows
  name blobs DXE.inc has got by then, and none of them ever appears.  The last conjunct
  of `NothingIsSilent` states it for every table.  `apply_apriori_moves`'s "same files" does not hold for a
  move across an `!if`.
- `build-apriori-variant.sh:141` "left the way it was found" means the default
  generation; the volume stays the experiment's, and `build-p2-payloads.sh` packages
  it without the order gate.
- `make_xbl_binaries.py` counts an unfixable bitmap as corrected; `safe_name` lets one
  blob overwrite another.
- `apriori-order.py` collects `dupes` and never reports them; `apriori-index.py`'s "no
  threshold does better" never tries the one that refuses nothing;
  `depex-census.py`'s driver types differ from `mDxeFileTypes`.
- `promote-check.py` does not test `MAX_ALLOC_ADDRESS`; `heap-compare.py` reads eight
  columns without indentation where the generator reads seven and strips.
- `build-device-tree.sh:90` lacks a continuation backslash.

Tables, logs, backups, the watch.
- `devices_in` never pops, so a window behind an inner device with a `_HID` goes to
  that device: `TablesHold` is about the tables iasl writes for this platform.
- `read_devices` counts a `Device (` in a block comment; `children` merges devices
  with one path; `acpi-order-votes.py:359` is false for a cycle of votes.
- `read-dram.py:109` exits 1 "when a read was refused or disagreed": a hash that
  disagrees is printed, and 474 looks at read errors only.  A search neither aligns
  nor hashes, nor checks that a chunk is whole; of a size that is no multiple of 4096
  it never reads the last block (`want // 4096`, 232): dd's statistics may stand for
  it, and the whole range is said not to hold the string.  `DumpIsTheRange` was first
  stated without that exception, and the proof found it.
- `carve-partitions.py:14` reports "a suspiciously uniform body", which nothing looks
  for, and passes silently over an entry that ends behind the image (102); `gpt.py:30` takes a LUN of 2048-byte sectors for one of 4096; `device-backup.sh:60`
  says 512 MB and asks for 1048576 KB, so that a whole LUN may never be skipped.
- `oem uefilog` reads ABL's live buffer by `pull-bootloader-log.sh:15` and dumps the
  files of logfs by its line 53; TWRP's slot 0 is the boot into TWRP, not the one before.
- `watch-usb.sh:259` looks at its duration only when a line arrives, and its branch
  for a root hub that comes back can never match.

## Proofs

Assumptions on constants are the named ASSUMEs of the modules, which TLC evaluates
in the runs.  `GuidAssumption` and `VolumeAssumption`: what the build guarantees of
volumes and Apriori files.  `ImageAssumption`: in a volume the tools read no other file
has a driver's GUID.  `CensusAssumption`: a finite heap, a ladder that falls
and is not empty, requests of at least a page.  `LinkAssumption`: a reply ends with
its only OKAY, counts and timeouts are positive.  `PartitionAssumption`: stock fills
the partition, which is whole blocks, and images fit into it.  `Stage2Assumption` and
`QemuAssumption`: sizes are positive, the table lies before the pool, the words that
are seeded are inside a block and different.  `DramAssumption`: a block has bytes,
no range begins at 0, and the regions of the map have numbers for their bounds.
`LogsAssumption`: ABL's log goes through two stages at least and logfs has a slot.
`BackupAssumption`: a sector is 1, 4 or 8 blocks, a table lies in front of the LUN's
end, partitions end on the LUN, have names of their own, and none of those dumped by
name.  `PayloadAssumption`: kernels, trees and dumps have a size, a kernel comes to the
builder without a tree, and a patched kernel's header gives the end of that kernel;
regions have an address and a length.  `ListsAssumption`: the reference board's lists
are typed, name a blob once, and the `!if`s of its DXE.inc are of known names and
closed where the host's anchors are; the rows of `EXTRA_DRIVERS` and
`XHCI_HOST_DRIVERS` name blobs, the host's are in no other list or row and each once.
`BuildAssumption`: options are moves of names and a flag, `uefiplat.cfg` has a map of
memory and then one of registers and no rows elsewhere, and rows, parameters and
bitmaps are typed.  Both are true of the tables in `make_uefi_platform.py:610-700`, the
committed lists and `device/config/uefiplat.cfg`.

Each proof is one inductive invariant (`IInv`, or named otherwise below), a lemma per
action or group of alike ones, and the theorems, which follow from it and name
the property the run checks.  The invariants were checked by TLC on small instances
before they were proved.

A fold over a sequence (`FoldLeft`, which the library defines by recursion) is reasoned
about without an induction rule, none of which the provers can instantiate: its
intermediate values are a function on 0..n that begins with the base and goes on by the
step (`FoldStarts`, `FoldGoesOn`, `FoldGraph`), and what holds at 0 and is kept from k
to k + 1 holds at n, for the least number at which it does not would have a predecessor
at which it does (`LeastOfNaturals`, `Induction`, from the order of the naturals).  That
works for a step and a claim that are written out; the lemma is repeated for each.

**DxeDispatch_proofs** - for every finite set of GUIDs, every set of error codes,
every list of well-formed volumes, every set of images and every size of the two arrays:

- `DispatchInvariant`: `Spec => []DispatchInv`
- `TypeCorrect`, `SeqReading`, `SlotReading`, `Checksum`, `KeyReading`,
  `DigestReading`: `TypeOK`, `SeqIsAPrefix`, `SlotsTellTheAttempts`, `UnhitChecksum`,
  `KeyNamesTheFirstFailure`, `DigestIsComplete`
- `ContractKept`: `Spec => KeepsSeqContract`, the refinement of SeqLine
- `PredictionsAreTrue`: `PredictionsHold`, from `PromotionInvariant`

`SeqIsAPrefix` is not inductive: it says nothing about why the next driver to return
is the one of the leftmost `?`.  `DispatchInv` adds it.  `QueueInv`: a driver waits
for its DEPEX, is queued once, runs, or is done.  `SlotInv`: slots hold distinct
drivers; a slot is pending exactly when its driver is queued or running; the queue
holds pending slots in slot order, and a running driver has no pending slot before
its own.  `VolumeInv` and `ScanInv` carry that through the promotion loop: entries
not yet scanned that the walk found are still `dependent`, so no driver is promoted
twice, and a second volume cannot bring another Apriori file.  `AttemptInv`: an
attempted driver never comes back.  Then each returning attempt resolves the leftmost
pending slot (`ReturnFacts`), each promotion appends behind all others
(`PromoteFacts`), and nothing else touches the slots (`QuietFacts`).

What KEY and the digest say needs two more parts.  `OrderInv`: promoted drivers are
attempted in the order of their slots, so the least failed slot (`KeyIsLeast`) is the
first failure.  `RecordInv`: with the failures numbered by their place among the
attempts, the record at a place is that failure until the array is full, and starts
and failures add up to `mP2Tick` (`FailureFacts`: one more attempt adds at most one
failure, behind all others).

What the tools foretell is about how far the promotion has come, which no other property
asks.  `PromoteInv`: the slots hold the entries that were hit, in the order of the file,
and the first miss, the first and the last hit are the least and the greatest of theirs.
`WhyInv`: the letter of a slot is that of its status.  The number a tool gives an entry is
its rank among the hits (`Rank`), which grows by one from hit to hit and takes every value
up to their count (`RankStep`, `RankGrows`, `RankOnto`), so the n-th letter belongs to the
n-th hit (`RankTells`, `LettersAreTrue`).  The tool's list of drivers and its batch are
what the folds pick (`DriversArePicked`, `BatchIsPicked`); a stop after k files finds what
a walk of the first k files finds (`StopFacts`, `StopPromotes`), and the name it is given
is the one driver between the two (`StopIsThere`).

**PageCensus_proofs** - for every finite heap, every ladder, every list of cached
requests, every granularity and number of copies: `HeapIsKept`, `RunIsTold` and
`ProbesTellTheHeap`, that is `HeapInv`, `FirstCopyTellsTheRun` and
`ProbesMeasureTheHeap`.

First that the search returns free pages: a finite set of numbers has a least and a
greatest element (`MinIsThere`, `MaxIsThere`, by the well-founded order of finite
subsets), a maximal run has no hole (`RunsAreFree`), a clip only shortens it
(`ClipShortens`), so `FoundIsFree`.  Then `IInv`: `PagesInv`, the shares of the map as
`SharedOut` states them - the run's blocks, the probe's block and the free pages are
disjoint and make up the map; `ProbeInv`, a probe holds nothing outside the two steps
between its allocate and its free, without which a second probe could drop the first
one's block; and `ControlInv`, which ties the place in the digest to the number of
copies begun and printed, without which the bounds of `rung`, `copy` and `rows` are
not inductive.

What the copies say needs four more parts (`JInv`).  `OnceInv`: by where control is,
whether the probes' flag is up and whether the cached requests have been made, so a
refused probe is not counted (`ProbesAreNotCounted`).  `CensusInv`: what a census
says was true of the map it was taken of (`CensusAgrees`: a run around a fit is
found, a longer one fits as well - `RunAround`, `FitsGrows` - and the largest is the
maximum of the lengths).  `TellInv`: until the first copy reports, the live counters
tell the failures of the run; then the row being printed does; then the first row.
`QuietInv`: what the ladder returns is a function of the heap, that is of the free
pages and the probe's own block together (`MeasureIsUnique`), and the one promotion of
untested memory on its way down does not change what comes after it, so every copy
says the same.  The last two hold as long as no callback has asked in between, which
is what the properties say, too.

**FastbootLink_proofs** - for all commands and replies, every set of clients, every
slack, drain, download and number of commands, tools and resets: `VerdictsAreTrue`
(`LinkInv`), `AliveIsReleased` (`ReleasesTheThread`), `WedgesAreToldApart`
(`NoWorseWedge`).  The verdict is inferred from three things - what the drain read,
whether the write went through, whether an OKAY came - and the invariant says what
each of them means.  `AblInv`: a reply ends with its only OKAY, so the tool's loop ends
where the reply does.  `BeganInv`: what ABL was when the tool came is what it is, but
for what the tool has done.  `WaitInv`: with an ABL that keeps to the timeouts every
wait ends with what there was to read.  `SentInv`: a write that went through has
either become download data or is the command whose reply is under way.  The
properties about steps follow with `VerdictIsTrue` and `TwoSay`.

**BootPartition_proofs** - for every partition, every set of builds and backups,
every chunk and number of runs, lost links and changes of a file: `DoneIsWritten` (`BootInv`),
`RestoresOnlyStock` (`OnlyStockIsRestored`), `NamesWhatIsThere` (`IdentifyIsRight`).
`PlaceInv`: which tool is where, and that nothing is written before its `dd`.
`WrittenInv`: when the `dd` is over, with or without an error that was seen, the
partition is the file up to some unit and what it was behind it (`WrittenSoFar`).
`RestoreInv`: on its way a restore has EXPECT in hand, and stock in the backup, and then
in what was pushed, unless the backup was changed behind the hash.
`HashedInv`: when the phone's hash agreed, what was read is what is there; a read of
short chunks grows but stays within a chunk of its size (`ChunkFits`), and what is
named has the read image for a prefix (`PrefixMeans`, `SameMeans`).

**QemuRun_proofs** - for every memory map, every set of options, panel, sample and
place of the seeds:

- `RedirectIsPrivate`: under a plan that `l2_plan` accepts, every declared address has
  a word of the pool of its own, below the stub and the payload.  The k-th of a finite
  set of blocks is the one with k blocks below it, so two blocks have two places
  (cardinalities of subsets), and a word's place is its block's place and its offset.
- `RegistersAreKept`: `RegistersRemember`.  The plan is that of the map (`PlanInv`),
  table, pool and shadow are empty before the stub has run (`ResetInv`), and behind an
  unspoilt table each declared register's word of the pool is what was last written
  into it (`MemoryInv`).
- `StreamHolds`: `RunInv`, for every log, whatever it repeats.  `DumpInv`: as long as
  the panel has not changed since the dump began, what is written of it is the rows that
  stand there, in order (`ScannedRow`, `ShowsText`); from a change on nothing is said of
  the dump.  The join is not one of runs, as the place of a text in the log is not
  unique: the head of a dump that was joined is a tail of the stream (`OverlapJoins`,
  `GreatestOfNaturals`), so below it stands what stood below it on the panel, and
  each new line has a printing of the pair it makes with the line above (`JoinedRows`).
  `BudgetInv` bounds what can be under way: commands, prompts and samples.
- `VerdictsAreSound`, `NoFalseAlarm`: `VerdictsMeanState`, `AlarmMeansDamage`.
  `FreshInv`: what was read is what is there, or what is there was overwritten since -
  for each of the tables, the record, the body, the flag, the rung and the mailbox, and
  in whatever order the monitor answers.  `AskInv`: nothing is asked twice, and what the
  stub seeds only behind a record that was found.  `CleanInv`: until the guest writes,
  memory is what the stub made of it.  `ReportInv`: a report is of a machine that has
  stopped.

**DeviceSession_proofs** - for every memory, range, size of blocks and chunks, every
set of buses and number of events, every list of stages, number of slots and boots, every
set of LUNs: `ReadingsAreTrue` (`ReadingsHold`) and `SessionHolds` (`SessionInv`), of

- `DumpHolds`: `DumpIsTheRange`.  `DramInv`: what came back of a read that began on a block
  and was not cut short is the range, but for a last block that is not whole, where dd's
  statistics may stand; and how far the read has come says what it may report.  A chunk
  keeps it (`ChunkIsOfRange`) by the arithmetic of a remainder: what has come and is
  not the last is whole blocks, so the next chunk begins on one.
- `WatchHolds`: `StableIsCorrected`.  `WatchInv`: a bus of the list that is gone has been
  printed, is in the lines still to be read, or fell into the gap between the list and the
  log; and only a bus of the list is called stable.
- `LogsAreInOrder`: `PulledInOrder`.  `SlotsInv`: the slots that are not deleted hold the
  boots back from the last one handed over, each one older than the slot before it; a
  rotation keeps that (`RotatedFacts`), and the tools read the live ones in that order
  (`LiveIsPicked`, `ItemsFacts`).
- `RegionsHold`: `RegionsAddUp`.  No invariant: `RegionsTell` says it of any range.  The
  regions are the rows that overlap it, picked by a fold (`RegionsArePicked`), each with
  the bytes the two share; and the label of an address is that of the first of them.
- `CarvingHolds`: `CarvedIsWhole`.  `BackupInv`: a file is what a dump of this LUN may have
  left.  The table is found at one of two sector sizes (`TriedFacts`, `HeaderFacts`,
  `FindFacts`), parsing gives the partitions back (`PartsArePicked`, `ParsedParts`), and a
  cut is the partition unless the image ends before it (`CarvedFacts`).

**PlatformBuild_proofs** - for all blobs, reference lists, tables of drivers,
extractions, options, experiments, files, rows and bitmaps: `VariantHolds`
(`VariantInv`) and `PlatformHolds` (`PlatformInv`).

`VariantHolds`.  `ForwardInv`: both trees hold the experiment as far as
the script has come, and the volume does once it is newer than the script's start.
`BackInv`: so do they hold the plain generation on the way of the restore.  For this
`RewriteIncs` is not looked into, but for the drivers it says it was made of.

`PlatformHolds` is the inside of it.  The state adds little (`OptionInv`: the lists in
the tree are `RewriteIncs` of drivers and an option, and what the option asks of the
host was staged); the rest are lemmas about the operators.

- *Lists.*  A pass over a reference list keeps `PassHolds`, which relates what is in the
  list, what is there, what is referenced and what was named as dropped, through the
  filter, the extra rows and the host's rows (`FilteredHolds`, `ExtrasHold`,
  `HostsHold`).  `Told` follows the rows one by one: each with a blob is referenced or
  named behind its turn, and none puts in what was referenced before the pass
  (`ToldGoesOn`) - which is the exception of `NothingIsSilent`.  A later row is judged by what the earlier ones referenced, so none of
  it can be said of a single row.
- *The switch.*  `InfOrder` is followed line by line (`RunIs`, `OutIs`): a line is put
  out when the conditions on the stack hold.  `Guarded` says that the host's blobs are
  not put out with the switch off and all of them are with it on.  A block put in
  behind an anchor leaves the run of every other line as it was (`InsertRuns`,
  `HostBlock`), which needs the anchors outside of every `!if`: the reason for that part
  of `ListsAssumption`.
- *Moves.*  A move that is not refused takes out as many lines as it names
  (`AsManyAsNames`), puts them behind the place the anchor then has (`MovedIs`), and
  what stays is what stayed (`MovedApart`); later moves meet the result of earlier ones
  (`MovesRun`).
- *Data* (`DataHolds`).  Reading `uefiplat.cfg` picks the rows of each map in order
  (`ParsedIs`), and heap-compare.py's own reading picks from the same ones
  (`ReadersAgree`).  Sorting by address is a permutation (by counting what is in front
  of a row), and scanning it finds the holes and nothing else, also where rows overlap
  (`HolesHold`).  promote-check.py's verdict and the bitmap's stride are case splits and
  arithmetic (`VerdictHolds`, `BitmapHolds`).

**PayloadBuild_proofs** - for every memory map, board, dtbo, kernel, ramdisk and
command line, and every order of builds, changes of the phone's dtbo and trees kept:
`AcceptedPayloadsBoot` (`AcceptedBoots`) and `TheChecksAgree` (`CheckersAgree`).
`TreeInv`: the tree there is may be of another dtbo, but it was built for some and has
been validated before it is packed (`TreeOfIsTree`).  `ImageInv`: what was packed is
what one of the builders or a hand makes of it.  `JudgedInv`: nothing an image was
judged by moves until the next build.  That an accepted payload boots needs no offset:
wherever ABL walks it finds trees that were packed (`FoundIsATail`,
`TreesAreABeginning`), the replay selects the one ABL selects (`AcceptedTree`), a
region that passed is free byte by byte (`PassedIsFree`), and a phandle has one owner,
so a fragment has one place to land (`PassedLandsInTheSink`).  That the checks agree is
the layout: the offset of header version 2 is where the slot is and the first tree
ends inside it (`TheSlotIsReadByBoth`), that of version 1 is the end of the kernel
(`TheGluedTreeIsReadByBoth`).  Both are about the at most two trees the pipeline
packs; a table of more is not in the model.

Only model-checked:

- every liveness property (`Settles`, `DigestEnds`, `ToolEnds`, `RestoreRepairs`,
  `RunEnds`, `ReplayEnds`, `EndsWithTheNextLine`): fairness and ENABLED are out of this
  prover's reach;
- what is the value of a recursion over data, or of folds and sorts about which nothing
  has been proved: the rows of a text and the cost of a format (`PanelInv`,
  `BudgetIsTheCost`), both walks of a volume and the verdicts of the order check
  (`VolumesInv`, `VerdictsHold`), the table and its votes (`TablesHold`);
- `JoinIsLoud`, of streams of any number of dumps in any copy.

## What is left

Not modelled, and why.

- Other edits of Mu_Basecore (timer frequency, boot menu, USB TPL, an authenticated
  write refused at runtime): one condition each, in code whose other side is not in
  the repository.  Platform data: ACPI tables, device trees and configuration have no
  behaviour; the small instances are made after them.
- The reading of a photograph and the alignment of glyphs in `panel-text.py`: scores
  of pixels without state.
- PE headers (`pe-facts.py` beyond its use by the size rules), `bin-field-check.py`:
  arithmetic on one record at a time.
- The texts the generator only writes, `build-kernel.sh`, `abl-extract.py`: files in,
  files out, without a decision a later step rests on.
- The adb half of `pull-bootloader-log.sh` (waiting for TWRP, writing files).
- In the ACPI tools the counts that are only printed, the comparison of ids with .inf
  files, the padding table of `acpi-pad`.
- Wording, layout and logging, except where a property is about them.

Steps and checks that are folded into another one.

- In `unwedge-fastboot.py` the claim of the interface behind the configuration (176);
  in `panel-text.py` a row that is rewritten by a carriage return (413-420), which only
  `QemuRun` has, as one of the texts of `Begun`.
- In the payload's checks: a board id taken from the tree itself
  (`abl-boot-check.py:168`), the AVB footer (`check-payload.py:371`), the nodes of the
  merged tree (`abl-boot-check.py:596`).
- `sync-uefi-platform.sh` copies in several `cp`s and the generator writes its package
  file by file; each is one step here, done or not.  Of the variant script's gates
  the order gate stands for all: the making and the checks of the image
  (`build-apriori-variant.sh:238-283`) pass or fail with it.
- A live log is pulled as one, not split into slots (`read-logfs.py:156`).
- A change of an image or of the backup is one step: a file half written is not read.
- `device-backup.sh:36` keeps a partition's dump that broke off, and no script tells it
  from a whole one: no property is about those, `CarvedIsWhole` is of what is carved.

Worth proving next: `JoinIsLoud` of ConsolePanel, for which QemuRun_proofs has the
lemmas about the join; and the order check in `VerdictsHold`, for which
PlatformBuild_proofs has the run of `InfOrder` over the lines.
