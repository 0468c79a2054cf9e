------------------------------ MODULE BootLogs ------------------------------
(***************************************************************************)
(* What a boot of the phone leaves behind, and who reads it: ABL's log in  *)
(* the slots of logfs, the kernel's log in the ramoops region, the init of *)
(* our initramfs that reports the second (init.c), and the two tools that  *)
(* fetch the first (pull-bootloader-log.sh, read-logfs.py).                *)
(***************************************************************************)
EXTENDS Naturals, Sequences, SequencesExt, FiniteSetsExt

CONSTANTS
    STAGES,      \* the markers ABL's log goes through, in order
    Slots,       \* how many logs logfs keeps
    MaxBoots     \* bound: boots of the phone

ASSUME LogsAssumption == STAGES \in Seq(STRING) /\ Len(STAGES) >= 2 /\ Slots \in Nat \ {0}

VARIABLES
    phone,       \* [mode, boot, stage]: who runs, the how-manieth boot, how
                 \* far its ABL got
    logfs,       \* the root directory: entries [name, deleted, log]
    ring,        \* the boot whose kernel log is in the ramoops region, 0: none
    old,         \* the one pstore kept of it when this kernel started
    report,      \* init's: [done, tail], the boot it printed the tail of or 0
    pulled       \* what was pulled: [route, at, items]

logVars == <<phone, logfs, ring, old, report, pulled>>

NotPulled   == [route |-> "none", at |-> 0, items |-> <<>>]
NotReported == [done |-> FALSE, tail |-> 0]

LogsInit ==
    /\ phone = [mode |-> "off", boot |-> 0, stage |-> 0]
    /\ logfs = <<>> /\ ring = 0 /\ old = 0 /\ report = NotReported /\ pulled = NotPulled

-----------------------------------------------------------------------------
(* The phone.  ABL writes its slot as it hands over, and not before: the   *)
(* old slots move up by one, deleted entries of them stay where they were. *)
BootsAbl == [mode |-> "abl", boot |-> phone.boot + 1, stage |-> 1]

PowersOn ==
    /\ phone.mode = "off" /\ phone.boot < MaxBoots
    /\ phone' = BootsAbl
    /\ UNCHANGED <<logfs, ring, old, report, pulled>>

AblGoesOn ==
    /\ phone.mode = "abl" /\ phone.stage < Len(STAGES) - 1
    /\ phone' = [phone EXCEPT !.stage = @ + 1]
    /\ UNCHANGED <<logfs, ring, old, report, pulled>>

(* By key, or because it refused what it had loaded. *)
EntersFastboot ==
    /\ phone.mode = "abl"
    /\ phone' = [phone EXCEPT !.mode = "fastboot"]
    /\ UNCHANGED <<logfs, ring, old, report, pulled>>

Live(entries) == FoldLeft(LAMBDA live, e : IF e.deleted THEN live ELSE Append(live, e), <<>>, entries)
LogOf(boot, stage) == [boot |-> boot, reached |-> 1..stage]

Rotated(live, log) ==
    LET kept == SubSeq(live, IF Len(live) < Slots THEN 1 ELSE 2, Len(live))
        logs == Append([i \in DOMAIN kept |-> kept[i].log], log)
    IN  [i \in DOMAIN logs |-> [name |-> Len(logs) - i, deleted |-> FALSE, log |-> logs[i]]]

HandsOver ==
    /\ phone.mode = "abl" /\ phone.stage = Len(STAGES) - 1
    /\ \E os \in {"twrp", "payload"} :
          /\ phone' = [phone EXCEPT !.mode = os, !.stage = Len(STAGES)]
          /\ LET live == Live(logfs)
             IN  logfs' = [i \in DOMAIN live |-> [live[i] EXCEPT !.deleted = TRUE]]
                             \o Rotated(live, LogOf(phone.boot, Len(STAGES)))
          /\ IF os = "payload" THEN old' = ring /\ ring' = phone.boot ELSE UNCHANGED <<old, ring>>
    /\ report' = NotReported
    /\ UNCHANGED pulled

(* A panic resets warm, the region keeps its contents; without power it    *)
(* does not.                                                               *)
Panics ==
    /\ phone.mode = "payload" /\ phone.boot < MaxBoots
    /\ phone' = BootsAbl
    /\ old' = 0
    /\ UNCHANGED <<logfs, ring, report, pulled>>

PowerCut ==
    /\ phone.mode # "off"
    /\ phone' = [phone EXCEPT !.mode = "off", !.stage = 0]
    /\ ring' = 0 /\ old' = 0
    /\ UNCHANGED <<logfs, report, pulled>>

-----------------------------------------------------------------------------
(* init.c: report_pstore reads the files of /sys/fs/pstore and returns     *)
(* without a word where one cannot be opened.  mount_all mounts proc,      *)
(* sysfs, devtmpfs and tmpfs.                                              *)
Mounted == {"proc", "sysfs", "devtmpfs", "tmpfs"}
Kept    == IF "pstore" \in Mounted THEN old ELSE 0

InitReports ==
    /\ phone.mode = "payload" /\ ~report.done
    /\ report' = [done |-> TRUE, tail |-> Kept]
    /\ UNCHANGED <<phone, logfs, ring, old, pulled>>

-----------------------------------------------------------------------------
(* read-logfs.py.  The stages a log shows, and the last of them.           *)
Summarise(log) ==
    [boot |-> log.boot, last |-> Max(log.reached), complete |-> Max(log.reached) = Len(STAGES)]

(* The live entries, by name: the i-th has i - 1 names before its own.     *)
(* Mutant: the entries in the order of the directory. *)
ItemsUnsorted(entries) ==
    LET live == Live(entries)
    IN  [i \in DOMAIN live |-> Summarise(live[i].log)]
Items(entries) ==
    LET live      == ToSet(Live(entries))
        Before(e) == {o \in live : o.name < e.name}
    IN  [i \in 1..Cardinality(live) |->
            Summarise((CHOOSE e \in live : Cardinality(Before(e)) = i - 1).log)]

(* pull-bootloader-log.sh: ABL's own answer, if it answers with more than  *)
(* a few lines; the partition, by adb; the copy of the first day.          *)
PullsLive ==
    /\ phone.mode = "fastboot"
    /\ pulled' = [route |-> "fastboot", at |-> phone.boot,
                  items |-> <<Summarise(LogOf(phone.boot, phone.stage))>>]
    /\ UNCHANGED <<phone, logfs, ring, old, report>>

PullsPartition ==
    /\ phone.mode = "twrp"
    /\ pulled' = [route |-> "adb", at |-> phone.boot, items |-> Items(logfs)]
    /\ UNCHANGED <<phone, logfs, ring, old, report>>

PullsBackup ==
    /\ pulled' = [route |-> "backup", at |-> 0, items |-> <<>>]
    /\ UNCHANGED <<phone, logfs, ring, old, report>>

-----------------------------------------------------------------------------
(* What was pulled is what it is taken for: over adb the first table is    *)
(* the boot the recovery was reached by and the others go back from it one *)
(* handover at a time, as many as there are slots; over fastboot it is the *)
(* ABL that answers, which has not handed over (read-logfs.py's order).    *)
PulledInOrder ==
    /\ pulled.route = "adb" =>
          /\ pulled.items # <<>> /\ pulled.items[1].boot = pulled.at
          /\ \A i \in DOMAIN pulled.items : pulled.items[i].complete
          /\ \A i \in 1..(Len(pulled.items) - 1) : pulled.items[i].boot > pulled.items[i + 1].boot
          /\ Len(pulled.items) <= Slots
    /\ pulled.route = "fastboot" =>
          /\ Len(pulled.items) = 1 /\ pulled.items[1].boot = pulled.at
          /\ ~pulled.items[1].complete

(* docs/07-uefi-platform.md:1399 says of report_pstore that "a payload that *)
(* dies comes back up" and "the second boot prints the first boot's last   *)
(* 3 KB on the panel": a log the region kept is printed.                   *)
DeadBootIsRead == (report.done /\ old # 0) => report.tail = old
=============================================================================
