---------------------------- MODULE DeviceSession ----------------------------
(***************************************************************************)
(* A session with the phone: it boots, hands over, panics and loses power  *)
(* as it likes, while one of the host's tools is at work: the backup, the  *)
(* reader of its memory, the one that fetches its logs, or the watch.      *)
(***************************************************************************)
EXTENDS BootLogs, DramRead, DeviceBackup, UsbWatch

VARIABLE tool      \* the one that is used

vars == <<logVars, dramVars, backupVars, watchVars, tool>>

Init ==
    /\ LogsInit /\ DramInit /\ BackupInit /\ WatchInit
    /\ tool \in {"logs", "dram", "backup", "watch"}

(* One tool at a time; what is not its business stays as it is. *)
Idle(others, t) == tool = t /\ UNCHANGED others /\ UNCHANGED tool
WithLogs   == Idle(<<dramVars, backupVars, watchVars>>, "logs")
WithDram   == Idle(<<logVars, backupVars, watchVars>>, "dram")
WithBackup == Idle(<<logVars, dramVars, watchVars>>, "backup")
WithWatch  == Idle(<<logVars, dramVars, backupVars>>, "watch")

Next ==
    \/ WithLogs /\ PowersOn
    \/ WithLogs /\ AblGoesOn
    \/ WithLogs /\ EntersFastboot
    \/ WithLogs /\ HandsOver
    \/ WithLogs /\ Panics
    \/ WithLogs /\ PowerCut
    \/ WithLogs /\ InitReports
    \/ WithLogs /\ PullsLive
    \/ WithLogs /\ PullsPartition
    \/ WithLogs /\ PullsBackup
    \/ WithDram /\ StartsRead
    \/ WithDram /\ TakesChunk
    \/ WithDram /\ Checks
    \/ WithDram /\ Saves
    \/ WithDram /\ Searches
    \/ WithBackup /\ DumpsLun
    \/ WithBackup /\ DumpsPart
    \/ WithBackup /\ Carves
    \/ WithWatch /\ Deregisters
    \/ WithWatch /\ Registers
    \/ WithWatch /\ Enumerates
    \/ WithWatch /\ FiveMinutesPass
    \/ WithWatch /\ TimePasses
    \/ WithWatch /\ ListsBuses
    \/ WithWatch /\ Follows
    \/ WithWatch /\ ReadsLine

(* The watch reads a line that is there; nothing else is promised. *)
Spec     == Init /\ [][Next]_vars
FairSpec == Spec /\ WF_vars(WithWatch /\ ReadsLine)

(* What a tool of the session calls newest, whole or shared is so: the     *)
(* logs (read-logfs.py), the regions of a dump (read-dram.py), a carved    *)
(* partition (carve-partitions.py).                                        *)
SessionInv == PulledInOrder /\ RegionsAddUp /\ CarvedIsWhole

(* What a tool says while the phone goes on living: a dump called good is  *)
(* the range (read-dram.py), a bus called stable is there or its loss is   *)
(* told (watch-usb.sh).                                                    *)
ReadingsHold == DumpIsTheRange /\ StableIsCorrected
=============================================================================
