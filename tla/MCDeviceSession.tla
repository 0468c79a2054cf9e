-------------------------- MODULE MCDeviceSession --------------------------
(* A small phone for DeviceSession. *)
EXTENDS DeviceSession

Part(n, f, l) == [name |-> n, first |-> f, last |-> l]

\* Of 4096, 512 and 2048 bytes a sector; the second one's last header is
\* where a LUN of 4096 would have one.
MCLuns == {
    [ss |-> 8, last |-> 9, num |-> 8, parts |-> <<Part("boot", 3, 4), Part("gone", 5, 4), Part("dtbo", 6, 7)>>],
    [ss |-> 1, last |-> 16, num |-> 3, parts |-> <<Part("boot", 5, 7), Part("dtbo", 8, 12)>>],
    [ss |-> 4, last |-> 8, num |-> 4, parts |-> <<Part("boot", 3, 3), Part("dtbo", 4, 6)>>]}
MCNamed == [n \in {"logfs", "persist"} |-> 2]

MCRanges == {[addr |-> 2, size |-> 6, chunk |-> 4, needle |-> 0],
             [addr |-> 4, size |-> 4, chunk |-> 3, needle |-> 0],
             [addr |-> 3, size |-> 4, chunk |-> 2, needle |-> 0],
             [addr |-> 2, size |-> 6, chunk |-> 2, needle |-> 5],
             [addr |-> 3, size |-> 5, chunk |-> 4, needle |-> 6],
             [addr |-> 2, size |-> 5, chunk |-> 4, needle |-> 5],
             [addr |-> 2, size |-> 5, chunk |-> 4, needle |-> 6],
             [addr |-> 8, size |-> 2, chunk |-> 2, needle |-> 3]}
\* Rows side by side, apart, inside another and out of order.
MCMap == <<[base |-> 7, size |-> 1, label |-> "Info Blk"], [base |-> 1, size |-> 3, label |-> "Kernel"],
           [base |-> 4, size |-> 2, label |-> "Log Buffer"], [base |-> 2, size |-> 1, label |-> "Cookie"],
           [base |-> 9, size |-> 0, label |-> "Empty"]>>
MCStages == <<"UEFI Start", "Load Image boot", "Start EBS">>
=============================================================================
