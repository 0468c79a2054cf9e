--------------------------- MODULE MCPlatformBuild ---------------------------
(***************************************************************************)
(* A small phone for PlatformBuild: three of its blobs in the reference    *)
(* lists, three only the extra rows know (one in both tables; one whose    *)
(* anchor no list has; one for the batch alone), one no list knows, and    *)
(* two of the sibling's.                                                   *)
(***************************************************************************)
EXTENDS PlatformBuild

Cond(o, n, v) == [op |-> o, name |-> n, value |-> v]

MCBlobs == {"CmdDb", "PwrUtils", "Usbfn", "QcomBds", "Display", "Vcs", "Mac", "Xhci", "UsbInit"}

MCReference ==
    [dxe     |-> <<Inf("CmdDb"), Inf("Timer"), Inf("Usbfn"), Inf("Bds"),
                   Cond("if", Display, 1), Inf("Display"), Cond("else", Display, 0),
                   Inf("SimpleFb"), Cond("endif", Display, 0)>>,
     apriori |-> <<Inf("Timer"), Inf("CmdDb"), Inf("Reset"), Inf("Usbfn"), Inf("Bds")>>]

Row(a, p) == [anchor |-> a, path |-> p]
MCExtraDxe     == <<Row("CmdDb", "PwrUtils")>>
MCExtraApriori == <<Row("CmdDb", "PwrUtils"), Row("Pdc", "Vcs"), Row("Usbfn", "Mac")>>
MCHost == <<[anchor |-> "Usbfn", paths |-> <<"Xhci">>],
            [anchor |-> "UsbConfig", paths |-> <<"UsbInit">>]>>

MCExtractions == {{"Usbfn", "PwrUtils", "Display"},
                  {"CmdDb", "QcomBds", "Usbfn", "PwrUtils", "Display", "Vcs", "Mac"}}

Moves(a, n) == [moves |-> <<[anchor |-> a, names |-> n]>>, host |-> FALSE]
MCOptions == {Default, Moves("CmdDb", <<"Bds", "Timer">>), [Default EXCEPT !.host = TRUE]}
MCExperiments ==
    [n \in {"arch-first", "xhci-host"} |->
        IF n = "arch-first" THEN Moves("Timer", <<"Reset", "Bds">>) ELSE [Default EXCEPT !.host = TRUE]]

-----------------------------------------------------------------------------
(* Small texts of uefiplat.cfg: up to three rows of memory, some inside or *)
(* across others, a row of a register, and a few parameters.               *)
MCRow(label, base, size, hob, cols, blank) ==
    [k |-> "row", label |-> label, base |-> base, size |-> size, hob |-> hob, cols |-> cols, indented |-> blank]
Section(name) == [k |-> "section", name |-> name]
Param(key, v) == [k |-> "param", key |-> key, value |-> v]

MCMemory == {MCRow("LLCC0", 1, 1, "AddMem", 8, FALSE), MCRow("DXE Heap", 6, 3, "AddMem", 8, FALSE),
             MCRow("Sched Heap", 9, 1, "AddMem", 8, FALSE), MCRow("Kernel", 4, 7, "AddMem", 8, TRUE),
             MCRow("SMEM", 5, 6, "AddMem", 8, FALSE), MCRow("Log Buffer", 12, 1, "AddMem", 7, FALSE),
             MCRow("FV Region", 14, 2, "NoHob", 8, FALSE), MCRow("UEFI FD", 14, 2, "AddMem", 8, FALSE)}
MCFiles ==
    {<<Section("Config"), Param("Version", 3), Section("MemoryMap")>> \o rows \o
     <<Section("RegisterMap"), MCRow("IMEM Base", 2, 1, "NoHob", 8, FALSE),
       Section("ConfigParameters"), Param("Count", 3), Param("Key", 1), Param("Text", -1), Param("Key", 2)>> :
        rows \in UNION {[1..n -> MCMemory] : n \in 0..3}}
MCExtra == <<<<"Key", 7>>, <<"Notify", 1>>>>

MCRows == [rtype : {"SYS_MEM", "MEM_RES", "MMAP_IO"}, hob : {"AddMem", "AddDev", "NoHob"},
           attr  : SUBSET {"PRESENT", "INITIALIZED", "TESTED", "READ_PROTECTED",
                           "MORE_RELIABLE", "SPECIAL_PURPOSE", "PERSISTENT"}]
MCBitmaps == [size : 60..80, off : {54, 68, 70}, width : -1..9, height : -1..3, bpp : {0, 1, 4, 24}]
=============================================================================
