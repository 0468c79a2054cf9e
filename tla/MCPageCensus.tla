---------------------------- MODULE MCPageCensus ----------------------------
(***************************************************************************)
(* PageCensus on seven pages, the last of which has to be promoted.  The   *)
(* ladder 4, 2, 1 stands for 4096 .. 1, requests from 2 pages on for       *)
(* image-sized ones, and runtime memory has a granularity of two pages, so *)
(* that the alignment clip can eat a run.                                  *)
(***************************************************************************)
EXTENDS PageCensus

MCHeap     == 0..5
MCPromote  == {6}
MCLadder   == <<4, 2, 1>>
Req(t, n)  == [type |-> t, pages |-> n]
MCRetry    == <<Req("EfiRuntimeServicesCode", 2), Req("EfiBootServicesCode", 3)>>
MCRun      == {Req("EfiBootServicesCode", 3), Req("EfiRuntimeServicesData", 2),
               Req("EfiBootServicesData", 1), Req("EfiLoaderData", 2)}
MCGranule  == [t \in {"EfiBootServicesCode", "EfiBootServicesData", "EfiLoaderData",
                      "EfiRuntimeServicesCode", "EfiRuntimeServicesData"} |->
                 IF t \in {"EfiRuntimeServicesCode", "EfiRuntimeServicesData"} THEN 2 ELSE 1]
MCCallback == {1, 3}
MCBounds   == {[requests |-> 4, ticks |-> 1, callbacks |-> 0],
               [requests |-> 1, ticks |-> 1, callbacks |-> 1]}
=============================================================================
