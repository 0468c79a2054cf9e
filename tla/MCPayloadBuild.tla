--------------------------- MODULE MCPayloadBuild ---------------------------
(***************************************************************************)
(* Small payloads.  Memory is 0..19 with a hole and a carveout at the      *)
(* start of the second bank; three symbols; boards with a sound log, one   *)
(* in the hole, in the carveout, twice, or none, with a phandle the sinks  *)
(* collide with, and one for another chip; kernels of each form, one of    *)
(* them too large for its region.                                          *)
(***************************************************************************)
EXTENDS PayloadBuild

MCDram     == {[base |-> 0, size |-> 8], [base |-> 10, size |-> 10]}
MCReserved == {[base |-> 10, size |-> 3]}
R(a, n)    == [addr |-> a, size |-> n]

Board(ram, fb, msm, ph) == [ramoops |-> ram, fb |-> fb, msm |-> msm, size |-> 3, phandles |-> ph]
MCBoards ==
    {Board(<<R(14, 2)>>, {R(2, 3)}, "ours", {1, 2}),
     Board(<<R(14, 2)>>, {R(2, 3)}, "ours", {1, 6}),
     Board(<<R(14, 2)>>, {R(2, 3)}, "other", {1}),
     Board(<<R(14, 2)>>, {R(7, 2)}, "ours", {1}),
     Board(<<R(14, 2), R(4, 2)>>, {R(2, 3)}, "ours", {1}),
     Board(<<>>, {R(2, 3)}, "ours", {1}),
     Board(<<R(8, 2)>>, {R(2, 3)}, "ours", {1})}

Entry(v, f) == [variant |-> v, fixups |-> f]
MCDtbos == {<<>>, <<Entry(1, {1}), Entry(35, {1, 2})>>, <<Entry(1, {3}), Entry(35, {2, 3})>>}

Kernel(form, member, arm64, isz, field) ==
    [form |-> form, member |-> member, arm64 |-> arm64, imageSize |-> isz, field |-> field,
     trees |-> <<>>]
MCKernels ==
    {Kernel("gzip", 5, TRUE, 9, 0), Kernel("gzip", 5, TRUE, 40, 0), Kernel("gzip", 4, FALSE, 0, 0),
     Kernel("raw", 7, TRUE, 9, 0), Kernel("patched", 6, TRUE, 9, 5)}

MCCmdlines == {<<>>, <<R(14, 2)>>, <<R(12, 2)>>, <<R(18, 3)>>}
=============================================================================
