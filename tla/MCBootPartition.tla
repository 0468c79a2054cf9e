-------------------------- MODULE MCBootPartition --------------------------
(***************************************************************************)
(* BootPartition with a partition of three blocks and two images.  Builds  *)
(* share their first units, as p2-4.19 and p2-4.20 do; one of them ends in *)
(* the middle of a block, and one is a prefix of another.  The backup is   *)
(* good, damaged in its last unit, or cut short after its first block.     *)
(***************************************************************************)
EXTENDS BootPartition

MCStock   == <<"s1", "s2", "s3", "s4", "s5", "s6">>
MCBuilds  == {<<"a1", "a2", "a3">>, <<"a1", "a2", "b3", "b4">>, <<"a1", "a2">>, MCStock}
MCBackups == {MCStock, [MCStock EXCEPT ![6] = "bad"], <<"s1", "s2">>}
=============================================================================
