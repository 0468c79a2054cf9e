---------------------------- MODULE MCDxeDispatch ----------------------------
(***************************************************************************)
(* A small instance of DxeDispatch.  Five drivers in two volumes: FvMain   *)
(* with an Apriori file that names the core, three of its four drivers and *)
(* one GUID that is in no volume, and a second volume without an Apriori   *)
(* file.  Either may be installed first, before the dispatcher runs or by  *)
(* an EntryPoint.  AprioriMax = DiagMax = 2 let both arrays overflow.      *)
(*                                                                         *)
(* The tools read the same volumes laid out in more than one order, with   *)
(* files between the drivers that the walk does not return.                *)
(***************************************************************************)
EXTENDS AprioriTools

MCGuid   == {"core", "a", "b", "c", "d", "e", "gone"}
FvMain   == [files |-> {"core", "a", "b", "c", "e"}, apriori |-> <<"core", "b", "gone", "a", "c">>]
FvWhole  == [files |-> {"core", "a", "b"}, apriori |-> <<"core", "b", "a">>]
FvOther  == [files |-> {"d"}, apriori |-> <<>>]

MCVolumeLists    == {<<FvMain, FvOther>>, <<FvOther, FvMain>>, <<FvWhole, FvOther>>}
MCErrorStatus    == {"EFI_OUT_OF_RESOURCES", "EFI_SECURITY_VIOLATION"}

Drv(g)   == [guid |-> g, type |-> "DRIVER"]
Raw(g)   == [guid |-> g, type |-> "FREEFORM"]
Core     == [guid |-> "core", type |-> "DXE_CORE"]

MCImages ==
    {[files |-> <<Raw("apriori"), Core, Drv("c"), Drv("e"), Raw("logo"), Drv("b"), Drv("a")>>,
      apriori |-> FvMain.apriori],
     [files |-> <<Raw("apriori"), Drv("a"), Drv("b"), Core, Drv("c"), Raw("logo"), Drv("e")>>,
      apriori |-> FvMain.apriori],
     [files |-> <<Raw("apriori"), Core, Drv("a"), Raw("logo"), Drv("b")>>,
      apriori |-> FvWhole.apriori],
     [files |-> <<Raw("apriori"), Core, Drv("b"), Raw("logo"), Drv("a")>>,
      apriori |-> FvWhole.apriori]}
=============================================================================
