----------------------------- MODULE MCAslTools -----------------------------
(***************************************************************************)
(* Tables of up to nine lines with three names and two windows, corpora of *)
(* up to three tables, and all driver sets of two families over three      *)
(* kinds of block whose indices collide across the generations the way the *)
(* measured ones do (0C is modern's TLMM and legacy's SPMI, 16 is modern's *)
(* UART and sdm850's SPMI); the third generation has no UART.              *)
(***************************************************************************)
EXTENDS AslTools

MCGenerations ==
    <<[SPMI |-> 11, TLMM |-> 12, UART |-> 22],
      [SPMI |-> 12, TLMM |-> 13, UART |-> 24],
      [SPMI |-> 22, TLMM |-> 23, UART |-> 0]>>
MCBlockKind == "TLMM" :> "TLMM" @@ "SPMI" :> "SPMI" @@ "SE0u" :> "UART" @@ "TSENS0" :> "none"
MCFamilies == <<5, 26>>
=============================================================================
