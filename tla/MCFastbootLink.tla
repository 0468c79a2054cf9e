--------------------------- MODULE MCFastbootLink ---------------------------
(***************************************************************************)
(* FastbootLink with the three commands that tell replies apart: one       *)
(* packet, a log of several, and a `getvar all` one of whose lines holds   *)
(* the product name.  A download takes two OUT transfers, so that the      *)
(* tool's test command may be swallowed by one or complete it; a drain is  *)
(* given up after two packets, which `getvar all` exceeds.                 *)
(***************************************************************************)
EXTENDS FastbootLink

MCReplies ==
    [c \in {"getvar product", "oem uefilog", "getvar all"} |->
        CASE c = "getvar product" -> <<"OKAY">>
          [] c = "oem uefilog"    -> <<"INFO", "OKAY">>
          [] c = "getvar all"     -> <<"INFO", "INFO", "INFO", "PRODUCT", "INFO", "OKAY">>]

Runs(c, s, l) == [cmd |-> c, script |-> s, limited |-> l]

MCClients == {Runs("getvar product", "capture", TRUE),
              Runs("oem uefilog", "capture", TRUE),
              Runs("oem uefilog", "pull", FALSE),
              Runs("getvar all", "shell", FALSE),
              Runs(Download, "shell", FALSE)}
MCEither == BOOLEAN
=============================================================================
