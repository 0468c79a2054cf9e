----------------------------- MODULE MCFvTools ------------------------------
(***************************************************************************)
(* Small images for FvTools.  Volumes of up to three pieces, with and      *)
(* without an extension header, built or damaged; APRIORI.inc files with   *)
(* nested conditions, against every array of up to two GUIDs; and drivers  *)
(* with every kind of dependency.                                          *)
(***************************************************************************)
EXTENDS FvTools

File(g, size, bits, head, attr, sum) ==
    [kind |-> "file", guid |-> g, size |-> size, bits |-> bits, head |-> head,
     attr |-> attr, sum |-> sum]
Good(g, size) == File(g, size, {1, 2, 4}, TRUE, FALSE, "fixed")

MCPieces ==
    {Good("f", 7), Good("g", 6), Good(ErasedName, 8),
     File("h", 7, {1, 2, 4}, TRUE, TRUE, "complement"),
     File("h", 8, {1, 2, 4}, TRUE, TRUE, "sum"),
     File("d", 7, {1, 2, 4, 16}, TRUE, FALSE, "fixed"),
     File("x", 13, {1}, TRUE, FALSE, "fixed"),
     File("x", 12, {1, 2, 32}, FALSE, FALSE, "fixed"),
     File("y", 6, {1, 2, 4}, FALSE, FALSE, "fixed"),
     [kind |-> "gap", guid |-> ErasedName, size |-> 8, bits |-> {}, head |-> FALSE,
      attr |-> FALSE, sum |-> "fixed"]}

MCVolumes ==
    {[pieces |-> p, ext |-> e, tail |-> t, noise |-> n] :
        p \in UNION {[1..k -> MCPieces] : k \in 1..3},
        e \in {0, 9}, t \in {0, 8}, n \in {{}, {1}}}

-----------------------------------------------------------------------------
If(m, v) == [op |-> "if", name |-> m, value |-> v]
Inf(p)   == [op |-> "inf", name |-> p, value |-> 0]
Else     == [op |-> "else", name |-> "", value |-> 0]
Endif    == [op |-> "endif", name |-> "", value |-> 0]

MCLines ==
    {<<Inf("P"), Inf("Q")>>,
     <<If("A", 1), Inf("P"), Endif, Inf("Q")>>,
     <<If("A", 1), Inf("P"), Else, Inf("Q"), Endif>>,
     <<If("A", 1), If("B", 0), Inf("P"), Else, Inf("Q"), Endif, Endif, Inf("Q")>>,
     <<If("A", 0), Inf("Q"), Else, If("B", 1), Inf("P"), Endif, Inf("Q"), Endif>>,
     <<If("C", 1), Inf("P"), Endif>>,
     <<Inf("P"), Endif>>, <<Else, Inf("Q")>>}

MCInfs ==
    {[P |-> <<"p">>, Q |-> <<"q">>], [P |-> <<"", "other", "p">>, Q |-> <<"q">>],
     [P |-> <<"p", "q">>, Q |-> <<"q">>], [P |-> <<>>, Q |-> <<"q">>]}

X(n, g) == [name |-> n, guid |-> g]
MCXrefs == {<<X("p", "gP"), X("q", "gQ")>>, <<X("q", "gQ"), X("q", "gP")>>, <<X("p", "gP")>>}

MCOrders ==
    {[lines |-> l, macros |-> [A |-> a, B |-> b], infs |-> i, xref |-> x, array |-> g,
      built |-> [P |-> "gP", Q |-> "gQ"]] :
        l \in MCLines, a \in {0, 1}, b \in {0, 1}, i \in MCInfs, x \in MCXrefs,
        g \in UNION {[1..k -> {"gP", "gQ"}] : k \in 0..3}}

-----------------------------------------------------------------------------
Push(g) == [op |-> "PUSH", guid |-> g]
Op(o)   == [op |-> o, guid |-> ""]

MCUninstalled == {"Variable", "Bds"}
MCArch        == {"Variable", "Bds", "Cpu"}
MCDefined     == MCArch \cup {"Pcd"}

MCDepexes ==
    LET g == {"Variable", "Cpu", "Pcd", "OnlyQualcomm"}
    IN  {<<>>, <<Op("TRUE"), Op("END")>>}
        \cup {<<Push(a), Op("END")>> : a \in g}
        \cup {<<Push(a), Push(b), Op(o), Op("END")>> : a \in g, b \in g, o \in {"AND", "OR"}}
        \cup {<<Push(a), Op("NOT"), Push(b), Op("AND"), Op("END")>> : a \in g, b \in g}

MCDrivers == {[type |-> t, apriori |-> a, depex |-> x] : t \in {7, 9}, a \in BOOLEAN, x \in MCDepexes}

AVolume == [pieces |-> <<Good("f", 7)>>, ext |-> 0, tail |-> 0, noise |-> {}]
AnOrder == [lines |-> <<Inf("P")>>, macros |-> [A |-> 0, B |-> 0], infs |-> [P |-> <<"p">>, Q |-> <<"q">>],
            xref |-> <<X("p", "gP"), X("q", "gQ")>>, array |-> <<"gP">>, built |-> [P |-> "gP", Q |-> "gQ"]]
ADriver == [type |-> 7, apriori |-> TRUE, depex |-> <<>>]

-----------------------------------------------------------------------------
(* Sources of up to three parts, the last of them a definition; rows two   *)
(* of which begin alike and one with a head that is short.                 *)
MCRowNames == {"SEQ", "SEQ full", "TICK"}
MCHead == [r \in MCRowNames |-> CASE r = "SEQ" -> "P2 SEQ [" [] r = "SEQ full" -> "P2 SEQ [" [] r = "TICK" -> "K "]
MCInstruments == {[name |-> "P2Seq", func |-> "A", rows |-> {"SEQ", "SEQ full"}],
                  [name |-> "P2Tick", func |-> "B", rows |-> {"TICK"}]}
L(k)       == [k |-> k, name |-> ""]
Stmt(n)    == [k |-> "stmt", name |-> n]
Opens(n)   == <<[k |-> "head", name |-> n], L("open")>>
MCDefs     == {Opens(n) \o b \o <<L("close")>> : n \in {"A", "B"},
                  b \in {<<Stmt("SEQ")>>, <<Stmt("TICK"), L("open"), Stmt("SEQ"), L("close"), Stmt("TICK")>>,
                         <<L("open"), L("close")>>}}
MCParts    == MCDefs \cup {<<[k |-> "head", name |-> "A"], L("semi")>>, <<Stmt("SEQ full")>>}
MCTexts    == {x \o y \o z : x \in MCParts \cup {<<>>}, y \in MCParts, z \in MCDefs}
MCLiterals == [row : MCRowNames, spelling : {1, 2}]
MCSources  == {[lines |-> t, image |-> <<>>] : t \in MCTexts}
              \cup {[lines |-> <<>>, image |-> <<a, b>>] : a \in SUBSET MCLiterals,
                        b \in SUBSET [row : MCRowNames, spelling : {2}]}

ASource == [lines |-> <<>>, image |-> <<>>]

(* What a run made of up to three drivers; 0 is a size nobody could read.  *)
MCSized == {{[soi |-> z[i], letter |-> l[i], pos |-> i] : i \in 1..3} :
                z \in [1..3 -> 0..3], l \in [1..3 -> {"s", "L", "S"}]}
ASizing == {}

(* The tools do not share anything but the image: one varies at a time. *)
MCImages ==
    {[volume |-> v, order |-> AnOrder, driver |-> ADriver, sized |-> ASizing, source |-> ASource] : v \in MCVolumes}
    \cup {[volume |-> AVolume, order |-> o, driver |-> ADriver, sized |-> ASizing, source |-> ASource] : o \in MCOrders}
    \cup {[volume |-> AVolume, order |-> AnOrder, driver |-> d, sized |-> ASizing, source |-> ASource] : d \in MCDrivers}
    \cup {[volume |-> AVolume, order |-> AnOrder, driver |-> ADriver, sized |-> ASizing, source |-> s] : s \in MCSources}
    \cup {[volume |-> AVolume, order |-> AnOrder, driver |-> ADriver, sized |-> z, source |-> ASource] : z \in MCSized}
=============================================================================
