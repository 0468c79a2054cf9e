--------------------------- MODULE MCConsolePanel ---------------------------
(***************************************************************************)
(* ConsolePanel with three columns: lines that fit, that wrap, that end in *)
(* the last column (and so leave an empty row), and that wrap at a space.  *)
(* Copies of 2, 3 and 4 rows on a panel of five, behind heads of 0 to 2    *)
(* rows, put the wipe on every row of a copy; the log of distinct rows is  *)
(* the one whose dumps can be joined for certain.                          *)
(***************************************************************************)
EXTENDS ConsolePanel

Log(head, copy, copies) == [head |-> head, copy |-> copy, copies |-> copies]
Heads == {<<>>, << <<"h">> >>, << <<"h", "i">>, <<"j">> >>}

MCGlyph == {"a", "b", "c", "d", "e", "f", "g", "h", "i", "j", "k", " "}
MCLogs ==
    {Log(h, << <<"a", "b">>, <<"k">> >>, 3) : h \in Heads} \cup
    {Log(<< <<"h">> >>, c, 3) : c \in {<< <<"a", "b", " ", "c">>, <<"k">> >>,
                                     << <<"a">>, <<"b">>, <<"c">>, <<"d">>, <<"k">> >>}} \cup
    {Log(<< <<"h">> >>, << <<"a", "b", "c">>, <<"a">>, <<"k">> >>, 5),
     Log(<< <<"h", " ">>, <<"i", "j", " ", "b">>, <<"f">>, <<"g">> >>,
         << <<"a">>, <<"c", "d">>, <<"e">>, <<"k">> >>, 1)}

Piece(k, w) == [k |-> k, w |-> w]
MCFormats  == UNION {[1..n -> {Piece("text", 1), Piece("text", 2), Piece("name", 2),
                               Piece("conv", 1), Piece("conv", 3)}] : n \in 0..4}
MCVariants == UNION {[1..n -> [key : {"p", "q"}, w : {1, 3, 4, 7}]] : n \in 1..3}
=============================================================================
