---------------------------- MODULE SourceReaders ----------------------------
(***************************************************************************)
(* The two tools that read C: load-sites.py says in which function a       *)
(* status is returned and whether the anchors of its ledger still stand,   *)
(* probe-fingerprint.py takes the rows the instruments print from the      *)
(* sources and looks for them in an image.                                 *)
(*                                                                         *)
(* A source is a sequence of lines [k, name]: the "head" of a definition   *)
(* or a declaration, the "semi" that ends a declaration, "open" and        *)
(* "close" braces, and a "stmt" that is named for what it holds.  A        *)
(* literal of an image is [row, spelling]; spelling 2 is that of the       *)
(* sources, 1 an earlier one after the same head.  An image is a sequence  *)
(* of files, each the set of its literals.                                 *)
(***************************************************************************)
EXTENDS Naturals, Sequences, SequencesExt, FiniteSetsExt

CONSTANTS
    ROWS,          \* the rows the sources print
    HEAD,          \* a row |-> what is in front of its first conversion
    SHORT,         \* the heads that are no longer than the token
    INSTRUMENTS    \* [name, func, rows]: a token picks the rows out of func

-----------------------------------------------------------------------------
Braces(lines, i, j, k) == Cardinality({l \in i..j : lines[l].k = k})
NextOpen(lines, i)     == SelectInSubSeq(lines, i, Len(lines), LAMBDA l : l.k = "open")
MatchOf(lines, i) ==
    Min({j \in i..Len(lines) : Braces(lines, i, j, "open") = Braces(lines, i, j, "close")})
Heads(lines) == {i \in DOMAIN lines : lines[i].k = "head"}

(* load-sites.py, functions: from every head to the end of the next body.  *)
Functions(lines) ==
    {[name |-> lines[i].name, first |-> i, last |-> MatchOf(lines, NextOpen(lines, i))] : i \in Heads(lines)}

(* Mutant: the first that is around the line. *)
EnclosingOuter(fns, i) ==
    LET around == {f \in fns : f.first <= i /\ i <= f.last}
    IN  IF around = {} THEN "-"
        ELSE (CHOOSE f \in around : f.first = Min({g.first : g \in around})).name
Enclosing(fns, i) ==
    LET around == {f \in fns : f.first <= i /\ i <= f.last}
    IN  IF around = {} THEN "-"
        ELSE (CHOOSE f \in around : f.first = Max({g.first : g \in around})).name

(* check of an anchor: where it is found first. *)
CheckAnchor(lines, anchor, func, kind) ==
    LET i == SelectInSeq(lines, LAMBDA l : l.k = "stmt" /\ l.name = anchor)
    IN  IF kind = "absent" THEN IF i = 0 THEN "absent" ELSE "present"
        ELSE IF i = 0 THEN "gone"
        ELSE IF func = "-" THEN "ok"
        ELSE IF Enclosing(Functions(lines), i) = func THEN "ok" ELSE "moved"

-----------------------------------------------------------------------------
(* probe-fingerprint.py, all_functions: a declaration's semicolon comes    *)
(* before the next brace.                                                  *)
AllFunctions(lines) ==
    LET defs == {i \in Heads(lines) :
                    NextOpen(lines, i) # 0 /\ Braces(lines, i, NextOpen(lines, i), "semi") = 0}
    IN  {[name |-> lines[i].name, first |-> NextOpen(lines, i),
          last |-> MatchOf(lines, NextOpen(lines, i))] : i \in defs}

SourceRows(lines) ==
    UNION {{[owner |-> f.name, line |-> i, row |-> lines[i].name] :
              i \in {j \in f.first..f.last : lines[j].k = "stmt" /\ lines[j].name \in ROWS}} :
           f \in AllFunctions(lines)}

Now(row)       == [row |-> row, spelling |-> 2]
Exact(row)     == [by |-> "literal", what |-> Now(row)]
Marker(row)    == IF HEAD[row] \in SHORT THEN Exact(row) ELSE [by |-> "head", what |-> row]

(* A head that is short is found in any file. *)
Holds(file, marker) ==
    IF marker.by = "literal" THEN marker.what \in file
    ELSE HEAD[marker.what] \in SHORT \/ \E l \in file : HEAD[l.row] = HEAD[marker.what]

(* find_literal: the first file that has them all. *)
FindLiteral(image, markers) ==
    SelectInSeq(image, LAMBDA file : \A m \in markers : Holds(file, m))

(* instruments_in: the literals as they are now, then their heads.         *)
(* Mutant: all the heads. *)
InstrumentAnyHead(image, ins) ==
    IF FindLiteral(image, {Exact(r) : r \in ins.rows}) # 0 THEN "present"
    ELSE IF FindLiteral(image, {[by |-> "head", what |-> r] : r \in ins.rows}) # 0 THEN "head-matched"
    ELSE "ABSENT"
Instrument(image, ins) ==
    IF FindLiteral(image, {Exact(r) : r \in ins.rows}) # 0 THEN "present"
    ELSE IF FindLiteral(image, {Marker(r) : r \in ins.rows}) # 0 THEN "head-matched"
    ELSE "ABSENT"

(* rows_in: row by row.                                                    *)
RowState(image, row) ==
    IF FindLiteral(image, {Exact(row)}) # 0 THEN "present"
    ELSE IF HEAD[row] \notin SHORT /\ FindLiteral(image, {Marker(row)}) # 0 THEN "older"
    ELSE "ABSENT"

-----------------------------------------------------------------------------
(* What the code is: the definition a line is in.                          *)
DefinedIn(lines, i) ==
    {lines[j].name : j \in {h \in Heads(lines) :
        /\ h < Len(lines) /\ lines[h + 1].k = "open"
        /\ h < i /\ i <= MatchOf(lines, h + 1)}}

(* Of a line in a definition both tools name that definition, whatever was *)
(* declared before it; an anchor that is called ok is in no other function *)
(* than that of the ledger, and one that is gone is nowhere; and a row is  *)
(* attributed to the function that prints it, once.                        *)
FunctionsAreFound(lines) ==
    /\ \A i \in DOMAIN lines :
          DefinedIn(lines, i) # {} => DefinedIn(lines, i) = {Enclosing(Functions(lines), i)}
    /\ \A f \in AllFunctions(lines), row \in ROWS :
          LET at == {i \in DOMAIN lines : lines[i].k = "stmt" /\ lines[i].name = row}
          IN  /\ CheckAnchor(lines, row, f.name, "page") = "ok" => \E i \in at : DefinedIn(lines, i) \subseteq {f.name}
              /\ \A kind \in {"page", "absent"} :
                    CheckAnchor(lines, row, f.name, kind) \in {"gone", "absent"} <=> at = {}
    /\ {[owner |-> r.owner, line |-> r.line] : r \in SourceRows(lines)} =
       UNION {{[owner |-> d, line |-> i] : d \in DefinedIn(lines, i)} :
                i \in {j \in DOMAIN lines : lines[j].k = "stmt" /\ lines[j].name \in ROWS}}

(* An instrument that is called present is in the image as the sources     *)
(* spell it, one that is head-matched has the function in some spelling,   *)
(* and one that is absent is not there as the sources spell it; likewise   *)
(* of a row, as far as its head is its own.                                *)
InstrumentsAreTold(image) ==
    LET Has(file, row) == \E l \in file : l.row = row
        Own(row)       == \A r \in ROWS : HEAD[r] = HEAD[row] => r = row
        Files          == ToSet(image)
    IN  /\ \A ins \in INSTRUMENTS :
              LET told == Instrument(image, ins)
              IN  /\ told = "present" <=> \E file \in Files : \A r \in ins.rows : Now(r) \in file
                  /\ (told = "head-matched" /\ \A r \in ins.rows : Own(r)) =>
                        \E file \in Files : \A r \in ins.rows : Has(file, r)
                  /\ (told = "ABSENT" /\ \A r \in ins.rows : HEAD[r] \notin SHORT) =>
                        ~\E file \in Files : \A r \in ins.rows : Has(file, r)
        /\ \A r \in ROWS :
              LET told == RowState(image, r)
              IN  /\ told = "present" <=> \E file \in Files : Now(r) \in file
                  /\ (told = "older" /\ Own(r)) => \E file \in Files : Has(file, r)
                  /\ (told = "ABSENT" /\ HEAD[r] \notin SHORT) => ~\E file \in Files : Has(file, r)
=============================================================================
