---------------------------- MODULE ConsoleBudget ----------------------------
(***************************************************************************)
(* tools/console-budget.py: how many rows of the panel a copy of the       *)
(* digest costs, and on which of them a field lands, worked out from the   *)
(* format strings before anything is printed.                              *)
(*                                                                         *)
(* A format is a sequence of pieces [k, w], w columns wide: "text", the    *)
(* "name" of a field with its '=', and a "conv", a conversion rendered at  *)
(* the width that is assumed for it.  A variant is [key, w]: formats that  *)
(* have the lead and the fields in common print one line of the digest.    *)
(***************************************************************************)
EXTENDS Naturals, Sequences, SequencesExt, FiniteSetsExt

CONSTANT Columns    \* 90 on the panel

RenderWidth(fmt) == FoldLeft(LAMBDA w, piece : w + piece.w, 0, fmt)

(* rows_here: `1 if w <= columns else -(-w // columns)` *)
RowsHere(w) == IF w <= Columns THEN 1 ELSE (w + Columns - 1) \div Columns

(* groups: the widest variant stands for its line.                         *)
(* Mutant: the last one does. *)
StandsLast(variants, key) == variants[Max({i \in DOMAIN variants : variants[i].key = key})].w
Stands(variants, key)     == Max({v.w : v \in {x \in ToSet(variants) : x.key = key}})

FixedRows(variants) ==
    MapThenSumSet(LAMBDA key : RowsHere(Stands(variants, key)), {v.key : v \in ToSet(variants)})

-----------------------------------------------------------------------------
(* field_spans: a name closes the field before it, a conversion closes its *)
(* own.  Mutant: the field stays open behind its conversion.               *)
Closed(st) == IF st.open = <<>> THEN st.spans ELSE Append(st.spans, [from |-> st.open[1], to |-> st.col])
Walked(st, piece) == [st EXCEPT !.col = @ + piece.w]
StepStaysOpen(st, piece) ==
    CASE piece.k = "name" -> Walked([st EXCEPT !.spans = Closed(st), !.open = <<st.col>>], piece)
      [] piece.k = "conv" -> LET s == Walked(st, piece) IN [s EXCEPT !.spans = Closed(s)]
      [] piece.k = "text" -> Walked(st, piece)
SpanStep(st, piece) ==
    CASE piece.k = "name" -> Walked([st EXCEPT !.spans = Closed(st), !.open = <<st.col>>], piece)
      [] piece.k = "conv" -> LET s == Walked(st, piece) IN [s EXCEPT !.spans = Closed(s), !.open = <<>>]
      [] piece.k = "text" -> Walked(st, piece)
FieldSpans(fmt) == Closed(FoldLeft(SpanStep, [col |-> 0, open |-> <<>>, spans |-> <<>>], fmt))

(* Where a field lands, and the remark beside it. *)
Landing(span) ==
    [row  |-> 1 + (span.from \div Columns),
     note |-> IF span.to > Columns /\ Columns >= span.from THEN "value split by the wrap"
              ELSE IF span.from > Columns THEN "name itself on the next row" ELSE ""]

-----------------------------------------------------------------------------
(* Whichever variants are printed, the lines cost no more than is counted. *)
WidestStands(variants) ==
    LET keys == {v.key : v \in ToSet(variants)}
    IN  \A s \in [keys -> ToSet(variants)] :
            (\A key \in keys : s[key].key = key) =>
                MapThenSumSet(LAMBDA key : RowsHere(s[key].w), keys) <= FixedRows(variants)

(* A field has one span, from its name to the end of the first conversion  *)
(* behind it, and to the next name or the end of the line if there is      *)
(* none; and a field without a remark is whole on the first row, unless    *)
(* its name begins right behind the last column.                           *)
FieldsAreFound(fmt) ==
    LET names == {i \in DOMAIN fmt : fmt[i].k = "name"}
        At(i) == RenderWidth(SubSeq(fmt, 1, i - 1))
        Next(i) == {j \in DOMAIN fmt : j > i /\ fmt[j].k = "name"}
        Conv(i) == {j \in DOMAIN fmt : j > i /\ fmt[j].k = "conv" /\ ~\E m \in Next(i) : m < j}
        End(i) == IF Conv(i) # {} THEN RenderWidth(SubSeq(fmt, 1, Min(Conv(i))))
                  ELSE IF Next(i) # {} THEN At(Min(Next(i))) ELSE RenderWidth(fmt)
        spans == FieldSpans(fmt)
    IN  /\ Len(spans) = Cardinality(names)
        /\ ToSet(spans) = {[from |-> At(i), to |-> End(i)] : i \in names}
        /\ \A span \in ToSet(spans) :
              LET l == Landing(span)
              IN  /\ l.note = "" <=> span.to <= Columns
                  /\ l.note = "name itself on the next row" => l.row > 1
                  /\ (l.note = "value split by the wrap" /\ span.from # Columns) => l.row = 1
=============================================================================
