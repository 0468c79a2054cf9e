---------------------------- MODULE ConsolePanel ----------------------------
(***************************************************************************)
(* The framebuffer console that everything about a boot is read from: a    *)
(* grid of cells that wraps at the last column and is wiped, not scrolled, *)
(* behind the last row (tools/panel-text.py, console_render); the digest   *)
(* printed to it again and again with a pause behind each copy (the tail   *)
(* of uefi/patches/mu-basecore-local.patch); and the reader who dumps the  *)
(* framebuffer now and then and joins the dumps into one stream (fb_merge).*)
(*                                                                         *)
(* A glyph stands for a printed character, and is always read as itself:   *)
(* a dump has no blur.                                                     *)
(***************************************************************************)
EXTENDS Naturals, Sequences, FiniteSets, SequencesExt, PanelJoin, ConsoleBudget

CONSTANTS
    PanelRows,  \* 100
    Glyph, Space, Newline,
    Logs,       \* what may be printed: [head, copy : lines, copies], 41 copies in the build
    MaxDumps,   \* bound on the dumps that are taken
    Formats, Variants   \* the format strings console-budget.py is given

Line == Seq(Glyph)

ASSUME PanelAssumption ==
    /\ {Columns, PanelRows} \subseteq Nat \ {0} /\ MaxDumps \in Nat
    /\ Space \in Glyph /\ Newline \notin Glyph
    /\ \A l \in Logs :
          /\ l.head \in Seq(Line) /\ l.copy \in Seq(Line) /\ l.copy # <<>>
          /\ Last(l.copy) \notin {<<>>, <<Space>>}
          /\ l.copies \in Nat \ {0}

VARIABLES
    log,        \* what this boot prints, and
    todo,       \* the characters of it that are not printed yet
    screen, y,  \* the rows of cells on the panel, and the cursor's
    out, kept, gaps,    \* fb_merge: the stream, dumps joined, dumps that did not fit
    dumps,      \* used of MaxDumps
    held        \* history: a pause has shown a whole copy of the digest

vars == <<log, todo, screen, y, out, kept, gaps, dumps, held>>

Characters(lines) == FlattenSeq([i \in 1..Len(lines) |-> Append(lines[i], Newline)])

(* CoreDisplayDiscoveredNotDispatched: its own lines once, then the copies *)
(* of P2Digest, whose last line is P2Key's.                                *)
MislaidKey(l) ==                            \* mutant: P2Key before the last line
    [i \in 1..Len(l.copy) |-> CASE i = Len(l.copy) /\ i > 1 -> l.copy[i - 1]
                                [] i = Len(l.copy) - 1      -> l.copy[i + 1]
                                [] OTHER                    -> l.copy[i]]
Digest(l) == l.copy

PrintedOnce(l) == Characters(l.head) \o Characters(Digest(l))         \* mutant
PrintedHeads(l) ==                                                    \* mutant
    FlattenSeq([k \in 1..l.copies |-> Characters(l.head) \o Characters(Digest(l))])
Printed(l) ==
    Characters(l.head) \o FlattenSeq([k \in 1..l.copies |-> Characters(Digest(l))])

Blank == [r \in 1..PanelRows |-> <<>>]

Init ==
    /\ log \in Logs /\ todo = Printed(log)
    /\ screen = Blank /\ y = 1
    /\ out = <<>> /\ kept = 0 /\ gaps = 0 /\ dumps = 0
    /\ held = FALSE

-----------------------------------------------------------------------------
(* AdvanceNewLine. *)
AdvanceNoZero(cells) ==                         \* mutant: without ZeroMem
    IF y = PanelRows THEN screen' = cells /\ y' = 1
    ELSE screen' = cells /\ y' = y + 1

Advance(cells) ==
    IF y = PanelRows THEN screen' = Blank /\ y' = 1
    ELSE screen' = cells /\ y' = y + 1

(* A line's characters go to the cursor, which is behind the row's text; a *)
(* space at the left edge is skipped, the last column wraps.               *)
Skips(ch) == ch = Space /\ screen[y] = <<>>
Draws(ch) == [screen EXCEPT ![y] = Append(@, ch)]

WriteFrameBuffer(ch) ==
    \/ ch = Newline /\ Advance(screen)
    \/ ch # Newline /\ Skips(ch) /\ UNCHANGED <<screen, y>>
    \/ ch # Newline /\ ~Skips(ch) /\ Len(screen[y]) + 1 >= Columns /\ Advance(Draws(ch))
    \/ /\ ch # Newline /\ ~Skips(ch) /\ Len(screen[y]) + 1 < Columns
       /\ screen' = Draws(ch) /\ UNCHANGED y

(* The rows that carry text, top to bottom. *)
Populated(cells) == SelectSeq(cells, LAMBDA row : row # <<>>)

(* console_rows: the rows that characters take on a panel without an end.  *)
Feed(rows, ch) ==
    LET row == Last(rows)
        drawn == Append(Front(rows), Append(row, ch))
    IN  CASE ch = Newline               -> Append(rows, <<>>)
          [] ch = Space /\ row = <<>>   -> rows
          [] OTHER -> IF Len(row) + 1 >= Columns THEN Append(drawn, <<>>) ELSE drawn
RowsOf(characters) == FoldLeft(Feed, << <<>> >>, characters)

(* A copy has just been printed: P2Hold, and behind the last one the end.  *)
AtHold(left) ==
    LET copied == Len(Printed(log)) - left - Len(Characters(log.head)) IN
    copied > 0 /\ copied % Len(Characters(Digest(log))) = 0

(* The rows of a whole copy, and how many it moves the cursor by. *)
CopyRows == Populated(RowsOf(Characters(Digest(log))))
Cost     == Len(RowsOf(Characters(Digest(log)))) - 1

Prints ==
    /\ todo # <<>>
    /\ WriteFrameBuffer(Head(todo))
    /\ todo' = Tail(todo)
    /\ held' = (held \/ (AtHold(Len(todo')) /\ IsSuffix(CopyRows, Populated(screen'))))
    /\ UNCHANGED <<log, out, kept, gaps, dumps>>

-----------------------------------------------------------------------------
(* The reader: fb_lines of a dump, and one round of fb_merge. *)

(* decode: a row's text without the spaces around it. *)
Text(row) ==
    LET ink == {i \in 1..Len(row) : row[i] # Space}
    IN  SubSeq(row, 1, CHOOSE n \in 0..Len(row) :
            (\A i \in ink : i <= n) /\ (n = 0 \/ n \in ink))
Texts(rows) == [i \in 1..Len(rows) |-> Text(rows[i])]

(* A dump without text is passed over. *)
Dumps ==
    /\ dumps < MaxDumps
    /\ dumps' = dumps + 1
    /\ LET lines == Texts(Populated(screen))
           k == Overlap(out, lines)
       IN  IF lines = <<>> THEN UNCHANGED <<out, kept, gaps>>
           ELSE /\ gaps' = IF kept > 0 /\ k = 0 THEN gaps + 1 ELSE gaps
                /\ out' = out \o SubSeq(lines, k + 1, Len(lines))
                /\ kept' = kept + 1
    /\ UNCHANGED <<log, todo, screen, y, held>>

(* The boot is over, or the reader is content. *)
Rests == todo = <<>> /\ UNCHANGED vars

Next == Prints \/ Dumps \/ Rests
Spec == Init /\ [][Next]_vars

-----------------------------------------------------------------------------
Row == UNION {[1..n -> Glyph] : n \in 0..Columns}

TypeOK ==
    /\ log \in Logs /\ IsSuffix(todo, Printed(log))
    /\ y \in 1..PanelRows /\ screen \in [1..PanelRows -> Row]
    /\ \A r \in 1..PanelRows : r > y => screen[r] = <<>>
    /\ Len(screen[y]) < Columns
    /\ kept \in 0..dumps /\ gaps \in 0..kept /\ dumps \in 0..MaxDumps
    /\ held \in BOOLEAN

(* All the rows that have been printed so far. *)
Output == Populated(RowsOf(SubSeq(Printed(log), 1, Len(Printed(log)) - Len(todo))))

(* "The panel holds the last rows of output, never the first": in every    *)
(* state, in the middle of a line and behind a wipe, too.                  *)
PanelIsLastOutput == IsSuffix(Populated(screen), Output)

(* P2Key is printed last "so that it is the last populated row": the pause *)
(* shows it at the bottom of the text, unless it shows nothing at all.     *)
KeyEndsTheText ==
    AtHold(Len(todo)) => \/ screen = Blank
                         \/ Last(Populated(screen)) = Last(Populated(RowsOf(Last(log.copy))))

(* "After the first wipe the panel holds nothing but copies of the digest":*)
(* once rows have been wiped while copies are printed, each row that is    *)
(* left is a row of one, or the beginning of one.                          *)
OnlyCopiesAreLeft ==
    LET head == Len(Populated(RowsOf(Characters(log.head)))) IN
    Len(Populated(screen)) + head <= Len(Output) =>
        \A r \in 1..PanelRows :
            screen[r] # <<>> => \E i \in 1..Len(CopyRows) : IsPrefix(screen[r], CopyRows[i])

(* The repetition turns the race against the wipe "into a steady state":   *)
(* when a copy is shorter than the panel and the copies are enough for the *)
(* leftover to add up to a panel, one of the pauses shows a copy whole.    *)
ACopyIsHeld ==
    todo = <<>> /\ log.copies * PanelRows >= log.copies * Cost + PanelRows => held

(* What every state of the panel is: the end of the output, with KEY at    *)
(* its bottom in every pause, behind a wipe nothing but copies, and in the *)
(* end a copy that was held whole (console_render, P2Hold).                *)
PanelInv == TypeOK /\ PanelIsLastOutput /\ KeyEndsTheText /\ OnlyCopiesAreLeft /\ ACopyIsHeld

(* console-budget.py's count of a copy without spaces is its cost on the   *)
(* panel, but for the lines that end in the last column: each costs a row  *)
(* more.  A pause shows fewer rows than the panel has.  And what the tool  *)
(* says of the fields and the variants of a line is so.                    *)
BudgetIsTheCost ==
    LET copy   == log.copy
        budget == FoldLeft(LAMBDA n, line : n + RowsHere(Len(line)), 0, copy)
        exact  == {i \in 1..Len(copy) : copy[i] # <<>> /\ Len(copy[i]) % Columns = 0}
    IN  /\ (\A i \in 1..Len(copy) : Space \notin ToSet(copy[i])) => Cost = budget + Cardinality(exact)
        /\ AtHold(Len(todo)) => Len(Populated(screen)) < PanelRows
        /\ (todo = Printed(log) /\ dumps = 0) =>
              /\ \A fmt \in Formats : FieldsAreFound(fmt)
              /\ \A variants \in Variants : WidestStands(variants)

(* No row of what is printed begins another one. *)
RowsDiffer ==
    LET all == Texts(Populated(RowsOf(Printed(log)))) IN
    \A i, j \in 1..Len(all) : i # j => ~IsPrefix(all[i], all[j])

(* fb_merge's "failure mode is the loud one": while no dump is reported as *)
(* a gap the stream is a stretch of what was printed with nothing missing  *)
(* (its last row may have been read half drawn) - if the rows differ.      *)
JoinIsLoud ==
    RowsDiffer /\ gaps = 0 /\ out # <<>> =>
        LET all == Texts(Output) IN
        \E i \in 0..Len(all) - Len(out) :
            /\ Front(out) = SubSeq(all, i + 1, i + Len(out) - 1)
            /\ IsPrefix(Last(out), all[i + Len(out)])
=============================================================================
