------------------------------- MODULE AslWalk -------------------------------
(***************************************************************************)
(* A disassembled ACPI table, written line by line, and the two readers    *)
(* that go through it at the same time: walk() of acpi-usb-pair-census.py, *)
(* which follows braces, and devices_in() of acpi-hid-census.py, which     *)
(* never closes a device.                                                  *)
(*                                                                         *)
(* A line is [k, v]: k is "device" (v its name), "scope" (an If, a Buffer, *)
(* a Scope with a path), "close", "hid", "cid", "dep" (v = 0 has no        *)
(* package), "comment", or a piece of a Memory32Fixed: "call" with no      *)
(* number, "call1" with its base, "call2" with both, "num", or "end", its  *)
(* closing parenthesis.  A window based at b is Length(b) long.            *)
(***************************************************************************)
EXTENDS Integers, Sequences, FiniteSets, SequencesExt

CONSTANTS Names, MaxLines, MaxWindows

VARIABLES
    lines,      \* what was written
    open,       \* who encloses the next line: node numbers, 0 for a scope
    nodes,      \* the devices: [name, path, hid, dep, depth]
    windows,    \* [node, base], as declared
    rest,       \* lines of the current window not written yet
    stack, items,               \* walk(): names (0 for a scope); [name, path, line]
    frames, pending, rows       \* devices_in(): [name, hid]; [st, base]; what it found

readers == <<stack, items, frames, pending, rows>>
table   == <<lines, open, nodes, windows, rest>>

Line(k, v) == [k |-> k, v |-> v]
Length(b)  == 50 + b
Named(s)   == SelectSeq(s, LAMBDA x : x # 0)

-----------------------------------------------------------------------------
(* walk(): a declaration with a body pushes its name, any other brace a    *)
(* None, and a closing brace pops.  Mutant: other braces push nothing.     *)
PushedUnnamed(line, s) ==
    CASE line.k = "device" -> Append(s, line.v)
      [] line.k = "close" /\ s # <<>> -> Front(s)
      [] OTHER -> s
Pushed(line, s) ==
    CASE line.k = "device" -> Append(s, line.v)
      [] line.k = "scope" -> Append(s, 0)
      [] line.k = "close" /\ s # <<>> -> Front(s)
      [] OTHER -> s

Walk(line) ==
    /\ stack' = Pushed(line, stack)
    /\ items' = IF line.k = "device"
                  THEN Append(items, [name |-> line.v, path |-> Named(stack),
                                      line |-> Len(lines) + 1])
                  ELSE items

(* devices_in(): the innermost frame whose field is unset, or which has an *)
(* _HID; 0 if there is none.  Frames are never taken off.                  *)
Innermost(P(_)) ==
    LET hits == {k \in 1..Len(frames) : P(frames[k])}
    IN  IF hits = {} THEN 0 ELSE CHOOSE k \in hits : \A m \in hits : m <= k

Attribute(base, length) ==
    LET k == Innermost(LAMBDA f : f.hid # 0)
    IN  IF k = 0 THEN rows ELSE Append(rows, [hid |-> frames[k].hid, base |-> base, len |-> length])

NOTHING == [st |-> "none", base |-> 0]

DevicesIn(line) ==
    CASE line.k = "device" ->
            /\ frames' = Append(frames, [name |-> line.v, hid |-> 0])
            /\ pending' = NOTHING /\ UNCHANGED rows
      [] line.k = "hid" /\ frames # <<>> ->
            /\ LET k == Innermost(LAMBDA f : f.hid = 0)
               IN  frames' = IF k = 0 THEN frames ELSE [frames EXCEPT ![k].hid = line.v]
            /\ UNCHANGED <<pending, rows>>
      [] pending.st = "length" ->
            /\ rows' = IF line.k = "num" THEN Attribute(pending.base, line.v)
                       ELSE IF line.k = "end" THEN Attribute(pending.base, 0) ELSE rows
            /\ pending' = NOTHING /\ UNCHANGED frames
      [] pending.st # "length" /\ line.k = "call2" ->
            rows' = Attribute(line.v, Length(line.v)) /\ UNCHANGED <<frames, pending>>
      [] pending.st # "length" /\ line.k \in {"call", "call1"} ->
            /\ pending' = IF line.k = "call" THEN [st |-> "next", base |-> 0]
                                             ELSE [st |-> "length", base |-> line.v]
            /\ UNCHANGED <<frames, rows>>
      [] pending.st = "next" /\ line.k = "num" ->
            pending' = [st |-> "length", base |-> line.v] /\ UNCHANGED <<frames, rows>>
      [] OTHER -> UNCHANGED <<frames, pending, rows>>

-----------------------------------------------------------------------------
(* The table: one line of it, which both readers see.                      *)
Writes(line) ==
    /\ Len(lines) < MaxLines
    /\ lines' = Append(lines, line)
    /\ Walk(line) /\ DevicesIn(line)

Inside    == IF open = <<>> THEN 0 ELSE Last(open)
PathOf    == [k \in 1..Len(Named(open)) |-> nodes[Named(open)[k]].name]
Room      == MaxLines - Len(lines) > Len(open) + 1

(* Names are numbered by their first use. *)
Used == {nodes[k].name : k \in 1..Len(nodes)}

OpensDevice ==
    /\ rest = <<>> /\ Room
    /\ \E n \in {m \in Names : \A k \in Names : k < m => k \in Used} :
          /\ nodes' = Append(nodes, [name |-> n, path |-> PathOf, hid |-> 0, dep |-> 0,
                                     depth |-> Len(open)])
          /\ Writes(Line("device", n))
    /\ open' = Append(open, Len(nodes'))
    /\ UNCHANGED <<windows, rest>>

OpensScope ==
    /\ rest = <<>> /\ Room /\ Writes(Line("scope", 0)) /\ open' = Append(open, 0)
    /\ UNCHANGED <<nodes, windows, rest>>

Closes ==
    /\ rest = <<>> /\ open # <<>> /\ Writes(Line("close", 0)) /\ open' = Front(open)
    /\ UNCHANGED <<nodes, windows, rest>>

WritesHid ==
    /\ rest = <<>> /\ Room /\ Inside # 0 /\ nodes[Inside].hid = 0
    /\ nodes' = [nodes EXCEPT ![Inside].hid = Inside]
    /\ Writes(Line("hid", Inside))
    /\ UNCHANGED <<open, windows, rest>>

WritesDep ==
    /\ rest = <<>> /\ Room /\ Inside # 0 /\ nodes[Inside].dep = 0
    /\ nodes' = [nodes EXCEPT ![Inside].dep = Inside]
    /\ Writes(Line("dep", Inside))
    /\ UNCHANGED <<open, windows, rest>>

(* A window on one line, on two, on three as iasl has it, or with no       *)
(* length.                                                                 *)
Forms(b) ==
    {<<Line("call2", b)>>,
     <<Line("call1", b), Line("num", Length(b))>>,
     <<Line("call", 0), Line("num", b), Line("num", Length(b)), Line("end", 0)>>,
     <<Line("call1", b), Line("end", 0)>>}

WritesWindow ==
    /\ rest = <<>> /\ Inside # 0 /\ Len(windows) < MaxWindows
    /\ \E form \in Forms(Len(windows) + 1) :
          /\ Len(lines) + Len(form) + Len(open) <= MaxLines
          /\ Writes(form[1]) /\ rest' = Tail(form)
    /\ windows' = Append(windows, [node |-> Inside, base |-> Len(windows) + 1])
    /\ UNCHANGED <<open, nodes>>

GoesOn ==
    /\ rest # <<>> /\ Writes(rest[1]) /\ rest' = Tail(rest)
    /\ UNCHANGED <<open, nodes, windows>>

WritesComment ==
    /\ rest = <<>> /\ Room /\ \A j \in {Len(lines)} \ {0} : lines[j].k # "comment"
    /\ Writes(Line("comment", 0))
    /\ UNCHANGED <<open, nodes, windows, rest>>

-----------------------------------------------------------------------------
(* acpi-order-votes.py: the movable units of a table, their reordering,    *)
(* and the votes of a corpus of tables on it.  A corpus is a sequence of   *)
(* orders, an order a sequence of device names without repetition.         *)
Heads(ls) == {i \in 1..Len(ls) : ls[i].k = "device"}
Depth(ls, i) ==
    Cardinality({j \in 1..(i - 1) : ls[j].k \in {"device", "scope"}})
      - Cardinality({j \in 1..(i - 1) : ls[j].k = "close"})

(* The top-level devices, in the order of the file. *)
Tops(ls) ==
    LET top == {i \in Heads(ls) : \A j \in Heads(ls) : Depth(ls, i) <= Depth(ls, j)}
    IN  [k \in 1..Cardinality(top) |->
            CHOOSE i \in top : Cardinality({j \in top : j < i}) = k - 1]

(* close(i): the line on which the braces opened from line i balance.      *)
Close(ls, i) ==
    CHOOSE j \in i..Len(ls) :
        /\ Depth(ls, j + 1) = Depth(ls, i)
        /\ \A m \in i..(j - 1) : Depth(ls, m + 1) # Depth(ls, i)

(* A unit starts with the comments right above it.  Mutant: at its head.   *)
StartsAtHead(ls, i) == i
Starts(ls, i) ==
    CHOOSE s \in 1..i : /\ \A m \in s..(i - 1) : ls[m].k = "comment"
                        /\ s > 1 => ls[s - 1].k # "comment"

(* split_units: [prefix, blocks, suffix], a block being [name, text].      *)
SplitUnits(ls) ==
    LET tops   == Tops(ls)
        n      == Len(tops)
        first(k) == Starts(ls, tops[k])
        last(k)  == IF k < n THEN Max({Close(ls, tops[k]), first(k + 1) - 1})
                             ELSE Close(ls, tops[k])
    IN  [prefix |-> SubSeq(ls, 1, first(1) - 1),
         blocks |-> [k \in 1..n |-> [name |-> ls[tops[k]].v,
                                     text |-> SubSeq(ls, first(k), last(k))]],
         suffix |-> SubSeq(ls, last(n) + 1, Len(ls))]

UnitNames(ls) == [k \in 1..Len(Tops(ls)) |-> ls[Tops(ls)[k]].v]

(* apply_order, for a permutation of the units. *)
ApplyOrder(ls, ord) ==
    LET s       == SplitUnits(ls)
        text(n) == s.blocks[CHOOSE k \in 1..Len(s.blocks) :
                                /\ s.blocks[k].name = n
                                /\ \A m \in (k + 1)..Len(s.blocks) : s.blocks[m].name # n].text
    IN  s.prefix \o FlattenSeq([k \in 1..Len(ord) |-> text(ord[k])]) \o s.suffix

-----------------------------------------------------------------------------
Pos(ord, a)       == CHOOSE k \in 1..Len(ord) : ord[k] = a
In(ord)           == {ord[k] : k \in 1..Len(ord)}
Before(ord, a, b) == a \in In(ord) /\ b \in In(ord) /\ Pos(ord, a) < Pos(ord, b)

(* pairs_of: how many tables have a before b. *)
Votes(tables, a, b) == Cardinality({k \in 1..Len(tables) : Before(tables[k], a, b)})
Pairs(ord)        == {p \in In(ord) \X In(ord) : p[1] < p[2]}

(* score: a tied pair gives nothing.  Mutant: its votes count. *)
PairScoreTied(tables, ord, p) ==
    IF Before(ord, p[1], p[2]) THEN Votes(tables, p[1], p[2]) ELSE Votes(tables, p[2], p[1])
PairScore(tables, ord, p) ==
    LET ab == Votes(tables, p[1], p[2])
        ba == Votes(tables, p[2], p[1])
    IN  IF ab = ba THEN 0 ELSE IF Before(ord, p[1], p[2]) THEN ab ELSE ba

Score(tables, ord) == MapThenSumSet(LAMBDA p : PairScore(tables, ord, p), Pairs(ord))

Ceiling(tables, names) ==
    MapThenSumSet(LAMBDA p : LET ab == Votes(tables, p[1], p[2])
                                 ba == Votes(tables, p[2], p[1])
                             IN  IF ab = ba THEN 0 ELSE Max({ab, ba}),
                  {p \in names \X names : p[1] < p[2]})

(* relations: the pairs nobody contradicts which the order reverses.       *)
Broken(tables, ord) ==
    {p \in In(ord) \X In(ord) :
        /\ Votes(tables, p[1], p[2]) > 0 /\ Votes(tables, p[2], p[1]) = 0
        /\ Before(ord, p[2], p[1])}

(* --fixed-point: a node taken out and put in again at every slot.         *)
Without(ord, a)     == SelectSeq(ord, LAMBDA x : x # a)
PutAt(ord, a, j)    == SubSeq(ord, 1, j) \o <<a>> \o SubSeq(ord, j + 1, Len(ord))
Slots(tables, ord, a) ==
    LET others == Without(ord, a)
        res    == [j \in 0..Len(others) |-> Score(tables, PutAt(others, a, j))]
    IN  {j \in 0..Len(others) : \A m \in 0..Len(others) : res[m] <= res[j]}
Misplaced(tables, ord) == {a \in In(ord) : Pos(ord, a) - 1 \notin Slots(tables, ord, a)}

(* lcs_keep, over the table of lengths it fills. *)
LcsLength(a, b) ==
    LET dp[i \in 0..Len(a), j \in 0..Len(b)] ==
            IF i = 0 \/ j = 0 THEN 0
            ELSE IF a[i] = b[j] THEN dp[i - 1, j - 1] + 1
            ELSE Max({dp[i - 1, j], dp[i, j - 1]})
    IN  dp
LcsKeep(a, b) ==
    LET dp == LcsLength(a, b)
        keep[i \in 0..Len(a), j \in 0..Len(b)] ==
            IF i = 0 \/ j = 0 THEN <<>>
            ELSE IF a[i] = b[j] THEN Append(keep[i - 1, j - 1], a[i])
            ELSE IF dp[i - 1, j] >= dp[i, j - 1] THEN keep[i - 1, j] ELSE keep[i, j - 1]
    IN  keep[Len(a), Len(b)]
=============================================================================
