------------------------------ MODULE AslTools ------------------------------
(***************************************************************************)
(* The ACPI tools over one table and a corpus: the readers while the table *)
(* is written, what acpi-dep-census.py and acpi-order-votes.py make of it  *)
(* when it is complete, and what acpi-hid-census.py says of a driver set.  *)
(***************************************************************************)
EXTENDS AslWalk

CONSTANTS
    MaxTables,      \* tables of the corpus
    GENERATIONS,    \* [kind -> index], 0 for one never measured; in the order tried
    BLOCK_KIND,     \* [block -> kind], "none" for a block that has none
    FAMILIES        \* the family bytes tried, in order

VARIABLES
    phase,      \* "table", "corpus"
    order,      \* the units of the table
    corpus      \* the orders of the tables read

vars == <<lines, open, nodes, windows, rest, stack, items, frames, pending, rows,
          phase, order, corpus>>

Init ==
    /\ lines = <<>> /\ open = <<>> /\ nodes = <<>> /\ windows = <<>> /\ rest = <<>>
    /\ stack = <<>> /\ items = <<>> /\ frames = <<>> /\ pending = NOTHING /\ rows = <<>>
    /\ phase = "table" /\ order = <<>> /\ corpus = <<>>

Complete == phase = "table" /\ open = <<>> /\ rest = <<>> /\ nodes # <<>>

-----------------------------------------------------------------------------
(* children, package and nodes of acpi-dep-census.py: a _DEP belongs to    *)
(* the device whose path it has.  Mutant: the first one in the body, which *)
(* span reads to the end of the device, inner devices and all.             *)
Span(i)    == (i + 1)..Close(lines, i)
PathAt(j)  ==   \* the names that enclose line j, by the braces before it
    LET To[n \in 0..Len(lines)] == IF n = 0 THEN <<>> ELSE Pushed(lines[n], To[n - 1])
    IN  Named(To[j - 1])
DepInBody(item) ==
    LET deps == {j \in Span(item.line) : lines[j].k = "dep"}
    IN  IF deps = {} THEN <<>> ELSE <<lines[Min(deps)].v>>
DepOf(item) ==
    LET deps == {j \in 1..Len(lines) :
                    lines[j].k = "dep" /\ PathAt(j) = Append(item.path, item.name)}
    IN  IF deps = {} THEN <<>> ELSE <<lines[Min(deps)].v>>
(* nodes() gives up on a table in which two _DEPs have one path.           *)
GivesUp ==
    \E i, j \in 1..Len(lines) :
        i < j /\ lines[i].k = "dep" /\ lines[j].k = "dep" /\ PathAt(i) = PathAt(j)

(* The _HID a row carries: the first one in the body. *)
HidOf(item) ==
    LET hids == {j \in Span(item.line) : lines[j].k = "hid"}
    IN  IF hids = {} THEN 0 ELSE lines[Min(hids)].v

-----------------------------------------------------------------------------
(* --drivers: an id is <<family, index>>. *)
Asked(g) == {b \in DOMAIN BLOCK_KIND : BLOCK_KIND[b] # "none" /\ GENERATIONS[g][BLOCK_KIND[b]] # 0}
Hits(g, f, hids) == {b \in Asked(g) : <<f, GENERATIONS[g][BLOCK_KIND[b]]>> \in hids}
Tries == [n \in 1..(Len(GENERATIONS) * Len(FAMILIES)) |->
            [gen |-> ((n - 1) \div Len(FAMILIES)) + 1,
             fam |-> FAMILIES[((n - 1) % Len(FAMILIES)) + 1]]]
Better(s, t, hids) ==
    Cardinality(Hits(s.gen, s.fam, hids)) > Cardinality(Hits(t.gen, t.fam, hids))
Top(hids) ==
    LET n == CHOOSE n \in DOMAIN Tries :
                \A m \in DOMAIN Tries :
                    /\ ~Better(Tries[m], Tries[n], hids)
                    /\ m < n => Better(Tries[n], Tries[m], hids)
    IN  Tries[n]
CompleteMatch(hids) ==
    LET t == Top(hids)
    IN  Hits(t.gen, t.fam, hids) # {} /\ Hits(t.gen, t.fam, hids) = Asked(t.gen)

-----------------------------------------------------------------------------
TableStep ==
    /\ phase = "table"
    /\ \/ OpensDevice \/ OpensScope \/ Closes \/ WritesHid \/ WritesDep
       \/ WritesWindow \/ GoesOn \/ WritesComment
    /\ UNCHANGED <<phase, order, corpus>>

Distinct(s) == Cardinality({s[k] : k \in 1..Len(s)}) = Len(s)

(* The table is complete: what is left of it are the names of its units.   *)
Scores ==
    /\ Complete /\ Distinct(UnitNames(lines)) /\ Len(UnitNames(lines)) > 1
    /\ order' = UnitNames(lines) /\ phase' = "corpus"
    /\ lines' = <<>> /\ nodes' = <<>> /\ windows' = <<>>
    /\ stack' = <<>> /\ items' = <<>> /\ frames' = <<>> /\ pending' = NOTHING /\ rows' = <<>>
    /\ UNCHANGED <<open, rest, corpus>>

(* A table of the corpus that declares at least two of the names. *)
ReadsTable ==
    /\ phase = "corpus" /\ Len(corpus) < MaxTables
    /\ \E n \in 2..Cardinality(In(order)) : \E s \in [1..n -> In(order)] :
          Distinct(s) /\ corpus' = Append(corpus, s)
    /\ UNCHANGED <<lines, open, nodes, windows, rest, stack, items, frames, pending, rows,
                   phase, order>>

Next == TableStep \/ Scores \/ ReadsTable
Spec == Init /\ [][Next]_vars
-----------------------------------------------------------------------------
(* What a table is to be read as.                                          *)
Truth(i) ==     \* whose window it is: the nearest around it that has a _HID
    IF nodes[i].hid # 0 THEN i
    ELSE LET up == {k \in 1..Len(nodes) :
                      /\ k < i /\ nodes[k].hid # 0
                      /\ Append(nodes[k].path, nodes[k].name)
                           = SubSeq(nodes[i].path, 1, nodes[k].depth + 1)}
         IN  IF up = {} THEN 0 ELSE Max(up)
Inner(k)   == {m \in 1..Len(nodes) : Append(nodes[k].path, nodes[k].name) = nodes[m].path}
Elder(k)   == {m \in 1..(k - 1) : nodes[m].path = nodes[k].path}
OnePathEach == \A k, m \in 1..Len(nodes) :
                  k # m => <<nodes[k].path, nodes[k].name>> # <<nodes[m].path, nodes[m].name>>
HeadOf(k)  == items[k].line
(* The shape the corpus has: a _HID comes first, windows before the inner  *)
(* devices, and a device without a _HID is the first one in its parent.    *)
Regular ==
    /\ OnePathEach
    /\ \A j \in 1..Len(lines) : lines[j].k # "scope"
    /\ \A k \in 1..Len(nodes) :
          IF nodes[k].hid # 0 THEN lines[HeadOf(k) + 1].k = "hid"
          ELSE nodes[k].path # <<>> /\ Elder(k) = {}
    /\ \A w \in 1..Len(windows) : \A m \in Inner(windows[w].node) :
          \E j \in 1..HeadOf(m) : lines[j].v = w /\ lines[j].k \in {"call2", "call1", "num"}

Recorded == {[hid |-> rows[r].hid, base |-> rows[r].base] : r \in 1..Len(rows)}

(* Both readers of a disassembled table are right about every table: the   *)
(* path walk() gives a device is its own whatever else opens a brace; a    *)
(* _DEP is credited to its own device; and in a table of the regular shape *)
(* every window goes, whatever form it is written in, with its own base to *)
(* the nearest device with a _HID around it.                               *)
ReadersAgree ==
    /\ Len(items) = Len(nodes)
    /\ \A k \in 1..Len(items) :
          /\ items[k].name = nodes[k].name
          /\ items[k].path = nodes[k].path
    /\ Complete => stack = <<>>
    /\ Complete /\ OnePathEach =>
          /\ ~GivesUp
          /\ \A k \in 1..Len(items) :
                DepOf(items[k]) = IF nodes[k].dep = 0 THEN <<>> ELSE <<k>>
    /\ Complete /\ Regular =>
          /\ Recorded = {[hid |-> Truth(windows[w].node), base |-> w] : w \in 1..Len(windows)}
          /\ \A k \in 1..Len(items) : nodes[k].hid # 0 => HidOf(items[k]) = k

Bagged(ls) == [x \in {ls[i] : i \in 1..Len(ls)} |-> Cardinality({i \in 1..Len(ls) : ls[i] = x})]
PathIn(ls, j) ==
    Named(FoldLeft(LAMBDA s, line : Pushed(line, s), <<>>, SubSeq(ls, 1, j - 1)))
Placed(ls) == {<<ls[j], PathIn(ls, j)>> : j \in {i \in 1..Len(ls) : ls[i].k \in {"hid", "dep", "device"}}}

(* --apply moves units and edits nothing: the parts are the file, and with *)
(* the units in any order no line is lost, no declaration changes its      *)
(* device, the new file has the order asked for, and a comment is above    *)
(* the same line as before.                                                *)
ReorderingConserves ==
    Complete /\ Distinct(UnitNames(lines)) =>
        LET s == SplitUnits(lines)
            names == UnitNames(lines)
        IN  /\ lines = s.prefix \o FlattenSeq([k \in 1..Len(s.blocks) |-> s.blocks[k].text])
                         \o s.suffix
            /\ \A ord \in [1..Len(names) -> In(names)] :
                 Distinct(ord) =>
                    LET new == ApplyOrder(lines, ord)
                    IN  /\ UnitNames(new) = ord
                        /\ Bagged(new) = Bagged(lines)
                        /\ Placed(new) = Placed(lines)
                        /\ \A i \in 1..(Len(lines) - 1) :
                              lines[i].k = "comment" /\ lines[i + 1].k = "device" =>
                                \E j \in 1..(Len(new) - 1) :
                                    new[j].k = "comment" /\ new[j + 1] = lines[i + 1]

(* The longest sequence both have, found by trying all. *)
LongestCommon(a, b) ==
    Max({Cardinality(S) : S \in {X \in SUBSET In(a) :
            \A x, y \in X : Before(a, x, y) => Before(b, x, y)}})
Reversed(ord) ==      \* pairs the majority of the corpus has the other way round
    {p \in In(ord) \X In(ord) : Before(ord, p[1], p[2])
        /\ Cardinality({k \in 1..Len(corpus) : Before(corpus[k], p[2], p[1])})
             > Cardinality({k \in 1..Len(corpus) : Before(corpus[k], p[1], p[2])})}
Orders == {s \in [1..Len(order) -> In(order)] : Distinct(s)}

(* What --order and --fixed-point say of an order is so: it is called      *)
(* optimal exactly when no pair stands against the majority, then it       *)
(* breaks no unanimous relation and no node is misplaced, and no other     *)
(* order scores higher; and the relocations named are as few as can be.    *)
VotesHold ==
    phase = "corpus" =>
        LET names == In(order)
            score == [s \in Orders |-> Score(corpus, s)]
            cap   == Ceiling(corpus, names)
            stray == [s \in Orders |-> Misplaced(corpus, s)]
        IN  \A s \in Orders :
              /\ score[s] <= cap
              /\ score[s] = cap <=> Reversed(s) = {}
              /\ score[s] = cap => Broken(corpus, s) = {} /\ stray[s] = {}
              /\ stray[s] = {} <=>
                    \A a \in names, j \in 0..(Len(s) - 1) :
                        score[PutAt(Without(s, a), a, j)] <= score[s]
              /\ corpus = <<>> =>
                 LET keep == LcsKeep(order, s)
                 IN  /\ Len(keep) = LongestCommon(order, s)
                     /\ \A x, y \in In(keep) :
                            Before(keep, x, y) => Before(order, x, y) /\ Before(s, x, y)

Ids == {<<f, GENERATIONS[g][BLOCK_KIND[b]]>> :
            f \in {FAMILIES[n] : n \in DOMAIN FAMILIES}, g \in DOMAIN GENERATIONS,
            b \in {x \in DOMAIN BLOCK_KIND : BLOCK_KIND[x] # "none"}}
Kinded == {b \in DOMAIN BLOCK_KIND : BLOCK_KIND[b] # "none"}

(* --drivers: a driver set written for one family, under a generation      *)
(* whose index is measured for every kind of block, is reported as a       *)
(* complete match under such a generation, and every block gets an id the  *)
(* set has: ids that collide with another generation's do not hide it.     *)
FamilyIsFound ==
    lines = <<>> /\ phase = "table" =>
        \A hids \in SUBSET {x \in Ids : x[2] # 0} :
            (\E g \in DOMAIN GENERATIONS, n \in DOMAIN FAMILIES : \A b \in Kinded :
                GENERATIONS[g][BLOCK_KIND[b]] # 0
                  /\ <<FAMILIES[n], GENERATIONS[g][BLOCK_KIND[b]]>> \in hids)
            => /\ CompleteMatch(hids)
               /\ \A b \in Kinded :
                    <<Top(hids).fam, GENERATIONS[Top(hids).gen][BLOCK_KIND[b]]>> \in hids

(* What the ACPI tools make of a table is true of it: a reordering loses   *)
(* nothing, an order called optimal is one (acpi-order-votes.py), and a    *)
(* driver set written for one family is found (acpi-hid-census.py).        *)
CensusesHold == ReorderingConserves /\ VotesHold /\ FamilyIsFound

(* What is read out of a table is in it, and what is made of it is true of *)
(* it, for every table and corpus (the acpi-*.py tools).                   *)
TablesHold == ReadersAgree /\ CensusesHold
=============================================================================
