---------------------------- MODULE AprioriOrder ----------------------------
(***************************************************************************)
(* apriori-order.py: is the Apriori file in the image the INF list of      *)
(* APRIORI.inc?  The list is behind `!if`s, an INF is found by its file    *)
(* name and identified by the BASE_NAME it declares, and a BASE_NAME is    *)
(* turned into a GUID by the build's cross reference.                      *)
(*                                                                         *)
(* An order o is what the tool is given and what the build had done:       *)
(*   lines   [op, name, value] of APRIORI.inc, op being if/else/endif/inf  *)
(*   macros  the --define values, a function on the names supplied         *)
(*   infs    for an INF path, the BASE_NAMEs of the files of that name, in *)
(*           the order the tree is walked; "" is a file that has none      *)
(*   xref    [name, guid], the lines of Guid.xref                          *)
(*   array   the GUIDs of the Apriori file                                 *)
(*   built   for an INF path, the GUID the build gave that module          *)
(***************************************************************************)
EXTENDS Integers, Sequences, FiniteSets, SequencesExt

NONE == "None"

(* One line of inf_order: the stack of conditions, the active INFs, and    *)
(* whether the tool has given up.                                          *)
OnLine(s, l, macros) ==
    IF s.exited THEN s
    ELSE CASE l.op = "if"    -> IF l.name \in DOMAIN macros
                                  THEN [s EXCEPT !.stack = Append(@, macros[l.name] = l.value)]
                                  ELSE [s EXCEPT !.exited = TRUE]
           [] l.op = "else"  -> IF s.stack = <<>> THEN [s EXCEPT !.exited = TRUE]
                                ELSE [s EXCEPT !.stack[Len(s.stack)] = ~@]
           [] l.op = "endif" -> IF s.stack = <<>> THEN [s EXCEPT !.exited = TRUE]
                                ELSE [s EXCEPT !.stack = SubSeq(@, 1, Len(@) - 1)]
           [] l.op = "inf"   -> IF \A k \in 1..Len(s.stack) : s.stack[k]
                                  THEN [s EXCEPT !.out = Append(@, l.name)] ELSE s
           [] OTHER          -> s          \* a comment

InfOrder(o) ==
    FoldLeft(LAMBDA s, l : OnLine(s, l, o.macros),
             [stack |-> <<>>, out |-> <<>>, exited |-> FALSE], o.lines)

(* xref_names: the first GUID of a name stays. *)
ByName(o, name) ==
    IF \E k \in 1..Len(o.xref) : o.xref[k].name = name
      THEN o.xref[CHOOSE k \in 1..Len(o.xref) :
                     /\ o.xref[k].name = name
                     /\ \A m \in 1..(k - 1) : o.xref[m].name # name].guid
      ELSE NONE

(* module_name: of the files of that name, the first whose BASE_NAME the   *)
(* cross reference knows.                                                  *)
ModuleName(o, path) ==
    LET known == {k \in 1..Len(o.infs[path]) : ByName(o, o.infs[path][k]) # NONE}
    IN  IF known = {} THEN NONE
        ELSE o.infs[path][CHOOSE k \in known : \A m \in known : k <= m]

(* One slot per active line, whether it could be resolved or not. *)
Want(o) ==
    LET paths == InfOrder(o).out
    IN  [k \in 1..Len(paths) |->
            LET name == ModuleName(o, paths[k])
            IN  IF name = NONE THEN NONE ELSE ByName(o, name)]

(* Mutant: zip() alone, without the comparison of the lengths. *)
ExitZip(o) ==
    IF InfOrder(o).exited THEN 1
    ELSE IF \A k \in 1..Len(Want(o)) :
               /\ Want(o)[k] # NONE
               /\ k <= Len(o.array) => Want(o)[k] = o.array[k]
           THEN 0 ELSE 1
OrderExit(o) ==
    IF InfOrder(o).exited THEN 1
    ELSE LET want == Want(o)
         IN  IF /\ Len(want) = Len(o.array)
                /\ \A k \in 1..Len(want) :
                      want[k] # NONE /\ (k <= Len(o.array) => want[k] = o.array[k])
               THEN 0 ELSE 1

-----------------------------------------------------------------------------
(* What the build does with the same file, said without a stack: a line is *)
(* active when each `!if` around it holds, or does not and the line is     *)
(* behind its `!else`.                                                     *)
Count(o, op, k) == Cardinality({j \in 1..k : o.lines[j].op = op})
Depth(o, k)     == Count(o, "if", k) - Count(o, "endif", k)

Encloses(o, j, k) ==
    /\ j < k /\ o.lines[j].op = "if"
    /\ \A m \in j..k : Depth(o, m) >= Depth(o, j)

BehindElse(o, j, k) ==
    \E m \in (j + 1)..(k - 1) :
        o.lines[m].op = "else" /\ Encloses(o, j, m) /\ Depth(o, m) = Depth(o, j)

Active(o, k) ==
    /\ o.lines[k].op = "inf"
    /\ \A j \in 1..k : Encloses(o, j, k) =>
          ((o.macros[o.lines[j].name] = o.lines[j].value) # BehindElse(o, j, k))

Parses(o) ==
    /\ \A k \in 1..Len(o.lines) : Depth(o, k) >= 0
    /\ Depth(o, Len(o.lines)) = 0
    /\ \A k \in 1..Len(o.lines) :
          o.lines[k].op = "else" => \E j \in 1..k : Encloses(o, j, k)
    /\ \A k \in 1..Len(o.lines) :
          o.lines[k].op = "if" => o.lines[k].name \in DOMAIN o.macros

BuiltArray(o) ==
    LET active == {k \in 1..Len(o.lines) : Active(o, k)}
    IN  [n \in 1..Cardinality(active) |->
            o.built[o.lines[CHOOSE k \in active :
                               Cardinality({m \in active : m < k}) = n - 1].name]]

(* Of the files with an INF's name, one is in the cross reference, under   *)
(* one GUID, and it is the one that was built.                             *)
Unambiguous(o) ==
    \A p \in DOMAIN o.infs :
        {x \in 1..Len(o.xref) : \E k \in 1..Len(o.infs[p]) : o.infs[p][k] = o.xref[x].name}
            = {x \in 1..Len(o.xref) : o.xref[x].guid = o.built[p]}

(* Exit status 0 is given to the array the build makes of the file and, as *)
(* long as names are unambiguous, to no other.                             *)
OrderProved(o) ==
    Unambiguous(o) /\ Parses(o) =>
        (OrderExit(o) = 0 <=> (o.array = BuiltArray(o) /\ \A k \in 1..Len(Want(o)) : Want(o)[k] # NONE))
=============================================================================
