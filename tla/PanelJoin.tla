------------------------------ MODULE PanelJoin ------------------------------
(***************************************************************************)
(* How screens read at different times become one stream: fb_overlap of    *)
(* tools/panel-text.py, which both fb_merge and tools/qemu-panel-read.py   *)
(* join with.                                                              *)
(***************************************************************************)
EXTENDS Integers, Sequences

(* Mutant: the head alone is compared. *)
OverlapByHead(seen, lines) ==
    CHOOSE k \in 0..Len(lines) :
        /\ k = 0 \/ (k <= Len(seen) /\ seen[Len(seen) + 1 - k] = lines[1])
        /\ \A c \in k + 1..Len(lines) : c > Len(seen) \/ seen[Len(seen) + 1 - c] # lines[1]

(* The last k rows of `seen` are the first k of `lines`. *)
Joins(seen, lines, k) ==
    SubSeq(seen, Len(seen) - k + 1, Len(seen)) = SubSeq(lines, 1, k)

(* Mutant: a screen that joins onto nothing is taken to share a row. *)
OverlapAtLeastOne(seen, lines) ==
    CHOOSE k \in 0..Len(lines) :
        /\ k <= Len(seen) /\ (Joins(seen, lines, k) \/ k = 1)
        /\ k = 0 => seen = <<>> \/ lines = <<>>
        /\ \A c \in k + 1..Len(lines) : c <= Len(seen) => ~Joins(seen, lines, c)

(* The longest tail of `seen` that is also the head of `lines`. *)
Overlap(seen, lines) ==
    CHOOSE k \in 0..Len(lines) :
        /\ k <= Len(seen) /\ Joins(seen, lines, k)
        /\ \A c \in k + 1..Len(lines) : c <= Len(seen) => ~Joins(seen, lines, c)
=============================================================================
