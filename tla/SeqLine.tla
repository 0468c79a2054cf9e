------------------------------- MODULE SeqLine -------------------------------
(***************************************************************************)
(* What a reader of the panel relies on when reading the `P2 SEQ` line of  *)
(* the bring-up digest: one letter per promoted Apriori entry, in the      *)
(* order the dispatcher drains them.  The line only ever grows by a '?' at *)
(* its end, and only its leftmost '?' is ever replaced.  Under that        *)
(* contract "everything from slot k on is '?'" means that the drain never  *)
(* got past slot k.                                                        *)
(***************************************************************************)
EXTENDS Naturals, Sequences

CONSTANT LineMax    \* the line shows at most this many entries

VARIABLE line       \* the letters of the SEQ line

(* '?' pending, 's' started, 'S' EntryPoint failed, 'L' load failed *)
Pending  == "?"
Resolved == {"s", "S", "L"}

Init == line = <<>>

(* An entry is promoted behind every earlier one. *)
Promote ==
    /\ Len(line) < LineMax
    /\ line' = Append(line, Pending)

(* The drain resolves the leftmost pending entry. *)
Resolve(letter) ==
    \E i \in 1..Len(line) :
        /\ line[i] = Pending
        /\ \A j \in 1..(i - 1) : line[j] # Pending
        /\ line' = [line EXCEPT ![i] = letter]

Next == Promote \/ \E letter \in Resolved : Resolve(letter)

Spec == Init /\ [][Next]_line
=============================================================================
