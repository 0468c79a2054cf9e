------------------------------ MODULE MCQemuRun ------------------------------
(***************************************************************************)
(* QemuRun with four low blocks of two words and a pool of at most three   *)
(* blocks below the stub.  Plain runs take two samples of a panel that is  *)
(* drawn and wiped under them, of a log whose rows are all different and   *)
(* of one that repeats; the redirected and seeded ones read back and let   *)
(* the firmware overwrite a word, or take a sample first and do not.  The  *)
(* maps: a region inside a block and one over two blocks, one that ends in *)
(* the middle of both, one without the seeded words, one whose pool would  *)
(* reach the stub, and one that crosses the limit.                         *)
(***************************************************************************)
EXTENDS QemuRun

R(b, s) == [base |-> b, size |-> s]
Opt(a, s, z, m, p) == [attach |-> a, stub |-> s, zero |-> z, smem |-> m, aop |-> p]
Case(o, r, log, n, w) == [opts |-> o, regions |-> r,
                        bound |-> [log |-> log, samples |-> n, writes |-> w]]

Split  == {R(0, 1), R(2, 3)}
Across == {R(3, 2)}
Maps   == {Split, Across, {R(0, 2)}, {R(0, 8)}, {R(6, 4)}}

(* Nothing repeats; the same two rows again and again. *)
Distinct == <<"a", "b", "c", "d", "e">>
Repeated == <<"a", "b", "a", "b">>

MCText  == {"a", "b", "c", "d", "e", "half"}
MCBegun == [t \in MCText |-> {"half"}]

MCCases ==
    {Case(Opt(FALSE, FALSE, FALSE, FALSE, FALSE), Split, log, 2, 0) : log \in {Distinct, Repeated}}
      \cup {Case(Opt(TRUE, FALSE, FALSE, FALSE, FALSE), Split, <<>>, 1, 0)}
      \cup {Case(Opt(FALSE, s, z, m, p), Split, <<"a">>, 1, 0) : s \in BOOLEAN, z \in {FALSE},
               m, p \in BOOLEAN}
      \cup {Case(Opt(FALSE, FALSE, TRUE, m, FALSE), Split, <<"a">>, 1, 0) : m \in BOOLEAN}
      \cup {Case(Opt(FALSE, TRUE, TRUE, m, p), r, <<>>, 0, 1) : m, p \in BOOLEAN, r \in Maps}
      \cup {Case(Opt(FALSE, TRUE, TRUE, TRUE, TRUE), Split, <<>>, 1, 0)}

MCSmemWord == <<1, 0>>
MCAopWord  == <<2, 0>>
=============================================================================
