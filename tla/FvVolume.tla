------------------------------ MODULE FvVolume ------------------------------
(***************************************************************************)
(* A firmware volume as GenFv writes it, and the walk of fv-inventory.py   *)
(* over it.  Offsets and sizes count 4-byte words: an FFS header is six,   *)
(* files begin at a multiple of two and their size need not be one.        *)
(***************************************************************************)
EXTENDS Integers, Sequences, FiniteSets

CONSTANTS
    HeaderLength,   \* the volume's own header
    ErasedName      \* the GUID whose bytes are all erased, as a pad file's are

HEADER_SIZE == 6
AlignUp(n)  == n + (n % 2)

(* A piece is a file or a run of erased bytes; a volume is                 *)
(*   [pieces, ext, tail, noise]                                            *)
(* where ext is 0 or the end of the extension header, tail the erased      *)
(* words behind the last piece, and noise what the state byte of a header  *)
(* read in the middle of a file happens to hold.                           *)
Start(v) == IF v.ext = 0 THEN HeaderLength ELSE AlignUp(v.ext)

RECURSIVE PlacedAt(_, _)
PlacedAt(v, k) ==
    IF k = 1 THEN Start(v) ELSE AlignUp(PlacedAt(v, k - 1) + v.pieces[k - 1].size)

FvLength(v) == AlignUp(PlacedAt(v, Len(v.pieces) + 1)) + v.tail

IsFileAt(v, off, k) == PlacedAt(v, k) = off /\ v.pieces[k].kind = "file"

(* The bytes between a file's end and its alignment are erased too. *)
IsErasedWord(v, w) ==
    ~\E k \in 1..Len(v.pieces) :
        /\ v.pieces[k].kind = "file"
        /\ w \in PlacedAt(v, k)..(PlacedAt(v, k) + v.pieces[k].size - 1)

IsErasedAt(v, off) ==
    \A w \in off..(off + HEADER_SIZE - 1) : w < FvLength(v) => IsErasedWord(v, w)

(* What a header read at off says: a file's, erased bytes, or noise.       *)
Erased == [kind |-> "erased", guid |-> ErasedName, size |-> 0]
Noise  == [kind |-> "noise", guid |-> "noise", size |-> 0]
HeaderAt(v, off) ==
    IF \E k \in 1..Len(v.pieces) : IsFileAt(v, off, k)
      THEN v.pieces[CHOOSE k \in 1..Len(v.pieces) : IsFileAt(v, off, k)]
    ELSE IF off >= Start(v) /\ IsErasedAt(v, off) THEN Erased
    ELSE IF off < Start(v) THEN Erased    \* the pad file around the extension header
    ELSE Noise

-----------------------------------------------------------------------------
(* Mutant: `off + size` without the rounding. *)
NextUnaligned(off, size) == off + size
NextFile(off, size)      == AlignUp(off + size)

(* _walk_from(fv, start, end): (guid, offset) of every file up to the      *)
(* first header that is erased, too small or too large.                    *)
RECURSIVE WalkFrom(_, _)
WalkFrom(v, off) ==
    LET h == HeaderAt(v, off)
    IN  IF \/ off + HEADER_SIZE > FvLength(v)
           \/ h.guid = ErasedName
           \/ h.size < HEADER_SIZE
           \/ off + h.size > FvLength(v)
          THEN <<>>
          ELSE <<[guid |-> h.guid, off |-> off]>> \o WalkFrom(v, NextFile(off, h.size))

(* fv_files(fv): of the two places the files may begin at, the one that    *)
(* gives more of them, and the one behind the extension header on a tie.   *)
FvFiles(v) ==
    LET behind == WalkFrom(v, AlignUp(v.ext))
        direct == WalkFrom(v, HeaderLength)
    IN  IF v.ext # 0 /\ Len(behind) >= Len(direct) THEN behind ELSE direct

(* xbl_extract.py, ffs_files: what is no file is passed over 8 bytes at a  *)
(* time and does not end the walk.                                         *)
RECURSIVE XblFiles(_, _)
XblFiles(v, off) ==
    LET h == HeaderAt(v, off)
    IN  IF off + HEADER_SIZE > FvLength(v) THEN <<>>
        ELSE IF h.kind # "file" \/ h.guid = ErasedName \/ h.size < HEADER_SIZE \/ off + h.size > FvLength(v)
          THEN XblFiles(v, off + 2)
          ELSE <<[guid |-> h.guid, off |-> off]>> \o XblFiles(v, NextFile(off, h.size))

-----------------------------------------------------------------------------
(* compare_map(files, map): the walk against GenFv's own map of the        *)
(* volume, entry by entry as far as both go, and their lengths.  (The size *)
(* of the volume, which it also compares, is not part of the model.)       *)
MapAgreesAsFarAsItGoes(got, want) ==                        \* mutant
    \A k \in 1..Len(want) : k <= Len(got) => got[k] = want[k]
CompareMap(got, want) ==
    /\ Len(got) = Len(want)
    /\ \A k \in 1..Len(want) : k <= Len(got) => got[k] = want[k]

(* FVMAIN.Fv.txt: what GenFv placed where, its pad files left out. *)
GenFvMap(v) ==
    LET named == {k \in 1..Len(v.pieces) : v.pieces[k].kind = "file"
                                           /\ v.pieces[k].guid # ErasedName}
        Nth[n \in 1..Cardinality(named)] ==
            CHOOSE k \in named : Cardinality({m \in named : m < k}) = n - 1
    IN  [n \in 1..Cardinality(named) |->
            [guid |-> v.pieces[Nth[n]].guid, off |-> PlacedAt(v, Nth[n])]]
=============================================================================
