------------------------------ MODULE DramRead ------------------------------
(***************************************************************************)
(* tools/read-dram.py: a range of the phone's memory, read through adb in  *)
(* chunks by dd with a block size of 4096, and hashed once more on the     *)
(* phone; or searched for a string.  Memory is counted in half blocks; a   *)
(* byte that is read is the address it came from, and 0 stands for one of  *)
(* dd's statistics.  The string that is searched is at one address.        *)
(***************************************************************************)
EXTENDS Integers, Sequences, SequencesExt, FiniteSetsExt

CONSTANTS
    BLOCK,       \* 2: half blocks of a block
    Ranges,      \* [addr, size, chunk, needle] a read is asked for; needle 0: a dump
    MAP          \* the rows of uefiplat.cfg: [base, size, label]

ASSUME DramAssumption ==
    /\ BLOCK \in Nat \ {0}
    /\ \A r \in Ranges : r.addr \in Nat \ {0} /\ r.size \in Nat /\ r.chunk \in Nat /\ r.needle \in Nat
    /\ MAP \in Seq([base : Nat, size : Nat, label : STRING])

VARIABLES
    read,        \* [at, addr, size, chunk, needle]
    got,         \* what came back
    error,       \* the read was given up
    checked,     \* "none", "ok", "MISMATCH" or "not obtained"
    hits,        \* the addresses the string was reported at
    exit,        \* exit status, or -1
    cut          \* history: a chunk came back short and was taken

dramVars == <<read, got, error, checked, hits, exit, cut>>

NoRead == [at |-> "idle", addr |-> 1, size |-> 0, chunk |-> BLOCK, needle |-> 0]

DramInit ==
    /\ read = NoRead /\ got = <<>> /\ error = FALSE
    /\ checked = "none" /\ hits = {} /\ exit = -1 /\ cut = FALSE

-----------------------------------------------------------------------------
(* label_for, region_for: the first row an address is in, and what a range *)
(* takes of every row.                                                     *)
LabelFor(addr) ==
    LET i == SelectInSeq(MAP, LAMBDA row : row.base <= addr /\ addr < row.base + row.size)
    IN  IF i = 0 THEN "none" ELSE MAP[i].label

(* Mutant: the range is not cut at the end of the row. *)
SharedToTheEnd(row, addr, size) == (addr + size) - Max({row.base, addr})
Shared(row, addr, size) ==
    Min({row.base + row.size, addr + size}) - Max({row.base, addr})

RegionFor(addr, size) ==
    FoldLeft(LAMBDA out, row :
                IF Shared(row, addr, size) > 0
                  THEN Append(out, [label |-> row.label, bytes |-> Shared(row, addr, size)])
                  ELSE out,
             <<>>, MAP)

-----------------------------------------------------------------------------
(* main: a dump whose address or size is no multiple of a block is         *)
(* refused, a search is not; the chunk is rounded down to one.             *)
Refused(r) == r.needle = 0 /\ (r.addr % BLOCK # 0 \/ r.size % BLOCK # 0)
StartsRead ==
    /\ read.at \in {"idle", "done"}
    /\ \E r \in Ranges :
          /\ read' = IF Refused(r) THEN [NoRead EXCEPT !.at = "done"]
                     ELSE [at |-> "reading", addr |-> r.addr, size |-> r.size,
                           chunk |-> r.chunk - (r.chunk % BLOCK), needle |-> r.needle]
          /\ exit' = IF Refused(r) THEN 1 ELSE -1
    /\ got' = <<>> /\ error' = FALSE /\ checked' = "none" /\ hits' = {} /\ cut' = FALSE

(* dd: whole blocks, from the block the start is in. *)
Want   == LET left == read.size - Len(got) IN IF read.chunk < left THEN read.chunk ELSE left
Blocks(from, want) == [i \in 1..(want - (want % BLOCK)) |-> from - (from % BLOCK) + i - 1]
Cut(s, n) == SubSeq(s, 1, IF n < Len(s) THEN n ELSE Len(s))

(* read_device, one chunk: all of it, all of it with dd's statistics       *)
(* behind, the part that came before the link broke, or an error.          *)
(* Mutant: what came back, however long. *)
TakesAll ==
    /\ read.at = "reading" /\ Len(got) < read.size
    /\ LET data == Blocks(read.addr + Len(got), Want)
       IN  \E stats \in {<<>>, <<0>>}, n \in 0..BLOCK, failed \in BOOLEAN :
              LET out == Cut(data, Len(data) - n) \o IF n = 0 THEN stats ELSE <<>>
                  ok  == ~failed /\ out # <<>>
              IN  /\ got' = IF ok THEN got \o out ELSE got
                  /\ error' = ~ok /\ cut' = (cut \/ (ok /\ n > 0))
                  /\ read' = [read EXCEPT !.at = IF ok THEN @ ELSE "saving"]
    /\ UNCHANGED <<checked, hits, exit>>
TakesChunk ==
    /\ read.at = "reading" /\ Len(got) < read.size
    /\ LET data == Blocks(read.addr + Len(got), Want)
       IN  \E stats \in {<<>>, <<0>>}, n \in 0..BLOCK, failed \in BOOLEAN :
              LET out == Cut(data, Len(data) - n) \o IF n = 0 THEN stats ELSE <<>>
                  ok  == ~failed /\ out # <<>>
              IN  /\ got' = IF ok THEN got \o Cut(out, Want) ELSE got
                  /\ error' = ~ok /\ cut' = (cut \/ (ok /\ n > 0))
                  /\ read' = [read EXCEPT !.at = IF ok THEN @ ELSE "saving"]
    /\ UNCHANGED <<checked, hits, exit>>

(* The hash of the phone is of as much of the range as came back; the link *)
(* may break again, and what the range holds may have changed.             *)
Checks ==
    /\ read.at = "reading" /\ read.needle = 0 /\ Len(got) >= read.size
    /\ LET whole == Len(got) - (Len(got) % BLOCK)
           same  == SubSeq(got, 1, whole) = Blocks(read.addr, whole)
       IN  checked' \in {"not obtained", "MISMATCH"} \cup (IF same THEN {"ok"} ELSE {})
    /\ read' = [read EXCEPT !.at = "saving"]
    /\ UNCHANGED <<got, error, hits, exit, cut>>

(* Saved under a name that tells a partial read, unless nothing came. *)
Saves ==
    /\ read.at = "saving" /\ read.needle = 0
    /\ exit' = IF got = <<>> \/ error THEN 1 ELSE 0
    /\ read' = [read EXCEPT !.at = "done"]
    /\ UNCHANGED <<got, error, checked, hits, cut>>

(* search, over what came back: every place of the string.                 *)
Searches ==
    /\ read.needle # 0
    /\ read.at = "saving" \/ (read.at = "reading" /\ Len(got) >= read.size)
    /\ hits' = {read.addr + i - 1 : i \in {j \in DOMAIN got : got[j] = read.needle}}
    /\ exit' = IF hits' = {} THEN 1 ELSE 0
    /\ read' = [read EXCEPT !.at = "done"]
    /\ UNCHANGED <<got, error, checked, cut>>

-----------------------------------------------------------------------------
(* A dump whose hash agreed is the range that was asked for, byte by byte; *)
(* a dump that is not called partial has its length, and only a read that  *)
(* broke ends in 1.  Of a search that began on a block, and got its chunks *)
(* whole, a hit is where the string is, and one that missed it read less   *)
(* than it was asked for, or missed it in a last block that is not whole:  *)
(* that one is never read, and dd's statistics may stand where it should   *)
(* (read_device, search, main).                                            *)
DumpIsTheRange ==
    LET dump    == read.at = "done" /\ read.size > 0 /\ read.needle = 0
        search  == read.at = "done" /\ read.needle # 0 /\ read.addr % BLOCK = 0 /\ ~cut
        inRange == read.needle \in read.addr..(read.addr + read.size - 1)
        blocks  == read.size - (read.size % BLOCK)
    IN  /\ checked = "ok" => got = [i \in 1..read.size |-> read.addr + i - 1]
        /\ (dump /\ exit = 0) => Len(got) = read.size
        /\ (dump /\ exit = 1 /\ got # <<>>) => (error /\ checked = "none")
        /\ search => hits \subseteq {read.needle} /\ (hits # {} => inRange)
        /\ (search /\ inRange /\ hits = {}) =>
              Len(got) < read.size \/ read.needle >= read.addr + blocks

(* The regions of a read are the rows it has a byte of, each once and with *)
(* as many bytes as they share, whatever order the rows are in and however *)
(* they overlap (74 of uefiplat.cfg's lines look like rows, six of them    *)
(* begin inside another); and the row its first byte is in is one of them  *)
(* (region_for, label_for).                                                *)
Bytes(base, size) == base..(base + size - 1)
Taken(i) == Bytes(MAP[i].base, MAP[i].size) \cap Bytes(read.addr, read.size)

RegionsAddUp ==
    (read.at = "reading" /\ got = <<>>) =>
        LET parts == RegionFor(read.addr, read.size)
            over  == {i \in DOMAIN MAP : Taken(i) # {}}
        IN  /\ Len(parts) = Cardinality(over)
            /\ ToSet(parts) = {[label |-> MAP[i].label, bytes |-> Cardinality(Taken(i))] : i \in over}
            /\ (read.size > 0 /\ LabelFor(read.addr) # "none") =>
                  \E i \in DOMAIN parts : parts[i].label = LabelFor(read.addr)
=============================================================================
