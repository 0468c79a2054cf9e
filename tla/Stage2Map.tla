------------------------------ MODULE Stage2Map ------------------------------
(***************************************************************************)
(* The stage-2 redirect of tools/qemu-panel-read.py --el3-zero-mem: which  *)
(* 2 MB blocks of low address are moved (low_regions), where to (l2_plan), *)
(* the table that is assembled for them (build_el3_stub, s2_l2.inc) and    *)
(* where an access of the guest then lands.                                *)
(*                                                                         *)
(* A byte address in a memory map is a number; the address of an access is *)
(* the pair <<block, offset>>.                                             *)
(***************************************************************************)
EXTENDS Integers, FiniteSets

CONSTANTS
    BlockSize,      \* STAGE2_BLOCK
    L2Entries,      \* STAGE2_L2_ENTRIES: the blocks below LOW_MMIO_LIMIT
    PoolBase,       \* ZERO_MEM_POOL_BASE, as a block
    LoadBlock       \* load_addr, as a block

ASSUME Stage2Assumption ==
    /\ BlockSize \in Nat \ {0} /\ L2Entries \in Nat \ {0}
    /\ PoolBase \in Nat /\ LoadBlock \in Nat
    /\ L2Entries <= PoolBase

Region == [base : Nat, size : Nat]

(* low_regions: what makes it stop. *)
WellFormed(regions) ==
    /\ regions # {}
    /\ \A r \in regions : r.size # 0 /\ r.base + r.size <= L2Entries * BlockSize

(* The blocks that hold a byte of a region. *)
Blocks(regions) ==
    UNION {(r.base \div BlockSize)..((r.base + r.size - 1) \div BlockSize) : r \in regions}

(* Mutant: every block is moved to the same one. *)
AllToOne(blocks) == [b \in blocks |-> PoolBase]

(* l2_plan: the sorted blocks, one block of the pool each, from its base.  *)
Plan(blocks) == [b \in blocks |-> PoolBase + Cardinality({c \in blocks : c < b})]

(* ... which refuses a pool that would reach the load address. *)
Fits(blocks) == PoolBase + Cardinality(blocks) <= LoadBlock

(* s2_l2.inc: identity except for the plan's blocks. *)
L2(plan) == [b \in 0..L2Entries - 1 |-> IF b \in DOMAIN plan THEN plan[b] ELSE b]

(* Where stage 2 sends an access: the low gigabyte through its table, what *)
(* is above it straight on.                                                *)
Walk(table, address) ==
    IF address[1] \in DOMAIN table THEN <<table[address[1]], address[2]>> ELSE address

(* The addresses the board's map declares below the limit. *)
Declared(regions) == Blocks(regions) \X (0..BlockSize - 1)
=============================================================================
