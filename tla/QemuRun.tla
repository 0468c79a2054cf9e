------------------------------- MODULE QemuRun -------------------------------
(***************************************************************************)
(* tools/qemu-panel-read.py: a payload under QEMU whose console is sampled *)
(* out of its memory through the monitor, and the EL3 stub                 *)
(* (tools/qemu-el3-stub.S) that redirects and seeds what virt lacks.  Four *)
(* parties: the tool, the monitor's socket, QEMU answering it, the guest.  *)
(***************************************************************************)
EXTENDS Stage2Map, Sequences, SequencesExt, PanelJoin

CONSTANTS
    Cases,          \* the runs tried: a command line, the regions of a memory map, and
                    \* the bound: the rows the firmware prints, in order, the samples
                    \* there is time for, the words that are overwritten
    Text, Blank,    \* what a row of the panel reads as, and a row without ink
    Begun,          \* what a row may read as before it stands: cut short by the dump, or
                    \* printed without a newline and continued by the next print
    SmemWord,       \* ZERO_MEM_IPA: an address
    AopWord,        \* the word CmdDbDxe's gate reads: an address
    PanelRows       \* rows the console prints before it wipes the panel

Options == [attach : BOOLEAN, stub : BOOLEAN, zero : BOOLEAN, smem : BOOLEAN, aop : BOOLEAN]
Bounds  == [log : Seq(Text), samples : Nat, writes : Nat]

ASSUME QemuAssumption ==
    /\ \A c \in Cases : c.opts \in Options /\ c.regions \subseteq Region /\ c.bound \in Bounds
    /\ Blank \notin Text /\ Begun \in [Text -> SUBSET Text]
    /\ PanelRows \in Nat \ {0}
    /\ SmemWord \in Nat \X (0..BlockSize - 2)
    /\ AopWord \in Nat \X (0..BlockSize - 1)
    /\ AopWord \notin {<<SmemWord[1], SmemWord[2] - 1>>, SmemWord,
                        <<SmemWord[1], SmemWord[2] + 1>>}

VARIABLES
    opts, regions,          \* the command line and the board's memory map
    bound,                  \* of the case
    tool,                   \* where main is
    plan, seed, aop,        \* main's variables of these names; seed, aop: BOOLEAN
    socket,                 \* a file is at --socket
    qemu,                   \* the QEMU this run launched
    command, prompts,       \* the monitor: commands not run yet, prompts not read
    file, dump,             \* the dump files: "none", "short" or "full"; what they hold
    scanned,                \* rows of the panel the dump that is written has behind it
    still,                  \* history: the panel has not changed since that dump began
    left,                   \* samples there is time for
    lines, screens, gaps,   \* of the stream, as main names them
    drawn,                  \* history: the lines a dump gave that was drawn into
    have, got, ask,         \* what the finally block has read, and has still to read
    exit,                   \* how the tool ended
    walk, seedOk, aopOk,    \* the verdicts of the report
    guest, printed, wiped,  \* the guest; its rows, and those no longer shown
    drawing,                \* what it is at: a "row", a "wipe", or "no" drawing
    table,                  \* the level 2 table in the machine
    ram, smem,              \* the words of the pool, and the stub's words in SMEM
    writes,                 \* words overwritten so far
    shadow,                 \* history: what the guest should find in its registers
    touched                 \* history: what was overwritten since the read-back began

args     == <<opts, regions, bound>>
derived  == <<plan, seed, aop>>
scan     == <<scanned, still>>
monitor  == <<command, prompts, file, dump, scan>>
stream   == <<lines, screens, gaps, drawn>>
readback == <<have, got, ask>>
verdict  == <<exit, walk, seedOk, aopOk>>
console  == <<guest, printed, wiped, drawing>>
memory   == <<table, ram, smem, writes, shadow, touched>>
vars == <<args, tool, derived, socket, qemu, monitor, left, stream, readback, verdict,
          console, memory>>

NextWord(address) == <<address[1], address[2] + 1>>
Pool  == (PoolBase..LoadBlock - 1) \X (0..BlockSize - 1)

(* The reads of the finally block, and the order main makes them in.       *)
Rank  == [tables |-> 1, diag |-> 2, backing |-> 3, record |-> 4, body |-> 5, flag |-> 6,
          rung |-> 7, aop |-> 8]
Reads == {"tables", "diag", "backing", "record", "body", "flag", "rung", "aop"}
Files == Reads \cup {"screen"}
SeedReads == {"record", "body", "flag", "rung", "aop"}

Nothing == [screen |-> <<>>, tables |-> <<>>, diag |-> FALSE, backing |-> "nothing",
            record |-> [written |-> FALSE], body |-> "nothing", flag |-> "nothing", rung |-> "nothing",
            aop |-> <<"nothing", "nothing">>]

-----------------------------------------------------------------------------
Init ==
    /\ \E c \in Cases : opts = c.opts /\ regions = c.regions /\ bound = c.bound
    /\ tool = "options"
    /\ plan = <<>> /\ seed = FALSE /\ aop = FALSE
    /\ socket = opts.attach /\ qemu = "none"
    /\ command = <<>> /\ prompts = 0 /\ file = [f \in Files |-> "none"]
    /\ dump = Nothing /\ scanned = 0 /\ still = FALSE
    /\ left = bound.samples
    /\ lines = <<>> /\ screens = 0 /\ gaps = 0 /\ drawn = {}
    /\ have = {} /\ got = Nothing /\ ask = {}
    /\ exit = "none" /\ walk = "none" /\ seedOk = "none" /\ aopOk = "none"
    /\ guest = "none" /\ printed = 0 /\ wiped = 0 /\ drawing = "no"
    /\ table = <<>> /\ ram = [a \in Pool |-> "zero"] /\ smem = [flag |-> "zero", rung |-> "zero"]
    /\ writes = 0
    /\ shadow = [a \in Declared(regions) |-> "zero"]
    /\ touched = [table |-> FALSE, ram |-> {}, smem |-> FALSE]

Dies == tool' = "done" /\ exit' = "died" /\ UNCHANGED <<walk, seedOk, aopOk>>

(* block_for_ipa, and aop_block_for: the mailbox word and the record it    *)
(* points at take two words of one block.                                  *)
HasBlock(address) == address[1] \in Blocks(regions)
AopInOneBlock     == AopWord[2] + 1 < BlockSize

(* What main and build_el3_stub stop at: options that contradict each      *)
(* other, and a memory map they cannot be made from.                       *)
Refused ==
    \/ ~opts.stub /\ (opts.zero \/ opts.smem \/ opts.aop)
    \/ /\ opts.stub /\ opts.zero
       /\ \/ ~WellFormed(regions) \/ ~Fits(Blocks(regions))
          \/ opts.smem /\ ~HasBlock(SmemWord)
          \/ opts.aop /\ (~HasBlock(AopWord) \/ ~AopInOneBlock \/ ~opts.smem)

(* main up to the launch.  Whatever is at --socket is unlinked first. *)
Prepares ==
    /\ tool = "options"
    /\ socket' = FALSE
    /\ IF Refused THEN Dies /\ UNCHANGED derived
       ELSE /\ plan' = IF opts.stub /\ opts.zero THEN Plan(Blocks(regions)) ELSE <<>>
            /\ seed' = (opts.stub /\ opts.zero /\ opts.smem)
            /\ aop'  = (opts.stub /\ opts.zero /\ opts.aop)
            /\ tool' = (IF opts.attach THEN "connect" ELSE "launch")
            /\ UNCHANGED verdict
    /\ UNCHANGED <<args, qemu, monitor, left, stream, readback, console, memory>>

(* launch: QEMU resets into the stub, or into the payload without one. *)
Launches ==
    /\ tool = "launch"
    /\ qemu' \in {"running", "failed"}
    /\ guest' = IF opts.stub THEN "stub" ELSE "payload"
    /\ table' = IF opts.stub /\ opts.zero THEN L2(plan) ELSE <<>>
    /\ tool' = "connect"
    /\ UNCHANGED <<args, derived, socket, monitor, left, stream, readback, verdict,
                   printed, wiped, drawing, ram, smem, writes, shadow, touched>>

(* Monitor.__init__: the greeting ends in the first prompt. *)
Connects ==
    /\ tool = "connect" /\ socket
    /\ command' = <<"greeting">>
    /\ tool' = "greeted"
    /\ UNCHANGED <<args, derived, socket, qemu, prompts, file, dump, scan, left, stream, readback,
                   verdict, console, memory>>

(* Its deadline passes first: the tool stops, what it launched goes on. *)
ConnectTimesOut ==
    /\ tool = "connect" /\ ~socket
    /\ Dies
    /\ UNCHANGED <<args, derived, socket, qemu, monitor, left, stream, readback, console,
                   memory>>

-----------------------------------------------------------------------------
(* QEMU: it listens, and runs one monitor command after the other. *)
Running == qemu = "running"

Listens ==
    /\ Running /\ ~socket
    /\ socket' = TRUE
    /\ UNCHANGED <<args, tool, derived, qemu, monitor, left, stream, readback, verdict,
                   console, memory>>

(* Where the stub puts the seeds. *)
SmemAt == <<plan[SmemWord[1]], SmemWord[2]>>
AopAt  == <<plan[AopWord[1]], AopWord[2]>>

(* What the tool finds at each address it reads.  The record is the stub's *)
(* own: where it put the pointer, the pointer, where it put the structure. *)
Snapshot(f) ==
    CASE f = "tables" -> table
      [] f = "diag"   -> guest = "payload"
      [] f = "backing" -> ram[SmemAt]
      [] f = "record" -> IF guest = "payload"
                           THEN [written |-> TRUE, page |-> SmemAt,
                                 pointer |-> NextWord(SmemWord), struct |-> NextWord(SmemAt)]
                           ELSE [written |-> FALSE]
      [] f = "body"   -> ram[NextWord(SmemAt)]
      [] f = "flag"   -> smem.flag
      [] f = "rung"   -> smem.rung
      [] f = "aop"    -> <<ram[AopAt], ram[NextWord(AopAt)]>>

(* What the dump may find in a row of the panel while the guest goes on:   *)
(* one that stands, one that is drawn, one that is wiped, and no ink.      *)
Shows(row) ==
    LET n == wiped + row
        Partly == {bound.log[n], Blank} \cup Begun[bound.log[n]]
    IN  CASE n <= printed /\ drawing # "wipe" -> {bound.log[n]}
          [] n <= printed /\ drawing = "wipe" -> Partly
          [] n = printed + 1 /\ drawing = "row" -> Partly
          [] OTHER -> {Blank}

(* pmemsave truncates the file, *)
Opens ==
    /\ Running /\ command # <<>> /\ Head(command) # "greeting"
    /\ file[Head(command)] # "short"
    /\ file' = [file EXCEPT ![Head(command)] = "short"]
    /\ IF Head(command) = "screen"
         THEN dump' = [dump EXCEPT !["screen"] = <<>>] /\ scanned' = 0 /\ still' = (drawing = "no")
         ELSE UNCHANGED <<dump, scan>>
    /\ UNCHANGED <<args, tool, derived, socket, qemu, command, prompts, left, stream, readback,
                   verdict, console, memory>>

(* ... writes the panel row by row - decode keeps the rows with ink -      *)
Scans ==
    /\ Running /\ command # <<>> /\ Head(command) = "screen"
    /\ file["screen"] = "short" /\ scanned < PanelRows
    /\ scanned' = scanned + 1
    /\ \E t \in Shows(scanned + 1) :
          dump' = IF t = Blank THEN dump ELSE [dump EXCEPT !["screen"] = Append(@, t)]
    /\ UNCHANGED <<args, tool, derived, socket, qemu, command, prompts, file, still, left,
                   stream, readback, verdict, console, memory>>

(* ... or a few words at once, and the monitor prompts. *)
Saves ==
    /\ Running /\ command # <<>>
    /\ \/ Head(command) = "greeting" /\ UNCHANGED <<file, dump>>
       \/ /\ Head(command) # "greeting" /\ file[Head(command)] = "short"
          /\ file' = [file EXCEPT ![Head(command)] = "full"]
          /\ IF Head(command) = "screen" THEN scanned = PanelRows /\ UNCHANGED dump
             ELSE dump' = [dump EXCEPT ![Head(command)] = Snapshot(Head(command))]
    /\ command' = Tail(command)
    /\ prompts' = prompts + 1
    /\ UNCHANGED <<args, tool, derived, socket, qemu, scan, left, stream, readback, verdict,
                   console, memory>>

-----------------------------------------------------------------------------
(* The guest. *)

(* _start, with SEED_SMEM and SEED_AOP as assembled; then the payload. *)
Seeded ==
    LET pointed == [ram EXCEPT ![SmemAt] = "pointer", ![NextWord(SmemAt)] = "struct"]
    IN  IF aop THEN [pointed EXCEPT ![AopAt] = "mailbox", ![NextWord(AopAt)] = "record"]
        ELSE pointed

StubStarts ==
    /\ Running /\ guest = "stub"
    /\ guest' = "payload"
    /\ IF seed
         THEN /\ ram' = Seeded
              /\ smem' = [flag |-> "seed", rung |-> "seed"]
              /\ shadow' = [a \in DOMAIN shadow |->
                    CASE a = SmemWord -> "pointer"
                      [] a = NextWord(SmemWord) -> "struct"
                      [] aop /\ a = AopWord -> "mailbox"
                      [] aop /\ a = NextWord(AopWord) -> "record"
                      [] OTHER -> shadow[a]]
         ELSE UNCHANGED <<ram, smem, shadow>>
    /\ UNCHANGED <<args, tool, derived, socket, qemu, monitor, left, stream, readback,
                   verdict, printed, wiped, drawing, table, writes, touched>>

Firmware == Running /\ guest = "payload"

(* A row of the console is drawn glyph by glyph, and what was printed      *)
(* without a newline is continued on its row, *)
BeginsRow ==
    /\ Firmware /\ drawing = "no" /\ printed < Len(bound.log)
    /\ drawing' = "row"
    /\ still' = (still /\ file["screen"] # "short")
    /\ UNCHANGED <<args, tool, derived, socket, qemu, command, prompts, file, dump, scanned,
                   left, stream, readback, verdict, guest, printed, wiped, memory>>

(* ... until its newline; behind the last row the panel is wiped. *)
EndsRow ==
    /\ Firmware /\ drawing = "row"
    /\ printed' = printed + 1
    /\ drawing' = IF printed' - wiped = PanelRows THEN "wipe" ELSE "no"
    /\ UNCHANGED <<args, tool, derived, socket, qemu, monitor, left, stream, readback,
                   verdict, guest, wiped, memory>>

Wipes ==
    /\ Firmware /\ drawing = "wipe"
    /\ wiped' = printed
    /\ drawing' = "no"
    /\ UNCHANGED <<args, tool, derived, socket, qemu, monitor, left, stream, readback,
                   verdict, guest, printed, memory>>

(* A driver writes a declared register, through stage 2. *)
WritesRegister ==
    /\ Firmware /\ table # <<>> /\ writes < bound.writes
    /\ \E a \in Declared(regions) :
          /\ Walk(table, a) \in Pool
          /\ ram' = [ram EXCEPT ![Walk(table, a)] = "driver"]
          /\ shadow' = [shadow EXCEPT ![a] = "driver"]
          /\ touched' = [touched EXCEPT !.ram = @ \cup {Walk(table, a)}]
    /\ writes' = writes + 1
    /\ UNCHANGED <<args, tool, derived, socket, qemu, monitor, left, stream, readback,
                   verdict, console, table, smem>>

(* ... writes SMEM, as its allocator does, or what is not its to write: a  *)
(* word of the stub's table.                                               *)
WritesElsewhere ==
    /\ Firmware /\ table # <<>> /\ writes < bound.writes
    /\ \/ /\ \E w \in DOMAIN smem : smem' = [smem EXCEPT ![w] = "driver"]
          /\ touched' = [touched EXCEPT !.smem = TRUE]
          /\ UNCHANGED table
       \/ /\ \E b \in DOMAIN table : table' = [table EXCEPT ![b] = LoadBlock + 1]
          /\ touched' = [touched EXCEPT !.table = TRUE]
          /\ UNCHANGED smem
    /\ writes' = writes + 1
    /\ UNCHANGED <<args, tool, derived, socket, qemu, monitor, left, stream, readback,
                   verdict, console, ram, shadow>>

-----------------------------------------------------------------------------
(* The sampling loop. *)
SamplesForever ==                               \* mutant: time does not pass
    /\ tool = "sample" /\ left > 0
    /\ command' = Append(command, "screen")
    /\ tool' = "sampling"
    /\ UNCHANGED <<args, derived, socket, qemu, prompts, file, dump, scan, left, stream, readback,
                   verdict, console, memory>>

Samples ==
    /\ tool = "sample" /\ left > 0
    /\ left' = left - 1
    /\ command' = Append(command, "screen")
    /\ tool' = "sampling"
    /\ UNCHANGED <<args, derived, socket, qemu, prompts, file, dump, scan, stream, readback, verdict,
                   console, memory>>

Answered == CASE tool = "greeted"  -> "sample"
              [] tool = "sampling" -> "decode"
              [] tool = "asking"   -> "fetch"
Waits == tool \in {"greeted", "sampling", "asking"}

(* _read_until_prompt returns at a prompt - the prompt of whichever        *)
(* command - with all that had arrived behind it,                          *)
ReadsPrompt ==
    /\ Waits /\ prompts > 0
    /\ prompts' \in 0..prompts - 1
    /\ tool' = Answered
    /\ UNCHANGED <<args, derived, socket, qemu, command, file, dump, scan, left, stream, readback,
                   verdict, console, memory>>

WaitsForPrompt == Waits /\ prompts = 0 /\ UNCHANGED vars     \* mutant: without a deadline

(* ... or when its time is up. *)
PromptTimesOut ==
    /\ Waits /\ prompts = 0
    /\ tool' = Answered
    /\ UNCHANGED <<args, derived, socket, qemu, monitor, left, stream, readback, verdict,
                   console, memory>>

(* The finally block: what it will read while the guest is running. *)
EntersFinally ==
    /\ tool' = "finally"
    /\ ask' = {f \in Reads : /\ opts.stub /\ opts.zero
                             /\ f \in SeedReads => seed
                             /\ f = "aop" => aop}
    /\ touched' = [table |-> FALSE, ram |-> {}, smem |-> FALSE]
    /\ UNCHANGED <<have, got, table, ram, smem, writes, shadow>>

(* The dump is decoded and joined onto the stream; a short one is passed   *)
(* over; one that is not there is an exception nothing in the loop expects.*)
JoinsScreen ==
    /\ tool = "decode" /\ file["screen"] = "full"
    /\ LET screen == dump["screen"]
           k == Overlap(lines, screen)
       IN  /\ gaps' = IF screens > 0 /\ screen # <<>> /\ k = 0 THEN gaps + 1 ELSE gaps
           /\ lines' = lines \o SubSeq(screen, k + 1, Len(screen))
           /\ screens' = IF screen = <<>> THEN screens ELSE screens + 1
           /\ drawn' = IF still THEN drawn ELSE drawn \cup (Len(lines) + 1..Len(lines'))
    /\ tool' = "sample"
    /\ UNCHANGED <<args, derived, socket, qemu, monitor, left, readback, verdict, console,
                   memory>>

PassesOver ==
    /\ tool = "decode" /\ file["screen"] = "short"
    /\ tool' = "sample"
    /\ UNCHANGED <<args, derived, socket, qemu, monitor, left, stream, readback, verdict,
                   console, memory>>

NoDump ==
    /\ tool = "decode" /\ file["screen"] = "none"
    /\ exit' = "crashed"
    /\ EntersFinally
    /\ UNCHANGED <<args, derived, socket, qemu, monitor, left, stream, walk, seedOk, aopOk,
                   console>>

(* --seconds have passed, or someone presses ^C, in the middle of a        *)
(* command as well.                                                        *)
LoopEnds ==
    /\ tool \in {"sample", "sampling"}
    /\ EntersFinally
    /\ UNCHANGED <<args, derived, socket, qemu, monitor, left, stream, verdict, console>>

-----------------------------------------------------------------------------
(* stub_tables and stub_seed. *)
NextRead == CHOOSE f \in ask : \A g \in ask : Rank[f] <= Rank[g]

Asks ==
    /\ tool = "finally" /\ ask # {}
    /\ command' = Append(command, NextRead)
    /\ tool' = "asking"
    /\ UNCHANGED <<args, derived, socket, qemu, prompts, file, dump, scan, left, stream, readback,
                   verdict, console, memory>>

(* A file that is not there ends its group of reads without a result, and  *)
(* so does a record the stub has not written.                              *)
Abandons(f) == ask' = IF f \in SeedReads THEN {} ELSE ask \cap SeedReads

(* What a short file gives where its length is looked at; the other reads  *)
(* raise, and leave the finally block where they are.                      *)
ShortRead == [tables |-> <<>>, backing |-> "short", rung |-> "short",
              aop |-> <<"short", "short">>]

(* stub_tables looks ZERO_MEM_IPA up in the plan for its third read, where *)
(* a map that does not declare it has nothing.                             *)
Raises(f) ==
    \/ file[f] = "short" /\ f \notin DOMAIN ShortRead
    \/ file[f] = "full" /\ f = "diag" /\ ~HasBlock(SmemWord)

Takes(f, value) ==
    /\ have' = have \cup {f}
    /\ got' = [got EXCEPT ![f] = value]

Fetches ==
    /\ tool = "fetch"
    /\ LET f == NextRead IN
       \/ /\ file[f] = "full" /\ ~Raises(f)
          /\ Takes(f, dump[f])
          /\ IF f = "record" /\ ~dump[f].written THEN Abandons(f) ELSE ask' = ask \ {f}
          /\ tool' = "finally" /\ UNCHANGED exit
       \/ /\ file[f] = "none"
          /\ Abandons(f)
          /\ tool' = "finally" /\ UNCHANGED <<have, got, exit>>
       \/ /\ file[f] = "short" /\ f \in DOMAIN ShortRead
          /\ ask' = ask \ {f}
          /\ IF f \in {"tables", "backing"} THEN UNCHANGED <<have, got>> ELSE Takes(f, ShortRead[f])
          /\ tool' = "finally" /\ UNCHANGED exit
       \/ /\ Raises(f)
          /\ tool' = "done" /\ exit' = "crashed"
          /\ UNCHANGED readback
    /\ UNCHANGED <<args, derived, socket, qemu, monitor, left, stream, walk, seedOk, aopOk,
                   console, memory>>

(* The end of the finally block. *)
Terminates ==
    /\ tool = "finally" /\ ask = {}
    /\ qemu' = "terminated"
    /\ tool' = IF exit = "crashed" THEN "done" ELSE "report"
    /\ UNCHANGED <<args, derived, socket, monitor, left, stream, readback, verdict, console,
                   memory>>

-----------------------------------------------------------------------------
(* The report. *)
TablesRead == {"tables", "diag", "backing"} \subseteq have
SeedRead   == {"record", "body", "flag", "rung"} \cup (IF aop THEN {"aop"} ELSE {}) \subseteq have

(* Mutant: all entries are expected to be the identity. *)
WalkOkIdentity == \A b \in DOMAIN got["tables"] : got["tables"][b] = b

(* `ok`: the planned entries and the identity ones, as read back. *)
WalkOk ==
    LET l2 == got["tables"] IN
    /\ \A b \in DOMAIN plan : l2[b] = plan[b]
    /\ \A b \in (DOMAIN l2) \ (DOMAIN plan) : l2[b] = b

(* Mutant: what is in SMEM itself is not compared. *)
SeedConsistentPoolOnly ==
    LET r == got["record"] IN
    /\ r.pointer[1] - r.struct[1] = SmemWord[1] - r.page[1]
    /\ r.struct = NextWord(r.page)
    /\ got["body"] = "struct"

(* `consistent`. *)
SeedConsistent ==
    LET r == got["record"] IN
    /\ r.pointer[1] - r.struct[1] = SmemWord[1] - r.page[1]
    /\ r.struct = NextWord(r.page)
    /\ got["body"] = "struct"
    /\ got["flag"] = "seed" /\ got["rung"] = "seed"

AopWordOnly == got["aop"][1] = "mailbox"          \* mutant: the record is not looked at

(* `aop_ok_here`. *)
AopConsistent == got["aop"] = <<"mailbox", "record">>

Verdict(asked, read, ok) == IF asked /\ read THEN (IF ok THEN "good" ELSE "bad") ELSE "none"

BadSeed == seed /\ (~SeedRead \/ seedOk' = "bad")
BadAop  == seed /\ aop /\ (~SeedRead \/ aopOk' = "bad")

Reports ==
    /\ tool = "report"
    /\ walk' = Verdict(opts.stub /\ opts.zero, TablesRead, TablesRead /\ WalkOk)
    /\ seedOk' = Verdict(seed, TablesRead /\ SeedRead, SeedRead /\ SeedConsistent)
    /\ aopOk' = Verdict(aop, TablesRead /\ SeedRead, SeedRead /\ AopConsistent)
    /\ exit' = IF gaps > 0 \/ BadSeed \/ BadAop THEN "one" ELSE "zero"
    /\ tool' = "done"
    /\ UNCHANGED <<args, derived, socket, qemu, monitor, left, stream, readback, console,
                   memory>>

Done == tool = "done" /\ UNCHANGED vars

Tool == \/ Prepares \/ Launches \/ Connects \/ ConnectTimesOut
        \/ Samples \/ ReadsPrompt \/ PromptTimesOut \/ JoinsScreen \/ PassesOver \/ NoDump
        \/ LoopEnds \/ Asks \/ Fetches \/ Terminates \/ Reports
Qemu == Listens \/ Opens \/ Scans \/ Saves
Guest == StubStarts \/ BeginsRow \/ EndsRow \/ Wipes \/ WritesRegister \/ WritesElsewhere

Next == Tool \/ Qemu \/ Guest \/ Done
Spec == Init /\ [][Next]_vars

(* The tool is one thread, and every wait of its has a deadline. *)
FairSpec == Spec /\ WF_vars(Tool)

-----------------------------------------------------------------------------
(* Types, and the counters' bounds. *)
TypeOK ==
    /\ tool \in {"options", "launch", "connect", "greeted", "sample", "sampling", "decode",
                 "finally", "asking", "fetch", "report", "done"}
    /\ DOMAIN plan \subseteq 0..L2Entries - 1 /\ {seed, aop, socket} \subseteq BOOLEAN
    /\ qemu \in {"none", "running", "failed", "terminated"}
    /\ Len(command) + prompts <= bound.samples + 9
    /\ printed \in 0..Len(bound.log) /\ wiped \in 0..printed
    /\ printed - wiped <= PanelRows /\ drawing \in {"no", "row", "wipe"}
    /\ printed - wiped = PanelRows <=> drawing = "wipe"
    /\ scanned \in 0..PanelRows /\ still \in BOOLEAN /\ drawn \subseteq 1..Len(lines)
    /\ gaps \in 0..screens /\ screens \in 0..bound.samples
    /\ exit \in {"none", "died", "crashed", "one", "zero"}
    /\ {walk, seedOk, aopOk} \subseteq {"none", "good", "bad"}
    /\ ram \in [Pool -> {"zero", "pointer", "struct", "mailbox", "record", "driver"}]

(* "One block each so that a register written and read back is the value   *)
(* that was written": while the table is the one that was assembled, every *)
(* declared address reads what was last put there - by a driver or by the  *)
(* stub - and none of them is in the stub or the payload.                  *)
RegistersRemember ==
    Firmware /\ table = L2(plan) /\ plan # <<>> =>
        \A a \in Declared(regions) : Walk(table, a) \in Pool /\ ram[Walk(table, a)] = shadow[a]

(* A consistent seed under the walk the header describes: as long as       *)
(* nothing has been overwritten behind the reads, the guest that follows   *)
(* the pointer finds the structure, and SMEM is what the stub made it.     *)
ConsistentMeansStruct ==
    seedOk = "good" /\ walk = "good" /\ ~touched.table /\ ~touched.smem =>
        LET struct == Walk(table, NextWord(SmemWord)) IN
        /\ struct \notin touched.ram => ram[struct] = "struct"
        /\ smem = [flag |-> "seed", rung |-> "seed"]

(* The same for the gate of CmdDbDxe, whose word is read back itself. *)
AopMeansGateOpens ==
    aopOk = "good" /\ walk = "good" /\ ~touched.table =>
        LET word == Walk(table, AopWord) IN
        {word, NextWord(word)} \cap touched.ram = {} =>
            ram[word] = "mailbox" /\ ram[NextWord(word)] = "record"

(* A verdict of a read-back is one about the guest: what is reported       *)
(* consistent is what a driver finds at the addresses it declares.         *)
VerdictsMeanState == ConsistentMeansStruct /\ AopMeansGateOpens

(* A stream without a gap joins nothing together that was not printed      *)
(* together, however far the monitor's answers are behind the questions:   *)
(* every line is a row of the log, and the line above it is the row above  *)
(* it.  So what is lost can only be what lies between two printings of the *)
(* same text, as the join compares text.  A dump the guest drew into is no *)
(* more than that: its lines may be rows cut short, old or half wiped, and *)
(* are taken out of the claim.                                             *)
StreamIsContiguous ==
    gaps = 0 =>
        \A i \in (1..Len(lines)) \ drawn : \E n \in 1..printed :
            /\ lines[i] = bound.log[n]
            /\ i > 1 => n > 1 /\ lines[i - 1] = bound.log[n - 1]

(* What every state of the run is. *)
RunInv == TypeOK /\ StreamIsContiguous

(* No false alarm: a walk or a seed is called wrong only if the guest has  *)
(* overwritten something - or the dump of SMEM was read half written.      *)
AlarmMeansDamage ==
    writes = 0 => /\ walk # "bad"
                  /\ seedOk = "bad" => got["rung"] = "short"
                  /\ aopOk = "bad" => got["aop"] = ShortRead.aop

(* Every wait has a deadline: the tool ends, whether or not QEMU answers.  *)
RunEnds == <>(tool = "done")
=============================================================================
