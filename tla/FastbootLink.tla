---------------------------- MODULE FastbootLink ----------------------------
(***************************************************************************)
(* ABL's fastboot and the host programs that talk to it over one USB       *)
(* interface: the fastboot clients that tools/fastboot-capture.sh,         *)
(* tools/pull-bootloader-log.sh and a person at a shell start, and         *)
(* tools/unwedge-fastboot.py, which tells the ways in which ABL stops      *)
(* answering apart and releases the one that can be released.              *)
(*                                                                         *)
(* ABL is not in the repository; its fastboot thread is modelled from what *)
(* the docstring of unwedge-fastboot.py says of its three wedges and from  *)
(* what the tools send to it and read from it.                             *)
(***************************************************************************)
EXTENDS Naturals, Sequences

CONSTANTS
    Replies,        \* Replies[cmd]: the packets ABL answers a command with
    Clients,        \* the clients that may run: [cmd, script, limited]
    Late,           \* ABLs: TRUE, one that may take longer than a host timeout to go on
    Concurrent,     \* the tool may be started while a client runs
    Slack,          \* read timeouts that fit into --wait, 10 in the tool
    DrainMax,       \* packets of a drain that is given up, 8 MiB in the tool
    DownloadSize,   \* OUT transfers that a download takes
    MaxCommands, MaxTools, MaxResets    \* bounds on the run that is explored

Packet  == {"INFO", "PRODUCT", "OKAY"}      \* PRODUCT: an INFO with the name in it
Command == DOMAIN Replies
Probe   == "getvar product"
Download == "download"
Script  == {"shell", "capture", "pull"}
Client  == [cmd : Command \cup {Download}, script : Script, limited : BOOLEAN]

ASSUME LinkAssumption ==
    /\ \A c \in Command :
          /\ Replies[c] \in Seq(Packet) /\ Replies[c] # <<>>
          /\ \A i \in 1..Len(Replies[c]) : Replies[c][i] = "OKAY" <=> i = Len(Replies[c])
    /\ Probe \in Command /\ Download \notin Command
    /\ Clients \subseteq Client
    /\ Late \subseteq BOOLEAN /\ Concurrent \in BOOLEAN
    /\ {Slack, DrainMax, DownloadSize} \subseteq Nat \ {0}
    /\ {MaxCommands, MaxTools, MaxResets} \subseteq Nat

VARIABLES
    ep0,        \* control requests are answered (from interrupt context)
    thread,     \* what ABL's fastboot thread is parked in
    reply,      \* what it has yet to write: packets, each with the one who asked
    ready,      \* the first of them waits in the IN endpoint
    need,       \* OUT transfers its download still takes
    client, sent,                               \* a fastboot client, and its write
    pc, claimed, units, total, outOk, resp, verdict,    \* the tool
    began,      \* history: ABL's state when the tool started
    late,       \* which ABL it is
    commands, tools, resets     \* used of the three bounds

abl    == <<ep0, thread, reply, ready, need>>
host   == <<client, sent>>
tool   == <<pc, claimed, units, total, outOk, resp, verdict, began>>
bounds == <<late, commands, tools, resets>>
vars   == <<abl, host, tool, bounds>>

NoClient == [cmd |-> "none", script |-> "none", limited |-> FALSE]
Tool     == "tool"      \* the one who asked, when it is the tool

Init ==
    /\ ep0 = TRUE /\ thread = "idle" /\ reply = <<>> /\ ready = FALSE /\ need = 0
    /\ client = NoClient /\ sent = FALSE
    /\ pc = "off" /\ claimed = FALSE /\ units = 0 /\ total = 0 /\ outOk = FALSE
    /\ resp = <<>> /\ verdict = "none" /\ began = "none"
    /\ late \in Late /\ commands = 0 /\ tools = 0 /\ resets = 0

-----------------------------------------------------------------------------
(* ABL's side of the two bulk endpoints. *)

(* The thread puts the next packet of its reply into the IN endpoint. *)
Offers ==
    /\ thread = "replying" /\ ~ready
    /\ ready' = TRUE
    /\ UNCHANGED <<ep0, thread, reply, need, host, tool, bounds>>

(* The host reads it; after the last one the thread waits for a command.   *)
Read ==
    /\ ready
    /\ reply' = Tail(reply)
    /\ ready' = FALSE
    /\ thread' = IF Len(reply) = 1 THEN "idle" ELSE "replying"
    /\ UNCHANGED <<ep0, need>>

(* A read ends without data when nothing comes within its timeout.         *)
ReadTimesOut == ~ready /\ (late \/ thread # "replying")

(* A receive is queued on OUT: for a command, or for download data. *)
Armed == thread \in {"idle", "downloading"}

Answers(packets, who) ==
    /\ reply' = [i \in 1..Len(packets) |-> [kind |-> packets[i], to |-> who]]
    /\ thread' = "replying"

(* The host writes to OUT: a parked download takes any bytes for its data. *)
Write(cmd, who) ==
    /\ Armed
    /\ \/ thread = "idle" /\ cmd # Download /\ Answers(Replies[cmd], who) /\ UNCHANGED need
       \/ /\ thread = "idle" /\ cmd = Download
          /\ thread' = "downloading" /\ need' = DownloadSize /\ UNCHANGED reply
       \/ /\ thread = "downloading" /\ need' = need - 1
          /\ IF need = 1 THEN Answers(<<"OKAY">>, who) ELSE UNCHANGED <<thread, reply>>
    /\ UNCHANGED <<ep0, ready>>

(* The thread dies or loops while USB interrupts go on, or all of it dies. *)
Breaks ==
    /\ pc = "off" /\ ep0 /\ thread # "stuck"
    /\ thread' = "stuck" /\ reply' = <<>> /\ ready' = FALSE /\ need' = 0
    /\ ep0' \in BOOLEAN
    /\ UNCHANGED <<host, tool, bounds>>

(* The power button, held for 20 s. *)
Resets ==
    /\ pc = "off" /\ resets < MaxResets
    /\ resets' = resets + 1
    /\ ep0' = TRUE /\ thread' = "idle" /\ reply' = <<>> /\ ready' = FALSE /\ need' = 0
    /\ client' = NoClient /\ sent' = FALSE
    /\ UNCHANGED <<tool, late, commands, tools>>

-----------------------------------------------------------------------------
(* The fastboot clients. *)

(* One is started; it writes its command as soon as OUT takes it. *)
ClientStarts ==
    /\ client = NoClient /\ pc = "off" /\ commands < MaxCommands
    /\ commands' = commands + 1
    /\ client' \in Clients
    /\ sent' = FALSE
    /\ UNCHANGED <<abl, tool, late, tools, resets>>

ClientWrites ==
    /\ client # NoClient /\ (sent => client.cmd = Download /\ thread = "downloading")
    /\ Write(client.cmd, client.script)
    /\ sent' = TRUE
    /\ UNCHANGED <<client, tool, bounds>>

(* It reads until OKAY, and ends. *)
ClientReads ==
    /\ client # NoClient /\ sent
    /\ Read
    /\ IF Head(reply).kind = "OKAY" THEN client' = NoClient /\ sent' = FALSE
       ELSE UNCHANGED host
    /\ UNCHANGED <<tool, bounds>>

Killed ==
    /\ client' = NoClient /\ sent' = FALSE
    /\ UNCHANGED <<abl, tool, bounds>>

(* `timeout N fastboot ..` runs out: ABL is silent, or it is slow. *)
TimeoutKills ==
    /\ client # NoClient /\ client.limited
    /\ ReadTimesOut
    /\ Killed

(* A command at a shell loses its pipe, or a person gives up on it. *)
PersonKills ==
    /\ client # NoClient /\ client.script = "shell"
    /\ Killed

-----------------------------------------------------------------------------
(* unwedge-fastboot.py. *)

(* Open the device and claim the interface: another process may have it,   *)
(* which is printed and not acted upon.                                    *)
ToolStarts ==
    /\ pc = "off" /\ tools < MaxTools
    /\ Concurrent \/ client = NoClient
    /\ tools' = tools + 1
    /\ claimed' = (client = NoClient)
    /\ began' = IF ~ep0 THEN "dead" ELSE thread
    /\ pc' = "ep0"
    /\ total' = 0 /\ outOk' = FALSE /\ resp' = <<>> /\ verdict' = "none"
    /\ UNCHANGED <<abl, host, units, late, commands, resets>>

(* GET_DESCRIPTOR goes unanswered. *)
Ep0Silent ==
    /\ pc = "ep0" /\ ~ep0
    /\ verdict' = "dead"
    /\ pc' = "off"
    /\ UNCHANGED <<abl, host, claimed, units, total, outOk, resp, began, bounds>>

(* SET_CONFIGURATION and CLEAR_HALT: a parked thread may drop its transfer. *)
SetsConfiguration ==
    /\ pc = "ep0" /\ ep0
    /\ \/ UNCHANGED abl
       \/ /\ thread \in {"replying", "downloading"}
          /\ thread' = "idle" /\ reply' = <<>> /\ ready' = FALSE /\ need' = 0
          /\ UNCHANGED ep0
    /\ pc' = "drain"
    /\ units' = 1
    /\ UNCHANGED <<host, claimed, total, outOk, resp, verdict, began, bounds>>

(* `time.time() < deadline`: reading a packet may have used a unit up. *)
Elapses == units' \in (IF late THEN {units, units - 1} ELSE {units})

NeverGivesUp(n) == FALSE        \* mutant
GivesUp(n)      == n > DrainMax

Drains ==
    /\ pc = "drain" /\ units > 0 /\ claimed
    /\ Read
    /\ total' = total + 1
    /\ Elapses
    /\ pc' = IF GivesUp(total') THEN "send" ELSE "drain"
    /\ UNCHANGED <<host, claimed, outOk, resp, verdict, began, bounds>>

(* A timeout, an error, or the deadline. *)
DrainEnds ==
    /\ pc = "drain"
    /\ units = 0 \/ ~claimed \/ ReadTimesOut
    /\ pc' = "send"
    /\ UNCHANGED <<abl, host, claimed, units, total, outOk, resp, verdict, began,
                   bounds>>

(* Mutants: libusb's return code is not looked at, or is taken for a count. *)
SendsUnchecked ==
    /\ pc = "send"
    /\ IF claimed /\ Armed THEN Write(Probe, Tool) ELSE UNCHANGED abl
    /\ outOk' = TRUE
    /\ units' = Slack
    /\ pc' = "answer"
    /\ UNCHANGED <<host, claimed, total, resp, verdict, began, bounds>>

SendsMiscounted ==
    /\ pc = "send"
    /\ IF claimed /\ Armed THEN Write(Probe, Tool) ELSE UNCHANGED abl
    /\ outOk' = FALSE
    /\ units' = Slack
    /\ pc' = "answer"
    /\ UNCHANGED <<host, claimed, total, resp, verdict, began, bounds>>

(* The test command, `getvar:product`. *)
Sends ==
    /\ pc = "send"
    /\ IF claimed /\ Armed THEN Write(Probe, Tool) /\ outOk' = TRUE
       ELSE UNCHANGED <<abl, outOk>>
    /\ units' = Slack
    /\ pc' = "answer"
    /\ UNCHANGED <<host, claimed, total, resp, verdict, began, bounds>>

EndsAtName(packet) == packet.kind # "INFO"       \* mutant: or with the name in it
EndsReply(packet)  == packet.kind = "OKAY"

Responds ==
    /\ pc = "answer" /\ units > 0 /\ claimed
    /\ Read
    /\ resp' = Append(resp, Head(reply))
    /\ Elapses
    /\ pc' = IF EndsReply(Head(reply)) THEN "verdict" ELSE "answer"
    /\ UNCHANGED <<host, claimed, total, outOk, verdict, began, bounds>>

(* Mutant: every pass through the loop has a deadline of its own. *)
ResponseTimesOutAgain ==
    /\ pc = "answer" /\ units > 0 /\ claimed
    /\ ReadTimesOut
    /\ UNCHANGED vars

(* rc == -7: the loop goes on until the deadline. *)
ResponseTimesOut ==
    /\ pc = "answer" /\ units > 0 /\ claimed
    /\ ReadTimesOut
    /\ units' = units - 1
    /\ UNCHANGED <<abl, host, pc, claimed, total, outOk, resp, verdict, began,
                   bounds>>

ResponseEnds ==
    /\ pc = "answer"
    /\ units = 0 \/ ~claimed
    /\ pc' = "verdict"
    /\ UNCHANGED <<abl, host, claimed, units, total, outOk, resp, verdict, began,
                   bounds>>

(* resp.startswith(b"OKAY") or b"gauguinpro" in resp; the name is in the   *)
(* tool's own answer and in one line of `getvar all`.                      *)
Alive ==
    /\ resp # <<>>
    /\ \/ resp[1].kind = "OKAY"
       \/ \E i \in 1..Len(resp) : resp[i].kind = "PRODUCT" \/ resp[i].to = Tool

Decides ==
    /\ pc = "verdict"
    /\ verdict' = IF Alive THEN "alive" ELSE IF outOk THEN "download" ELSE "stuck"
    /\ pc' = "off"
    /\ UNCHANGED <<abl, host, claimed, units, total, outOk, resp, began, bounds>>

-----------------------------------------------------------------------------
Abl     == Offers \/ Breaks \/ Resets
Shell   == ClientStarts \/ ClientWrites \/ ClientReads \/ TimeoutKills \/ PersonKills
ToolRun == \/ Ep0Silent \/ SetsConfiguration \/ Drains \/ DrainEnds \/ Sends
           \/ Responds \/ ResponseTimesOut \/ ResponseEnds \/ Decides

(* Nobody does anything. *)
Rests   == pc = "off" /\ UNCHANGED vars

Next    == Abl \/ Shell \/ ToolStarts \/ ToolRun \/ Rests

Spec == Init /\ [][Next]_vars

(* Every libusb call of the tool has a timeout and returns; of ABL it is   *)
(* assumed only that one which is not late goes on.                        *)
FairSpec == Spec /\ WF_vars(ToolRun) /\ WF_vars(~late /\ Offers)

-----------------------------------------------------------------------------
TypeOK ==
    /\ ep0 \in BOOLEAN /\ ready \in BOOLEAN /\ claimed \in BOOLEAN /\ outOk \in BOOLEAN
    /\ thread \in {"idle", "replying", "downloading", "stuck"}
    /\ reply \in Seq([kind : Packet, to : Script \cup {Tool}])
    /\ thread = "replying" <=> reply # <<>>
    /\ thread = "downloading" <=> need > 0
    /\ ready => reply # <<>>
    /\ client \in Clients \cup {NoClient}
    /\ pc \in {"off", "ep0", "drain", "send", "answer", "verdict"}
    /\ units \in 0..Slack
    /\ total \in 0..(DrainMax + 1)
    /\ verdict \in {"none", "dead", "alive", "download", "stuck"}

(* The tool has just said what it found. *)
Judged == pc = "off" /\ verdict # "none"

(* "the measurement is a pair": when ABL keeps to the timeouts and the     *)
(* tool has the interface, each of the states ABL can be in gets its own   *)
(* verdict; only SET_CONFIGURATION or a download that the test command     *)
(* happens to complete turn one into "alive".  A drain of 8 MiB is no      *)
(* leftover response, and the one case in which "stuck" may be said of     *)
(* another state.                                                          *)
VerdictNamesTheWedge == ~late /\ claimed =>
    /\ verdict = "dead" => began = "dead"
    /\ verdict = "stuck" => began = "stuck" \/ total > DrainMax
    /\ verdict = "download" => began = "downloading"
    /\ verdict = "alive" => began \in {"idle", "replying", "downloading"}
    /\ Judged /\ began \in {"idle", "replying"} /\ total <= DrainMax => verdict = "alive"

(* What every state of the link and of the tool is. *)
LinkInv == TypeOK /\ VerdictNamesTheWedge

(* "finishing the read released it": no reply is left to strand the next   *)
(* client when the tool says that ABL answers again, not even after a      *)
(* drain that was given up.                                                *)
ReleasesTheThread ==
    [][~late /\ verdict' = "alive" /\ verdict # "alive" => reply = <<>> /\ thread = "idle"]_vars

(* However late ABL is, a tool that has the interface never says "stuck"   *)
(* of a thread that is parked in a download - the state in which the next  *)
(* write would be taken for boot image data - and "dead" is never said of  *)
(* one that answers on EP0.                                                *)
NoWorseWedge ==
    [][/\ claimed /\ verdict' = "stuck" /\ verdict # "stuck" => thread # "downloading"
       /\ verdict' = "dead" /\ verdict # "dead" => ~ep0]_vars

(* Every run of the tool ends in a verdict: nothing it waits for is waited *)
(* for without a timeout.                                                  *)
ToolEnds == [](pc # "off" => <>(pc = "off" /\ verdict # "none"))
=============================================================================
