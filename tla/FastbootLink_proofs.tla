-------------------------- MODULE FastbootLink_proofs --------------------------
(***************************************************************************)
(* Proofs about unwedge-fastboot.py: what it says of ABL is true, for      *)
(* every set of commands and replies, every set of clients, and every      *)
(* length of its drain and of its waits.                                   *)
(***************************************************************************)
EXTENDS FastbootLink, SequenceTheorems, TLAPS

Asked == [kind : Packet, to : Script \cup {Tool}]     \* a packet and who asked for it

(* The tool is at work, and the interface is its own. *)
Holds == pc # "off" /\ claimed

(* ABL: a reply ends with its only OKAY, and none is half written by a     *)
(* thread that is not replying.                                            *)
AblInv ==
    /\ ep0 \in BOOLEAN /\ ready \in BOOLEAN /\ need \in Nat /\ late \in BOOLEAN
    /\ thread \in {"idle", "replying", "downloading", "stuck"}
    /\ reply \in Seq(Asked)
    /\ thread = "replying" <=> reply # <<>>
    /\ thread = "downloading" <=> need > 0
    /\ ready => reply # <<>>
    /\ \A i \in 1..Len(reply) : reply[i].kind = "OKAY" <=> i = Len(reply)

(* The tool's own variables, and a client, which runs beside a tool only   *)
(* when it has the interface.                                              *)
ToolInv ==
    /\ claimed \in BOOLEAN /\ outOk \in BOOLEAN
    /\ client \in Clients \cup {NoClient}
    /\ Holds => client = NoClient
    /\ pc \in {"off", "ep0", "drain", "send", "answer", "verdict"}
    /\ units \in 0..Slack /\ total \in 0..(DrainMax + 1)
    /\ pc \in {"ep0", "drain"} => total <= DrainMax
    /\ verdict \in {"none", "dead", "alive", "download", "stuck"}
    /\ pc # "off" => verdict = "none"
    /\ resp \in Seq(Asked)
    /\ pc # "off" /\ (~claimed \/ pc \notin {"answer", "verdict"}) => resp = <<>>
    /\ pc \in {"ep0", "drain", "send"} => ~outOk

(* What ABL was when the tool started is what it is, but for what the tool *)
(* has done to it.                                                         *)
BeganInv ==
    pc # "off" =>
        /\ began \in {"dead", "idle", "replying", "downloading", "stuck"}
        /\ ep0 <=> began # "dead"
        /\ ep0 \/ pc = "ep0"
        /\ ep0 => (began = "stuck" <=> thread = "stuck")
        /\ claimed /\ thread = "downloading" /\ ep0 => began = "downloading"
        /\ thread = "stuck" => resp = <<>>

(* The drain and the wait for an answer of an ABL that keeps to the        *)
(* timeouts: they end with what there was to be read, or with GivesUp.     *)
WaitInv ==
    Holds /\ ~late =>
        /\ pc = "drain" => units = 1
        /\ pc = "send" /\ thread = "replying" => total > DrainMax
        /\ pc = "answer" /\ thread = "replying" => units = Slack
        /\ pc = "answer" /\ resp # <<>> => thread = "replying"
        /\ pc = "verdict" => thread # "replying" /\ (resp # <<>> => thread = "idle")

(* What the write of the test command says. *)
SentInv ==
    Holds /\ pc \in {"answer", "verdict"} =>
        /\ ~outOk => thread # "downloading"
        /\ ~late /\ ~outOk => began = "stuck" \/ total > DrainMax
        /\ outOk => \/ thread = "downloading" /\ resp = <<>>
                    \/ /\ \A i \in 1..Len(reply) : reply[i].to = Tool
                       /\ \A i \in 1..Len(resp) : resp[i].to = Tool
                       /\ thread = "replying" \/ resp # <<>>

IInv == AblInv /\ ToolInv /\ BeganInv /\ WaitInv /\ SentInv /\ VerdictNamesTheWedge

-----------------------------------------------------------------------------
(* The first packet of a reply is the last one exactly when it is an OKAY. *)
LEMMA HeadOfReply ==
    ASSUME AblInv, reply # <<>>
    PROVE  /\ Len(reply) \in Nat \ {0} /\ Head(reply) = reply[1] /\ Head(reply) \in Asked
           /\ Head(reply).kind = "OKAY" <=> Len(reply) = 1
           /\ Tail(reply) \in Seq(Asked) /\ Len(Tail(reply)) = Len(reply) - 1
           /\ \A i \in 1..Len(Tail(reply)) : Tail(reply)[i] = reply[i + 1]
           /\ Tail(reply) = <<>> <=> Len(reply) = 1
<1>1. reply \in Seq(Asked)
  BY DEF AblInv
<1>2. /\ Len(reply) \in Nat \ {0} /\ Head(reply) = reply[1] /\ Head(reply) \in Asked
      /\ Tail(reply) \in Seq(Asked) /\ Len(Tail(reply)) = Len(reply) - 1
      /\ \A i \in 1..Len(Tail(reply)) : Tail(reply)[i] = reply[i + 1]
  BY <1>1, HeadTailProperties, EmptySeq, LenProperties
<1>3. Tail(reply) = <<>> <=> Len(reply) = 1
  <2> DEFINE rest == Tail(reply)
  <2>1. rest \in Seq(Asked) /\ Len(rest) = Len(reply) - 1 /\ Len(reply) \in Nat
    BY <1>2
  <2> HIDE DEF rest
  <2>2. rest # <<>> => Len(rest) \in Nat \ {0}
    BY <2>1, EmptySeq
  <2>3. rest = <<>> => Len(rest) = 0
    BY EmptySeq
  <2>4. rest = <<>> <=> Len(reply) = 1
    BY <2>1, <2>2, <2>3
  <2> QED
    BY <2>4 DEF rest
<1>4. Head(reply).kind = "OKAY" <=> Len(reply) = 1
  <2>1. \A i \in 1..Len(reply) : reply[i].kind = "OKAY" <=> i = Len(reply)
    BY DEF AblInv
  <2>2. 1 \in 1..Len(reply)
    BY <1>2
  <2> QED
    BY <1>2, <2>1, <2>2
<1> QED
  BY <1>2, <1>3, <1>4

(* A read takes the first packet, and the thread waits again after it was  *)
(* the last one.                                                           *)
LEMMA ReadKeeps ==
    ASSUME AblInv, Read, late' = late
    PROVE  /\ AblInv' /\ thread = "replying" /\ reply # <<>> /\ ep0' = ep0
           /\ IF Head(reply).kind = "OKAY" THEN thread' = "idle" /\ reply' = <<>>
              ELSE thread' = "replying" /\ reply' # <<>>
<1>1. reply # <<>> /\ thread = "replying" /\ need' = need /\ ep0' = ep0 /\ need = 0
  BY DEF Read, AblInv
<1>2. reply' = Tail(reply) /\ ready' = FALSE
        /\ thread' = IF Len(reply) = 1 THEN "idle" ELSE "replying"
  BY DEF Read
<1>3. \A i \in 1..Len(reply') : reply'[i].kind = "OKAY" <=> i = Len(reply')
  <2> SUFFICES ASSUME NEW i \in 1..Len(reply')
               PROVE  reply'[i].kind = "OKAY" <=> i = Len(reply')
    OBVIOUS
  <2>1. reply'[i] = reply[i + 1] /\ Len(reply') = Len(reply) - 1 /\ Len(reply) \in Nat
    BY <1>1, <1>2, HeadOfReply
  <2>2. i + 1 \in 1..Len(reply)
    BY <2>1
  <2>3. reply[i + 1].kind = "OKAY" <=> i + 1 = Len(reply)
    BY <2>2 DEF AblInv
  <2> QED
    BY <2>1, <2>3
<1>4. reply' \in Seq(Asked) /\ (reply' = <<>> <=> Len(reply) = 1)
        /\ (Head(reply).kind = "OKAY" <=> Len(reply) = 1)
  BY <1>1, <1>2, HeadOfReply
<1>5. AblInv'
  BY <1>1, <1>2, <1>3, <1>4 DEF AblInv
<1> QED
  BY <1>1, <1>2, <1>4, <1>5

(* Packets made ready for the one who asked are a reply.                   *)
LEMMA AnswerIsReply ==
    ASSUME NEW packets \in Seq(Packet), packets # <<>>, NEW who \in Script \cup {Tool},
           \A i \in 1..Len(packets) : packets[i] = "OKAY" <=> i = Len(packets),
           Answers(packets, who)
    PROVE  /\ reply' \in Seq(Asked) /\ reply' # <<>> /\ thread' = "replying"
           /\ \A i \in 1..Len(reply') : reply'[i].kind = "OKAY" <=> i = Len(reply')
           /\ \A i \in 1..Len(reply') : reply'[i].to = who
<1>1. Len(packets) \in Nat \ {0} /\ \A i \in 1..Len(packets) : packets[i] \in Packet
  BY EmptySeq, LenProperties, ElementOfSeq
<1>2. /\ reply' = [i \in 1..Len(packets) |-> [kind |-> packets[i], to |-> who]]
      /\ thread' = "replying"
  BY DEF Answers
<1>3. \A i \in 1..Len(packets) : [kind |-> packets[i], to |-> who] \in Asked
  BY <1>1 DEF Asked
<1>4. reply' \in Seq(Asked) /\ Len(reply') = Len(packets)
  BY <1>1, <1>2, <1>3, IsASeq, LenProperties
<1>5. reply' # <<>>
  BY <1>1, <1>4, EmptySeq
<1> QED
  BY <1>2, <1>4, <1>5

(* A write is a command to a thread that waits for one, or bytes of a      *)
(* download: the last ones are answered with OKAY.                         *)
LEMMA WriteKeeps ==
    ASSUME AblInv, NEW cmd \in Command \cup {Download}, NEW who \in Script \cup {Tool},
           Write(cmd, who), late' = late
    PROVE  /\ AblInv' /\ Armed /\ ep0' = ep0 /\ thread' \in {"replying", "downloading"}
           /\ thread' = "downloading" => cmd = Download \/ thread = "downloading"
           /\ \A i \in 1..Len(reply') : reply'[i].to = who
<1>1. reply = <<>> /\ ~ready /\ ep0' = ep0 /\ ready' = ready /\ Armed
  BY DEF Write, AblInv, Armed
<1>2. CASE thread = "idle" /\ cmd # Download /\ Answers(Replies[cmd], who) /\ UNCHANGED need
  <2>1. cmd \in Command /\ Replies[cmd] \in Seq(Packet) /\ Replies[cmd] # <<>>
        /\ \A i \in 1..Len(Replies[cmd]) : Replies[cmd][i] = "OKAY" <=> i = Len(Replies[cmd])
    BY <1>2, LinkAssumption
  <2>2. /\ reply' \in Seq(Asked) /\ reply' # <<>> /\ thread' = "replying"
        /\ \A i \in 1..Len(reply') : reply'[i].kind = "OKAY" <=> i = Len(reply')
        /\ \A i \in 1..Len(reply') : reply'[i].to = who
    BY <1>2, <2>1, AnswerIsReply
  <2> QED
    BY <1>1, <1>2, <2>2 DEF AblInv
<1>3. CASE /\ thread = "idle" /\ cmd = Download
           /\ thread' = "downloading" /\ need' = DownloadSize /\ UNCHANGED reply
  <2>1. DownloadSize \in Nat \ {0} /\ Len(<<>>) = 0
    BY LinkAssumption, EmptySeq
  <2> QED
    BY <1>1, <1>3, <2>1 DEF AblInv
<1>4. CASE thread = "downloading" /\ need' = need - 1 /\ need = 1 /\ Answers(<<"OKAY">>, who)
  <2>1. <<"OKAY">> \in Seq(Packet) /\ <<"OKAY">> # <<>>
        /\ \A i \in 1..Len(<<"OKAY">>) : <<"OKAY">>[i] = "OKAY" <=> i = Len(<<"OKAY">>)
    BY DEF Packet
  <2>2. /\ reply' \in Seq(Asked) /\ reply' # <<>> /\ thread' = "replying"
        /\ \A i \in 1..Len(reply') : reply'[i].kind = "OKAY" <=> i = Len(reply')
        /\ \A i \in 1..Len(reply') : reply'[i].to = who
    BY <1>4, <2>1, AnswerIsReply
  <2> QED
    BY <1>1, <1>4, <2>2 DEF AblInv
<1>5. CASE thread = "downloading" /\ need' = need - 1 /\ need # 1 /\ UNCHANGED <<thread, reply>>
  <2>1. Len(<<>>) = 0
    BY EmptySeq
  <2> QED
    BY <1>1, <1>5, <2>1 DEF AblInv
<1> QED
  BY <1>2, <1>3, <1>4, <1>5 DEF Write

(* A thread that is stuck, reset or reconfigured has no reply to write.    *)
LEMMA ReplyDropped ==
    ASSUME AblInv, thread' \in {"idle", "stuck"}, reply' = <<>>, ready' = FALSE, need' = 0,
           ep0' \in BOOLEAN, late' = late
    PROVE  AblInv'
<1>1. reply' \in Seq(Asked) /\ Len(reply') = 0
  BY EmptySeq
<1>2. \A i \in 1..Len(reply') : reply'[i].kind = "OKAY" <=> i = Len(reply')
  BY <1>1
<1>3. ep0' \in BOOLEAN /\ ready' \in BOOLEAN /\ need' \in Nat /\ late' \in BOOLEAN
  BY DEF AblInv
<1>4. thread' \in {"idle", "replying", "downloading", "stuck"}
  OBVIOUS
<1>5. thread' = "replying" <=> reply' # <<>>
  OBVIOUS
<1>6. thread' = "downloading" <=> need' > 0
  OBVIOUS
<1>7. ready' => reply' # <<>>
  OBVIOUS
<1> QED
  BY <1>1, <1>2, <1>3, <1>4, <1>5, <1>6, <1>7 DEF AblInv

-----------------------------------------------------------------------------
(* The steps of ABL. *)
LEMMA OffersKeep == ASSUME IInv, Offers PROVE IInv'
<1>1. AblInv' BY DEF IInv, Offers, AblInv, bounds
<1>2. ToolInv' BY DEF IInv, Offers, ToolInv, Holds, host, tool
<1>3. BeganInv' /\ WaitInv' /\ SentInv' /\ VerdictNamesTheWedge'
  BY DEF IInv, Offers, BeganInv, WaitInv, SentInv, VerdictNamesTheWedge, Judged, Holds, tool, bounds
<1> QED BY <1>1, <1>2, <1>3 DEF IInv

(* While the tool is off ABL may do anything a phone does: the tool's      *)
(* verdict is of the past.                                                 *)
LEMMA OffKeeps ==
    ASSUME IInv, pc = "off", UNCHANGED <<tool, late>>, AblInv', client' \in Clients \cup {NoClient}
    PROVE  IInv'
<1>1. ToolInv' BY DEF IInv, ToolInv, Holds, tool
<1>2. BeganInv' /\ WaitInv' /\ SentInv' /\ VerdictNamesTheWedge'
  BY DEF IInv, BeganInv, WaitInv, SentInv, VerdictNamesTheWedge, Judged, Holds, tool
<1> QED BY <1>1, <1>2 DEF IInv

LEMMA BreaksKeep == ASSUME IInv, Breaks PROVE IInv'
<1>1. AblInv'
  BY ReplyDropped DEF IInv, AblInv, Breaks, bounds
<1> QED
  BY <1>1, OffKeeps DEF Breaks, bounds, host, IInv, ToolInv

LEMMA ResetsKeep == ASSUME IInv, Resets PROVE IInv'
<1>1. AblInv'
  BY ReplyDropped DEF IInv, AblInv, Resets
<1> QED
  BY <1>1, OffKeeps DEF Resets

-----------------------------------------------------------------------------
(* The steps of the clients.  Beside a tool at work there is one only if   *)
(* the tool does not have the interface, and then nothing is claimed of    *)
(* ABL but that it stays alive or stuck.                                   *)
LEMMA ClientKeeps ==
    ASSUME IInv, client # NoClient, UNCHANGED <<tool, late>>, ep0' = ep0, AblInv',
           client' \in {client, NoClient}, thread = "stuck" <=> thread' = "stuck"
    PROVE  IInv'
<1>1. ~Holds /\ ~Holds'
  BY DEF IInv, ToolInv, Holds, tool
<1>2. ToolInv' BY <1>1 DEF IInv, ToolInv, tool, Holds
<1>3. BeganInv' BY <1>1 DEF IInv, BeganInv, tool, Holds
<1>4. VerdictNamesTheWedge' BY DEF IInv, VerdictNamesTheWedge, Judged, tool
<1>5. WaitInv' /\ SentInv' BY <1>1 DEF WaitInv, SentInv
<1> QED BY <1>2, <1>3, <1>4, <1>5 DEF IInv

LEMMA ClientStartsKeep == ASSUME IInv, ClientStarts PROVE IInv'
<1>1. AblInv' BY DEF IInv, AblInv, ClientStarts, abl
<1> QED BY <1>1, OffKeeps DEF ClientStarts

LEMMA ClientWritesKeep == ASSUME IInv, ClientWrites PROVE IInv'
<1>1. client \in Clients /\ client.cmd \in Command \cup {Download}
        /\ client.script \in Script \cup {Tool}
  BY LinkAssumption DEF IInv, ToolInv, ClientWrites, Client
<1>2. AblInv' /\ Armed /\ ep0' = ep0 /\ thread' \in {"replying", "downloading"}
  BY <1>1, WriteKeeps DEF ClientWrites, IInv, bounds
<1> QED
  BY <1>2, ClientKeeps DEF ClientWrites, Armed, bounds

LEMMA ClientReadsKeep == ASSUME IInv, ClientReads PROVE IInv'
<1>1. AblInv' /\ thread = "replying" /\ ep0' = ep0 /\ thread' \in {"idle", "replying"}
  BY ReadKeeps DEF ClientReads, IInv, bounds
<1> QED
  BY <1>1, ClientKeeps DEF ClientReads, host, bounds

LEMMA KilledKeeps == ASSUME IInv, client # NoClient, Killed PROVE IInv'
<1>1. AblInv' BY DEF IInv, AblInv, Killed, abl, bounds
<1> QED BY <1>1, ClientKeeps DEF Killed, abl, bounds

-----------------------------------------------------------------------------
(* The steps of the tool. *)
LEMMA ToolStartsKeep == ASSUME IInv, ToolStarts PROVE IInv'
<1>1. AblInv' BY DEF IInv, ToolStarts, AblInv, abl
<1>2. <<>> \in Seq(Asked) BY EmptySeq
<1>3. ToolInv'
  <2>1. claimed' \in BOOLEAN /\ (claimed' => client = NoClient)
    BY DEF ToolStarts
  <2>2. 0 \in 0..(DrainMax + 1) /\ 0 <= DrainMax
    BY LinkAssumption
  <2> QED
    BY <1>2, <2>1, <2>2 DEF IInv, ToolStarts, ToolInv, Holds, host
<1>4. BeganInv'
  BY DEF IInv, ToolStarts, AblInv, BeganInv, abl
<1>5. WaitInv' /\ SentInv' /\ VerdictNamesTheWedge'
  BY DEF IInv, ToolStarts, WaitInv, SentInv, VerdictNamesTheWedge, Judged, Holds
<1> QED BY <1>1, <1>3, <1>4, <1>5 DEF IInv

LEMMA Ep0SilentKeeps == ASSUME IInv, Ep0Silent PROVE IInv'
<1>1. AblInv' BY DEF IInv, Ep0Silent, AblInv, abl, bounds
<1>2. ToolInv' BY DEF IInv, Ep0Silent, ToolInv, Holds, host
<1>3. BeganInv' /\ WaitInv' /\ SentInv' BY DEF Ep0Silent, BeganInv, WaitInv, SentInv, Holds
<1>4. VerdictNamesTheWedge'
  BY DEF IInv, Ep0Silent, BeganInv, VerdictNamesTheWedge, Judged
<1> QED BY <1>1, <1>2, <1>3, <1>4 DEF IInv

LEMMA SetsConfigurationKeeps == ASSUME IInv, SetsConfiguration PROVE IInv'
<1>1. AblInv'
  <2>1. CASE UNCHANGED abl
    BY <2>1 DEF IInv, SetsConfiguration, AblInv, abl, bounds
  <2>2. CASE thread' = "idle" /\ reply' = <<>> /\ ready' = FALSE /\ need' = 0 /\ ep0' = ep0
    <3>1. AblInv /\ ep0' \in BOOLEAN /\ late' = late
      BY <2>2 DEF IInv, AblInv, SetsConfiguration, bounds
    <3> QED
      BY <2>2, <3>1, ReplyDropped
  <2> QED
    BY <2>1, <2>2 DEF SetsConfiguration
<1>2. ToolInv'
  BY LinkAssumption DEF IInv, SetsConfiguration, ToolInv, Holds, host
<1>3. BeganInv'
  BY DEF IInv, SetsConfiguration, BeganInv, ToolInv, abl
<1>4. WaitInv' /\ SentInv' BY DEF SetsConfiguration, WaitInv, SentInv, Holds
<1>5. VerdictNamesTheWedge'
  BY DEF IInv, ToolInv, SetsConfiguration, VerdictNamesTheWedge, Judged
<1> QED BY <1>1, <1>2, <1>3, <1>4, <1>5 DEF IInv

LEMMA DrainsKeep == ASSUME IInv, Drains PROVE IInv'
<1>1. AblInv' /\ thread = "replying" /\ ep0' = ep0 /\ thread' \in {"idle", "replying"}
  BY ReadKeeps DEF Drains, IInv, bounds
<1>2. ToolInv'
  BY LinkAssumption DEF IInv, Drains, ToolInv, Holds, host, Elapses, GivesUp
<1>3. BeganInv'
  BY <1>1 DEF IInv, Drains, BeganInv
<1>4. WaitInv'
  BY <1>1 DEF IInv, Drains, ToolInv, WaitInv, Holds, Elapses, GivesUp, bounds
<1>5. SentInv' BY DEF Drains, SentInv
<1>6. VerdictNamesTheWedge'
  BY DEF IInv, ToolInv, Drains, VerdictNamesTheWedge, Judged
<1> QED BY <1>1, <1>2, <1>3, <1>4, <1>5, <1>6 DEF IInv

LEMMA DrainEndsKeeps == ASSUME IInv, DrainEnds PROVE IInv'
<1>1. AblInv' BY DEF IInv, DrainEnds, AblInv, abl, bounds
<1>2. ToolInv' BY DEF IInv, DrainEnds, ToolInv, Holds, host
<1>3. BeganInv' BY DEF IInv, DrainEnds, BeganInv, abl
<1>4. WaitInv'
  BY DEF IInv, DrainEnds, WaitInv, Holds, ReadTimesOut, abl, bounds
<1>5. SentInv' BY DEF DrainEnds, SentInv
<1>6. VerdictNamesTheWedge'
  BY DEF IInv, ToolInv, DrainEnds, VerdictNamesTheWedge, Judged
<1> QED BY <1>1, <1>2, <1>3, <1>4, <1>5, <1>6 DEF IInv

LEMMA SendsKeep == ASSUME IInv, Sends PROVE IInv'
<1>1. <<>> \in Seq(Asked) /\ Len(<<>>) = 0
  BY EmptySeq
<1>2. CASE claimed /\ Armed /\ Write(Probe, Tool) /\ outOk' = TRUE
  <2>1. Probe \in Command /\ Probe # Download
    BY LinkAssumption
  <2>2. /\ AblInv' /\ ep0' = ep0 /\ thread' \in {"replying", "downloading"}
        /\ thread' = "downloading" => thread = "downloading"
        /\ \A i \in 1..Len(reply') : reply'[i].to = Tool
    BY <1>2, <2>1, WriteKeeps DEF IInv, Sends, bounds
  <2>3. ToolInv'
    BY <1>2, LinkAssumption DEF IInv, Sends, ToolInv, Holds, host
  <2>4. BeganInv'
    BY <1>2, <2>2 DEF IInv, Sends, BeganInv, Armed
  <2>5. WaitInv' /\ SentInv'
    BY <1>1, <1>2, <2>2 DEF IInv, ToolInv, Sends, WaitInv, SentInv, Holds
  <2>6. VerdictNamesTheWedge'
    BY DEF IInv, ToolInv, Sends, VerdictNamesTheWedge, Judged
  <2> QED BY <2>2, <2>3, <2>4, <2>5, <2>6 DEF IInv
<1>3. CASE ~(claimed /\ Armed) /\ UNCHANGED <<abl, outOk>>
  <2>1. AblInv' BY <1>3 DEF IInv, Sends, AblInv, abl, bounds
  <2>2. ToolInv'
    BY <1>3, LinkAssumption DEF IInv, Sends, ToolInv, Holds, host
  <2>3. BeganInv'
    BY <1>3 DEF IInv, Sends, BeganInv, abl
  <2>4. WaitInv' /\ SentInv'
    BY <1>3 DEF IInv, AblInv, ToolInv, BeganInv, Sends, WaitInv, SentInv, Holds, Armed, abl, bounds
  <2>5. VerdictNamesTheWedge'
    BY DEF IInv, ToolInv, Sends, VerdictNamesTheWedge, Judged
  <2> QED BY <2>1, <2>2, <2>3, <2>4, <2>5 DEF IInv
<1> QED BY <1>2, <1>3 DEF Sends

LEMMA RespondsKeeps == ASSUME IInv, Responds PROVE IInv'
<1>1. /\ AblInv' /\ thread = "replying" /\ reply # <<>> /\ ep0' = ep0
      /\ IF Head(reply).kind = "OKAY" THEN thread' = "idle" /\ reply' = <<>>
         ELSE thread' = "replying" /\ reply' # <<>>
  BY ReadKeeps DEF Responds, IInv, bounds
<1>2. /\ Len(reply) \in Nat \ {0} /\ Head(reply) = reply[1] /\ Head(reply) \in Asked
      /\ reply' = Tail(reply) /\ Len(reply') = Len(reply) - 1
      /\ \A i \in 1..Len(reply') : reply'[i] = reply[i + 1]
  BY <1>1, HeadOfReply DEF IInv, Responds, Read
<1>3. /\ resp' \in Seq(Asked) /\ resp' # <<>> /\ Len(resp') = Len(resp) + 1 /\ Len(resp) \in Nat
      /\ \A i \in 1..Len(resp) : resp'[i] = resp[i]
      /\ resp'[Len(resp) + 1] = Head(reply)
  BY <1>2, AppendProperties, LenProperties DEF IInv, ToolInv, Responds
<1>4. /\ pc = "answer" /\ claimed /\ claimed' = claimed /\ outOk' = outOk /\ late' = late
      /\ began' = began /\ total' = total
      /\ pc' = IF Head(reply).kind = "OKAY" THEN "verdict" ELSE "answer"
  BY DEF Responds, EndsReply, bounds
<1>5. ToolInv'
  BY <1>3, <1>4, LinkAssumption DEF IInv, Responds, ToolInv, Holds, host, Elapses
<1>6. BeganInv'
  BY <1>1, <1>4 DEF IInv, Responds, BeganInv
<1>7. WaitInv'
  BY <1>1, <1>3, <1>4 DEF IInv, Responds, ToolInv, WaitInv, Holds, Elapses
<1>8. SentInv'
  <2>1. ASSUME outOk
        PROVE  /\ \A i \in 1..Len(reply') : reply'[i].to = Tool
               /\ \A i \in 1..Len(resp') : resp'[i].to = Tool
    <3>1. /\ \A i \in 1..Len(reply) : reply[i].to = Tool
          /\ \A i \in 1..Len(resp) : resp[i].to = Tool
      BY <1>1, <1>4, <2>1 DEF IInv, SentInv, Holds
    <3>2. ASSUME NEW i \in 1..Len(reply') PROVE reply'[i].to = Tool
      <4>1. i + 1 \in 1..Len(reply) /\ reply'[i] = reply[i + 1]
        BY <1>2
      <4> QED
        BY <3>1, <4>1
    <3>3. ASSUME NEW i \in 1..Len(resp') PROVE resp'[i].to = Tool
      BY <1>2, <1>3, <3>1
    <3> QED BY <3>2, <3>3
  <2> QED
    BY <1>1, <1>3, <1>4, <2>1 DEF IInv, SentInv, Holds
<1>9. VerdictNamesTheWedge'
  BY <1>4 DEF IInv, ToolInv, Responds, VerdictNamesTheWedge, Judged
<1> QED BY <1>1, <1>5, <1>6, <1>7, <1>8, <1>9 DEF IInv

(* A wait that times out: an ABL that keeps to the timeouts has no answer. *)
LEMMA ResponseTimesOutKeeps == ASSUME IInv, ResponseTimesOut PROVE IInv'
<1>1. AblInv' BY DEF IInv, ResponseTimesOut, AblInv, abl, bounds
<1>2. ToolInv' BY LinkAssumption DEF IInv, ResponseTimesOut, ToolInv, Holds, host
<1>3. BeganInv' /\ SentInv'
  BY DEF IInv, ResponseTimesOut, BeganInv, SentInv, Holds, abl, bounds
<1>4. WaitInv'
  BY DEF IInv, ResponseTimesOut, ReadTimesOut, WaitInv, Holds, abl, bounds
<1>5. VerdictNamesTheWedge'
  BY DEF IInv, ToolInv, ResponseTimesOut, VerdictNamesTheWedge, Judged
<1> QED BY <1>1, <1>2, <1>3, <1>4, <1>5 DEF IInv

LEMMA ResponseEndsKeeps == ASSUME IInv, ResponseEnds PROVE IInv'
<1>1. AblInv' BY DEF IInv, ResponseEnds, AblInv, abl, bounds
<1>2. ToolInv' BY DEF IInv, ResponseEnds, ToolInv, Holds, host
<1>3. BeganInv' /\ SentInv'
  BY DEF IInv, ResponseEnds, BeganInv, SentInv, Holds, abl, bounds
<1>4. WaitInv'
  BY LinkAssumption DEF IInv, ResponseEnds, WaitInv, Holds, abl, bounds
<1>5. VerdictNamesTheWedge'
  BY DEF IInv, ToolInv, ResponseEnds, VerdictNamesTheWedge, Judged
<1> QED BY <1>1, <1>2, <1>3, <1>4, <1>5 DEF IInv

(* What the verdict is of, when ABL keeps to the timeouts.                 *)
LEMMA VerdictIsTrue ==
    ASSUME IInv, pc = "verdict", claimed, ~late
    PROVE  /\ Alive => began \in {"idle", "replying", "downloading"}
           /\ ~Alive /\ outOk => began = "downloading"
           /\ ~Alive /\ ~outOk => began = "stuck" \/ total > DrainMax
<1>1. Holds /\ ep0 /\ began # "dead"
  BY DEF IInv, BeganInv, Holds
<1>2. ASSUME Alive PROVE began # "stuck"
  BY <1>1, <1>2 DEF IInv, BeganInv, Alive
<1>3. ASSUME ~Alive, outOk PROVE began = "downloading"
  <2>1. resp # <<>> => Len(resp) \in Nat \ {0}
    BY EmptySeq DEF IInv, ToolInv
  <2>2. resp # <<>> => resp[1].to # Tool /\ 1 \in 1..Len(resp)
    <3>1. resp # <<>> => 1 \in 1..Len(resp)
      BY <2>1
    <3> QED
      BY <1>3, <3>1 DEF Alive
  <2>3. thread = "downloading"
    BY <1>1, <1>3, <2>2 DEF IInv, SentInv, WaitInv
  <2> QED
    BY <1>1, <2>3 DEF IInv, BeganInv
<1>4. ~Alive /\ ~outOk => began = "stuck" \/ total > DrainMax
  BY <1>1 DEF IInv, SentInv
<1> QED
  BY <1>1, <1>2, <1>3, <1>4 DEF IInv, BeganInv, Holds

LEMMA DecidesKeeps == ASSUME IInv, Decides PROVE IInv'
<1>1. AblInv' BY DEF IInv, Decides, AblInv, abl, bounds
<1>2. ToolInv' BY DEF IInv, Decides, ToolInv, Holds, host
<1>3. BeganInv' /\ WaitInv' /\ SentInv' BY DEF Decides, BeganInv, WaitInv, SentInv, Holds
<1>4. VerdictNamesTheWedge'
  <2> SUFFICES ASSUME ~late, claimed PROVE VerdictNamesTheWedge'
    BY DEF Decides, VerdictNamesTheWedge, bounds
  <2>1. pc = "verdict" /\ UNCHANGED <<late, claimed, began, total>>
        /\ verdict' = IF Alive THEN "alive" ELSE IF outOk THEN "download" ELSE "stuck"
    BY DEF Decides, bounds
  <2>2. /\ Alive => began \in {"idle", "replying", "downloading"}
        /\ ~Alive /\ outOk => began = "downloading"
        /\ ~Alive /\ ~outOk => began = "stuck" \/ total > DrainMax
    BY <2>1, VerdictIsTrue
  <2>3. total \in Nat /\ DrainMax \in Nat
    BY LinkAssumption DEF IInv, ToolInv
  <2> QED
    BY <2>1, <2>2, <2>3 DEF VerdictNamesTheWedge, Judged
<1> QED BY <1>1, <1>2, <1>3, <1>4 DEF IInv

-----------------------------------------------------------------------------
LEMMA InitHolds == ASSUME Init PROVE IInv
<1>1. <<>> \in Seq(Asked) /\ Len(<<>>) = 0
  BY EmptySeq
<1>2. \A i \in 1..Len(reply) : reply[i].kind = "OKAY" <=> i = Len(reply)
  BY <1>1 DEF Init
<1>3. AblInv
  <2>1. ep0 \in BOOLEAN /\ ready \in BOOLEAN /\ need \in Nat /\ late \in BOOLEAN
    BY LinkAssumption DEF Init
  <2>2. thread = "idle" /\ ~(need > 0) /\ ~ready /\ reply = <<>>
    BY DEF Init
  <2> QED
    BY <1>1, <1>2, <2>1, <2>2 DEF AblInv
<1>4. ToolInv
  <2>1. 0 \in 0..Slack /\ 0 \in 0..(DrainMax + 1) /\ 0 <= DrainMax
    BY LinkAssumption
  <2>2. /\ claimed = FALSE /\ outOk = FALSE /\ client = NoClient /\ pc = "off" /\ units = 0
        /\ total = 0 /\ verdict = "none" /\ resp = <<>>
    BY DEF Init
  <2> QED
    BY <1>1, <2>1, <2>2 DEF ToolInv, Holds
<1>5. BeganInv /\ WaitInv /\ SentInv /\ VerdictNamesTheWedge
  BY DEF Init, BeganInv, WaitInv, SentInv, VerdictNamesTheWedge, Judged, Holds
<1> QED BY <1>3, <1>4, <1>5 DEF IInv

LEMMA StutterKeeps == ASSUME IInv, UNCHANGED vars PROVE IInv'
  BY DEF IInv, vars, abl, host, tool, bounds, AblInv, ToolInv, BeganInv, WaitInv, SentInv,
         VerdictNamesTheWedge, Judged, Holds

LEMMA StepKeeps == ASSUME IInv, [Next]_vars PROVE IInv'
<1>1. CASE Abl
  BY <1>1, OffersKeep, BreaksKeep, ResetsKeep DEF Abl
<1>2. CASE Shell
  BY <1>2, ClientStartsKeep, ClientWritesKeep, ClientReadsKeep, KilledKeeps
     DEF Shell, TimeoutKills, PersonKills
<1>3. CASE ToolStarts
  BY <1>3, ToolStartsKeep
<1>4. CASE ToolRun
  BY <1>4, Ep0SilentKeeps, SetsConfigurationKeeps, DrainsKeep, DrainEndsKeeps, SendsKeep,
     RespondsKeeps, ResponseTimesOutKeeps, ResponseEndsKeeps, DecidesKeeps DEF ToolRun
<1>5. CASE UNCHANGED vars
  BY <1>5, StutterKeeps
<1> QED
  BY <1>1, <1>2, <1>3, <1>4, <1>5 DEF Next, Rests

LEMMA InvariantHolds == Spec => []IInv
<1>1. Init => IInv
  BY InitHolds
<1>2. IInv /\ [Next]_vars => IInv'
  BY StepKeeps
<1> QED
  BY <1>1, <1>2, PTL DEF Spec

(* What unwedge-fastboot.py says of an ABL that keeps to its timeouts is   *)
(* what that ABL was in, and its variables and the link's have their       *)
(* types: `stuck`, `download`, `alive` and the silent EP0 are four states. *)
THEOREM VerdictsAreTrue == Spec => []LinkInv
<1>1. IInv => LinkInv
  BY DEF IInv, AblInv, ToolInv, LinkInv, TypeOK, Asked
<1> QED
  BY <1>1, InvariantHolds, PTL

(* Only two steps end a run with a verdict (main's two returns).           *)
LEMMA TwoSay ==
    ASSUME IInv, [Next]_vars, verdict' # verdict, verdict' # "none"
    PROVE  Decides \/ Ep0Silent
  BY DEF Next, Abl, Shell, ToolRun, Rests, vars, tool, Offers, Breaks, Resets, ClientStarts,
         ClientWrites, ClientReads, TimeoutKills, PersonKills, Killed, ToolStarts,
         SetsConfiguration, Drains, DrainEnds, Sends, Responds, ResponseTimesOut, ResponseEnds

(* "finishing the read released it": when the tool says `alive` of an ABL  *)
(* that keeps to the timeouts, no packet is left in its reply and it waits *)
(* for a command, whatever stranded it and however the drain ended.        *)
THEOREM AliveIsReleased == Spec => ReleasesTheThread
<1>1. ASSUME IInv, [Next]_vars, ~late, verdict' = "alive", verdict # "alive"
      PROVE  reply = <<>> /\ thread = "idle"
  <2>1. Decides
    BY <1>1, TwoSay DEF Ep0Silent
  <2>2. pc = "verdict" /\ Alive /\ resp # <<>>
    BY <1>1, <2>1 DEF Decides, Alive
  <2>3. Holds
    BY <1>1, <2>2 DEF IInv, ToolInv, Holds
  <2> QED
    BY <1>1, <2>2, <2>3 DEF IInv, WaitInv, AblInv
<1> QED
  BY <1>1, InvariantHolds, PTL DEF Spec, ReleasesTheThread

(* However late ABL is: a tool that has the interface calls no parked      *)
(* download `stuck`, and says that EP0 is dead of a dead EP0 only.         *)
THEOREM WedgesAreToldApart == Spec => NoWorseWedge
<1>1. ASSUME IInv, [Next]_vars, claimed, verdict' = "stuck", verdict # "stuck"
      PROVE  thread # "downloading"
  <2>1. Decides
    BY <1>1, TwoSay DEF Ep0Silent
  <2>2. pc = "verdict" /\ ~outOk
    BY <1>1, <2>1 DEF Decides
  <2> QED
    BY <1>1, <2>2 DEF IInv, SentInv, Holds
<1>2. ASSUME IInv, [Next]_vars, verdict' = "dead", verdict # "dead"
      PROVE  ~ep0
  <2>1. Ep0Silent
    BY <1>2, TwoSay DEF Decides
  <2> QED
    BY <2>1 DEF Ep0Silent
<1> QED
  BY <1>1, <1>2, InvariantHolds, PTL DEF Spec, NoWorseWedge
=============================================================================
