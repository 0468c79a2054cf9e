------------------------------ MODULE UsbWatch ------------------------------
(***************************************************************************)
(* tools/watch-usb.sh: which buses were rebuilt in the last five minutes   *)
(* is listed once; then the kernel's log is followed, and every device     *)
(* that appears is told with what the list says of its bus.  A controller  *)
(* may lose its bus before, between and after the two.                     *)
(***************************************************************************)
EXTENDS Naturals, Sequences

CONSTANTS
    BUSES,
    MaxEvents    \* bound: what happens on the buses

VARIABLES
    up,          \* the buses that exist
    lately,      \* those that were deregistered in the last five minutes
    lines,       \* what the kernel has logged since the log is followed
    watch,       \* [at, listed, flapping]: the buses listed, those listed as flapping
    gap,         \* history: the buses lost between the list and the log
    told,        \* of a device on a bus: [bus, verdict]
    warned,      \* the buses a CONTROLLER line was printed of
    timeUp,      \* the duration has passed
    events       \* used of the bound

watchVars == <<up, lately, lines, watch, gap, told, warned, timeUp, events>>

WatchInit ==
    /\ up = BUSES /\ lately \in SUBSET BUSES /\ lines = <<>>
    /\ watch = [at |-> "idle", listed |-> {}, flapping |-> {}]
    /\ gap = {} /\ told = {} /\ warned = {} /\ timeUp = FALSE /\ events = 0

Logs(what, b) ==
    lines' = IF watch.at = "following" THEN Append(lines, [what |-> what, bus |-> b]) ELSE lines

Happens == events < MaxEvents /\ events' = events + 1 /\ UNCHANGED <<watch, told, warned, timeUp>>

Deregisters ==
    /\ Happens
    /\ \E b \in up : /\ up' = up \ {b} /\ lately' = lately \cup {b} /\ Logs("deregistered", b)
             /\ gap' = IF watch.at = "listed" THEN gap \cup {b} ELSE gap

Registers ==
    /\ Happens
    /\ \E b \in BUSES \ up : up' = up \cup {b} /\ Logs("root hub", b)
    /\ UNCHANGED <<lately, gap>>

Enumerates ==
    /\ Happens
    /\ \E b \in up : Logs("device", b)
    /\ UNCHANGED <<up, lately, gap>>

FiveMinutesPass ==
    /\ Happens
    /\ lately # {} /\ lately' = {}
    /\ UNCHANGED <<up, lines, gap>>

TimePasses ==
    /\ watch.at = "following" /\ ~timeUp /\ timeUp' = TRUE
    /\ UNCHANGED <<up, lately, lines, watch, gap, told, warned, events>>

-----------------------------------------------------------------------------
ListsBuses ==
    /\ watch.at = "idle"
    /\ watch' = [at |-> "listed", listed |-> up, flapping |-> up \cap lately]
    /\ UNCHANGED <<up, lately, lines, gap, told, warned, timeUp, events>>

Follows ==
    /\ watch.at = "listed"
    /\ watch' = [watch EXCEPT !.at = "following"]
    /\ UNCHANGED <<up, lately, lines, gap, told, warned, timeUp, events>>

Verdict(b) == IF b \notin watch.listed THEN "not in the list"
              ELSE IF b \in watch.flapping THEN "flapping" ELSE "stable"

(* A root hub's line names no port, and is passed over. *)
Told(line) ==
    IF line.what = "device" THEN told \cup {[bus |-> line.bus, verdict |-> Verdict(line.bus)]} ELSE told
Warned(line) == IF line.what = "deregistered" THEN warned \cup {line.bus} ELSE warned

(* Mutant: only lines of devices are looked at. *)
ReadsDevices ==
    /\ watch.at = "following" /\ lines # <<>>
    /\ lines' = Tail(lines)
    /\ told' = Told(Head(lines))
    /\ watch' = [watch EXCEPT !.at = IF timeUp THEN "ended" ELSE @]
    /\ UNCHANGED <<up, lately, gap, warned, timeUp, events>>
(* Mutant: the duration is not looked at. *)
ReadsOn ==
    /\ watch.at = "following" /\ lines # <<>>
    /\ lines' = Tail(lines)
    /\ told' = Told(Head(lines)) /\ warned' = Warned(Head(lines))
    /\ UNCHANGED <<up, lately, watch, gap, timeUp, events>>
(* A line, and then a look at the duration. *)
ReadsLine ==
    /\ watch.at = "following" /\ lines # <<>>
    /\ lines' = Tail(lines)
    /\ told' = Told(Head(lines)) /\ warned' = Warned(Head(lines))
    /\ watch' = [watch EXCEPT !.at = IF timeUp THEN "ended" ELSE @]
    /\ UNCHANGED <<up, lately, gap, timeUp, events>>

-----------------------------------------------------------------------------
(* While the log is followed a bus that was called stable is there, or its *)
(* loss has been printed or is about to be, or fell between the list and   *)
(* the log: the table is taken once and never again (watch-usb.sh:223).    *)
StableIsCorrected ==
    \A b \in BUSES :
        (watch.at = "following" /\ [bus |-> b, verdict |-> "stable"] \in told /\ b \notin up) =>
            \/ b \in warned \cup gap
            \/ \E i \in DOMAIN lines : lines[i] = [what |-> "deregistered", bus |-> b]

(* Once the duration has passed the watch ends with the next line of the   *)
(* log, and with none it goes on.                                          *)
EndsWithTheNextLine ==
    (watch.at = "following" /\ timeUp /\ lines # <<>>) ~> (watch.at = "ended")
=============================================================================
