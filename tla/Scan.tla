--------------------------------- MODULE Scan ---------------------------------
(***************************************************************************)
(* Finding units on the LAN (crates/breeze-device/src/scan.rs, scan_targets,*)
(* and crates/breeze-proto/src/discover.rs): one thread sends the hellos    *)
(* while another listens, until Listen ticks after the last of them.        *)
(*                                                                         *)
(* A tick is longer than the receive timeout: within one, the listening     *)
(* thread has looked at its flag and taken what had come.                   *)
(***************************************************************************)
EXTENDS Naturals, Sequences, FiniteSets

CONSTANTS
    Hosts,       \* addresses something may answer from
    Listen,      \* ticks the listener goes on after the last hello
    Delay        \* a unit answers a hello within that many

ASSUME ScanAssumption == Listen \in Nat \ {0} /\ Delay \in Nat /\ Delay < Listen

VARIABLES
    scanning,        \* scan_targets is running
    probes,          \* the hellos still to go out: a host, or the broadcast
    sendingDone,     \* sending_done
    deadline,        \* ticks to the deadline, once there is one
    wire,            \* answers on their way
    seen,            \* what was found: of each host, what it is
    unparseable,     \* hosts whose answer could not be read
    answered         \* history: hosts an answer of which is on its way or came

scanVars == <<scanning, probes, sendingDone, deadline, wire, seen, unparseable, answered>>

Broadcast   == "broadcast"
NoDeadline  == Listen + 1
\* What discover::parse makes of an answer: a unit of that version, the one that
\* is expected at the address or another one.  V1 answers, what is too short, does
\* not decrypt or names no type of appliance cannot be read.
Versions    == {"V2", "V3"}
Answers     == [version : Versions, expected : BOOLEAN]
Nothing     == [version |-> "none", expected |-> FALSE]
Parsed      == Answers \cup {Nothing}

\* The hellos of a scan, first all on one port and then all on the other.
Hellos(hosts, broadcast) ==
    LET round == (IF broadcast THEN <<Broadcast>> ELSE <<>>) \o hosts IN round \o round

ScanInit ==
    /\ scanning = FALSE /\ probes = <<>> /\ sendingDone = FALSE /\ deadline = NoDeadline
    /\ wire = {} /\ seen = [h \in Hosts |-> Nothing] /\ unparseable = {} /\ answered = {}

\* scan, scan_subnet: a socket of its own for each, so nothing is left of an earlier one.
BeginScan(hosts, broadcast) ==
    /\ scanning' = TRUE
    /\ probes' = Hellos(hosts, broadcast)
    /\ sendingDone' = FALSE /\ deadline' = NoDeadline
    /\ wire' = {} /\ seen' = [h \in Hosts |-> Nothing] /\ unparseable' = {} /\ answered' = {}

\* The sending thread: a hello that cannot be sent is one that nobody answers.  A
\* broadcast reaches all, if the network lets it.
Reached(to) == IF to = Broadcast THEN Hosts ELSE {to}
Send ==
    /\ scanning /\ probes # <<>>
    /\ probes' = Tail(probes)
    /\ \E who \in SUBSET Reached(Head(probes)), d \in 0..Delay :
          /\ wire' = wire \cup [from : who, left : {d}]
          /\ answered' = answered \cup who
    /\ UNCHANGED <<scanning, sendingDone, deadline, seen, unparseable>>
SenderDone ==
    /\ scanning /\ probes = <<>> /\ ~sendingDone
    /\ sendingDone' = TRUE
    /\ UNCHANGED <<scanning, probes, deadline, wire, seen, unparseable, answered>>

\* The listening thread sets its deadline when it finds that the other is done.
\*   Mutant: when it begins to listen.
SetDeadlineAtOnce ==
    /\ scanning /\ deadline = NoDeadline
    /\ deadline' = Listen
    /\ UNCHANGED <<scanning, probes, sendingDone, wire, seen, unparseable, answered>>
SetDeadline ==
    /\ scanning /\ sendingDone /\ deadline = NoDeadline
    /\ deadline' = Listen
    /\ UNCHANGED <<scanning, probes, sendingDone, wire, seen, unparseable, answered>>

\* recv_from, parse: the first answer of a unit stays, an address is blamed once.
Receive ==
    /\ scanning /\ deadline # 0
    /\ \E m \in wire :
          /\ m.left = 0 /\ wire' = wire \ {m}
          /\ \/ \E a \in Answers :
                   seen' = [seen EXCEPT ![m.from] = IF @ = Nothing THEN a ELSE @]
                /\ UNCHANGED unparseable
             \/ unparseable' = unparseable \cup {m.from} /\ UNCHANGED seen
    /\ UNCHANGED <<scanning, probes, sendingDone, deadline, answered>>

ScanTick ==
    /\ scanning /\ deadline # 0
    /\ sendingDone => deadline # NoDeadline
    /\ \A m \in wire : m.left > 0
    /\ deadline = NoDeadline => wire # {}     \* before, it is only the wire that time changes
    /\ wire' = {[m EXCEPT !.left = @ - 1] : m \in wire}
    /\ deadline' = IF deadline = NoDeadline THEN deadline ELSE deadline - 1
    /\ UNCHANGED <<scanning, probes, sendingDone, seen, unparseable, answered>>

\* The deadline has passed: what is in the socket by now is not read any more.
EndScan ==
    /\ scanning /\ deadline = 0 /\ probes = <<>>
    /\ scanning' = FALSE /\ wire' = {}
    /\ UNCHANGED <<probes, sendingDone, deadline, seen, unparseable, answered>>

ScanStep == Send \/ SenderDone \/ SetDeadline \/ Receive \/ ScanTick
-----------------------------------------------------------------------------
\* scan_targets, its comments: it keeps "listening for `listen' past the last
\* probe, rather than from the start, or a slow sweep would eat the whole window
\* before the last unit was even asked", and what it cannot read is "surfaced
\* rather than swallowed".  So whoever answered is in the report.
AnswersReported ==
    ~scanning => \A h \in answered : seen[h] # Nothing \/ h \in unparseable
=============================================================================
