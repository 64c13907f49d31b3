----------------------------- MODULE StateStream -----------------------------
(***************************************************************************)
(* GET /api/units/stream: one poller reads every unit and fans what changed *)
(* out to the connected clients (crates/breeze-http/src/stream.rs).        *)
(*                                                                         *)
(* Each client has a thread: it registers, nudges the poller, writes a     *)
(* snapshot and then the events of its queue.  The poller sleeps on a      *)
(* condition variable while nobody is registered; otherwise it walks the   *)
(* units in lanes, unit i in lane i mod Lanes.  What a client shows for a  *)
(* unit is what was last written to it.                                    *)
(***************************************************************************)
EXTENDS Naturals, Sequences, FiniteSets, SequencesExt

CONSTANTS
    Clients,
    Units,        \* unit ids
    Order,        \* the same in configuration order
    Values,       \* states a unit can report
    Nothing,      \* no state known
    Placeholder,  \* what is shown of a unit that was never read
    MaxStreams,
    QueueDepth,
    Lanes,        \* BREEZE_BG_WORKERS
    MaxChanges    \* bound: changes of the configuration

ASSUME UnitAssumption == /\ Range(Order) = Units /\ IsInjective(Order)
                         /\ Nothing \notin Values /\ Placeholder \notin Values
ASSUME BoundAssumption == /\ {MaxStreams, QueueDepth, Lanes} \subseteq Nat \ {0}
                          /\ MaxChanges \in Nat

VARIABLES
    known,     \* the units the manager knows
    changes,   \* units reconfigured (bound)
    last,      \* [Units]: StateStream.last
    poller,    \* "check", "alone", "locked", "waiting", "polling" or "resting"
    round,     \* the units of this walk, in order
    stage,     \* [Units]: "due", "read", "stored" or "done", in this walk
    got,       \* [Units]: what was read of it
    subs,      \* StateStream.subs
    queue,     \* [Clients]: the events not written yet
    missed,    \* [Clients]: history, units of which the latest event was dropped
    pc,        \* [Clients]: the stream's thread
    order,     \* [Clients]: the units when the client connected
    here,      \* [Clients]: is there still somebody to read?
    shown      \* [Clients -> [Units]]: what was written to it

unitVars   == <<known, changes>>
pollVars   == <<poller, round, stage, got>>
clientVars == <<pc, order, here, shown>>
vars == <<unitVars, last, pollVars, subs, queue, missed, clientVars>>

Online(v)  == [value |-> v, online |-> TRUE]
Offline(v) == [value |-> v, online |-> FALSE]
States     == [value : Values \cup {Placeholder}, online : BOOLEAN]
Blank      == [u \in Units |-> Nothing]

InOrder(units) == SelectSeq(Order, LAMBDA u : u \in units)

\* lane_count: never more lanes than units, never none.
LaneCount == IF Len(round) < Lanes /\ round # <<>> THEN Len(round) ELSE Lanes
IndexOf(u) == CHOOSE i \in DOMAIN round : round[i] = u

Init ==
    /\ known \in SUBSET Units /\ changes = 0
    /\ last = Blank
    /\ poller = "check" /\ round = <<>>
    /\ stage = [u \in Units |-> "done"] /\ got = Blank
    /\ subs = {}
    /\ queue = [c \in Clients |-> <<>>] /\ missed = [c \in Clients |-> {}]
    /\ pc = [c \in Clients |-> "away"]
    /\ order = [c \in Clients |-> {}]
    /\ here = [c \in Clients |-> FALSE]
    /\ shown = [c \in Clients |-> Blank]
-----------------------------------------------------------------------------
(* The poller.                                                             *)

\* Nobody is registered: take wake_lock, look again, and wait.
FindNobody ==
    /\ poller = "check" /\ subs = {}
    /\ poller' = "alone"
    /\ UNCHANGED <<unitVars, last, round, stage, got, subs, queue, missed, clientVars>>
Lock ==
    /\ poller = "alone"
    /\ poller' = "locked"
    /\ UNCHANGED <<unitVars, last, round, stage, got, subs, queue, missed, clientVars>>

\*   Mutant: without a second look.
WaitAnyway ==
    /\ poller = "locked"
    /\ poller' = "waiting"
    /\ UNCHANGED <<unitVars, last, round, stage, got, subs, queue, missed, clientVars>>
WaitOrNot ==
    /\ poller = "locked"
    /\ poller' = IF subs = {} THEN "waiting" ELSE "check"
    /\ UNCHANGED <<unitVars, last, round, stage, got, subs, queue, missed, clientVars>>

\* A condition variable may wake its waiter for no reason.
WakeSpuriously ==
    /\ poller = "waiting"
    /\ poller' = "check"
    /\ UNCHANGED <<unitVars, last, round, stage, got, subs, queue, missed, clientVars>>

\* poll_once.
StartRound ==
    /\ poller = "check" /\ subs # {}
    /\ poller' = "polling"
    /\ round' = InOrder(known)
    /\ stage' = [u \in Units |-> IF u \in known THEN "due" ELSE "done"]
    /\ UNCHANGED <<unitVars, last, got, subs, queue, missed, clientVars>>

\* A lane comes to its next unit when it is done with the one before.
InLane(u) ==
    \A i \in DOMAIN round :
        i < IndexOf(u) /\ i % LaneCount = IndexOf(u) % LaneCount => stage[round[i]] = "done"

\* read_unit: what the unit reports; of a unit that does not answer, or is gone,
\* what is known, marked offline.
OfflineValue(u) ==
    IF last[u] = Nothing THEN Offline(Placeholder) ELSE [last[u] EXCEPT !.online = FALSE]

Read(u) ==
    /\ poller = "polling" /\ stage[u] = "due" /\ InLane(u)
    /\ stage' = [stage EXCEPT ![u] = "read"]
    /\ \/ u \in known /\ \E v \in Values : got' = [got EXCEPT ![u] = Online(v)]
       \/ got' = [got EXCEPT ![u] = OfflineValue(u)]
    /\ UNCHANGED <<unitVars, last, poller, round, subs, queue, missed, clientVars>>

\* poll_one: what did not change is not news.
Store(u) ==
    /\ poller = "polling" /\ stage[u] = "read"
    /\ last' = [last EXCEPT ![u] = got[u]]
    /\ IF last[u] = got[u]
       THEN stage' = [stage EXCEPT ![u] = "done"] /\ got' = [got EXCEPT ![u] = Nothing]
       ELSE stage' = [stage EXCEPT ![u] = "stored"] /\ UNCHANGED got
    /\ UNCHANGED <<unitVars, poller, round, subs, queue, missed, clientVars>>

\* broadcast: whoever has a full queue loses the event.
\*   Mutant: the newest of the queue makes room for it.
Room(c) == Len(queue[c]) < QueueDepth
QueuedOver(c, u) ==
    IF Room(c) THEN Append(queue[c], [unit |-> u, state |-> got[u]])
    ELSE Append(Front(queue[c]), [unit |-> u, state |-> got[u]])
Queued(c, u) ==
    IF Room(c) THEN Append(queue[c], [unit |-> u, state |-> got[u]]) ELSE queue[c]

Broadcast(u) ==
    /\ poller = "polling" /\ stage[u] = "stored"
    /\ stage' = [stage EXCEPT ![u] = "done"]
    /\ got' = [got EXCEPT ![u] = Nothing]
    /\ queue' = [c \in Clients |-> IF c \in subs THEN Queued(c, u) ELSE queue[c]]
    /\ missed' = [c \in Clients |->
                    CASE c \notin subs -> missed[c]
                      [] c \in subs /\ Room(c)  -> missed[c] \ {u}
                      [] c \in subs /\ ~Room(c) -> missed[c] \cup {u}]
    /\ UNCHANGED <<unitVars, last, poller, round, subs, clientVars>>

EndRound ==
    /\ poller = "polling"
    /\ \A u \in Units : stage[u] = "done"
    /\ poller' = "resting"
    /\ round' = <<>>
    /\ UNCHANGED <<unitVars, last, stage, got, subs, queue, missed, clientVars>>

\* The tick is over.
Resume ==
    /\ poller = "resting"
    /\ poller' = "check"
    /\ UNCHANGED <<unitVars, last, round, stage, got, subs, queue, missed, clientVars>>

Poller ==
    \/ FindNobody \/ Lock \/ WaitOrNot \/ StartRound \/ EndRound \/ Resume
    \/ \E u \in Units : Read(u) \/ Store(u) \/ Broadcast(u)
-----------------------------------------------------------------------------
(* hijack: one stream.                                                     *)

Connect(c) ==
    /\ pc[c] = "away"
    /\ pc' = [pc EXCEPT ![c] = "connected"]
    /\ order' = [order EXCEPT ![c] = known]
    /\ here' = [here EXCEPT ![c] = TRUE]
    /\ UNCHANGED <<unitVars, last, pollVars, subs, queue, missed, shown>>

\* The thread ends; what it was about is forgotten.
Gone(c) ==
    /\ pc' = [pc EXCEPT ![c] = "away"]
    /\ order' = [order EXCEPT ![c] = {}]
    /\ here' = [here EXCEPT ![c] = FALSE]

\* subscribe: a place on the list, or 503.
\*   Mutant: one place too many.
PlaceLeftAtMost == Cardinality(subs) <= MaxStreams
PlaceLeft == Cardinality(subs) < MaxStreams

Subscribe(c) ==
    /\ pc[c] = "connected"
    /\ IF PlaceLeft
       THEN /\ subs' = subs \cup {c}
            /\ pc' = [pc EXCEPT ![c] = "subscribed"]
            /\ UNCHANGED <<order, here>>
       ELSE /\ Gone(c)
            /\ UNCHANGED subs
    /\ UNCHANGED <<unitVars, last, pollVars, queue, missed, shown>>

\* ... and a nudge under wake_lock, which the poller holds while it looks again.
Nudge(c) ==
    /\ pc[c] = "subscribed"
    /\ poller # "locked"
    /\ poller' = IF poller = "waiting" THEN "check" ELSE poller
    /\ pc' = [pc EXCEPT ![c] = "nudged"]
    /\ UNCHANGED <<unitVars, last, round, stage, got, subs, queue, missed, order, here, shown>>

\* A write to a client that is gone may still succeed, and then fails.
Fails(c) == /\ ~here[c]
            /\ pc' = [pc EXCEPT ![c] = "leaving"]
            /\ UNCHANGED shown

\* The snapshot is what is known now of the units there were then.
\*   Mutant: it is skipped.
WithSnapshotSkipped(c) == shown[c]
WithSnapshot(c) ==
    [u \in Units |-> IF u \in order[c] /\ last[u] # Nothing THEN last[u] ELSE shown[c][u]]

Snapshot(c) ==
    /\ pc[c] = "nudged"
    /\ \/ /\ pc' = [pc EXCEPT ![c] = "streaming"]
          /\ shown' = [shown EXCEPT ![c] = WithSnapshot(c)]
       \/ Fails(c)
    /\ UNCHANGED <<unitVars, last, pollVars, subs, queue, missed, order, here>>

Write(c) ==
    /\ pc[c] = "streaming" /\ queue[c] # <<>>
    /\ queue' = [queue EXCEPT ![c] = Tail(@)]
    /\ \/ /\ shown' = [shown EXCEPT ![c][Head(queue[c]).unit] = Head(queue[c]).state]
          /\ UNCHANGED pc
       \/ Fails(c)
    /\ UNCHANGED <<unitVars, last, pollVars, subs, missed, order, here>>

\* Nothing came for KEEPALIVE: a comment is written, which finds out.
KeepAlive(c) ==
    /\ pc[c] = "streaming" /\ queue[c] = <<>>
    /\ Fails(c)
    /\ UNCHANGED <<unitVars, last, pollVars, subs, queue, missed, order, here>>

GivenUp(c) == subs' = subs \ {c}

Leave(c) ==
    /\ pc[c] = "leaving"
    /\ GivenUp(c)
    /\ Gone(c)
    /\ queue' = [queue EXCEPT ![c] = <<>>]
    /\ missed' = [missed EXCEPT ![c] = {}]
    /\ shown' = [shown EXCEPT ![c] = Blank]
    /\ UNCHANGED <<unitVars, last, pollVars>>

Thread(c) == Subscribe(c) \/ Nudge(c) \/ Snapshot(c) \/ Write(c) \/ KeepAlive(c) \/ Leave(c)

\* The client closes the connection, or is gone.
HangUp(c) ==
    /\ here[c]
    /\ here' = [here EXCEPT ![c] = FALSE]
    /\ UNCHANGED <<unitVars, last, pollVars, subs, queue, missed, pc, order, shown>>

\* config_routes: units come and go; `last' is not told.
Reconfigure ==
    /\ changes < MaxChanges
    /\ changes' = changes + 1
    /\ known' \in (SUBSET Units) \ {known}
    /\ UNCHANGED <<last, pollVars, subs, queue, missed, clientVars>>

Next ==
    \/ Poller \/ WakeSpuriously
    \/ \E c \in Clients : Connect(c) \/ Thread(c) \/ HangUp(c)
    \/ Reconfigure

Spec == Init /\ [][Next]_vars

-----------------------------------------------------------------------------
(* Properties.                                                             *)

\* Every variable holds a value of its kind.
TypeOK ==
    /\ known \subseteq Units /\ changes \in Nat
    /\ last \in [Units -> States \cup {Nothing}]
    /\ poller \in {"check", "alone", "locked", "waiting", "polling", "resting"}
    /\ round \in Seq(Units)
    /\ stage \in [Units -> {"due", "read", "stored", "done"}]
    /\ got \in [Units -> States \cup {Nothing}]
    /\ subs \subseteq Clients
    /\ queue \in [Clients -> Seq([unit : Units, state : States])]
    /\ missed \in [Clients -> SUBSET Units]
    /\ pc \in [Clients -> {"away", "connected", "subscribed", "nudged", "streaming", "leaving"}]
    /\ order \in [Clients -> SUBSET Units]
    /\ here \in [Clients -> BOOLEAN]
    /\ shown \in [Clients -> [Units -> States \cup {Nothing}]]

\* MAX_STREAMS is a ceiling, and a place on the list is held by exactly the
\* threads that are between subscribe and unsubscribe.
PlacesHeld ==
    /\ Cardinality(subs) <= MaxStreams
    /\ subs = {c \in Clients : pc[c] \in {"subscribed", "nudged", "streaming", "leaving"}}

\* spawn_poller ("a subscriber arriving between the check above and this wait
\* would otherwise be missed"): the poller never waits while somebody listens who
\* will not nudge it.
NoMissedWake == poller = "waiting" => \A c \in subs : pc[c] = "subscribed"

\* A client will show v of unit u once its queue is written: the last event about
\* u says so, or there is none and v is shown already.
EndsWith(c, u, v) ==
    LET about == {i \in DOMAIN queue[c] : queue[c][i].unit = u}
    IN  IF about = {} THEN shown[c][u] = v
        ELSE \E i \in about : queue[c][i].state = v /\ \A j \in about : j <= i

\* snapshot and broadcast together: of the units that were there when it
\* connected, a stream ends up with the latest state the poller knows, unless
\* the latest event was dropped because the queue was full.
Converges ==
    \A c \in Clients, u \in Units :
        pc[c] = "streaming" /\ u \in order[c] \ missed[c] /\ stage[u] # "stored" =>
            EndsWith(c, u, last[u])
=============================================================================
