----------------------------- MODULE UnitControl -----------------------------
(***************************************************************************)
(* What DeviceManager::control promises the requests for one unit          *)
(* (crates/breeze-device/src/manager.rs, module comment and `control'):    *)
(* they form a line; one command at a time carries the whole line, a later *)
(* request's value for a field winning; and all the requests a command     *)
(* carries get the same result, success only if the unit took the command. *)
(***************************************************************************)
EXTENDS Naturals, Sequences, FiniteSets

CONSTANTS Callers, Fields, Values, Absent, Changes

Settings == [Fields -> Values]
NoChange == [f \in Fields |-> Absent]

VARIABLES
    unit,     \* the unit's settings
    past,     \* every settings the unit has had
    line,     \* requests waiting for a command, in order: [caller, change]
    flight,   \* the command on its way: whom it carries, what it sets, was it taken
    verdict   \* [Callers]: "none", "waiting", "ok" or "failed"

vars == <<unit, past, line, flight, verdict>>

Grounded == [carries |-> {}, change |-> NoChange, taken |-> FALSE]

Override(change, settings) ==
    [f \in Fields |-> IF change[f] = Absent THEN settings[f] ELSE change[f]]

\* All the changes in a line as one: for a field, the value of the last request
\* that sets it.
Combined(requests) ==
    [f \in Fields |->
        LET setting == {i \in DOMAIN requests : requests[i].change[f] # Absent}
        IN  IF setting = {} THEN Absent
            ELSE LET last == CHOOSE i \in setting : \A j \in setting : j <= i
                 IN  requests[last].change[f]]

\* Who is in a line.
Asking(requests) == {requests[i].caller : i \in DOMAIN requests}

Init ==
    /\ unit \in Settings /\ past = {unit}
    /\ line = <<>>
    /\ flight = Grounded
    /\ verdict = [c \in Callers |-> "none"]

Ask(c, change) ==
    /\ verdict[c] = "none"
    /\ line' = Append(line, [caller |-> c, change |-> change])
    /\ verdict' = [verdict EXCEPT ![c] = "waiting"]
    /\ UNCHANGED <<unit, past, flight>>

\* The whole line leaves as one command.
Depart ==
    /\ flight.carries = {}
    /\ line # <<>>
    /\ flight' = [carries |-> Asking(line),
                  change |-> Combined(line), taken |-> FALSE]
    /\ line' = <<>>
    /\ UNCHANGED <<unit, past, verdict>>

\* The unit takes it, any number of times; what nobody asked for is put to
\* what it was in one earlier state of the unit (see UnitManager, ChooseBase).
Land ==
    /\ flight.carries # {}
    /\ \E settings \in past : unit' = Override(flight.change, settings)
    /\ past' = past \cup {unit'}
    /\ flight' = [flight EXCEPT !.taken = TRUE]
    /\ UNCHANGED <<line, verdict>>

\* One result for all of them.
Conclude ==
    /\ flight.carries # {}
    /\ \E result \in {"ok", "failed"} :
        /\ result = "ok" => flight.taken
        /\ verdict' = [c \in Callers |-> IF c \in flight.carries THEN result ELSE verdict[c]]
    /\ flight' = Grounded
    /\ UNCHANGED <<unit, past, line>>

Hear(c) ==
    /\ verdict[c] \in {"ok", "failed"}
    /\ verdict' = [verdict EXCEPT ![c] = "none"]
    /\ UNCHANGED <<unit, past, line, flight>>

Remote ==
    /\ unit' \in Settings
    /\ past' = past \cup {unit'}
    /\ UNCHANGED <<line, flight, verdict>>

Next ==
    \/ \E c \in Callers : (\E change \in Changes : Ask(c, change)) \/ Hear(c)
    \/ Depart \/ Land \/ Conclude \/ Remote

Spec == Init /\ [][Next]_vars
=============================================================================
