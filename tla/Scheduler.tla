------------------------------ MODULE Scheduler ------------------------------
(***************************************************************************)
(* Stored programs and the one thread that runs them                       *)
(* (crates/breeze-http/src/program_routes.rs); what may be stored and what *)
(* it asks for is in Programs.                                             *)
(*                                                                         *)
(* Favourites only ever run by request, which is `Manual' here, like every *)
(* other command a unit gets from somebody else.  The clock counts ticks;  *)
(* a minute has several, so has the thread's nap.                          *)
(***************************************************************************)
EXTENDS Programs

CONSTANTS
    Units,           \* what a program may be for
    Specs,           \* what clients ask to store
    NoProgram,
    TicksPerMinute,
    Nap,             \* AC_SCHED_TICK, in ticks: the sleep between passes
    MaxPass,         \* how long a pass may take, in ticks
    MaxClock,        \* bound: the last tick
    MaxEdits,        \* bound: programs stored, replaced or deleted
    MaxManual,       \* bound: commands from elsewhere
    MaxFailures,     \* bound: commands and writes that fail
    MaxRestarts,     \* bound: crashes
    LateFailures     \* can a write fail once the file is replaced (set_mode)?

ASSUME TimeAssumption  == /\ {TicksPerMinute, MinutesPerDay, Nap} \subseteq Nat \ {0}
                          /\ {MaxPass, MaxClock} \subseteq Nat
ASSUME BoundAssumption == {MaxEdits, MaxManual, MaxFailures, MaxRestarts} \subseteq Nat
                          /\ LateFailures \in BOOLEAN

\* ProgramSpec, CurveSpec, CurvePoint; a program for a unit that is none reaches nobody.
ASSUME SpecAssumption ==
    \A spec \in Specs :
        /\ {"name", "enabled", "units", "kind", "favourite", "schedule", "curve"} \subseteq DOMAIN spec
        /\ spec.units \subseteq Units
        /\ \A curve \in spec.curve :
              /\ spec.curve = {curve}
              /\ {"operational_mode", "fan_speed", "points"} \subseteq DOMAIN curve
              /\ curve.points \in Seq([time : [minute : Int, padded : BOOLEAN], temperature : Int])

Ids == 1 .. MaxEdits

VARIABLES
    clock,
    mem, disk,       \* the programs, in order: in memory and in programs.json
    edits, manuals, failures, restarts,
    phase, nap,      \* the thread: "asleep" for that long, or in a "pass"
    spent,           \* ticks this pass has taken
    now,             \* its one reading of the clock
    copy,            \* the programs it copied and has not come to yet
    doing,           \* the program it is at
    entries,         \* the due entries of it that remain
    scene,           \* the scene being applied
    targets,         \* the units it still goes to
    sending,         \* the unit, if any, that a curve is about to command
    fired,           \* SchedulerState.fired
    applied,         \* SchedulerState.curve_applied
    firings,         \* history: how often each entry fired, by its place and the minute
    owed,            \* history: the triggers whose minute came and that did not fire yet
    sent,            \* history: the last curve request each unit took
    kept,            \* history: hand-made settings a curve may not touch yet
    last             \* history: the last pass that ended

storeVars   == <<mem, disk>>
boundVars   == <<edits, manuals, failures, restarts>>
passVars    == <<phase, nap, spent, now, copy, doing, entries, scene, targets,
                 sending>>
memoryVars  == <<fired, applied>>
historyVars == <<firings, owed, sent, kept, last>>
vars == <<clock, storeVars, boundVars, passVars, memoryVars, historyVars>>

\* A map with one more entry.
Put(map, key, value) == [k \in DOMAIN map \cup {key} |-> IF k = key THEN value ELSE map[k]]

MinuteOf(tick) == tick \div TicksPerMinute
\* Only what is enabled runs, as what it is.
Runs(p) == IF p.spec.enabled THEN p.spec.kind ELSE "nothing"

\* What a pass at a minute has to fire.
Triggers(p, minute) ==
    IF Runs(p) = "schedule"
    THEN {[id |-> p.id, entry |-> p.spec.schedule[i], minute |-> minute] :
             i \in DueEntries(p.spec.schedule, minute)}
    ELSE {}

\* What a program's curve wants at a minute, and the setpoint in it: none if it has no
\* curve or its curve no points.
Request(p, minute) == UNION {{CurveRequest(curve, minute)} : curve \in p.spec.curve}
Setpoint(p, minute) == UNION {request.target_temperature : request \in Request(p, minute)}
Targets(p) == IF p.spec.units = {} THEN Units ELSE p.spec.units

IdsOf(programs) == {p.id : p \in Range(programs)}
-----------------------------------------------------------------------------
\* Before the first pass: the thread has slept since it was started.
NoPass(tick) == [programs |-> {}, woke |-> tick, clean |-> FALSE]

Init ==
    /\ clock = 0 /\ mem = <<>> /\ disk = <<>>
    /\ edits = 0 /\ manuals = 0 /\ failures = 0 /\ restarts = 0
    /\ phase = "asleep" /\ nap = Nap /\ spent = 0 /\ now = 0
    /\ copy = <<>> /\ doing = NoProgram /\ entries = {} /\ scene = NoProgram /\ targets = {}
    /\ sending = {}
    /\ fired = <<>> /\ applied = <<>>
    /\ firings = <<>> /\ owed = {} /\ sent = <<>> /\ kept = {} /\ last = NoPass(0)

\* What is owed and what is kept start anew for a program that is changed.
Forgiven(i) ==
    /\ owed' = {o \in owed : o.id # i}
    /\ kept' = {k \in kept : k.id # i}

\* persist: the file is replaced; or the write failed, before that or after.
Persists(programs) == disk' = programs /\ UNCHANGED failures
PersistFails(programs) ==
    /\ failures < MaxFailures
    /\ failures' = failures + 1
    /\ disk' \in IF LateFailures THEN {disk, programs} ELSE {disk}

\* What into_program refuses is answered 422 and changes nothing.
Create(spec) ==
    /\ edits < MaxEdits
    /\ edits' = edits + 1
    /\ \E program \in IntoProgram(spec) :
         LET programs == Append(mem, [id |-> edits + 1, spec |-> program])
         IN  \/ mem' = programs /\ Persists(programs)
             \/ UNCHANGED mem /\ PersistFails(programs)
    /\ UNCHANGED <<clock, manuals, restarts, passVars, memoryVars, historyVars>>

\* Mutant: the new version stays although it was not written.
UnsavedStays(programs) == programs
RolledBack(programs) == mem

Update(i, spec) ==
    /\ edits < MaxEdits
    /\ edits' = edits + 1
    /\ \E program \in IntoProgram(spec) :
         LET programs == [k \in DOMAIN mem |->
                             IF mem[k].id = i THEN [id |-> i, spec |-> program] ELSE mem[k]]
         IN  \/ mem' = programs /\ Persists(programs) /\ Forgiven(i)
             \/ /\ mem' = RolledBack(programs) /\ PersistFails(programs)
                /\ UNCHANGED <<owed, kept>>
    /\ UNCHANGED <<clock, manuals, restarts, passVars, memoryVars, firings, sent, last>>

\* A program whose deletion cannot be written goes back, to the end.
Delete(i) ==
    /\ edits < MaxEdits
    /\ edits' = edits + 1
    /\ \E k \in {j \in DOMAIN mem : mem[j].id = i} :
         LET programs == RemoveAt(mem, k)
         IN  \/ mem' = programs /\ Persists(programs) /\ Forgiven(i)
             \/ /\ mem' = Append(programs, mem[k]) /\ PersistFails(programs)
                /\ UNCHANGED <<owed, kept>>
    /\ UNCHANGED <<clock, manuals, restarts, passVars, memoryVars, firings, sent, last>>
-----------------------------------------------------------------------------
(* run_once.                                                               *)

Wake ==
    /\ phase = "asleep" /\ nap = 0
    /\ phase' = "pass" /\ spent' = 0
    /\ now' = clock
    /\ copy' = mem
    /\ last' = [programs |-> Range(mem), woke |-> clock, clean |-> TRUE]
    /\ UNCHANGED <<clock, storeVars, boundVars, nap, doing, entries, scene, targets, sending,
                   memoryVars, firings, owed, sent, kept>>

Idle == phase = "pass" /\ targets = {} /\ sending = {} /\ entries = {}

NextProgram ==
    /\ Idle /\ copy # <<>>
    /\ doing' = Head(copy)
    /\ copy' = Tail(copy)
    /\ CASE Runs(doing') = "schedule" ->
               /\ entries' = DueEntries(doing'.spec.schedule, MinuteOf(now))
               /\ UNCHANGED targets
         [] Runs(doing') = "curve" ->
               \* no points, nothing to track
               /\ targets' = IF Setpoint(doing', MinuteOf(now)) = None THEN {} ELSE Targets(doing')
               /\ UNCHANGED entries
         [] OTHER -> UNCHANGED <<entries, targets>>
    /\ UNCHANGED <<clock, storeVars, boundVars, phase, nap, spent, now, scene, sending, memoryVars,
                   historyVars>>

\* run_schedule: an entry, the first that remains, is claimed for its minute before it is
\* applied, and skipped when it was claimed already.
\*   Mutants: every wake-up is the first; the stamp has no date.
NeverClaimed(key, minute) == FALSE
ClaimedAnyDay(key, minute) == key \in DOMAIN fired /\ OfDay(fired[key]) = OfDay(minute)
Claimed(key, minute) == key \in DOMAIN fired /\ fired[key] = minute

Trigger ==
  \E i \in entries :
    /\ phase = "pass" /\ targets = {} /\ \A j \in entries : i <= j
    /\ LET key    == <<doing.id, i>>
           minute == MinuteOf(now)
           times  == IF <<key, minute>> \in DOMAIN firings THEN firings[<<key, minute>>] ELSE 0
           entry  == doing.spec.schedule[i]
       IN  IF Claimed(key, minute)
           THEN UNCHANGED <<scene, targets, fired, firings, owed>>
           ELSE /\ fired' = Put(fired, key, minute)
                /\ scene' = entry.settings
                /\ targets' = Targets(doing)
                /\ firings' = Put(firings, <<key, minute>>, times + 1)
                /\ owed' = owed \ {[id |-> doing.id, entry |-> entry, minute |-> minute]}
    /\ entries' = entries \ {i}
    /\ UNCHANGED <<clock, storeVars, boundVars, phase, nap, spent, now, copy, doing, sending,
                   applied, sent, kept, last>>

\* A command that fails (its effect unknown) is logged; the next unit is next.
ApplyScene(u) ==
    /\ phase = "pass" /\ u \in targets /\ doing.spec.kind = "schedule"
    /\ targets' = targets \ {u}
    /\ UNCHANGED <<clock, storeVars, boundVars, phase, nap, spent, now, copy, doing, entries,
                   scene, sending, memoryVars, historyVars>>

\* run_curve: a unit that last took this setpoint from this curve is passed by.
\*   Mutant: it is sent again all the same.
NeverSettled(u) == FALSE
Settled(u) ==
    /\ <<doing.id, u>> \in DOMAIN applied
    /\ applied[<<doing.id, u>>] = Setpoint(doing, MinuteOf(now))

\* Where a unit is passed by or about to be commanded.
ComeTo(u) ==
    /\ phase = "pass" /\ u \in targets /\ sending = {} /\ doing.spec.kind = "curve"
    /\ targets' = targets \ {u}
    /\ UNCHANGED <<clock, storeVars, boundVars, phase, nap, spent, now, copy, doing, entries,
                   scene, memoryVars, historyVars>>

PassBy(u) == ComeTo(u) /\ Settled(u) /\ UNCHANGED sending

\* The lock on what is remembered is gone again when the unit is commanded.
Follow(u) == ComeTo(u) /\ ~Settled(u) /\ sending' = {u}

\* The command; remembered only when it succeeds.
Land(u) ==
    /\ phase = "pass" /\ sending = {u}
    /\ sending' = {}
    /\ \/ /\ applied' = Put(applied, <<doing.id, u>>, Setpoint(doing, MinuteOf(now)))
          /\ sent' = Put(sent, <<doing.id, u>>, Request(doing, MinuteOf(now)))
          /\ UNCHANGED <<failures, last>>
       \/ /\ failures < MaxFailures
          /\ failures' = failures + 1
          /\ last' = [last EXCEPT !.clean = FALSE]
          /\ UNCHANGED <<applied, sent>>
    /\ UNCHANGED <<clock, storeVars, edits, manuals, restarts, phase, nap, spent, now, copy, doing,
                   entries, scene, targets, fired, firings, owed, kept>>

EndPass ==
    /\ Idle /\ copy = <<>>
    /\ phase' = "asleep" /\ nap' = Nap
    /\ doing' = NoProgram /\ scene' = NoProgram /\ now' = 0 /\ spent' = 0
    /\ UNCHANGED <<clock, storeVars, boundVars, copy, entries, targets, sending, memoryVars,
                   historyVars>>
-----------------------------------------------------------------------------
\* From one pass to the next, its commands and the nap, it took more than a minute: no
\* pass began in a minute that is over.
SleptOver(tick) == tick - last.woke > TicksPerMinute

\* Time passes while the thread sleeps, and while it waits for units.
Tick ==
    /\ clock < MaxClock
    /\ clock' = clock + 1
    /\ \/ phase = "asleep" /\ nap > 0 /\ nap' = nap - 1 /\ UNCHANGED spent
       \/ phase = "pass" /\ spent < MaxPass /\ spent' = spent + 1 /\ UNCHANGED nap
    \* what no pass could come to in its minute is lost
    /\ owed' = IF MinuteOf(clock') = MinuteOf(clock) THEN owed
               ELSE {o \in owed : o.minute = MinuteOf(clock) => ~SleptOver(clock')}
                        \cup UNION {Triggers(p, MinuteOf(clock')) : p \in Range(mem)}
    \* a nudge is off when the curve has moved on
    /\ kept' = {k \in kept : \E p \in Range(mem) :
                                p.id = k.id /\ Setpoint(p, MinuteOf(clock')) = k.setpoint}
    /\ UNCHANGED <<storeVars, boundVars, phase, now, copy, doing, entries, scene, targets, sending,
                   memoryVars, firings, sent, last>>

\* The pass has something else to tell the unit for a program than it was last told.
YetToTell(i, u) ==
    \E p \in Range(copy) \cup (IF u \in targets \cup sending THEN {doing} ELSE {}) :
        p.id = i /\ Runs(p) = "curve" /\ Request(p, MinuteOf(now)) # sent[<<i, u>>]

\* Somebody else sets the unit, at any time: a control, a timer, "apply now".  A curve
\* that had the unit where it wants it has to leave it so until it moves on.
Manual(u) ==
    /\ manuals < MaxManual
    /\ manuals' = manuals + 1
    /\ kept' = kept \cup
         {[id |-> p.id, unit |-> u, setpoint |-> Setpoint(p, MinuteOf(clock))] :
            p \in {q \in Range(mem) : /\ q.spec.kind = "curve" /\ u \in Targets(q)
                                      /\ <<q.id, u>> \in DOMAIN sent
                                      /\ sent[<<q.id, u>>] = Request(q, MinuteOf(clock))
                                      /\ ~YetToTell(q.id, u)}}
    /\ UNCHANGED <<clock, storeVars, edits, failures, restarts, passVars, memoryVars, firings, owed,
                   sent, last>>

\* The process ends and starts anew: the scheduler's memory was its own, and
\* the histories start anew.
Restart ==
    /\ restarts < MaxRestarts
    /\ restarts' = restarts + 1
    /\ mem' = disk
    /\ phase' = "asleep" /\ nap' = Nap /\ spent' = 0 /\ now' = 0
    /\ copy' = <<>> /\ doing' = NoProgram /\ entries' = {} /\ scene' = NoProgram
    /\ targets' = {} /\ sending' = {}
    /\ fired' = <<>> /\ applied' = <<>>
    /\ firings' = <<>> /\ owed' = {} /\ sent' = <<>> /\ kept' = {} /\ last' = NoPass(clock)
    /\ UNCHANGED <<clock, disk, edits, manuals, failures>>

Rest == clock = MaxClock /\ phase = "asleep" /\ nap > 0 /\ UNCHANGED vars

Next ==
    \/ \E spec \in Specs : Create(spec) \/ \E i \in IdsOf(mem) : Update(i, spec)
    \/ \E i \in IdsOf(mem) : Delete(i)
    \/ Wake \/ NextProgram \/ Trigger \/ EndPass
    \/ \E u \in Units : ApplyScene(u) \/ PassBy(u) \/ Follow(u) \/ Land(u) \/ Manual(u)
    \/ Tick \/ Restart \/ Rest

Spec == Init /\ [][Next]_vars
-----------------------------------------------------------------------------
(* Properties.                                                             *)

\* Every variable holds a value of its kind.
TypeOK ==
    /\ clock \in 0 .. MaxClock
    /\ \A programs \in {mem, disk, copy} : \A p \in Range(programs) :
          p.id \in Ids /\ IntoProgram(p.spec) = {p.spec}
    /\ {edits, manuals, failures, restarts, nap, spent, now} \subseteq Nat
    /\ phase \in {"asleep", "pass"}
    /\ targets \cup sending \subseteq Units
    /\ entries # {} => phase = "pass" /\ entries \subseteq DOMAIN doing.spec.schedule
    /\ \A key \in DOMAIN applied : key[1] \in Ids /\ key[2] \in Units

\* SchedulerState ("a trigger fires once per minute however often the loop wakes
\* up"), whatever is edited meanwhile, until the server restarts.
OncePerMinute == \A what \in DOMAIN firings : firings[what] <= 1

\* A trigger that was stored and enabled when its minute began, and was left
\* alone, is fired by a pass of that minute ("a trigger only has to land
\* inside the right minute"), however long passes take: it is lost only where no pass
\* began in its minute, the one before and the nap having taken more than a minute.
NoTriggerMissed ==
    \A o \in owed : o.minute = MinuteOf(clock) \/ (phase = "pass" /\ o.minute = MinuteOf(now))

\* SchedulerState: someone who nudges the temperature by hand keeps their nudge
\* until the curve genuinely moves on, at whatever point of a pass the unit was set: the
\* curve sends it nothing.  Where the curve had moved on already, and the unit was yet
\* to be told, the nudge is taken back.
NudgeKept ==
    [][\A u \in Units : Land(u) =>
          ~\E k \in kept : k.id = doing.id /\ k.unit = u]_vars

\* "a daily time->temperature curve the scheduler tracks continuously": once a pass has
\* ended with no command failing, every unit was last told, by every curve the pass
\* saw, to be on and at the setpoint that is on the curve's line.
Tracked(p, u) ==
    \A curve \in p.spec.curve :
        AtDistinctTimes(curve.points) =>
            /\ <<p.id, u>> \in DOMAIN sent
            /\ \E request \in sent[<<p.id, u>>] :
                  /\ request.power_on = {TRUE}
                  /\ OnTheLine(curve.points, MinuteOf(last.woke), Or(request.target_temperature, 0))
CurveTracked ==
    phase = "asleep" /\ last.clean =>
        \A p \in last.programs : Runs(p) = "curve" =>
            \A u \in Targets(p) : Tracked(p, u)

\* create ("or the API reports a program that vanishes on restart"): what the
\* server lists, the file holds.
ReportedSurvives == Range(mem) \subseteq Range(disk)
=============================================================================
