------------------------------- MODULE Timers -------------------------------
(***************************************************************************)
(* One-shot timers: the requests that make and cancel them, the file that  *)
(* keeps them, and the thread that fires them                              *)
(* (crates/breeze-http/src/timer_routes.rs, breeze-store/src/timers.rs,    *)
(* save and load of breeze-store/src/store.rs).                            *)
(*                                                                         *)
(* A timer is its id (handed out in creation order, so the id also stands  *)
(* for its place in the list), its kind, the units it names (none: all of  *)
(* them) and the moment it is due.  The settings it carries, its label and *)
(* the wall-clock strings are left out.  Both kinds of request come down   *)
(* to a delay of at least one tick.  Time is the server's clock, in ticks. *)
(***************************************************************************)
EXTENDS Naturals, FiniteSets

CONSTANTS
    Units,        \* unit ids
    UnitSets,     \* what requests name: sets of units, {} for all of them
    Delays,       \* how far ahead they ask
    Grace,        \* START_GRACE_MINUTES
    NoTimer,
    MaxClock,     \* bound: the last tick
    MaxTimers,    \* bound: requests made
    MaxChanges,   \* bound: units added or removed
    MaxFailures,  \* bound: writes of the file that fail
    MaxRestarts   \* bound: crashes

Kinds  == {"sleep", "start"}
Ids    == 1 .. MaxTimers
Timer  == [id : Ids, kind : Kinds, units : SUBSET Units, due : Nat]

ASSUME UnitAssumption  == /\ IsFiniteSet(Units)
                          /\ UnitSets \subseteq SUBSET Units
                          /\ NoTimer \notin Timer
ASSUME DelayAssumption == Delays \subseteq Nat \ {0} /\ Grace \in Nat
ASSUME BoundAssumption == /\ MaxClock \in Nat /\ MaxTimers \in Nat /\ MaxChanges \in Nat
                          /\ MaxFailures \in Nat /\ MaxRestarts \in Nat

VARIABLES
    clock,      \* the server's clock
    known,      \* the units the manager knows
    mem,        \* AppState.timers
    disk,       \* timers.json
    changes,    \* units added or removed so far (bound)
    made,       \* requests made so far (bound)
    failures,   \* writes that failed so far (bound)
    restarts,   \* crashes so far (bound)
    phase,      \* the runner: "asleep" or "firing"
    at,         \* the `now' of its pass
    due,        \* the timers it found due
    todo,       \* those it has not come to yet
    doing,      \* the one it is applying
    targets,    \* the units it still has to apply it to
    verdict,    \* [Ids]: history, what the request that made it was told
    over,       \* history, timers that came to an end: displaced, cancelled, fired or missed
    quiet,      \* history, timers cancelled before they were due
    tries       \* [Ids -> [Units]]: history, commands sent for it

storeVars   == <<mem, disk, failures>>
runnerVars  == <<phase, at, due, todo, doing, targets>>
historyVars == <<verdict, over, quiet, tries>>
unitVars    == <<known, changes>>
vars == <<clock, unitVars, storeVars, made, restarts, runnerVars, historyVars>>

IdsOf(timers) == {t.id : t \in timers}

\* Timer::covers and TimersDoc::replace_for_units.
Covers(t, u) == t.units = {} \/ u \in t.units
Displaces(kind, units, t) == t.kind = kind /\ \E u \in units : Covers(t, u)

\* Timer::is_due and Timer::missed.
IsDue(t, now)  == t.due <= now
Missed(t, now) == t.kind = "start" /\ now > t.due + Grace

\* store::save: the document is written beside the file and renamed onto it.
\* It can fail before the rename, or after it (set_mode), and says so.
Saves(doc) == disk' = doc /\ UNCHANGED failures
SaveFails(doc) ==
    /\ failures < MaxFailures
    /\ failures' = failures + 1
    /\ disk' \in {disk, doc}

Over(ids) == over' = over \cup ids
-----------------------------------------------------------------------------
Init ==
    /\ clock = 0 /\ known \in SUBSET Units
    /\ mem = {} /\ disk = {}
    /\ made = 0 /\ changes = 0 /\ failures = 0 /\ restarts = 0
    /\ phase = "asleep" /\ at = 0
    /\ due = {} /\ todo = {} /\ doing = NoTimer /\ targets = {}
    /\ verdict = [i \in Ids |-> "none"]
    /\ over = {}
    /\ quiet = {}
    /\ tries = [i \in Ids |-> [u \in Units |-> 0]]

\* POST /api/timers, under the store's write lock: the timers it displaces are
\* dropped, it is added, and all is saved; if that fails it is taken out again.
\*   Mutant: it stays in memory.
KeepsWhenUnsaved(kept, t) == kept \cup {t}
RollBack(kept, t) == kept

Create(kind, units, delay) ==
    /\ made < MaxTimers
    /\ units \subseteq known
    /\ clock + delay <= MaxClock
    /\ made' = made + 1
    /\ LET t    == [id |-> made + 1, kind |-> kind, units |-> units, due |-> clock + delay]
           out  == {o \in mem : Displaces(kind, units, o)}
           kept == mem \ out
       IN  \/ /\ Saves(kept \cup {t})
              /\ mem' = kept \cup {t}
              /\ verdict' = [verdict EXCEPT ![t.id] = "accepted"]
              /\ Over(IdsOf(out))
           \/ /\ SaveFails(kept \cup {t})
              /\ mem' = RollBack(kept, t)
              /\ verdict' = [verdict EXCEPT ![t.id] = "refused"]
              /\ UNCHANGED over
    /\ UNCHANGED <<clock, unitVars, restarts, runnerVars, quiet, tries>>

\* DELETE /api/timers/{id}: 204, or 500 when the file cannot be written; the
\* timer is out of memory either way.
\*   Mutant: nobody saves.
CancelUnsaved(t) ==
    /\ t \in mem
    /\ mem' = mem \ {t}
    /\ Over({t.id})
    /\ quiet' = IF IsDue(t, clock) THEN quiet ELSE quiet \cup {t.id}
    /\ UNCHANGED <<clock, unitVars, disk, failures, made, restarts, runnerVars, verdict, tries>>
Cancel(t) ==
    /\ t \in mem
    /\ mem' = mem \ {t}
    /\ \/ /\ Saves(mem \ {t})
          /\ quiet' = IF IsDue(t, clock) THEN quiet ELSE quiet \cup {t.id}
       \/ SaveFails(mem \ {t}) /\ UNCHANGED quiet
    /\ Over({t.id})
    /\ UNCHANGED <<clock, unitVars, made, restarts, runnerVars, verdict, tries>>
-----------------------------------------------------------------------------
(* run_once.                                                               *)

\* What is due is copied under the read lock; nothing due, nothing done.
RunnerWakes ==
    /\ phase = "asleep"
    /\ due' = {t \in mem : IsDue(t, clock)}
    /\ due' # {}
    /\ todo' = due'
    /\ at' = clock
    /\ phase' = "firing"
    /\ UNCHANGED <<clock, unitVars, storeVars, made, restarts, doing, targets, historyVars>>

\* The timers in creation order.
First(timers) == CHOOSE t \in timers : \A o \in timers : t.id <= o.id

SkipMissed ==
    /\ phase = "firing" /\ doing = NoTimer /\ todo # {}
    /\ Missed(First(todo), at)
    /\ todo' = todo \ {First(todo)}
    /\ Over({First(todo).id})
    /\ UNCHANGED <<clock, unitVars, storeVars, made, restarts, phase, at, due, doing, targets,
                   verdict, quiet, tries>>

Begin ==
    /\ phase = "firing" /\ doing = NoTimer /\ todo # {}
    /\ ~Missed(First(todo), at)
    /\ doing' = First(todo)
    /\ targets' = IF doing'.units = {} THEN known ELSE doing'.units
    /\ UNCHANGED <<clock, unitVars, storeVars, made, restarts, phase, at, due, todo, historyVars>>

\* control::apply: a unit that is gone gets no command; whatever comes of the
\* command, the next unit is next.
Fire(u) ==
    /\ phase = "firing" /\ u \in targets
    /\ targets' = targets \ {u}
    /\ tries' = IF u \in known THEN [tries EXCEPT ![doing.id][u] = @ + 1] ELSE tries
    /\ UNCHANGED <<clock, unitVars, storeVars, made, restarts, phase, at, due, todo, doing,
                   verdict, over, quiet>>

Fired ==
    /\ phase = "firing" /\ doing # NoTimer /\ targets = {}
    /\ todo' = todo \ {doing}
    /\ doing' = NoTimer
    /\ Over({doing.id})
    /\ UNCHANGED <<clock, unitVars, storeVars, made, restarts, phase, at, due, targets,
                   verdict, quiet, tries>>

\* Everything found due is removed by id, in one write; a failed write is only
\* logged.
\*   Mutants: what is due by now is removed; what was missed is kept; memory is
\*   left alone when the write fails.
RemovesDueByNow == {t \in mem : ~IsDue(t, clock)}
KeepsMissed     == {t \in mem : t.id \notin IdsOf(due) \/ Missed(t, at)}
Remaining == {t \in mem : t.id \notin IdsOf(due)}

ForgetIfSaved ==
    /\ phase = "firing" /\ doing = NoTimer /\ todo = {}
    /\ \/ mem' = Remaining /\ Saves(Remaining)
       \/ UNCHANGED mem /\ SaveFails(Remaining)
    /\ phase' = "asleep"
    /\ due' = {} /\ at' = 0
    /\ UNCHANGED <<clock, unitVars, made, restarts, todo, doing, targets, historyVars>>
Forget ==
    /\ phase = "firing" /\ doing = NoTimer /\ todo = {}
    /\ mem' = Remaining
    /\ Saves(Remaining) \/ SaveFails(Remaining)
    /\ phase' = "asleep"
    /\ due' = {} /\ at' = 0
    /\ UNCHANGED <<clock, unitVars, made, restarts, todo, doing, targets, historyVars>>
-----------------------------------------------------------------------------
Tick ==
    /\ clock < MaxClock
    /\ clock' = clock + 1
    /\ UNCHANGED <<unitVars, storeVars, made, restarts, runnerVars, historyVars>>

\* config_routes: units come and go; their timers stay.
AddUnit(u) ==
    /\ u \notin known /\ changes < MaxChanges
    /\ changes' = changes + 1
    /\ known' = known \cup {u}
    /\ UNCHANGED <<clock, storeVars, made, restarts, runnerVars, historyVars>>

RemoveUnit(u) ==
    /\ u \in known /\ changes < MaxChanges
    /\ changes' = changes + 1
    /\ known' = known \ {u}
    /\ UNCHANGED <<clock, storeVars, made, restarts, runnerVars, historyVars>>

\* The process ends, anywhere, and a new one loads the file (AppState::load).
Restart ==
    /\ restarts < MaxRestarts
    /\ restarts' = restarts + 1
    /\ mem' = disk
    /\ phase' = "asleep" /\ at' = 0
    /\ due' = {} /\ todo' = {} /\ doing' = NoTimer /\ targets' = {}
    /\ UNCHANGED <<clock, unitVars, disk, failures, made, historyVars>>

Runner == RunnerWakes \/ SkipMissed \/ Begin \/ (\E u \in Units : Fire(u)) \/ Fired \/ Forget

\* Nothing is pending and nothing will be asked for.
Rest == mem = {} /\ phase = "asleep" /\ UNCHANGED vars

Next ==
    \/ \E kind \in Kinds, units \in UnitSets, delay \in Delays : Create(kind, units, delay)
    \/ \E t \in mem : Cancel(t)
    \/ Runner
    \/ Tick
    \/ \E u \in Units : AddUnit(u) \/ RemoveUnit(u)
    \/ Restart
    \/ Rest

Spec == Init /\ [][Next]_vars
-----------------------------------------------------------------------------
(* Properties.                                                             *)

\* Every variable holds a value of its kind.
TypeOK ==
    /\ clock \in Nat /\ known \subseteq Units /\ changes \in Nat
    /\ mem \subseteq Timer /\ disk \subseteq Timer
    /\ made \in 0 .. MaxTimers /\ failures \in Nat /\ restarts \in Nat
    /\ phase \in {"asleep", "firing"} /\ at \in Nat
    /\ due \subseteq Timer /\ todo \subseteq due
    /\ doing \in {NoTimer} \cup todo /\ targets \subseteq Units
    /\ verdict \in [Ids -> {"none", "accepted", "refused"}]
    /\ over \subseteq Ids
    /\ quiet \subseteq Ids
    /\ tries \in [Ids -> [Units -> Nat]]

\* create ("or the API would report a timer that vanishes on restart"): what
\* the server lists, the file holds, whichever writes have failed.
ReportedSurvives == mem \subseteq disk

\* TimerKind ("a unit has at most one of each"), for the timers whose request
\* named its units.
OnePerUnit ==
    \A s, t \in mem : s.kind = t.kind /\ s.id < t.id /\ t.units # {} =>
                        ~\E u \in t.units : Covers(s, u)

\* run_once ("a timer that fires must not fire twice"): while the server runs, no
\* unit gets the command of one timer twice, failed writes or not; a process that ends
\* between the commands and the write that forgets them costs one more each time.
FiresOnce == \A i \in Ids, u \in Units : tries[i][u] <= 1 + restarts

\* A timer cancelled (204) before it was due never reaches a unit, whatever
\* pass was under way and however often the server restarts.
CancelledStaysQuiet == \A i \in quiet, u \in Units : tries[i][u] = 0

\* AppState ("a timer is a promise that must survive a restart"): with a disk
\* that can be written, a timer the server accepted is still pending unless it
\* was fired, missed, cancelled, or displaced by one the server accepted too.
NoPromiseLost ==
    failures = 0 =>
        \A i \in Ids : verdict[i] = "accepted" /\ i \notin IdsOf(mem) => i \in over

\* run_once ("fire whatever is due, then forget it"): when a pass ends, nothing that
\* was due when it began is pending, be it fired, missed or cancelled meanwhile.
PassLeavesNothingDue ==
    [][phase = "firing" /\ phase' = "asleep" /\ restarts' = restarts =>
          \A t \in mem' : ~IsDue(t, at)]_vars
=============================================================================
