----------------------------- MODULE TimersProofs -----------------------------
(***************************************************************************)
(* Proofs about Timers, for any set of units, any delays and grace, and any *)
(* bounds.                                                                 *)
(***************************************************************************)
EXTENDS Timers, WellFoundedInduction, TLAPS

\* An id names one timer, wherever it still is, and ids are handed out once.
Numbered ==
    /\ \A t \in disk \cup due : t.id <= made
    /\ \A s, t \in disk \cup due : s.id = t.id => s = t

\* OnePerUnit, of any set of timers.
OneEach(timers) ==
    \A s, t \in timers : s.kind = t.kind /\ s.id < t.id /\ t.units # {} =>
                           ~\E u \in t.units : Covers(s, u)

\* A pass works through all that was due when it began, and nothing else; what
\* it has come past is over.
PassUnderWay ==
    /\ at <= clock
    /\ phase = "asleep" => due = {}
    /\ phase = "firing" => \A t \in mem : IsDue(t, at) => t \in due
    /\ \A t \in due : IsDue(t, at)
    /\ \A t \in due \ todo : t.id \in over
    /\ targets # {} => doing \in todo

\* Only a timer that is due reaches a unit.
TriedWhenDue ==
    \A i \in Ids, u \in Units : tries[i][u] > 0 =>
        /\ i <= made
        /\ \A t \in disk \cup due : t.id = i => IsDue(t, clock)

\* What was cancelled in time is nowhere any more.
QuietAreGone ==
    \A i \in quiet : /\ i <= made
                     /\ \A t \in disk \cup due : t.id # i
                     /\ \A u \in Units : tries[i][u] = 0

\* A timer that reached a unit since the last restart is one the pass has come past,
\* or the one it is at, with that unit behind it.
TriedOnce ==
    /\ \A i \in Ids, u \in Units : tries[i][u] <= 1 + restarts
    /\ \A t \in mem \cup due, u \in Units : tries[t.id][u] > restarts =>
           t \in due /\ (t \in todo => t = doing /\ u \notin targets)

\* Without failed writes, the file is what memory is, and an accepted timer is
\* pending or over.
PromisesKept == (failures = 0 => mem = disk) /\ NoPromiseLost

TimerInvariant ==
    /\ TypeOK /\ ReportedSurvives /\ Numbered /\ OneEach(disk)
    /\ PassUnderWay /\ TriedWhenDue /\ QuietAreGone /\ TriedOnce /\ PromisesKept
-----------------------------------------------------------------------------
LEMMA FirstIsOne ==
    ASSUME NEW timers \in SUBSET Timer, timers # {}
    PROVE  First(timers) \in timers
<1> DEFINE Before == OpToRel(<, Nat)
<1> DEFINE numbers == {t.id : t \in timers}
<1>1. \A x, y \in Nat : <<x, y>> \in Before <=> x < y
    BY DEF OpToRel
<1>2. IsWellFoundedOn(Before, Nat)
    BY NatLessThanWellFounded
<1>3. numbers \subseteq Nat /\ numbers # {}
    BY BoundAssumption DEF Timer, Ids
<1> HIDE DEF Before, numbers
<1>4. \E x \in numbers : \A y \in numbers : ~(<<y, x>> \in Before)
    BY <1>2, <1>3, WFMin
<1>5. \E x \in numbers : \A y \in numbers : x <= y
    <2>1. PICK x \in numbers : \A y \in numbers : ~(<<y, x>> \in Before)
        BY <1>4
    <2>2. ASSUME NEW y \in numbers PROVE x <= y
        <3>1. x \in Nat /\ y \in Nat
            BY <1>3
        <3>2. ~(y < x)
            BY <1>1, <2>1, <3>1
        <3> QED
            BY <3>1, <3>2
    <2> QED
        BY <2>2
<1>6. \E t \in timers : \A o \in timers : t.id <= o.id
    BY <1>5 DEF numbers
<1> QED
    BY <1>6 DEF First

LEMMA Beginning == Init => TimerInvariant
BY BoundAssumption, UnitAssumption
DEF Init, TimerInvariant, TypeOK, ReportedSurvives, Numbered, OneEach, PassUnderWay, TriedWhenDue,
    QuietAreGone, TriedOnce, PromisesKept, NoPromiseLost, IdsOf

\* The world's steps leave what the invariant is about alone, or let time pass.
LEMMA TickStep == TimerInvariant /\ Tick => TimerInvariant'
<1> SUFFICES ASSUME TimerInvariant, Tick PROVE TimerInvariant'
    OBVIOUS
<1> USE DEF TimerInvariant, Tick, storeVars, unitVars, runnerVars, historyVars
<1>1. TypeOK' /\ clock' = clock + 1 /\ clock \in Nat /\ at \in Nat
    BY DEF TypeOK
<1>2. \A t \in disk \cup due : t.due \in Nat
    BY DEF TypeOK, Timer
<1>3. \A t \in disk \cup due : IsDue(t, clock) => IsDue(t, clock')
    BY <1>1, <1>2 DEF IsDue
<1>4. PassUnderWay'
    BY <1>1 DEF PassUnderWay, IsDue
<1>5. TriedWhenDue'
    BY <1>3 DEF TriedWhenDue
<1> QED
    BY <1>1, <1>4, <1>5
    DEF ReportedSurvives, Numbered, OneEach, Covers, QuietAreGone, TriedOnce, PromisesKept, NoPromiseLost, IdsOf

LEMMA UnitStep == TimerInvariant /\ (\E u \in Units : AddUnit(u) \/ RemoveUnit(u)) => TimerInvariant'
<1> SUFFICES ASSUME TimerInvariant, NEW u \in Units, AddUnit(u) \/ RemoveUnit(u) PROVE TimerInvariant'
    OBVIOUS
<1> USE DEF TimerInvariant, AddUnit, RemoveUnit, storeVars, runnerVars, historyVars
<1>1. TypeOK'
    BY DEF TypeOK
<1> QED
    BY <1>1
    DEF ReportedSurvives, Numbered, OneEach, Covers, PassUnderWay, TriedWhenDue, QuietAreGone, TriedOnce,
        PromisesKept, NoPromiseLost, IdsOf, IsDue

\* Everything in memory goes; what is loaded is the file, which was no smaller.
LEMMA RestartStep == TimerInvariant /\ Restart => TimerInvariant'
<1> SUFFICES ASSUME TimerInvariant, Restart PROVE TimerInvariant'
    OBVIOUS
<1> USE DEF TimerInvariant, Restart, unitVars, historyVars
<1>1. TypeOK'
    BY DEF TypeOK
<1>2. restarts \in Nat /\ restarts' = restarts + 1
    BY DEF TypeOK
<1>3. ReportedSurvives' /\ Numbered' /\ OneEach(disk)'
    BY DEF ReportedSurvives, Numbered, OneEach, Covers
<1>4. PassUnderWay'
    BY DEF PassUnderWay, IsDue, TypeOK
<1>5. TriedWhenDue' /\ QuietAreGone'
    BY DEF TriedWhenDue, QuietAreGone, IsDue
<1>6. TriedOnce'
    <2>1. \A i \in Ids, u \in Units : tries[i][u] \in Nat
        BY DEF TypeOK
    <2>2. \A t \in mem' : t.id \in Ids
        BY DEF TypeOK, Timer
    <2> QED
        BY <1>2, <2>1, <2>2 DEF TriedOnce
<1>7. PromisesKept'
    BY DEF PromisesKept, NoPromiseLost, IdsOf
<1> QED
    BY <1>1, <1>3, <1>4, <1>5, <1>6, <1>7

\* The pass begins with what memory has, which is on disk.
LEMMA WakeStep == TimerInvariant /\ RunnerWakes => TimerInvariant'
<1> SUFFICES ASSUME TimerInvariant, RunnerWakes PROVE TimerInvariant'
    OBVIOUS
<1> USE DEF TimerInvariant, RunnerWakes, unitVars, storeVars, historyVars
<1>1. TypeOK'
    BY DEF TypeOK, PassUnderWay
<1>2. due = {} /\ due' \subseteq mem /\ due' \subseteq disk
    BY DEF PassUnderWay, ReportedSurvives
<1>3. ReportedSurvives' /\ Numbered' /\ OneEach(disk)'
    BY <1>2 DEF ReportedSurvives, Numbered, OneEach, Covers
<1>4. PassUnderWay'
    BY DEF PassUnderWay, IsDue, TypeOK
<1>5. TriedWhenDue' /\ QuietAreGone'
    BY <1>2 DEF TriedWhenDue, QuietAreGone, IsDue
<1>6. TriedOnce'
    BY <1>2 DEF TriedOnce
<1>7. PromisesKept'
    BY DEF PromisesKept, NoPromiseLost, IdsOf
<1> QED
    BY <1>1, <1>3, <1>4, <1>5, <1>6, <1>7

LEMMA SkipStep == TimerInvariant /\ SkipMissed => TimerInvariant'
<1> SUFFICES ASSUME TimerInvariant, SkipMissed PROVE TimerInvariant'
    OBVIOUS
<1> USE DEF TimerInvariant, SkipMissed, unitVars, storeVars, Over
<1>1. First(todo) \in todo /\ todo \subseteq due /\ First(todo).id \in Ids
    BY FirstIsOne DEF TypeOK, Timer
<1>2. TypeOK'
    BY <1>1 DEF TypeOK
<1>3. ReportedSurvives' /\ Numbered' /\ OneEach(disk)'
    BY DEF ReportedSurvives, Numbered, OneEach, Covers
<1>4. PassUnderWay'
    <2>1. doing \notin todo
        BY UnitAssumption DEF TypeOK
    <2>2. \A t \in due \ todo' : t.id \in over'
        BY <1>1 DEF PassUnderWay, TypeOK, Timer
    <2> QED
        BY <2>1, <2>2 DEF PassUnderWay, IsDue, TypeOK
<1>5. TriedWhenDue' /\ QuietAreGone'
    BY DEF TriedWhenDue, QuietAreGone, IsDue
<1>6. TriedOnce'
    BY DEF TriedOnce
<1>7. PromisesKept'
    BY DEF PromisesKept, NoPromiseLost, IdsOf, TypeOK
<1> QED
    BY <1>2, <1>3, <1>4, <1>5, <1>6, <1>7

LEMMA BeginStep == TimerInvariant /\ Begin => TimerInvariant'
<1> SUFFICES ASSUME TimerInvariant, Begin PROVE TimerInvariant'
    OBVIOUS
<1> USE DEF TimerInvariant, Begin, unitVars, storeVars, historyVars
<1>1. First(todo) \in todo /\ First(todo) \in Timer
    BY FirstIsOne DEF TypeOK
<1>2. TypeOK'
    BY <1>1 DEF TypeOK, Timer
<1>3. ReportedSurvives' /\ Numbered' /\ OneEach(disk)'
    BY DEF ReportedSurvives, Numbered, OneEach, Covers
<1>4. PassUnderWay'
    BY <1>1 DEF PassUnderWay, IsDue
<1>5. TriedWhenDue' /\ QuietAreGone'
    BY DEF TriedWhenDue, QuietAreGone, IsDue
<1>6. TriedOnce'
    BY UnitAssumption DEF TriedOnce, TypeOK
<1>7. PromisesKept'
    BY DEF PromisesKept, NoPromiseLost, IdsOf
<1> QED
    BY <1>2, <1>3, <1>4, <1>5, <1>6, <1>7

\* A command: the timer is due, no other has its id, and this unit was ahead.
LEMMA FireStep == TimerInvariant /\ (\E u \in Units : Fire(u)) => TimerInvariant'
<1> SUFFICES ASSUME TimerInvariant, NEW u \in Units, Fire(u) PROVE TimerInvariant'
    OBVIOUS
<1> USE DEF TimerInvariant, Fire, unitVars, storeVars
<1>1. doing \in todo /\ doing \in due /\ doing \in Timer /\ doing.id \in Ids
    BY DEF PassUnderWay, TypeOK, Timer
<1>2. /\ TypeOK'
      /\ \A i \in Ids, v \in Units :
            \/ tries'[i][v] = tries[i][v]
            \/ i = doing.id /\ v = u /\ tries'[i][v] = tries[i][v] + 1
    BY <1>1 DEF TypeOK
<1>3. ReportedSurvives' /\ Numbered' /\ OneEach(disk)'
    BY DEF ReportedSurvives, Numbered, OneEach, Covers
<1>4. PassUnderWay'
    BY DEF PassUnderWay, IsDue
<1>5. TriedWhenDue'
    <2>1. doing.id <= made /\ \A t \in disk \cup due : t.id = doing.id => t = doing
        BY <1>1 DEF Numbered
    <2>2. IsDue(doing, clock)
        BY <1>1 DEF PassUnderWay, IsDue, TypeOK, Timer
    <2> QED
        BY <1>2, <2>1, <2>2 DEF TriedWhenDue, IsDue
<1>6. QuietAreGone'
    BY <1>1, <1>2 DEF QuietAreGone, TypeOK
<1>7. TriedOnce'
    <2>1. ~(tries[doing.id][u] > restarts) /\ tries[doing.id][u] \in Nat /\ restarts \in Nat
        BY <1>1 DEF TriedOnce, TypeOK
    <2>2. ASSUME NEW t \in mem \cup due, NEW v \in Units, tries'[t.id][v] > restarts
          PROVE  t \in due /\ (t \in todo => t = doing /\ v \notin targets')
        <3>1. t \in Timer /\ t.id \in Ids
            BY DEF TypeOK, Timer
        <3>2. CASE t.id = doing.id /\ v = u
            BY <1>1, <3>2 DEF Numbered, ReportedSurvives
        <3>3. CASE tries'[t.id][v] = tries[t.id][v]
            BY <2>2, <3>3 DEF TriedOnce
        <3> QED
            BY <1>2, <3>1, <3>2, <3>3
    <2> QED
        BY <1>2, <2>1, <2>2 DEF TriedOnce, TypeOK
<1>8. PromisesKept'
    BY DEF PromisesKept, NoPromiseLost, IdsOf
<1> QED
    BY <1>2, <1>3, <1>4, <1>5, <1>6, <1>7, <1>8

LEMMA FiredStep == TimerInvariant /\ Fired => TimerInvariant'
<1> SUFFICES ASSUME TimerInvariant, Fired PROVE TimerInvariant'
    OBVIOUS
<1> USE DEF TimerInvariant, Fired, unitVars, storeVars, Over
<1>1. doing \in todo /\ doing.id \in Ids
    BY DEF TypeOK, Timer
<1>2. TypeOK'
    BY <1>1 DEF TypeOK
<1>3. ReportedSurvives' /\ Numbered' /\ OneEach(disk)'
    BY DEF ReportedSurvives, Numbered, OneEach, Covers
<1>4. PassUnderWay'
    <2>1. \A t \in due \ todo' : t.id \in over'
        BY <1>1 DEF PassUnderWay, TypeOK, Timer
    <2> QED
        BY <2>1 DEF PassUnderWay, IsDue
<1>5. TriedWhenDue' /\ QuietAreGone'
    BY DEF TriedWhenDue, QuietAreGone, IsDue
<1>6. TriedOnce'
    BY DEF TriedOnce
<1>7. PromisesKept'
    BY DEF PromisesKept, NoPromiseLost, IdsOf, TypeOK
<1> QED
    BY <1>2, <1>3, <1>4, <1>5, <1>6, <1>7

\* The end of a pass: memory loses exactly what the pass has come past.
LEMMA ForgetStep == TimerInvariant /\ Forget => TimerInvariant'
<1> SUFFICES ASSUME TimerInvariant, Forget PROVE TimerInvariant'
    OBVIOUS
<1> USE DEF TimerInvariant, Forget, unitVars, historyVars, Remaining, IdsOf
<1>1. /\ mem' \subseteq mem /\ mem' \subseteq disk' /\ disk' \subseteq disk
      /\ failures' \in Nat
      /\ failures' = 0 => failures = 0 /\ disk' = mem'
    BY DEF Saves, SaveFails, ReportedSurvives, TypeOK
<1>2. TypeOK'
    BY <1>1 DEF TypeOK
<1>3. ReportedSurvives' /\ Numbered' /\ OneEach(disk)'
    BY <1>1 DEF ReportedSurvives, Numbered, OneEach, Covers
<1>4. PassUnderWay'
    BY DEF PassUnderWay, IsDue, TypeOK
<1>5. TriedWhenDue' /\ QuietAreGone'
    BY <1>1 DEF TriedWhenDue, QuietAreGone, IsDue
<1>6. TriedOnce'
    BY DEF TriedOnce
<1>7. PromisesKept'
    <2>1. \A t \in due : t.id \in over
        BY DEF PassUnderWay
    <2> QED
        BY <1>1, <2>1 DEF PromisesKept, NoPromiseLost
<1> QED
    BY <1>2, <1>3, <1>4, <1>5, <1>6, <1>7

LEMMA CancelStep == TimerInvariant /\ (\E t \in mem : Cancel(t)) => TimerInvariant'
<1> SUFFICES ASSUME TimerInvariant, NEW t \in mem, Cancel(t) PROVE TimerInvariant'
    OBVIOUS
<1> USE DEF TimerInvariant, Cancel, unitVars, runnerVars
<1>0. t \in Timer /\ t.id \in Ids /\ t \in disk
    BY DEF TypeOK, Timer, ReportedSurvives
<1>1. /\ mem' = mem \ {t} /\ mem' \subseteq disk' /\ disk' \subseteq disk
      /\ failures' \in Nat
      /\ failures' = 0 => failures = 0 /\ disk' = mem'
    BY DEF Saves, SaveFails, ReportedSurvives, TypeOK
<1>2. over' = over \cup {t.id} /\ over' \subseteq Ids
    BY <1>0 DEF Over, TypeOK
<1>3. \/ quiet' = quiet
      \/ quiet' = quiet \cup {t.id} /\ disk' = mem \ {t} /\ ~IsDue(t, clock)
    BY DEF Saves
<1>4. TypeOK'
    BY <1>0, <1>1, <1>2, <1>3 DEF TypeOK
<1>5. ReportedSurvives' /\ Numbered' /\ OneEach(disk)'
    BY <1>1 DEF ReportedSurvives, Numbered, OneEach, Covers
<1>6. PassUnderWay'
    <2>1. \A s \in due : s.id \in Ids
        BY DEF TypeOK, Timer
    <2> QED
        BY <1>1, <1>2, <2>1 DEF PassUnderWay, IsDue
<1>7. TriedWhenDue'
    BY <1>1 DEF TriedWhenDue, IsDue
<1>8. QuietAreGone'
    <2>1. CASE quiet' = quiet
        BY <1>1, <2>1 DEF QuietAreGone
    <2>2. CASE quiet' = quiet \cup {t.id} /\ disk' = mem \ {t} /\ ~IsDue(t, clock)
        <3>1. t \notin due
            BY <1>0, <2>2 DEF PassUnderWay, IsDue, TypeOK, Timer
        <3>2. \A s \in disk' \cup due : s.id # t.id
            BY <1>0, <1>1, <2>2, <3>1 DEF Numbered
        <3>3. \A u \in Units : tries[t.id][u] = 0
            BY <1>0, <2>2 DEF TriedWhenDue, TypeOK
        <3> QED
            BY <1>0, <1>1, <2>2, <3>2, <3>3 DEF QuietAreGone, Numbered
    <2> QED
        BY <1>3, <2>1, <2>2
<1>9. TriedOnce'
    BY <1>1 DEF TriedOnce
<1>10. PromisesKept'
    <2>1. \A i \in Ids : i \in IdsOf(mem) => i \in IdsOf(mem') \/ i = t.id
        BY <1>1 DEF IdsOf
    <2> QED
        BY <1>0, <1>1, <1>2, <2>1 DEF PromisesKept, NoPromiseLost
<1> QED
    BY <1>4, <1>5, <1>6, <1>7, <1>8, <1>9, <1>10

\* A new timer has the next id, is not due yet, and finds no other for its units.
LEMMA CreateStep ==
    ASSUME TimerInvariant,
           NEW kind \in Kinds, NEW units \in UnitSets, NEW delay \in Delays, Create(kind, units, delay)
    PROVE  TimerInvariant'
<1> USE DEF TimerInvariant, unitVars, runnerVars
<1> DEFINE t    == [id |-> made + 1, kind |-> kind, units |-> units, due |-> clock + delay]
           out  == {o \in mem : Displaces(kind, units, o)}
           kept == mem \ out
<1>1. /\ t \in Timer /\ made' = made + 1 /\ made' \in Ids /\ made \in Nat
      /\ t.id = made' /\ t.units = units /\ t.kind = kind /\ ~IsDue(t, clock)
      /\ clock \in Nat /\ t.due \in Nat
    BY UnitAssumption, DelayAssumption, BoundAssumption DEF Create, TypeOK, Timer, Ids, IsDue
<1>2. UNCHANGED <<clock, unitVars, restarts, runnerVars, quiet, tries>>
    BY DEF Create
<1>3. \/ /\ mem' = kept \cup {t} /\ disk' = kept \cup {t} /\ failures' = failures
         /\ verdict' = [verdict EXCEPT ![t.id] = "accepted"]
         /\ Over(IdsOf(out)) /\ failures' \in Nat
      \/ /\ mem' = kept /\ disk' \in {disk, kept \cup {t}} /\ failures' = failures + 1
         /\ verdict' = [verdict EXCEPT ![t.id] = "refused"]
         /\ over' = over /\ failures' \in Nat \ {0}
    BY DEF TypeOK, Create, Saves, SaveFails, RollBack
<1>4. kept \subseteq mem /\ kept \subseteq disk /\ out \subseteq mem
    BY DEF ReportedSurvives
<1>5. \A o \in disk \cup due : o.id <= made /\ o \in Timer /\ o.id \in Nat
    BY DEF Numbered, TypeOK, Timer, Ids
<1>6. \A o \in kept : o.kind = kind => ~\E u \in units : Covers(o, u)
    BY DEF Displaces
<1> HIDE DEF t, out, kept
<1>7. disk' \subseteq disk \cup {t} /\ mem' \subseteq mem \cup {t} /\ mem' \subseteq disk'
    BY <1>3, <1>4
<1>8. over' \subseteq Ids /\ over \subseteq over'
    <2>1. IdsOf(out) \subseteq Ids
        BY <1>4 DEF IdsOf, TypeOK, Timer
    <2> QED
        BY <1>3, <2>1 DEF Over, TypeOK
<1>9. TypeOK'
    <2>1. /\ verdict' \in [Ids -> {"none", "accepted", "refused"}] /\ failures' \in Nat
          /\ mem' \subseteq Timer /\ disk' \subseteq Timer /\ made' \in 0 .. MaxTimers
        <3>1. verdict' \in [Ids -> {"none", "accepted", "refused"}]
            BY <1>1, <1>3 DEF TypeOK
        <3>2. mem \subseteq Timer /\ disk \subseteq Timer
            BY DEF TypeOK
        <3>3. mem' \subseteq Timer /\ disk' \subseteq Timer
            BY <1>1, <1>7, <3>2
        <3>4. made' \in 0 .. MaxTimers
            BY <1>1, BoundAssumption DEF Ids
        <3> QED
            BY <1>3, <3>1, <3>3, <3>4
    <2> QED
        BY <1>2, <1>8, <2>1 DEF TypeOK
<1>10. ReportedSurvives'
    BY <1>7 DEF ReportedSurvives
<1>11. Numbered'
    BY <1>1, <1>2, <1>5, <1>7 DEF Numbered
<1>12. OneEach(disk)'
    <2> SUFFICES ASSUME NEW s \in disk', NEW r \in disk',
                        s.kind = r.kind, s.id < r.id, r.units # {}, NEW u \in r.units, Covers(s, u)
                 PROVE  FALSE
        BY DEF OneEach, Covers
    <2>1. CASE disk' = disk
        BY <2>1 DEF OneEach
    <2>2. CASE disk' = kept \cup {t}
        <3>1. CASE r = t
            <4>1. s # t /\ s \in kept
                BY <1>1, <2>2, <3>1
            <4> QED
                BY <1>1, <1>6, <3>1, <4>1
        <3>2. CASE r # t
            <4>1. s # t
                BY <1>1, <1>4, <1>5, <2>2, <3>2
            <4> QED
                BY <1>4, <2>2, <3>2, <4>1 DEF OneEach
        <3> QED
            BY <3>1, <3>2
    <2> QED
        BY <1>3, <2>1, <2>2
<1>13. PassUnderWay'
    <2>1. \A o \in mem' : IsDue(o, at) => o \in mem
        BY <1>1, <1>7 DEF PassUnderWay, IsDue, TypeOK
    <2>2. \A o \in due : o.id \in Ids
        BY DEF TypeOK, Timer
    <2> QED
        BY <1>2, <1>8, <2>1, <2>2 DEF PassUnderWay, IsDue
<1>14. TriedWhenDue'
    BY <1>1, <1>2, <1>7 DEF TriedWhenDue, IsDue, TypeOK, Ids
<1>15. QuietAreGone'
    BY <1>1, <1>2, <1>7 DEF QuietAreGone, TypeOK, Ids
<1>16. TriedOnce'
    <2>1. restarts \in Nat /\ \A u \in Units : tries[t.id][u] = 0
        BY <1>1 DEF TriedWhenDue, TypeOK, Ids
    <2> QED
        BY <1>2, <1>7, <2>1 DEF TriedOnce
<1>17. PromisesKept'
    <2> SUFFICES ASSUME failures' = 0
                 PROVE  /\ mem' = disk'
                        /\ \A i \in Ids : verdict'[i] = "accepted" /\ i \notin IdsOf(mem') => i \in over'
        BY DEF PromisesKept, NoPromiseLost
    <2>1. /\ failures = 0 /\ mem' = kept \cup {t} /\ disk' = mem'
          /\ verdict' = [verdict EXCEPT ![t.id] = "accepted"]
          /\ Over(IdsOf(out))
        <3>1. ~(failures' \in Nat \ {0}) /\ (failures' = failures => failures = 0)
            OBVIOUS
        <3> QED
            BY <1>3, <3>1, Zenon
    <2>2. ASSUME NEW i \in Ids, verdict'[i] = "accepted", i \notin IdsOf(mem') PROVE i \in over'
        <3>1. i # t.id /\ verdict[i] = "accepted"
            BY <1>1, <2>1, <2>2 DEF IdsOf, TypeOK
        <3>2. CASE i \in IdsOf(out)
            BY <2>1, <3>2 DEF Over
        <3>3. CASE i \notin IdsOf(out)
            <4>1. i \notin IdsOf(mem)
                BY <2>1, <2>2, <3>3 DEF IdsOf, kept
            <4> QED
                BY <1>8, <2>1, <3>1, <4>1 DEF PromisesKept, NoPromiseLost
        <3> QED
            BY <3>2, <3>3
    <2> QED
        BY <2>1, <2>2
<1> QED
    BY <1>9, <1>10, <1>11, <1>12, <1>13, <1>14, <1>15, <1>16, <1>17
-----------------------------------------------------------------------------
LEMMA Stutter == TimerInvariant /\ UNCHANGED vars => TimerInvariant'
BY DEF vars, storeVars, runnerVars, historyVars, unitVars, TimerInvariant, TypeOK, ReportedSurvives,
       Numbered, OneEach, Covers, PassUnderWay, TriedWhenDue, QuietAreGone, TriedOnce, PromisesKept,
       NoPromiseLost, IdsOf, IsDue

THEOREM Invariance == Spec => []TimerInvariant
<1>1. TimerInvariant /\ [Next]_vars => TimerInvariant'
    <2> SUFFICES ASSUME TimerInvariant, Next PROVE TimerInvariant'
        BY Stutter
    <2>1. ASSUME NEW kind \in Kinds, NEW units \in UnitSets, NEW delay \in Delays,
                 Create(kind, units, delay)
          PROVE  TimerInvariant'
        BY <2>1, CreateStep
    <2>2. CASE Runner
        BY <2>2, WakeStep, SkipStep, BeginStep, FireStep, FiredStep, ForgetStep DEF Runner
    <2>3. CASE Rest
        BY <2>3, Stutter DEF Rest
    <2> QED
        BY <2>1, <2>2, <2>3, CancelStep, TickStep, UnitStep, RestartStep DEF Next
<1> QED
    BY <1>1, Beginning, PTL DEF Spec

\* What GET /api/timers lists is in timers.json, whichever writes have failed, so a
\* restart brings it back.
THEOREM ListedSurvives == Spec => []ReportedSurvives
<1>1. TimerInvariant => ReportedSurvives
    BY DEF TimerInvariant
<1> QED
    BY <1>1, Invariance, PTL

\* No two pending timers of a kind meet at a unit that the later one names.
THEOREM AtMostOne == Spec => []OnePerUnit
<1>1. TimerInvariant => OnePerUnit
    BY DEF TimerInvariant, ReportedSurvives, OneEach, OnePerUnit
<1> QED
    BY <1>1, Invariance, PTL

\* The runner never sends the command of one timer to one unit twice, but for once more
\* each time the server restarts.
THEOREM NeverTwice == Spec => []FiresOnce
<1>1. TimerInvariant => FiresOnce
    BY DEF TimerInvariant, TriedOnce, FiresOnce
<1> QED
    BY <1>1, Invariance, PTL

\* A timer whose cancellation was confirmed before it was due reaches no unit, whatever
\* pass was under way, whatever write failed, whenever the server restarts.
THEOREM CancelledForGood == Spec => []CancelledStaysQuiet
<1>1. TimerInvariant => CancelledStaysQuiet
    BY DEF TimerInvariant, QuietAreGone, CancelledStaysQuiet
<1> QED
    BY <1>1, Invariance, PTL

\* As long as writes succeed, an accepted timer is pending or it is known what became
\* of it.
THEOREM PromiseKept == Spec => []NoPromiseLost
<1>1. TimerInvariant => NoPromiseLost
    BY DEF TimerInvariant, PromisesKept
<1> QED
    BY <1>1, Invariance, PTL

\* A pass leaves nothing behind that was due when it began.
THEOREM PassClears == Spec => PassLeavesNothingDue
<1>1. TimerInvariant /\ [Next]_vars =>
          [phase = "firing" /\ phase' = "asleep" /\ restarts' = restarts =>
               \A t \in mem' : ~IsDue(t, at)]_vars
    <2> SUFFICES ASSUME TimerInvariant, Next, phase = "firing", phase' = "asleep", restarts' = restarts,
                        NEW t \in mem', IsDue(t, at)
                 PROVE  FALSE
        OBVIOUS
    <2>1. Forget
        BY DEF Next, Runner, Create, Cancel, RunnerWakes, SkipMissed, Begin, Fire, Fired, Tick, AddUnit,
               RemoveUnit, Restart, Rest, vars, runnerVars, unitVars, TimerInvariant, TypeOK
    <2>2. t \in mem /\ t.id \notin IdsOf(due)
        BY <2>1 DEF Forget, Remaining
    <2> QED
        BY <2>2 DEF TimerInvariant, PassUnderWay, IdsOf
<1> QED
    BY <1>1, Invariance, PTL DEF Spec, PassLeavesNothingDue

\* Every variable keeps its type.
THEOREM TypeCorrect == Spec => []TypeOK
<1>1. TimerInvariant => TypeOK
    BY DEF TimerInvariant
<1> QED
    BY <1>1, Invariance, PTL
=============================================================================
