---------------------------- MODULE ThreadProofs ----------------------------
(***************************************************************************)
(* Proofs about the threads behind the server.  First Scheduler, for any   *)
(* units and programs, any length of a minute, a day, a nap and a pass,    *)
(* and any bounds; and where a curve of Programs is, for any number of     *)
(* points.  Then Server, for any number of workers and streams: who waits  *)
(* for whom among the threads of the scheduler, the timers and the others. *)
(***************************************************************************)
EXTENDS Scheduler, Server, SequenceTheorems, FiniteSetTheorems, WellFoundedInduction, TLAPS

\* The thread's minute is not ahead of the clock's.
ClockType == clock \in Nat /\ now \in Nat /\ now <= clock

\* No trigger was claimed for a minute to come, in a pass: to come after its own.
Claims ==
    \A key \in DOMAIN fired :
        /\ fired[key] \in Nat
        /\ fired[key] <= MinuteOf(clock)
        /\ phase = "pass" => fired[key] <= MinuteOf(now)

\* What fired was claimed, for that minute or by now for a later one.
Counted ==
    \A what \in DOMAIN firings :
        /\ firings[what] = 1
        /\ what[1] \in DOMAIN fired
        /\ what[2] \in Nat /\ what[2] <= fired[what[1]]

FiringInvariant == ClockType /\ Claims /\ Counted
-----------------------------------------------------------------------------
LEMMA MinutesInOrder ==
    ASSUME NEW a \in Nat, NEW b \in Nat, a <= b
    PROVE  MinuteOf(a) \in Nat /\ MinuteOf(b) \in Nat /\ MinuteOf(a) <= MinuteOf(b)
<1> DEFINE t == TicksPerMinute
<1>1. t \in Nat /\ t > 0
    BY TimeAssumption
<1>2. ASSUME NEW x \in Nat
      PROVE  /\ x \div t \in Nat
             /\ x % t \in 0 .. t - 1
             /\ x = t * (x \div t) + (x % t)
    BY <1>1
<1> DEFINE p == a \div t
           q == b \div t
<1>3. p \in Nat /\ q \in Nat /\ a >= t * p /\ b < t * q + t
    BY <1>1, <1>2
<1>4. ASSUME q < p PROVE FALSE
    <2>1. t * (q + 1) <= t * p
        BY <1>1, <1>3, <1>4
    <2> QED
        BY <1>1, <1>3, <2>1
<1> QED
    BY <1>3, <1>4 DEF MinuteOf

-----------------------------------------------------------------------------
(* A trigger fires once per minute.                                        *)

LEMMA FiringInit == Init => FiringInvariant
<1> SUFFICES ASSUME Init PROVE FiringInvariant
    OBVIOUS
<1>1. DOMAIN fired = {} /\ DOMAIN firings = {}
    BY DEF Init
<1> QED
    BY <1>1 DEF Init, FiringInvariant, ClockType, Claims, Counted

LEMMA FiringTrigger ==
    ASSUME FiringInvariant, Trigger PROVE FiringInvariant'
<1> USE DEF FiringInvariant, ClockType, Claims, Counted
<1>0. PICK i \in entries :
          /\ phase = "pass" /\ UNCHANGED <<clock, now, phase>>
          /\ IF Claimed(<<doing.id, i>>, MinuteOf(now)) THEN UNCHANGED <<fired, firings>>
             ELSE /\ fired' = Put(fired, <<doing.id, i>>, MinuteOf(now))
                  /\ firings' = Put(firings, <<<<doing.id, i>>, MinuteOf(now)>>,
                                    (IF <<<<doing.id, i>>, MinuteOf(now)>> \in DOMAIN firings
                                     THEN firings[<<<<doing.id, i>>, MinuteOf(now)>>] ELSE 0) + 1)
    BY DEF Trigger, storeVars, boundVars
<1> DEFINE key == <<doing.id, i>>
           minute == MinuteOf(now)
           what == <<key, minute>>
           times == IF what \in DOMAIN firings THEN firings[what] ELSE 0
<1>1. minute \in Nat /\ minute <= MinuteOf(clock)
    BY MinutesInOrder
<1>2. UNCHANGED <<clock, now, phase>> /\ phase = "pass"
    BY <1>0
<1>3. CASE Claimed(key, minute)
    <2>1. UNCHANGED <<fired, firings>>
        BY <1>0, <1>3
    <2> QED
        BY <1>2, <2>1 DEF MinuteOf
<1>4. CASE ~Claimed(key, minute)
    <2>1. fired' = Put(fired, key, minute) /\ firings' = Put(firings, what, times + 1)
        BY <1>0, <1>4
    <2>2. what \notin DOMAIN firings
        <3>1. what[1] = key /\ what[2] = minute
            OBVIOUS
        <3> HIDE DEF what, key, minute
        <3>2. ASSUME what \in DOMAIN firings PROVE Claimed(key, minute)
            <4>1. key \in DOMAIN fired /\ minute <= fired[key]
                BY <3>1, <3>2
            <4>2. fired[key] \in Nat /\ fired[key] <= minute
                BY <4>1, <1>2 DEF minute
            <4> QED
                BY <1>1, <4>1, <4>2 DEF Claimed
        <3> QED
            BY <1>4, <3>2
    <2>3. times + 1 = 1
        BY <2>2
    <2>4. Claims'
        <3> HIDE DEF key, minute
        <3> SUFFICES ASSUME NEW k \in DOMAIN fired'
                     PROVE  fired'[k] \in Nat /\ fired'[k] <= MinuteOf(clock)
                            /\ fired'[k] <= MinuteOf(now)
            BY <1>2 DEF MinuteOf
        <3>1. CASE k = key
            BY <3>1, <2>1, <1>1 DEF Put, minute
        <3>2. CASE k # key
            BY <3>2, <2>1, <1>2 DEF Put
        <3> QED
            BY <3>1, <3>2
    <2>5. Counted'
        <3>1. what[1] = key /\ what[2] = minute
            OBVIOUS
        <3> HIDE DEF what, key, minute, times
        <3> SUFFICES ASSUME NEW w \in DOMAIN firings'
                     PROVE  /\ firings'[w] = 1 /\ w[1] \in DOMAIN fired'
                            /\ w[2] \in Nat /\ w[2] <= fired'[w[1]]
            OBVIOUS
        <3>2. CASE w = what
            BY <3>1, <3>2, <2>1, <2>3, <1>1 DEF Put
        <3>3. CASE w # what
            <4>1. w \in DOMAIN firings /\ firings'[w] = firings[w]
                BY <3>3, <2>1 DEF Put
            <4>2. w[1] \in DOMAIN fired /\ w[2] <= fired[w[1]] /\ w[2] \in Nat
                BY <4>1
            <4>3. w[1] \in DOMAIN fired' /\ fired[w[1]] <= fired'[w[1]] /\ fired'[w[1]] \in Nat
                <5>1. CASE w[1] = key
                    BY <5>1, <4>2, <2>1, <1>1, <1>2 DEF Put, minute
                <5>2. CASE w[1] # key
                    BY <5>2, <4>2, <2>1 DEF Put
                <5> QED
                    BY <5>1, <5>2
            <4> QED
                BY <4>1, <4>2, <4>3
        <3> QED
            BY <3>2, <3>3
    <2> QED
        BY <1>2, <2>4, <2>5
<1> QED
    BY <1>3, <1>4

LEMMA FiringStep ==
    ASSUME FiringInvariant, [Next]_vars PROVE FiringInvariant'
<1> USE DEF storeVars, boundVars, passVars, memoryVars, historyVars
<1>1. CASE UNCHANGED <<clock, now, phase, fired, firings>>
    BY <1>1 DEF FiringInvariant, ClockType, Claims, Counted, MinuteOf
<1>2. CASE Wake
    <2>1. now' = clock /\ UNCHANGED <<clock, fired, firings>>
        BY <1>2 DEF Wake
    <2> QED
        BY <2>1 DEF FiringInvariant, ClockType, Claims, Counted, MinuteOf
<1>3. CASE Trigger
    BY <1>3, FiringTrigger
<1>4. CASE EndPass
    <2>1. now' = 0 /\ phase' = "asleep" /\ UNCHANGED <<clock, fired, firings>>
        BY <1>4 DEF EndPass
    <2> QED
        BY <2>1 DEF FiringInvariant, ClockType, Claims, Counted, MinuteOf
<1>5. CASE Tick
    <2>1. clock' = clock + 1 /\ UNCHANGED <<now, phase, fired, firings>>
        BY <1>5 DEF Tick
    <2>2. MinuteOf(clock) \in Nat /\ MinuteOf(clock') \in Nat /\ MinuteOf(clock) <= MinuteOf(clock')
        BY <2>1, MinutesInOrder DEF FiringInvariant, ClockType
    <2>3. ClockType' /\ Counted'
        BY <2>1 DEF FiringInvariant, ClockType, Counted
    <2>4. Claims'
        BY <2>1, <2>2 DEF FiringInvariant, Claims, MinuteOf
    <2> QED
        BY <2>3, <2>4 DEF FiringInvariant
<1>6. CASE Restart
    <2>1. now' = 0 /\ phase' = "asleep" /\ UNCHANGED clock /\ fired' = <<>> /\ firings' = <<>>
        BY <1>6 DEF Restart
    <2>2. DOMAIN fired' = {} /\ DOMAIN firings' = {}
        BY <2>1
    <2> QED
        BY <2>1, <2>2 DEF FiringInvariant, ClockType, Claims, Counted
<1>7. ASSUME NEW spec, NEW i, Create(spec) \/ Update(i, spec) \/ Delete(i)
      PROVE  UNCHANGED <<clock, now, phase, fired, firings>>
    BY <1>7 DEF Create, Update, Delete
<1>8. ASSUME NEW u, ApplyScene(u) \/ PassBy(u) \/ Follow(u) \/ Land(u) \/ Manual(u)
      PROVE  UNCHANGED <<clock, now, phase, fired, firings>>
    BY <1>8 DEF ApplyScene, PassBy, Follow, Land, ComeTo, Manual
<1>9. NextProgram \/ Rest \/ UNCHANGED vars => UNCHANGED <<clock, now, phase, fired, firings>>
    BY DEF NextProgram, Rest, vars
<1> QED
    BY <1>1, <1>2, <1>3, <1>4, <1>5, <1>6, <1>7, <1>8, <1>9 DEF Next

\* SchedulerState.fired: each entry of each program fires at most once in a minute,
\* however often the loop wakes up and whatever is edited meanwhile.
THEOREM FiresOncePerMinute == Spec => []OncePerMinute
<1>1. FiringInvariant => OncePerMinute
    BY DEF FiringInvariant, Counted, OncePerMinute
<1> QED
    BY FiringInit, FiringStep, <1>1, PTL DEF Spec
-----------------------------------------------------------------------------
(* What the server lists, the file holds.                                  *)

\* Lists of what into_program returned, in which an id names one program.
Stored == [id : Nat, spec : UNION {IntoProgram(spec) : spec \in Specs}]
Listing(programs) ==
    /\ programs \in Seq(Stored)
    /\ \A p \in Range(programs) : p.id <= edits
    /\ \A p, q \in Range(programs) : p.id = q.id => p = q
StoreInvariant == edits \in Nat /\ Listing(mem) /\ Listing(disk)

LEMMA AppendRange ==
    ASSUME NEW S, NEW s \in Seq(S), NEW e \in S
    PROVE  Append(s, e) \in Seq(S) /\ Range(Append(s, e)) = Range(s) \cup {e}
<1>1. /\ Append(s, e) \in Seq(S)
      /\ DOMAIN Append(s, e) = 1 .. Len(s) + 1 /\ DOMAIN s = 1 .. Len(s) /\ Len(s) \in Nat
      /\ \A i \in 1 .. Len(s) : Append(s, e)[i] = s[i]
      /\ Append(s, e)[Len(s) + 1] = e
    BY AppendProperties
<1>2. Len(s) + 1 \in DOMAIN Append(s, e)
    BY <1>1
<1>3. \A i \in DOMAIN Append(s, e) : i \in DOMAIN s \/ i = Len(s) + 1
    BY <1>1
<1>4. \A i \in DOMAIN s : i \in DOMAIN Append(s, e) /\ Append(s, e)[i] = s[i]
    BY <1>1
<1> HIDE <1>1
<1> QED
    BY <1>1, <1>2, <1>3, <1>4, Zenon DEF Range

LEMMA RemoveAtRange ==
    ASSUME NEW S, NEW s \in Seq(S), NEW k \in DOMAIN s
    PROVE  RemoveAt(s, k) \in Seq(S) /\ Range(RemoveAt(s, k)) \subseteq Range(s)
<1> DEFINE before == SubSeq(s, 1, k - 1)
           after  == SubSeq(s, k + 1, Len(s))
<1>1. k \in 1 .. Len(s) /\ Len(s) \in Nat /\ \A i \in 1 .. Len(s) : s[i] \in Range(s)
    BY DEF Range
<1>2. before \in Seq(Range(s))
    <2>1. \A i \in 1 .. k - 1 : s[i] \in Range(s)
        BY <1>1
    <2> QED
        BY <1>1, <2>1, SubSeqProperties
<1>3. after \in Seq(Range(s))
    <2>1. \A i \in k + 1 .. Len(s) : s[i] \in Range(s)
        BY <1>1
    <2> QED
        BY <1>1, <2>1, SubSeqProperties
<1>4. RemoveAt(s, k) \in Seq(Range(s))
    BY <1>2, <1>3, ConcatProperties DEF RemoveAt
<1>5. \A i \in DOMAIN RemoveAt(s, k) : RemoveAt(s, k)[i] \in Range(s)
    BY <1>4
<1>6. Range(s) \subseteq S
    BY DEF Range
<1>7. RemoveAt(s, k) \in Seq(S)
    BY <1>4, <1>6
<1> QED
    BY <1>5, <1>7 DEF Range

\* A list that holds no others than a listing does is one.
LEMMA FewerListed ==
    ASSUME NEW programs, Listing(programs), NEW others \in Seq(Stored),
           Range(others) \subseteq Range(programs), edits \in Nat, edits' \in Nat, edits <= edits'
    PROVE  /\ \A p \in Range(others) : p.id <= edits'
           /\ \A p, q \in Range(others) : p.id = q.id => p = q
<1>1. Range(programs) \subseteq Stored
    BY DEF Listing, Range
<1> QED
    BY <1>1 DEF Listing, Stored

LEMMA StoreInit == Init => StoreInvariant /\ ReportedSurvives
<1> SUFFICES ASSUME Init PROVE StoreInvariant /\ ReportedSurvives
    OBVIOUS
<1>1. mem = <<>> /\ disk = <<>> /\ edits = 0
    BY DEF Init
<1>2. <<>> \in Seq(Stored) /\ Range(<<>>) = {}
    BY DEF Range
<1> QED
    BY <1>1, <1>2 DEF StoreInvariant, Listing, ReportedSurvives

\* What a change may make of the two lists.
LEMMA Stores ==
    ASSUME StoreInvariant, edits' = edits + 1,
           NEW programs \in Seq(Stored), NEW others \in Seq(Stored),
           \A p \in Range(programs) : p.id <= edits',
           \A p, q \in Range(programs) : p.id = q.id => p = q,
           Range(others) \subseteq Range(mem),
           \/ mem' = programs /\ Persists(programs)
           \/ mem' = others /\ PersistFails(programs)
    PROVE  /\ StoreInvariant'
           /\ ReportedSurvives /\ ~LateFailures => ReportedSurvives'
<1>1. edits \in Nat /\ edits' \in Nat /\ edits <= edits'
    BY DEF StoreInvariant
<1>2. disk' \in {disk, programs}
    BY DEF Persists, PersistFails
<1>3. \A list \in {disk, others, programs} :
         /\ list \in Seq(Stored)
         /\ \A p \in Range(list) : p.id <= edits'
         /\ \A p, q \in Range(list) : p.id = q.id => p = q
    <2>1. disk \in Seq(Stored)
        BY DEF StoreInvariant, Listing
    <2>2. /\ \A p \in Range(disk) : p.id <= edits'
          /\ \A p, q \in Range(disk) : p.id = q.id => p = q
        BY <1>1, <2>1, FewerListed DEF StoreInvariant
    <2>3. /\ \A p \in Range(others) : p.id <= edits'
          /\ \A p, q \in Range(others) : p.id = q.id => p = q
        BY <1>1, FewerListed DEF StoreInvariant
    <2> QED
        BY <2>1, <2>2, <2>3
<1>4. StoreInvariant'
    BY <1>1, <1>2, <1>3 DEF StoreInvariant, Listing
<1>5. ASSUME ReportedSurvives, ~LateFailures PROVE ReportedSurvives'
    BY <1>5 DEF ReportedSurvives, Persists, PersistFails
<1> QED
    BY <1>4, <1>5

LEMMA StoreCreate ==
    ASSUME StoreInvariant, NEW spec \in Specs, Create(spec)
    PROVE  StoreInvariant' /\ (ReportedSurvives /\ ~LateFailures => ReportedSurvives')
<1>1. PICK program \in IntoProgram(spec) :
          \/ /\ mem' = Append(mem, [id |-> edits + 1, spec |-> program])
             /\ Persists(Append(mem, [id |-> edits + 1, spec |-> program]))
          \/ mem' = mem /\ PersistFails(Append(mem, [id |-> edits + 1, spec |-> program]))
    BY DEF Create
<1> DEFINE new == [id |-> edits + 1, spec |-> program]
           programs == Append(mem, new)
<1>2. edits' = edits + 1 /\ edits \in Nat
    BY DEF Create, StoreInvariant
<1>3. new \in Stored /\ mem \in Seq(Stored)
    BY <1>2 DEF Stored, StoreInvariant, Listing
<1> HIDE DEF new
<1>4. programs \in Seq(Stored) /\ Range(programs) = Range(mem) \cup {new}
    BY <1>3, AppendRange
<1>5. new.id = edits + 1
    BY DEF new
<1>6. Range(mem) \subseteq Stored /\ \A p \in Range(mem) : p.id \in Nat /\ p.id <= edits
    <2>1. Range(mem) \subseteq Stored
        BY <1>3 DEF Range
    <2> QED
        BY <2>1 DEF StoreInvariant, Listing, Stored
<1>7. \A p \in Range(programs) : p.id <= edits'
    BY <1>2, <1>4, <1>5, <1>6
<1>8. \A p, q \in Range(programs) : p.id = q.id => p = q
    BY <1>2, <1>4, <1>5, <1>6 DEF StoreInvariant, Listing
<1>9. \/ mem' = programs /\ Persists(programs)
      \/ mem' = mem /\ PersistFails(programs)
    BY <1>1 DEF new
<1> HIDE DEF programs
<1> QED
    BY <1>2, <1>3, <1>4, <1>7, <1>8, <1>9, Stores

LEMMA StoreUpdate ==
    ASSUME StoreInvariant, NEW spec \in Specs, NEW i \in IdsOf(mem), Update(i, spec)
    PROVE  StoreInvariant' /\ (ReportedSurvives /\ ~LateFailures => ReportedSurvives')
<1>1. PICK program \in IntoProgram(spec) :
          LET programs == [k \in DOMAIN mem |->
                              IF mem[k].id = i THEN [id |-> i, spec |-> program] ELSE mem[k]]
          IN  \/ mem' = programs /\ Persists(programs)
              \/ mem' = RolledBack(programs) /\ PersistFails(programs)
    BY DEF Update
<1> DEFINE new == [id |-> i, spec |-> program]
           programs == [k \in DOMAIN mem |-> IF mem[k].id = i THEN new ELSE mem[k]]
<1>2. edits' = edits + 1 /\ edits \in Nat /\ mem \in Seq(Stored)
    BY DEF Update, StoreInvariant, Listing
<1>3. Range(mem) \subseteq Stored /\ \A p \in Range(mem) : p.id \in Nat /\ p.id <= edits
    <2>1. Range(mem) \subseteq Stored
        BY <1>2 DEF Range
    <2> QED
        BY <2>1 DEF StoreInvariant, Listing, Stored
<1>4. i \in Nat /\ i <= edits
    BY <1>3 DEF IdsOf
<1>5. new \in Stored /\ new.id = i
    BY <1>4 DEF Stored
<1>6. \A p \in Range(programs) : p = new \/ (p \in Range(mem) /\ p.id # i)
    BY DEF Range
<1>7. programs \in Seq(Stored)
    <2>1. DOMAIN mem = 1 .. Len(mem) /\ Len(mem) \in Nat /\ \A k \in DOMAIN mem : mem[k] \in Stored
        BY <1>2
    <2> HIDE DEF new
    <2>2. programs \in [1 .. Len(mem) -> Stored]
        BY <2>1, <1>5
    <2> QED
        BY <2>1, <2>2, IsASeq
<1>8. \/ mem' = programs /\ Persists(programs)
      \/ mem' = mem /\ PersistFails(programs)
    BY <1>1 DEF RolledBack
<1> HIDE DEF new, programs
<1>9. \A p \in Range(programs) : p.id <= edits'
    BY <1>2, <1>3, <1>4, <1>5, <1>6
<1>10. \A p, q \in Range(programs) : p.id = q.id => p = q
    BY <1>5, <1>6 DEF StoreInvariant, Listing
<1> QED
    BY <1>2, <1>7, <1>8, <1>9, <1>10, Stores

LEMMA StoreDelete ==
    ASSUME StoreInvariant, NEW i, Delete(i)
    PROVE  StoreInvariant' /\ (ReportedSurvives /\ ~LateFailures => ReportedSurvives')
<1>1. PICK k \in DOMAIN mem :
          \/ mem' = RemoveAt(mem, k) /\ Persists(RemoveAt(mem, k))
          \/ mem' = Append(RemoveAt(mem, k), mem[k]) /\ PersistFails(RemoveAt(mem, k))
    BY DEF Delete
<1> DEFINE programs == RemoveAt(mem, k)
           others == Append(programs, mem[k])
<1>2. edits' = edits + 1 /\ edits \in Nat /\ mem \in Seq(Stored)
    BY DEF Delete, StoreInvariant, Listing
<1>3. programs \in Seq(Stored) /\ Range(programs) \subseteq Range(mem)
    BY <1>2, RemoveAtRange
<1>4. mem[k] \in Stored /\ mem[k] \in Range(mem)
    BY <1>2 DEF Range
<1> HIDE DEF programs
<1>5. others \in Seq(Stored) /\ Range(others) \subseteq Range(mem)
    BY <1>3, <1>4, AppendRange
<1>6. /\ \A p \in Range(programs) : p.id <= edits'
      /\ \A p, q \in Range(programs) : p.id = q.id => p = q
    BY <1>2, <1>3, FewerListed DEF StoreInvariant
<1>7. \/ mem' = programs /\ Persists(programs)
      \/ mem' = others /\ PersistFails(programs)
    BY <1>1 DEF programs
<1> HIDE DEF others
<1> QED
    BY <1>2, <1>3, <1>5, <1>6, <1>7, Stores

LEMMA StoreStep ==
    ASSUME StoreInvariant, [Next]_vars
    PROVE  StoreInvariant' /\ (ReportedSurvives /\ ~LateFailures => ReportedSurvives')
<1> USE DEF storeVars, boundVars, passVars, memoryVars, historyVars
<1>1. CASE UNCHANGED <<mem, disk, edits>>
    BY <1>1 DEF StoreInvariant, Listing, ReportedSurvives
<1>2. CASE Restart
    BY <1>2 DEF Restart, StoreInvariant, Listing, ReportedSurvives
<1>3. CASE \E spec \in Specs : Create(spec) \/ \E i \in IdsOf(mem) : Update(i, spec)
    BY <1>3, StoreCreate, StoreUpdate
<1>4. CASE \E i \in IdsOf(mem) : Delete(i)
    BY <1>4, StoreDelete
<1>5. Wake \/ NextProgram \/ Trigger \/ EndPass \/ Tick \/ Rest \/ UNCHANGED vars
          => UNCHANGED <<mem, disk, edits>>
    BY DEF Wake, NextProgram, Trigger, EndPass, Tick, Rest, vars
<1>6. ASSUME NEW u, ApplyScene(u) \/ PassBy(u) \/ Follow(u) \/ Land(u) \/ Manual(u)
      PROVE  UNCHANGED <<mem, disk, edits>>
    BY <1>6 DEF ApplyScene, PassBy, Follow, Land, ComeTo, Manual
<1> QED
    BY <1>1, <1>2, <1>3, <1>4, <1>5, <1>6 DEF Next

\* create: where a write that fails has not replaced the file, a restart brings back
\* every program the API reports, though deletions and updates fail halfway.
THEOREM ListedSurvives ==
    ASSUME ~LateFailures PROVE Spec => []ReportedSurvives
<1>1. Init => StoreInvariant /\ ReportedSurvives
    BY StoreInit
<1>2. StoreInvariant /\ ReportedSurvives /\ [Next]_vars => StoreInvariant' /\ ReportedSurvives'
    BY StoreStep
<1> QED
    BY <1>1, <1>2, PTL DEF Spec
-----------------------------------------------------------------------------
(* A curve leaves a nudge alone.                                           *)

Said(request) == UNION {r.target_temperature : r \in request}

\* What a unit was sent is what is remembered of it.
Remembered ==
    \A x \in DOMAIN sent : x \in DOMAIN applied /\ applied[x] = Said(sent[x])

\* The pass is at a program, of which commands or entries remain.
Busy == targets # {} \/ sending # {} \/ entries # {}

\* Between passes nothing is left of one.
AtRest == copy \in Seq(Stored) /\ (phase = "asleep" => copy = <<>> /\ ~Busy)

\* What is under way is of a program that runs; a unit is about to be commanded only
\* where another setpoint is remembered of it.
InHand ==
    /\ entries # {} => Runs(doing) = "schedule"
    /\ targets # {} => Runs(doing) # "nothing"
    /\ \A u \in sending : Runs(doing) = "curve" /\ ~Settled(u)

\* A nudge that is still to be kept: the setpoint the unit was last sent is what the
\* program wants, in the list and in any version of it the pass may come to.
StillWanted(k) ==
    /\ k.id \in Nat /\ k.id <= edits
    /\ <<k.id, k.unit>> \in DOMAIN applied /\ applied[<<k.id, k.unit>>] = k.setpoint
    /\ \A p \in Range(mem) : p.id = k.id => Setpoint(p, MinuteOf(clock)) = k.setpoint
    /\ phase = "pass" =>
          /\ \A p \in Range(copy) :
                p.id = k.id /\ Runs(p) = "curve" => Setpoint(p, MinuteOf(now)) = k.setpoint
          /\ doing.id = k.id /\ k.unit \in targets /\ Runs(doing) = "curve"
                => Setpoint(doing, MinuteOf(now)) = k.setpoint
          /\ ~(doing.id = k.id /\ k.unit \in sending)
NudgeInvariant == Remembered /\ AtRest /\ InHand /\ \A k \in kept : StillWanted(k)

LEMMA NudgeInit == Init => NudgeInvariant
<1> SUFFICES ASSUME Init PROVE NudgeInvariant
    OBVIOUS
<1>1. /\ DOMAIN sent = {} /\ kept = {} /\ copy = <<>> /\ targets = {} /\ sending = {}
      /\ entries = {}
    BY DEF Init
<1>2. copy \in Seq(Stored)
    BY <1>1
<1> QED
    BY <1>1, <1>2 DEF NudgeInvariant, Remembered, AtRest, Busy, InHand

LEMMA HeadAndTail ==
    ASSUME NEW S, NEW s \in Seq(S), s # <<>>
    PROVE  Range(s) = {Head(s)} \cup Range(Tail(s))
<1>1. /\ Len(s) \in Nat \ {0} /\ DOMAIN s = 1 .. Len(s)
      /\ Tail(s) \in Seq(S) /\ Len(Tail(s)) = Len(s) - 1
      /\ \A i \in 1 .. Len(Tail(s)) : Tail(s)[i] = s[i + 1]
    BY HeadTailProperties, LenProperties, EmptySeq
<1>2. Head(s) = s[1] /\ 1 \in DOMAIN s
    BY <1>1
<1>3. DOMAIN Tail(s) = 1 .. Len(s) - 1
    BY <1>1
<1>4. \A i \in DOMAIN Tail(s) : i + 1 \in DOMAIN s /\ Tail(s)[i] = s[i + 1]
    BY <1>1, <1>3
<1>5. ASSUME NEW j \in DOMAIN s PROVE s[j] = Head(s) \/ \E i \in DOMAIN Tail(s) : Tail(s)[i] = s[j]
    <2>1. CASE j = 1
        BY <1>2, <2>1
    <2>2. CASE j # 1
        <3>1. j - 1 \in DOMAIN Tail(s) /\ (j - 1) + 1 = j
            BY <1>1, <1>3, <2>2
        <3>2. Tail(s)[j - 1] = s[j]
            BY <1>4, <3>1
        <3> QED
            BY <3>1, <3>2
    <2> QED
        BY <2>1, <2>2
<1> QED
    BY <1>2, <1>4, <1>5 DEF Range

\* What the pass does without a command to a unit.
LEMMA NudgePass ==
    ASSUME NudgeInvariant, StoreInvariant,
           Wake \/ NextProgram \/ Trigger \/ EndPass
    PROVE  NudgeInvariant'
<1> USE DEF storeVars, boundVars, passVars, memoryVars, historyVars
<1>1. UNCHANGED <<clock, mem, edits, applied, sent, kept>>
    BY DEF Wake, NextProgram, Trigger, EndPass
<1>2. Remembered'
    BY <1>1 DEF NudgeInvariant, Remembered
<1>3. MinuteOf(clock)' = MinuteOf(clock)
    BY <1>1 DEF MinuteOf
<1>4. CASE Wake
    <2>1. /\ phase' = "pass" /\ now' = clock /\ copy' = mem
          /\ UNCHANGED <<doing, entries, targets, sending>>
        BY <1>4 DEF Wake
    <2>2. entries = {} /\ targets = {} /\ sending = {} /\ ~Busy'
        BY <1>4, <2>1 DEF Wake, Busy, NudgeInvariant, AtRest
    <2>3. AtRest' /\ InHand'
        BY <2>1, <2>2 DEF AtRest, InHand, StoreInvariant, Listing
    <2>4. ASSUME NEW k \in kept' PROVE StillWanted(k)'
        <3>1. StillWanted(k)
            BY <2>4, <1>1 DEF NudgeInvariant
        <3>2. MinuteOf(now)' = MinuteOf(clock)
            BY <2>1 DEF MinuteOf
        <3> QED
            BY <1>1, <1>3, <2>1, <2>2, <3>1, <3>2 DEF StillWanted, Setpoint, Request
    <2> QED
        BY <1>2, <2>3, <2>4 DEF NudgeInvariant
<1>5. CASE NextProgram
    <2>1. /\ copy # <<>> /\ doing' = Head(copy) /\ copy' = Tail(copy)
          /\ UNCHANGED <<phase, now, sending>> /\ phase = "pass"
          /\ sending = {} /\ targets = {} /\ entries = {}
        BY <1>5 DEF NextProgram, Idle
    <2>2. copy \in Seq(Stored)
        BY DEF NudgeInvariant, AtRest
    <2>3. Head(copy) \in Range(copy) /\ Range(Tail(copy)) \subseteq Range(copy)
        BY <2>1, <2>2, HeadAndTail
    <2>4. AtRest'
        BY <2>1, <2>2, HeadTailProperties DEF AtRest
    <2>5. InHand'
        <3>1. CASE Runs(doing') = "schedule"
            BY <1>5, <2>1, <3>1 DEF NextProgram, InHand, Runs
        <3>2. CASE Runs(doing') = "curve"
            BY <1>5, <2>1, <3>2 DEF NextProgram, InHand, Runs
        <3>3. CASE Runs(doing') # "schedule" /\ Runs(doing') # "curve"
            BY <1>5, <2>1, <3>3 DEF NextProgram, InHand
        <3> QED
            BY <3>1, <3>2, <3>3
    <2>6. ASSUME NEW k \in kept' PROVE StillWanted(k)'
        <3>1. StillWanted(k)
            BY <2>6, <1>1 DEF NudgeInvariant
        <3>2. MinuteOf(now)' = MinuteOf(now)
            BY <2>1 DEF MinuteOf
        <3>3. \A p \in Range(copy)' : p.id = k.id /\ Runs(p) = "curve"
                                        => Setpoint(p, MinuteOf(now)) = k.setpoint
            BY <2>1, <2>3, <3>1 DEF StillWanted
        <3>4. doing'.id = k.id /\ Runs(doing') = "curve" => Setpoint(doing', MinuteOf(now)) = k.setpoint
            BY <2>1, <2>3, <3>1 DEF StillWanted
        <3> QED
            BY <1>1, <1>3, <2>1, <3>1, <3>2, <3>3, <3>4 DEF StillWanted, Setpoint, Request, Runs
    <2> QED
        BY <1>2, <2>4, <2>5, <2>6 DEF NudgeInvariant
<1>6. CASE Trigger
    <2>1. UNCHANGED <<phase, now, copy, doing, sending>> /\ phase = "pass" /\ targets = {}
          /\ entries # {} /\ entries' \subseteq entries
        BY <1>6 DEF Trigger
    <2>2. Runs(doing) = "schedule"
        BY <2>1 DEF NudgeInvariant, InHand
    <2>3. sending = {}
        BY <2>2 DEF NudgeInvariant, InHand
    <2>4. AtRest' /\ InHand'
        BY <2>1, <2>2, <2>3 DEF AtRest, NudgeInvariant, InHand, Runs
    <2>5. ASSUME NEW k \in kept' PROVE StillWanted(k)'
        <3>1. StillWanted(k)
            BY <2>5, <1>1 DEF NudgeInvariant
        <3>2. MinuteOf(now)' = MinuteOf(now)
            BY <2>1 DEF MinuteOf
        <3> QED
            BY <1>1, <1>3, <2>1, <2>2, <2>3, <3>1, <3>2 DEF StillWanted, Setpoint, Request, Runs
    <2> QED
        BY <1>2, <2>4, <2>5 DEF NudgeInvariant
<1>7. CASE EndPass
    <2>1. /\ phase' = "asleep" /\ UNCHANGED <<copy, entries, targets, sending>> /\ copy = <<>>
          /\ entries = {} /\ targets = {} /\ sending = {}
        BY <1>7 DEF EndPass, Idle
    <2>2. AtRest' /\ InHand'
        BY <2>1 DEF AtRest, NudgeInvariant, Busy, InHand
    <2>3. ASSUME NEW k \in kept' PROVE StillWanted(k)'
        <3>1. StillWanted(k)
            BY <2>3, <1>1 DEF NudgeInvariant
        <3> QED
            BY <1>1, <1>3, <2>1, <3>1 DEF StillWanted, Setpoint, Request
    <2> QED
        BY <1>2, <2>2, <2>3 DEF NudgeInvariant
<1> QED
    BY <1>4, <1>5, <1>6, <1>7

\* A curve is not about to command a unit that is to be left alone, and does not.
LEMMA FollowLeaves ==
    ASSUME NudgeInvariant, NEW u, Follow(u) \/ Land(u), NEW k \in kept
    PROVE  ~(k.id = doing.id /\ k.unit = u)
<1> SUFFICES ASSUME k.id = doing.id, k.unit = u PROVE FALSE
    OBVIOUS
<1>1. StillWanted(k) /\ phase = "pass"
    BY DEF NudgeInvariant, Follow, Land, ComeTo
<1>2. CASE Land(u)
    BY <1>1, <1>2 DEF StillWanted, Land
<1>3. CASE Follow(u)
    <2>1. u \in targets /\ Runs(doing) = "curve"
        BY <1>3 DEF Follow, ComeTo, NudgeInvariant, InHand, Runs
    <2>2. Setpoint(doing, MinuteOf(now)) = k.setpoint
        BY <1>1, <2>1 DEF StillWanted
    <2>3. Settled(u)
        BY <1>1, <2>2 DEF Settled, StillWanted
    <2> QED
        BY <1>3, <2>3 DEF Follow
<1> QED
    BY <1>2, <1>3

LEMMA NudgeCommand ==
    ASSUME NudgeInvariant, NEW u, ApplyScene(u) \/ PassBy(u) \/ Follow(u) \/ Land(u)
    PROVE  NudgeInvariant'
<1> USE DEF storeVars, boundVars, passVars, memoryVars, historyVars
<1> DEFINE key == <<doing.id, u>>
<1>1. /\ UNCHANGED <<clock, mem, edits, kept, phase, now, copy, doing, entries>>
      /\ targets' \subseteq targets /\ phase = "pass"
      /\ \/ UNCHANGED <<sending, applied>> \/ sending' = {}
         \/ /\ Follow(u) /\ sending' = {u} /\ UNCHANGED applied
            /\ Runs(doing) = "curve" /\ ~Settled(u)
    BY DEF ApplyScene, PassBy, Follow, Land, ComeTo, NudgeInvariant, InHand, Runs
<1>2. Settled(u)' = Settled(u) \/ sending' = {}
    BY <1>1 DEF Settled, Setpoint, Request, MinuteOf
<1>3. AtRest' /\ InHand'
    <2>1. Runs(doing)' = Runs(doing)
        BY <1>1 DEF Runs
    <2>2. \A v : UNCHANGED applied => Settled(v)' = Settled(v)
        BY <1>1 DEF Settled, Setpoint, Request, MinuteOf
    <2> QED
        BY <1>1, <1>2, <2>1, <2>2 DEF AtRest, NudgeInvariant, InHand
<1>4. MinuteOf(clock)' = MinuteOf(clock) /\ MinuteOf(now)' = MinuteOf(now)
    BY <1>1 DEF MinuteOf
<1>5. Remembered' /\ \A k \in kept : applied'[<<k.id, k.unit>>] = applied[<<k.id, k.unit>>]
                     /\ <<k.id, k.unit>> \in DOMAIN applied'
    <2>1. CASE UNCHANGED <<applied, sent>>
        BY <2>1 DEF NudgeInvariant, Remembered, StillWanted
    <2>2. CASE /\ Land(u)
               /\ applied' = Put(applied, key, Setpoint(doing, MinuteOf(now)))
               /\ sent' = Put(sent, key, Request(doing, MinuteOf(now)))
        <3> HIDE DEF key
        <3>1. ASSUME NEW k \in kept
              PROVE  /\ applied'[<<k.id, k.unit>>] = applied[<<k.id, k.unit>>]
                     /\ <<k.id, k.unit>> \in DOMAIN applied'
            <4>1. <<k.id, k.unit>> # key
                BY <2>2, FollowLeaves DEF key
            <4>2. <<k.id, k.unit>> \in DOMAIN applied
                BY DEF NudgeInvariant, StillWanted
            <4> QED
                BY <2>2, <4>1, <4>2 DEF Put
        <3>2. ASSUME NEW x \in DOMAIN sent' PROVE x \in DOMAIN applied' /\ applied'[x] = Said(sent'[x])
            <4>1. CASE x = key
                <5>1. sent'[x] = Request(doing, MinuteOf(now))
                    BY <2>2, <4>1 DEF Put
                <5>2. x \in DOMAIN applied' /\ applied'[x] = Setpoint(doing, MinuteOf(now))
                    BY <2>2, <4>1 DEF Put
                <5> QED
                    BY <5>1, <5>2 DEF Said, Setpoint
            <4>2. CASE x # key
                <5>1. x \in DOMAIN sent /\ sent'[x] = sent[x]
                    BY <2>2, <4>2 DEF Put
                <5>2. x \in DOMAIN applied /\ applied[x] = Said(sent[x])
                    BY <5>1 DEF NudgeInvariant, Remembered
                <5>3. x \in DOMAIN applied' /\ applied'[x] = applied[x]
                    BY <2>2, <4>2, <5>2 DEF Put
                <5> QED
                    BY <5>1, <5>2, <5>3
            <4> QED
                BY <4>1, <4>2
        <3> QED
            BY <3>1, <3>2 DEF Remembered
    <2> QED
        BY <2>1, <2>2 DEF ApplyScene, PassBy, Follow, Land, ComeTo
<1>6. ASSUME NEW k \in kept' PROVE StillWanted(k)'
    <2>1. StillWanted(k) /\ k \in kept
        BY <1>1, <1>6 DEF NudgeInvariant
    <2>2. ~(doing.id = k.id /\ k.unit \in sending')
        BY <1>1, <2>1, FollowLeaves DEF StillWanted
    <2> QED
        BY <1>1, <1>4, <1>5, <2>1, <2>2 DEF StillWanted, Setpoint, Request, Runs
<1> QED
    BY <1>3, <1>5, <1>6 DEF NudgeInvariant

LEMMA SameInHand ==
    ASSUME InHand, UNCHANGED <<now, doing, targets, sending, entries, applied>>
    PROVE  InHand'
<1>1. Runs(doing)' = Runs(doing) /\ \A v : Settled(v)' = Settled(v)
    BY DEF Runs, Settled, Setpoint, Request, MinuteOf
<1> QED
    BY <1>1 DEF InHand

\* Nothing but the list and the number of edits changes, and what is still kept is kept
\* for a program whose versions in the list are as they were.
LEMMA NudgeListed ==
    ASSUME NudgeInvariant, edits \in Nat, edits' \in Nat, edits <= edits',
           UNCHANGED <<clock, passVars, applied, sent>>,
           kept' \subseteq kept,
           \A k \in kept' : \A p \in Range(mem)' : p.id = k.id => p \in Range(mem)
    PROVE  NudgeInvariant'
<1>1. UNCHANGED <<clock, phase, now, copy, doing, targets, sending, entries, applied, sent>>
    BY DEF passVars
<1>2. Remembered' /\ AtRest' /\ InHand'
    BY <1>1, SameInHand DEF NudgeInvariant, Remembered, AtRest, Busy
<1>3. MinuteOf(clock)' = MinuteOf(clock) /\ MinuteOf(now)' = MinuteOf(now)
    BY <1>1 DEF MinuteOf
<1>4. ASSUME NEW k \in kept' PROVE StillWanted(k)'
    <2>1. StillWanted(k)
        BY <1>4 DEF NudgeInvariant
    <2>2. k.id \in Nat /\ k.id <= edits'
        BY <2>1 DEF StillWanted
    <2>3. \A p \in Range(mem)' : p.id = k.id => Setpoint(p, MinuteOf(clock)) = k.setpoint
        BY <2>1, <1>4 DEF StillWanted
    <2> QED
        BY <1>1, <1>3, <2>1, <2>2, <2>3 DEF StillWanted, Setpoint, Request, Runs
<1> QED
    BY <1>2, <1>4 DEF NudgeInvariant

LEMMA NudgeEdit ==
    ASSUME NudgeInvariant, StoreInvariant,
           \/ \E spec \in Specs : Create(spec) \/ \E i \in IdsOf(mem) : Update(i, spec)
           \/ \E i \in IdsOf(mem) : Delete(i)
    PROVE  NudgeInvariant'
<1>1. /\ UNCHANGED <<clock, passVars, applied, sent>>
      /\ edits \in Nat /\ edits' \in Nat /\ edits <= edits' /\ edits' = edits + 1
    BY DEF Create, Update, Delete, StoreInvariant, memoryVars, historyVars
<1>2. mem \in Seq(Stored) /\ \A k \in kept : k.id \in Nat /\ k.id <= edits
    BY DEF StoreInvariant, Listing, NudgeInvariant, StillWanted
<1>3. ASSUME NEW spec \in Specs, Create(spec)
      PROVE  /\ kept' \subseteq kept
             /\ \A k \in kept' : \A p \in Range(mem)' : p.id = k.id => p \in Range(mem)
    <2>1. kept' = kept
        BY <1>3 DEF Create, historyVars
    <2>2. PICK program \in IntoProgram(spec) :
              \/ mem' = Append(mem, [id |-> edits + 1, spec |-> program])
              \/ mem' = mem
        BY <1>3 DEF Create
    <2> DEFINE new == [id |-> edits + 1, spec |-> program]
    <2>3. new \in Stored /\ new.id = edits + 1
        BY <1>1, <1>3, <2>2 DEF Stored
    <2>4. mem' = Append(mem, new) \/ mem' = mem
        BY <2>2
    <2> HIDE DEF new
    <2>5. \A p \in Range(mem') : p \in Range(mem) \/ p = new
        <3>1. Range(Append(mem, new)) = Range(mem) \cup {new}
            BY <1>2, <2>3, AppendRange
        <3> QED
            BY <2>4, <3>1
    <2>6. \A p \in Range(mem)' : p \in Range(mem) \/ p = new
        BY <2>5 DEF Range
    <2> QED
        BY <1>1, <1>2, <2>1, <2>3, <2>6
<1>4. ASSUME NEW spec \in Specs, NEW i \in IdsOf(mem), Update(i, spec)
      PROVE  /\ kept' \subseteq kept
             /\ \A k \in kept' : \A p \in Range(mem)' : p.id = k.id => p \in Range(mem)
    <2>1. PICK program \in IntoProgram(spec) :
              LET programs == [k \in DOMAIN mem |->
                                  IF mem[k].id = i THEN [id |-> i, spec |-> program] ELSE mem[k]]
              IN  \/ mem' = programs /\ Forgiven(i)
                  \/ mem' = RolledBack(programs) /\ UNCHANGED <<owed, kept>>
        BY <1>4 DEF Update
    <2> DEFINE new == [id |-> i, spec |-> program]
               programs == [k \in DOMAIN mem |-> IF mem[k].id = i THEN new ELSE mem[k]]
    <2>2. \/ mem' = programs /\ kept' = {k \in kept : k.id # i}
          \/ mem' = mem /\ kept' = kept
        BY <2>1 DEF RolledBack, Forgiven
    <2>3. new.id = i
        OBVIOUS
    <2> HIDE DEF new
    <2>4. \A p \in Range(programs) : p = new \/ p \in Range(mem)
        BY DEF Range
    <2>5. CASE mem' = programs /\ kept' = {k \in kept : k.id # i}
        <3>1. \A p \in Range(mem)' : p = new \/ p \in Range(mem)
            BY <2>4, <2>5 DEF Range
        <3> QED
            BY <2>3, <2>5, <3>1
    <2>6. CASE mem' = mem /\ kept' = kept
        BY <2>6 DEF Range
    <2> QED
        BY <2>2, <2>5, <2>6
<1>5. ASSUME NEW i \in IdsOf(mem), Delete(i)
      PROVE  /\ kept' \subseteq kept
             /\ \A k \in kept' : \A p \in Range(mem)' : p.id = k.id => p \in Range(mem)
    <2>1. kept' \subseteq kept
        BY <1>5 DEF Delete, Forgiven
    <2>2. PICK k \in DOMAIN mem :
              mem' = RemoveAt(mem, k) \/ mem' = Append(RemoveAt(mem, k), mem[k])
        BY <1>5 DEF Delete
    <2> DEFINE programs == RemoveAt(mem, k)
    <2>3. programs \in Seq(Stored) /\ Range(programs) \subseteq Range(mem)
        BY <1>2, <2>2, RemoveAtRange
    <2>4. mem[k] \in Stored /\ mem[k] \in Range(mem)
        BY <1>2, <2>2 DEF Range
    <2> HIDE DEF programs
    <2>5. Range(Append(programs, mem[k])) \subseteq Range(mem)
        BY <2>3, <2>4, AppendRange
    <2>6. \A p \in Range(mem') : p \in Range(mem)
        BY <2>2, <2>3, <2>5 DEF programs
    <2>7. \A p \in Range(mem)' : p \in Range(mem)
        BY <2>6 DEF Range
    <2> QED
        BY <2>1, <2>7
<1>6. /\ kept' \subseteq kept
      /\ \A k \in kept' : \A p \in Range(mem)' : p.id = k.id => p \in Range(mem)
    BY <1>3, <1>4, <1>5
<1> QED
    BY <1>1, <1>6, NudgeListed

\* The minute turns: a nudge stays while its program wants the same.
LEMMA NudgeTick ==
    ASSUME NudgeInvariant, StoreInvariant, Tick
    PROVE  NudgeInvariant'
<1>1. /\ UNCHANGED <<mem, edits, phase, now, copy, doing, entries, targets, sending, applied, sent>>
      /\ kept' = {k \in kept : \E p \in Range(mem) :
                                  p.id = k.id /\ Setpoint(p, MinuteOf(clock')) = k.setpoint}
    BY DEF Tick, storeVars, boundVars, memoryVars
<1>2. Remembered' /\ AtRest' /\ InHand'
    BY <1>1, SameInHand DEF NudgeInvariant, Remembered, AtRest, Busy
<1>3. MinuteOf(now)' = MinuteOf(now) /\ Range(mem)' = Range(mem)
    BY <1>1 DEF MinuteOf, Range
<1>4. ASSUME NEW k \in kept' PROVE StillWanted(k)'
    <2>1. StillWanted(k)
        BY <1>1, <1>4 DEF NudgeInvariant
    <2>2. PICK q \in Range(mem) : q.id = k.id /\ Setpoint(q, MinuteOf(clock')) = k.setpoint
        BY <1>1, <1>4
    <2>3. \A p \in Range(mem) : p.id = k.id => p = q
        BY <2>2 DEF StoreInvariant, Listing
    <2>4. \A p \in Range(mem) : p.id = k.id => Setpoint(p, MinuteOf(clock')) = k.setpoint
        BY <2>2, <2>3
    <2>5. MinuteOf(clock)' = MinuteOf(clock')
        BY DEF MinuteOf
    <2> QED
        BY <1>1, <1>3, <2>1, <2>4, <2>5 DEF StillWanted, Setpoint, Request, Runs
<1> QED
    BY <1>2, <1>4 DEF NudgeInvariant

\* A nudge of a unit that is where a curve wants it.
LEMMA NudgeManual ==
    ASSUME NudgeInvariant, StoreInvariant, NEW u, Manual(u)
    PROVE  NudgeInvariant'
<1> DEFINE nudge(q) == [id |-> q.id, unit |-> u, setpoint |-> Setpoint(q, MinuteOf(clock))]
<1>1. /\ UNCHANGED <<clock, mem, edits, phase, now, copy, doing, entries, targets, sending,
                      applied, sent>>
      /\ \A k \in kept' :
            \/ k \in kept
            \/ \E q \in Range(mem) : /\ k = nudge(q)
                                     /\ <<q.id, u>> \in DOMAIN sent
                                     /\ sent[<<q.id, u>>] = Request(q, MinuteOf(clock))
                                     /\ ~YetToTell(q.id, u)
    BY DEF Manual, storeVars, passVars, memoryVars
<1>2. Remembered' /\ AtRest' /\ InHand'
    BY <1>1, SameInHand DEF NudgeInvariant, Remembered, AtRest, Busy
<1>3. MinuteOf(clock)' = MinuteOf(clock) /\ Range(mem)' = Range(mem)
    BY <1>1 DEF MinuteOf, Range
<1>4. ASSUME NEW k \in kept' PROVE StillWanted(k)'
    <2>1. CASE k \in kept
        <3>1. StillWanted(k)
            BY <2>1 DEF NudgeInvariant
        <3> QED
            BY <1>1, <1>3, <3>1 DEF StillWanted, Setpoint, Request, Runs, MinuteOf
    <2>2. ASSUME NEW q \in Range(mem), k = nudge(q), <<q.id, u>> \in DOMAIN sent,
                 sent[<<q.id, u>>] = Request(q, MinuteOf(clock)), ~YetToTell(q.id, u)
          PROVE  StillWanted(k)'
        <3>1. /\ k.id = q.id /\ k.unit = u
              /\ k.setpoint = Setpoint(q, MinuteOf(clock))
            BY <2>2
        <3>2. Range(mem) \subseteq Stored
            BY DEF StoreInvariant, Listing, Range
        <3>3. k.id \in Nat /\ k.id <= edits
            BY <3>1, <3>2 DEF Stored, StoreInvariant, Listing
        <3>4. /\ <<q.id, u>> \in DOMAIN applied
              /\ applied[<<q.id, u>>] = Said(Request(q, MinuteOf(clock)))
            BY <2>2 DEF NudgeInvariant, Remembered
        <3>5. Said(Request(q, MinuteOf(clock))) = Setpoint(q, MinuteOf(clock))
            BY DEF Said, Setpoint
        <3>6. \A p \in Range(mem) : p.id = k.id => p = q
            BY <3>1 DEF StoreInvariant, Listing
        <3>7. \A p \in Range(mem) : p.id = k.id => Setpoint(p, MinuteOf(clock)) = k.setpoint
            BY <3>1, <3>6
        <3> HIDE DEF nudge
        <3>8. ASSUME NEW p, p.id = k.id, Runs(p) = "curve",
                     p \in Range(copy) \/ (k.unit \in targets \cup sending /\ p = doing)
              PROVE  Setpoint(p, MinuteOf(now)) = k.setpoint
            <4>1. Request(p, MinuteOf(now)) = Request(q, MinuteOf(clock))
                BY <2>2, <3>1, <3>8 DEF YetToTell
            <4> QED
                BY <3>1, <4>1 DEF Setpoint
        <3>9. ~(doing.id = k.id /\ k.unit \in sending)
            <4> SUFFICES ASSUME doing.id = k.id, k.unit \in sending PROVE FALSE
                OBVIOUS
            <4>1. Runs(doing) = "curve" /\ ~Settled(k.unit)
                BY DEF NudgeInvariant, InHand
            <4>2. Setpoint(doing, MinuteOf(now)) = k.setpoint
                BY <3>8, <4>1
            <4> QED
                BY <3>1, <3>4, <3>5, <4>1, <4>2 DEF Settled
        <3>10. StillWanted(k)
            BY <3>1, <3>3, <3>4, <3>5, <3>7, <3>8, <3>9 DEF StillWanted
        <3> QED
            BY <1>1, <1>3, <3>10 DEF StillWanted, Setpoint, Request, Runs, MinuteOf
    <2> QED
        BY <1>1, <1>4, <2>1, <2>2
<1> QED
    BY <1>2, <1>4 DEF NudgeInvariant

LEMMA NudgeStep ==
    ASSUME NudgeInvariant, StoreInvariant, [Next]_vars PROVE NudgeInvariant'
<1>1. CASE UNCHANGED vars
    BY <1>1 DEF vars, storeVars, boundVars, passVars, memoryVars, historyVars, NudgeInvariant,
                Remembered, AtRest, Busy, InHand, Settled, StillWanted, MinuteOf, Setpoint,
                Request, Range, Runs
<1>2. CASE Restart
    <2>1. /\ DOMAIN sent' = {} /\ kept' = {} /\ copy' = <<>>
          /\ targets' = {} /\ sending' = {} /\ entries' = {}
        BY <1>2 DEF Restart
    <2>2. copy' \in Seq(Stored)
        BY <2>1
    <2> QED
        BY <2>1, <2>2 DEF NudgeInvariant, Remembered, AtRest, Busy, InHand
<1>3. Rest => UNCHANGED vars
    BY DEF Rest
<1> QED
    BY <1>1, <1>2, <1>3, NudgePass, NudgeCommand, NudgeEdit, NudgeTick, NudgeManual DEF Next

\* SchedulerState.curve_applied: wherever in a pass the scheduler is when somebody sets a
\* unit that has what the curve wants, and to which the pass has nothing else to tell,
\* the curve sends it nothing until it moves on or is replaced; restarts forget.
THEOREM NudgesAreKept == Spec => NudgeKept
<1>1. Init => StoreInvariant /\ NudgeInvariant
    BY StoreInit, NudgeInit
<1>2. StoreInvariant /\ NudgeInvariant /\ [Next]_vars => StoreInvariant' /\ NudgeInvariant'
    BY StoreStep, NudgeStep
<1>3. NudgeInvariant /\ [Next]_vars
         => [\A u \in Units : Land(u) => ~\E k \in kept : k.id = doing.id /\ k.unit = u]_vars
    BY FollowLeaves
<1> QED
    BY <1>1, <1>2, <1>3, PTL DEF Spec, NudgeKept
-----------------------------------------------------------------------------
(* A trigger lands inside its minute.                                      *)

\* When the last pass began, which in a pass is the one under way.
Timing ==
    /\ phase \in {"asleep", "pass"}
    /\ last.woke \in Nat /\ last.woke <= clock
    /\ phase = "pass" => last.woke = now

\* A trigger of the minute that the pass is for.
Ours(o) == phase = "pass" /\ o.minute = MinuteOf(now)

\* It is one of a program in the list as that is now,
Listed(o) == \E p \in Range(mem) : o \in Triggers(p, o.minute)
\* its entry is not claimed for its minute,
Unclaimed(o) ==
    \A key \in DOMAIN fired : key[1] = o.id /\ fired[key] = o.minute =>
        \A p \in Range(mem) : p.id = o.id => p.spec.schedule[key[2]] # o.entry
\* the pass has its program as it is in the list
Same(o) ==
    Ours(o) =>
        /\ \A p \in Range(copy) : p.id = o.id => p \in Range(mem)
        /\ entries # {} /\ doing.id = o.id => doing \in Range(mem)
\* and has yet to come to it; or this is the minute and no pass of it has begun.
Ahead(o) ==
    Ours(o) => \/ \E p \in Range(copy) : o \in Triggers(p, o.minute)
               \/ \E i \in entries : doing.id = o.id /\ doing.spec.schedule[i] = o.entry
InTime(o) ==
    /\ o.minute \in Nat
    /\ ~Ours(o) => o.minute = MinuteOf(clock) /\ MinuteOf(last.woke) < o.minute

WillFire(o) == Listed(o) /\ Unclaimed(o) /\ Same(o) /\ Ahead(o) /\ InTime(o)
OwedInvariant == Timing /\ \A o \in owed : WillFire(o)

\* What the steps keep besides.
Settings == FiringInvariant /\ StoreInvariant /\ AtRest

LEMMA NextMinute ==
    ASSUME NEW a \in Nat, NEW b \in Nat, b <= a + TicksPerMinute
    PROVE  MinuteOf(b) <= MinuteOf(a) + 1
<1> DEFINE t == TicksPerMinute
<1>1. t \in Nat /\ t > 0
    BY TimeAssumption
<1>2. ASSUME NEW x \in Nat
      PROVE  /\ x \div t \in Nat
             /\ x % t \in 0 .. t - 1
             /\ x = t * (x \div t) + (x % t)
    BY <1>1
<1> DEFINE p == a \div t
           q == b \div t
<1>3. p \in Nat /\ q \in Nat /\ a < t * p + t /\ b >= t * q
    BY <1>1, <1>2
<1> HIDE DEF p, q
<1>4. ASSUME q > p + 1 PROVE FALSE
    <2>1. t * (p + 2) <= t * q
        BY <1>1, <1>3, <1>4
    <2>2. t * (p + 2) = t * p + t + t
        BY <1>1, <1>3
    <2> QED
        BY <1>1, <1>3, <2>1, <2>2
<1> QED
    BY <1>3, <1>4 DEF MinuteOf, p, q

\* A record of what is owed is no more than its fields.
LEMMA TriggerFields ==
    ASSUME NEW o, NEW p, NEW m, o \in Triggers(p, m)
    PROVE  /\ o = [id |-> o.id, entry |-> o.entry, minute |-> o.minute]
           /\ o.id = p.id /\ o.minute = m /\ Runs(p) = "schedule"
           /\ \E i \in DueEntries(p.spec.schedule, m) : p.spec.schedule[i] = o.entry
<1>1. Runs(p) = "schedule"
    BY DEF Triggers
<1>2. PICK i \in DueEntries(p.spec.schedule, m) :
          o = [id |-> p.id, entry |-> p.spec.schedule[i], minute |-> m]
    BY <1>1 DEF Triggers
<1> QED
    BY <1>1, <1>2

\* Removing an element keeps the others.
LEMMA RemoveAtKeeps ==
    ASSUME NEW S, NEW s \in Seq(S), NEW k \in DOMAIN s, NEW p \in Range(s), p # s[k]
    PROVE  p \in Range(RemoveAt(s, k))
<1> DEFINE before == SubSeq(s, 1, k - 1)
           after  == SubSeq(s, k + 1, Len(s))
<1>1. /\ k \in 1 .. Len(s) /\ Len(s) \in Nat
      /\ DOMAIN s = 1 .. Len(s) /\ \A i \in 1 .. Len(s) : s[i] \in S
    OBVIOUS
<1>2. PICK j \in 1 .. Len(s) : s[j] = p
    BY <1>1 DEF Range
<1>3. j # k
    BY <1>2
<1>4. /\ before \in Seq(S) /\ Len(before) = k - 1
      /\ \A i \in 1 .. k - 1 : before[i] = s[i]
    <2>1. \A i \in 1 .. k - 1 : s[i] \in S
        BY <1>1
    <2> QED
        BY <1>1, <2>1, SubSeqProperties
<1>5. /\ after \in Seq(S) /\ Len(after) = Len(s) - k
      /\ \A i \in 1 .. Len(s) - k : after[i] = s[k + i]
    <2>1. \A i \in k + 1 .. Len(s) : s[i] \in S
        BY <1>1
    <2> QED
        BY <1>1, <2>1, SubSeqProperties, SMTT(20)
<1>6. RemoveAt(s, k) = before \o after
    BY DEF RemoveAt
<1> HIDE DEF before, after
<1>7. /\ Len(before \o after) = Len(s) - 1
      /\ DOMAIN (before \o after) = 1 .. Len(s) - 1
      /\ \A i \in 1 .. k - 1 : (before \o after)[i] = before[i]
      /\ \A i \in k .. Len(s) - 1 : (before \o after)[i] = after[i - (k - 1)]
    <2>1. /\ before \o after \in Seq(S) /\ Len(before \o after) = Len(before) + Len(after)
          /\ \A i \in 1 .. Len(before) : (before \o after)[i] = before[i]
          /\ \A i \in Len(before) + 1 .. Len(before) + Len(after) :
                (before \o after)[i] = after[i - Len(before)]
        <3>1. \A i \in 1 .. Len(before) + Len(after) :
                 (before \o after)[i] = IF i <= Len(before) THEN before[i]
                                         ELSE after[i - Len(before)]
            BY <1>4, <1>5, ConcatProperties
        <3>2. Len(before) \in Nat /\ Len(after) \in Nat
            BY <1>4, <1>5
        <3>3. before \o after \in Seq(S) /\ Len(before \o after) = Len(before) + Len(after)
            BY <1>4, <1>5, ConcatProperties
        <3>4. \A i \in 1 .. Len(before) : i \in 1 .. Len(before) + Len(after) /\ i <= Len(before)
            BY <3>2
        <3>5. \A i \in Len(before) + 1 .. Len(before) + Len(after) :
                 i \in 1 .. Len(before) + Len(after) /\ ~(i <= Len(before))
            BY <3>2
        <3> QED
            BY <3>1, <3>3, <3>4, <3>5, Zenon
    <2>2. Len(before \o after) = Len(s) - 1
        BY <1>1, <1>4, <1>5, <2>1
    <2>3. DOMAIN (before \o after) = 1 .. Len(s) - 1
        BY <2>1, <2>2
    <2>4. \A i \in k .. Len(s) - 1 : i \in Len(before) + 1 .. Len(before) + Len(after)
        BY <1>1, <1>4, <1>5
    <2> QED
        BY <1>1, <1>4, <2>1, <2>2, <2>3, <2>4
<1>8. CASE j < k
    <2>1. j \in 1 .. k - 1 /\ j \in 1 .. Len(s) - 1
        BY <1>1, <1>8
    <2>2. (before \o after)[j] = p
        BY <1>2, <1>4, <1>7, <2>1
    <2> QED
        BY <1>6, <1>7, <2>1, <2>2 DEF Range
<1>9. CASE j > k
    <2>1. /\ j - 1 \in k .. Len(s) - 1 /\ j - 1 \in 1 .. Len(s) - 1
          /\ j - k \in 1 .. Len(s) - k /\ j - 1 - (k - 1) = j - k /\ k + (j - k) = j
        BY <1>1, <1>9
    <2>2. (before \o after)[j - 1] = p
        BY <1>2, <1>5, <1>7, <2>1
    <2> QED
        BY <1>6, <1>7, <2>1, <2>2 DEF Range
<1> QED
    BY <1>1, <1>2, <1>3, <1>8, <1>9

LEMMA OwedInit == Init => OwedInvariant
<1> SUFFICES ASSUME Init PROVE OwedInvariant
    OBVIOUS
<1> QED
    BY DEF Init, OwedInvariant, Timing, NoPass

\* Nothing that the triggers depend on changes, or the program is edited: of those that
\* are still owed the list has what it had.
LEMMA OwedListed ==
    ASSUME OwedInvariant,
           UNCHANGED <<clock, phase, now, copy, doing, entries, fired>>, last'.woke = last.woke,
           owed' \subseteq owed,
           \A o \in owed' : \A p : p.id = o.id => (p \in Range(mem)' <=> p \in Range(mem))
    PROVE  OwedInvariant'
<1>1. Timing'
    BY DEF OwedInvariant, Timing
<1>2. MinuteOf(clock)' = MinuteOf(clock) /\ MinuteOf(now)' = MinuteOf(now)
      /\ MinuteOf(last.woke)' = MinuteOf(last.woke)
    BY DEF MinuteOf
<1>3. ASSUME NEW o \in owed' PROVE WillFire(o)'
    <2>1. WillFire(o) /\ \A p : p.id = o.id => (p \in Range(mem)' <=> p \in Range(mem))
        BY <1>3 DEF OwedInvariant
    <2>2. InTime(o)'
        BY <1>2, <2>1 DEF WillFire, InTime, Ours
    <2>3. Listed(o)'
        <3>1. PICK p \in Range(mem) : o \in Triggers(p, o.minute)
            BY <2>1 DEF WillFire, Listed
        <3>2. p.id = o.id
            BY <3>1, TriggerFields
        <3> QED
            BY <2>1, <3>1, <3>2 DEF Listed, Triggers, Runs
    <2>4. Unclaimed(o)'
        BY <2>1 DEF WillFire, Unclaimed
    <2>5. Same(o)'
        BY <1>2, <2>1 DEF WillFire, Same, Ours
    <2>6. Ahead(o)'
        BY <1>2, <2>1 DEF WillFire, Ahead, Ours, Triggers, Runs
    <2> QED
        BY <2>2, <2>3, <2>4, <2>5, <2>6 DEF WillFire
<1> QED
    BY <1>1, <1>3 DEF OwedInvariant

LEMMA OwedEdit ==
    ASSUME OwedInvariant, StoreInvariant,
           \/ \E spec \in Specs : Create(spec) \/ \E i \in IdsOf(mem) : Update(i, spec)
           \/ \E i \in IdsOf(mem) : Delete(i)
    PROVE  OwedInvariant'
<1>1. UNCHANGED <<clock, phase, now, copy, doing, entries, fired, last>>
    BY DEF Create, Update, Delete, passVars, memoryVars, historyVars
<1>2. mem \in Seq(Stored) /\ Range(mem) \subseteq Stored /\ edits \in Nat
    BY DEF StoreInvariant, Listing, Range
<1>3. \A p, q \in Range(mem) : p.id = q.id => p = q
    BY DEF StoreInvariant, Listing
<1>4. ASSUME NEW o \in owed PROVE o.id \in Nat /\ o.id <= edits
    <2>1. PICK p \in Range(mem) : o \in Triggers(p, o.minute)
        BY DEF OwedInvariant, WillFire, Listed
    <2>2. p.id = o.id
        BY <2>1, TriggerFields
    <2> QED
        BY <1>2, <2>2 DEF Stored, StoreInvariant, Listing
<1>5. ASSUME NEW spec \in Specs, Create(spec)
      PROVE  /\ owed' \subseteq owed
             /\ \A o \in owed' : \A p : p.id = o.id => (p \in Range(mem)' <=> p \in Range(mem))
    <2>1. owed' = owed
        BY <1>5 DEF Create, historyVars
    <2>2. PICK program \in IntoProgram(spec) :
              \/ mem' = Append(mem, [id |-> edits + 1, spec |-> program])
              \/ mem' = mem
        BY <1>5 DEF Create
    <2> DEFINE new == [id |-> edits + 1, spec |-> program]
    <2>3. new \in Stored /\ new.id = edits + 1
        BY <1>2, <1>5, <2>2 DEF Stored
    <2>4. mem' = Append(mem, new) \/ mem' = mem
        BY <2>2
    <2> HIDE DEF new
    <2>5. Range(mem') = Range(mem) \/ Range(mem') = Range(mem) \cup {new}
        <3>1. Range(Append(mem, new)) = Range(mem) \cup {new}
            BY <1>2, <2>3, AppendRange
        <3> QED
            BY <2>4, <3>1
    <2>6. Range(mem)' = Range(mem')
        BY DEF Range
    <2>7. \A o \in owed : o.id # new.id
        BY <1>2, <1>4, <2>3
    <2> QED
        BY <2>1, <2>5, <2>6, <2>7
<1>6. ASSUME NEW spec \in Specs, NEW i \in IdsOf(mem), Update(i, spec)
      PROVE  /\ owed' \subseteq owed
             /\ \A o \in owed' : \A p : p.id = o.id => (p \in Range(mem)' <=> p \in Range(mem))
    <2>1. PICK program \in IntoProgram(spec) :
              LET programs == [k \in DOMAIN mem |->
                                  IF mem[k].id = i THEN [id |-> i, spec |-> program] ELSE mem[k]]
              IN  \/ mem' = programs /\ Forgiven(i)
                  \/ mem' = RolledBack(programs) /\ UNCHANGED <<owed, kept>>
        BY <1>6 DEF Update
    <2> DEFINE new == [id |-> i, spec |-> program]
               programs == [k \in DOMAIN mem |-> IF mem[k].id = i THEN new ELSE mem[k]]
    <2>2. \/ mem' = programs /\ owed' = {o \in owed : o.id # i}
          \/ mem' = mem /\ owed' = owed
        BY <2>1 DEF RolledBack, Forgiven
    <2>3. new.id = i
        OBVIOUS
    <2> HIDE DEF new
    <2>4. CASE mem' = programs /\ owed' = {o \in owed : o.id # i}
        <3>1. \A p : p.id # i => (p \in Range(programs) <=> p \in Range(mem))
            <4>1. \A p \in Range(programs) : p = new \/ p \in Range(mem)
                BY DEF Range
            <4>2. ASSUME NEW k \in DOMAIN mem, mem[k].id # i PROVE mem[k] \in Range(programs)
                <5>1. k \in DOMAIN programs /\ programs[k] = mem[k]
                    BY <4>2
                <5> QED
                    BY <5>1 DEF Range
            <4>3. \A p \in Range(mem) : p.id # i => p \in Range(programs)
                BY <4>2 DEF Range
            <4> QED
                BY <2>3, <4>1, <4>3
        <3>2. Range(mem)' = Range(programs)
            BY <2>4 DEF Range
        <3> HIDE DEF programs
        <3> QED
            BY <2>4, <3>1, <3>2
    <2>5. CASE mem' = mem /\ owed' = owed
        BY <2>5 DEF Range
    <2> QED
        BY <2>2, <2>4, <2>5
<1>7. ASSUME NEW i \in IdsOf(mem), Delete(i)
      PROVE  /\ owed' \subseteq owed
             /\ \A o \in owed' : \A p : p.id = o.id => (p \in Range(mem)' <=> p \in Range(mem))
    <2>1. PICK k \in DOMAIN mem :
              /\ mem[k].id = i
              /\ \/ mem' = RemoveAt(mem, k) /\ owed' = {o \in owed : o.id # i}
                 \/ mem' = Append(RemoveAt(mem, k), mem[k]) /\ owed' = owed
        BY <1>7 DEF Delete, Forgiven
    <2> DEFINE programs == RemoveAt(mem, k)
    <2>2. programs \in Seq(Stored) /\ Range(programs) \subseteq Range(mem)
        BY <1>2, RemoveAtRange
    <2>3. mem[k] \in Stored /\ mem[k] \in Range(mem)
        BY <1>2 DEF Range
    <2>4. \A p \in Range(mem) : p # mem[k] => p \in Range(programs)
        BY <1>2, RemoveAtKeeps
    <2> HIDE DEF programs
    <2>5. Range(Append(programs, mem[k])) = Range(mem)
        <3>1. Range(Append(programs, mem[k])) = Range(programs) \cup {mem[k]}
            BY <2>2, <2>3, AppendRange
        <3> QED
            BY <2>2, <2>3, <2>4, <3>1
    <2>6. Range(mem)' = Range(mem')
        BY DEF Range
    <2>7. \/ mem' = programs /\ owed' = {o \in owed : o.id # i}
          \/ mem' = Append(programs, mem[k]) /\ owed' = owed
        BY <2>1 DEF programs
    <2>8. CASE mem' = programs /\ owed' = {o \in owed : o.id # i}
        <3>1. \A p : p.id # i => (p \in Range(programs) <=> p \in Range(mem))
            BY <2>1, <2>2, <2>4
        <3> QED
            BY <2>6, <2>8, <3>1
    <2>9. CASE mem' = Append(programs, mem[k]) /\ owed' = owed
        BY <2>5, <2>6, <2>9
    <2> QED
        BY <2>7, <2>8, <2>9
<1>8. /\ owed' \subseteq owed
      /\ \A o \in owed' : \A p : p.id = o.id => (p \in Range(mem)' <=> p \in Range(mem))
    BY <1>5, <1>6, <1>7
<1> QED
    BY <1>1, <1>8, OwedListed

\* A minute begins: what it owes is of the list, and nothing claimed it yet.  Of the one
\* that ends only what a pass begun in it has yet to come to is owed on.
LEMMA OwedTick ==
    ASSUME OwedInvariant, Settings, Tick
    PROVE  OwedInvariant'
<1>1. /\ UNCHANGED <<mem, phase, now, copy, doing, entries, fired, last>>
      /\ clock' = clock + 1
      /\ \A o \in owed' :
            \/ /\ o \in owed
               /\ \/ MinuteOf(clock') = MinuteOf(clock)
                  \/ o.minute = MinuteOf(clock) => ~SleptOver(clock')
            \/ /\ MinuteOf(clock') # MinuteOf(clock)
               /\ \E p \in Range(mem) : o \in Triggers(p, MinuteOf(clock'))
    BY DEF Tick, storeVars, memoryVars
<1>2. /\ clock \in Nat /\ now \in Nat /\ now <= clock
      /\ last.woke \in Nat /\ last.woke <= clock /\ TicksPerMinute \in Nat
    BY TimeAssumption DEF OwedInvariant, Timing, Settings, FiringInvariant, ClockType
<1>3. Timing'
    BY <1>1, <1>2 DEF OwedInvariant, Timing
<1> DEFINE m == MinuteOf(clock)
           next == MinuteOf(clock + 1)
           n == MinuteOf(now)
           w == MinuteOf(last.woke)
<1>4. /\ m \in Nat /\ next \in Nat /\ n \in Nat /\ w \in Nat
      /\ n <= m /\ w <= m /\ m <= next
    BY <1>2, MinutesInOrder
<1>5. next <= m + 1
    <2>1. clock + 1 \in Nat /\ clock + 1 <= clock + TicksPerMinute
        BY <1>2, TimeAssumption
    <2> QED
        BY <1>2, <2>1, NextMinute
<1>6. /\ MinuteOf(clock)' = next /\ MinuteOf(now)' = n /\ MinuteOf(last.woke)' = w
      /\ MinuteOf(clock') = next
    BY <1>1 DEF MinuteOf
<1>7. ASSUME next # m, ~SleptOver(clock') PROVE w = m
    <2>1. clock + 1 \in Nat /\ clock + 1 <= last.woke + TicksPerMinute
        BY <1>1, <1>2, <1>7 DEF SleptOver
    <2>2. next <= w + 1
        BY <1>2, <2>1, NextMinute
    <2> QED
        BY <1>4, <1>7, <2>2
<1> HIDE DEF m, next, n, w
<1>8. Range(mem)' = Range(mem)
    BY <1>1 DEF Range
<1>9. ASSUME NEW o \in owed' PROVE WillFire(o)'
    <2>1. ASSUME o \in owed, next = m \/ (o.minute = m => ~SleptOver(clock')) PROVE WillFire(o)'
        <3>1. WillFire(o)
            BY <2>1 DEF OwedInvariant
        <3>2. Ours(o)' = Ours(o)
            BY <1>1, <1>6 DEF Ours, n
        <3>3. InTime(o)'
            <4>1. o.minute \in Nat /\ (~Ours(o) => o.minute = m /\ w < o.minute)
                BY <3>1 DEF WillFire, InTime, m, w
            <4>2. CASE next = m
                BY <1>6, <3>2, <4>1, <4>2 DEF InTime
            <4>3. CASE next # m
                <5>1. ~Ours(o) => w = m
                    BY <1>7, <2>1, <4>1, <4>3
                <5>2. Ours(o)
                    BY <1>4, <4>1, <5>1
                <5> QED
                    BY <3>2, <4>1, <5>2 DEF InTime
            <4> QED
                BY <4>2, <4>3
        <3>4. Listed(o)' /\ Unclaimed(o)'
            BY <1>1, <1>8, <3>1 DEF WillFire, Listed, Unclaimed, Triggers, Runs
        <3>5. Same(o)'
            BY <1>1, <1>8, <3>1, <3>2 DEF WillFire, Same
        <3>6. Ahead(o)'
            BY <1>1, <1>8, <3>1, <3>2 DEF WillFire, Ahead, Triggers, Runs
        <3> QED
            BY <3>3, <3>4, <3>5, <3>6 DEF WillFire
    <2>2. ASSUME next # m, NEW p \in Range(mem), o \in Triggers(p, next) PROVE WillFire(o)'
        <3>1. o.minute = next
            BY <2>2, TriggerFields
        <3>2. next = m + 1 /\ n < next /\ w < next
            BY <1>4, <1>5, <2>2
        <3>3. InTime(o)'
            BY <1>4, <1>6, <3>1, <3>2 DEF InTime
        <3>4. Listed(o)'
            BY <1>8, <2>2, <3>1 DEF Listed, Triggers, Runs
        <3>5. Unclaimed(o)'
            <4>1. \A key \in DOMAIN fired : fired[key] \in Nat /\ fired[key] <= m
                BY DEF Settings, FiringInvariant, Claims, m
            <4>2. \A key \in DOMAIN fired : fired[key] # o.minute
                BY <1>4, <3>1, <3>2, <4>1
            <4> QED
                BY <1>1, <4>2 DEF Unclaimed
        <3>6. ~Ours(o)'
            BY <1>4, <1>6, <3>1, <3>2 DEF Ours
        <3> QED
            BY <3>3, <3>4, <3>5, <3>6 DEF WillFire, Same, Ahead
    <2> QED
        BY <1>1, <1>6, <1>9, <2>1, <2>2 DEF m
<1> QED
    BY <1>3, <1>9 DEF OwedInvariant

\* The pass that wakes has the list as it is and all of this minute before it.
LEMMA OwedWake ==
    ASSUME OwedInvariant, Settings, Wake
    PROVE  OwedInvariant'
<1>1. /\ UNCHANGED <<clock, mem, doing, entries, fired, owed>>
      /\ phase = "asleep"
      /\ phase' = "pass" /\ now' = clock /\ copy' = mem /\ last'.woke = clock
    BY DEF Wake, storeVars, memoryVars
<1>2. entries = {}
    BY <1>1 DEF Settings, AtRest, Busy
<1>3. clock \in Nat
    BY DEF Settings, FiringInvariant, ClockType
<1>4. Timing'
    BY <1>1, <1>3 DEF OwedInvariant, Timing
<1>5. MinuteOf(clock)' = MinuteOf(clock) /\ MinuteOf(now)' = MinuteOf(clock)
    BY <1>1 DEF MinuteOf
<1>6. Range(mem)' = Range(mem) /\ Range(copy)' = Range(mem)
    BY <1>1 DEF Range
<1>7. ASSUME NEW o \in owed' PROVE WillFire(o)'
    <2>1. WillFire(o)
        BY <1>1, <1>7 DEF OwedInvariant
    <2>2. InTime(o)'
        BY <1>1, <1>5, <2>1 DEF WillFire, InTime, Ours
    <2>3. Listed(o)' /\ Unclaimed(o)'
        BY <1>1, <1>6, <2>1 DEF WillFire, Listed, Unclaimed, Triggers, Runs
    <2>4. Same(o)'
        BY <1>1, <1>2, <1>6 DEF Same
    <2>5. Ahead(o)'
        BY <1>6, <2>1 DEF WillFire, Listed, Ahead, Triggers, Runs
    <2> QED
        BY <2>2, <2>3, <2>4, <2>5 DEF WillFire
<1> QED
    BY <1>4, <1>7 DEF OwedInvariant

\* It comes to a program, and has all the entries of it that are due.
LEMMA OwedNext ==
    ASSUME OwedInvariant, Settings, NextProgram
    PROVE  OwedInvariant'
<1>1. /\ UNCHANGED <<clock, mem, phase, now, fired, owed, last>>
      /\ phase = "pass" /\ entries = {} /\ copy # <<>>
      /\ doing' = Head(copy) /\ copy' = Tail(copy)
      /\ Runs(doing') = "schedule" => entries' = DueEntries(doing'.spec.schedule, MinuteOf(now))
    BY DEF NextProgram, Idle, storeVars, memoryVars, historyVars
<1>2. Range(copy) = {doing'} \cup Range(copy')
    <2>1. copy \in Seq(Stored)
        BY DEF Settings, AtRest
    <2> QED
        BY <1>1, <2>1, HeadAndTail
<1>3. Timing'
    BY <1>1 DEF OwedInvariant, Timing
<1>4. MinuteOf(clock)' = MinuteOf(clock) /\ MinuteOf(now)' = MinuteOf(now)
      /\ MinuteOf(last.woke)' = MinuteOf(last.woke)
    BY <1>1 DEF MinuteOf
<1>5. Range(mem)' = Range(mem) /\ Range(copy)' = Range(copy')
    BY <1>1 DEF Range
<1>6. ASSUME NEW o \in owed' PROVE WillFire(o)'
    <2>1. WillFire(o)
        BY <1>1, <1>6 DEF OwedInvariant
    <2>2. InTime(o)'
        BY <1>1, <1>4, <2>1 DEF WillFire, InTime, Ours
    <2>3. Listed(o)' /\ Unclaimed(o)'
        BY <1>1, <1>5, <2>1 DEF WillFire, Listed, Unclaimed, Triggers, Runs
    <2>4. Same(o)'
        BY <1>1, <1>2, <1>4, <1>5, <2>1 DEF WillFire, Same, Ours
    <2>5. Ahead(o)'
        <3>1. SUFFICES ASSUME Ours(o)'
                       PROVE  \/ \E p \in Range(copy') : o \in Triggers(p, o.minute)
                              \/ \E i \in entries' : doing'.id = o.id
                                                     /\ doing'.spec.schedule[i] = o.entry
            BY <1>5 DEF Ahead, Triggers, Runs
        <3>2. o.minute = MinuteOf(now) /\ Ours(o)
            BY <1>1, <1>4, <3>1 DEF Ours
        <3>3. PICK p \in Range(copy) : o \in Triggers(p, o.minute)
            BY <1>1, <2>1, <3>2 DEF WillFire, Ahead
        <3>4. CASE p = doing'
            <4>1. /\ o.id = doing'.id /\ Runs(doing') = "schedule"
                  /\ \E i \in DueEntries(doing'.spec.schedule, o.minute) :
                        doing'.spec.schedule[i] = o.entry
                BY <3>3, <3>4, TriggerFields
            <4> QED
                BY <1>1, <3>2, <4>1
        <3> QED
            BY <1>2, <3>3, <3>4
    <2> QED
        BY <2>2, <2>3, <2>4, <2>5 DEF WillFire
<1> QED
    BY <1>3, <1>6 DEF OwedInvariant

\* An entry that is passed over was not owed, one that is fired is owed no more.
LEMMA OwedTrigger ==
    ASSUME OwedInvariant, Settings, Trigger
    PROVE  OwedInvariant'
<1>1. PICK i \in entries :
          /\ phase = "pass" /\ entries' = entries \ {i}
          /\ UNCHANGED <<clock, mem, phase, now, copy, doing, last>>
          /\ IF Claimed(<<doing.id, i>>, MinuteOf(now)) THEN UNCHANGED <<fired, owed>>
             ELSE /\ fired' = Put(fired, <<doing.id, i>>, MinuteOf(now))
                  /\ owed' = owed \ {[id |-> doing.id, entry |-> doing.spec.schedule[i],
                                      minute |-> MinuteOf(now)]}
    BY DEF Trigger, storeVars, boundVars
<1> DEFINE key == <<doing.id, i>>
           it == [id |-> doing.id, entry |-> doing.spec.schedule[i], minute |-> MinuteOf(now)]
<1>2. key[1] = doing.id /\ key[2] = i
    OBVIOUS
<1>3. /\ Claimed(key, MinuteOf(now)) => UNCHANGED <<fired, owed>>
      /\ ~Claimed(key, MinuteOf(now)) => fired' = Put(fired, key, MinuteOf(now))
                                         /\ owed' = owed \ {it}
    BY <1>1
<1> HIDE DEF key
<1>4. Timing'
    BY <1>1 DEF OwedInvariant, Timing
<1>5. MinuteOf(clock)' = MinuteOf(clock) /\ MinuteOf(now)' = MinuteOf(now)
      /\ MinuteOf(last.woke)' = MinuteOf(last.woke)
    BY <1>1 DEF MinuteOf
<1>6. Range(mem)' = Range(mem) /\ Range(copy)' = Range(copy)
    BY <1>1 DEF Range
<1>7. ASSUME NEW o \in owed' PROVE WillFire(o)'
    <2>1. WillFire(o)
        BY <1>3, <1>7 DEF OwedInvariant
    <2>2. PICK listed \in Range(mem) : o \in Triggers(listed, o.minute)
        BY <2>1 DEF WillFire, Listed
    <2>3. o = [id |-> o.id, entry |-> o.entry, minute |-> o.minute] /\ o.id = listed.id
        BY <2>2, TriggerFields
    <2>4. ASSUME o.minute = MinuteOf(now), doing.id = o.id PROVE doing.spec.schedule[i] # o.entry
        <3>1. doing \in Range(mem)
            BY <1>1, <2>1, <2>4 DEF WillFire, Same, Ours
        <3>2. CASE Claimed(key, MinuteOf(now))
            <4>1. key \in DOMAIN fired /\ fired[key] = o.minute /\ key[1] = o.id
                BY <1>2, <2>4, <3>2 DEF Claimed
            <4>2. doing.spec.schedule[key[2]] # o.entry
                BY <2>1, <2>4, <3>1, <4>1 DEF WillFire, Unclaimed
            <4> QED
                BY <1>2, <4>2
        <3>3. CASE ~Claimed(key, MinuteOf(now))
            <4>1. o # it
                BY <1>3, <1>7, <3>3
            <4> QED
                BY <2>3, <2>4, <4>1
        <3> QED
            BY <3>2, <3>3
    <2>5. InTime(o)'
        BY <1>1, <1>5, <2>1 DEF WillFire, InTime, Ours
    <2>6. Listed(o)'
        BY <1>6, <2>1 DEF WillFire, Listed, Triggers, Runs
    <2>7. Unclaimed(o)'
        <3>1. CASE Claimed(key, MinuteOf(now))
            BY <1>3, <1>6, <2>1, <3>1 DEF WillFire, Unclaimed
        <3>2. CASE ~Claimed(key, MinuteOf(now))
            <4>1. fired' = Put(fired, key, MinuteOf(now))
                BY <1>3, <3>2
            <4> SUFFICES ASSUME NEW k \in DOMAIN fired', k[1] = o.id, fired'[k] = o.minute,
                                NEW p \in Range(mem), p.id = o.id
                         PROVE  p.spec.schedule[k[2]] # o.entry
                BY <1>6 DEF Unclaimed
            <4>2. CASE k = key
                <5>1. o.minute = MinuteOf(now) /\ doing.id = o.id
                    BY <1>2, <4>1, <4>2 DEF Put
                <5>2. doing \in Range(mem)
                    BY <1>1, <2>1, <5>1 DEF WillFire, Same, Ours
                <5>3. doing = p
                    BY <5>1, <5>2 DEF Settings, StoreInvariant, Listing
                <5> QED
                    BY <1>2, <2>4, <4>2, <5>1, <5>3
            <4>3. CASE k # key
                <5>1. k \in DOMAIN fired /\ fired[k] = o.minute
                    BY <4>1, <4>3 DEF Put
                <5> QED
                    BY <2>1, <5>1 DEF WillFire, Unclaimed
            <4> QED
                BY <4>2, <4>3
        <3> QED
            BY <3>1, <3>2
    <2>8. Same(o)'
        BY <1>1, <1>5, <1>6, <2>1 DEF WillFire, Same, Ours
    <2>9. Ahead(o)'
        <3>1. SUFFICES ASSUME Ours(o)'
                       PROVE  \/ \E p \in Range(copy) : o \in Triggers(p, o.minute)
                              \/ \E j \in entries' : doing.id = o.id
                                                     /\ doing.spec.schedule[j] = o.entry
            BY <1>1, <1>6 DEF Ahead, Triggers, Runs
        <3>2. o.minute = MinuteOf(now) /\ Ours(o)
            BY <1>1, <1>5, <3>1 DEF Ours
        <3>3. CASE \E p \in Range(copy) : o \in Triggers(p, o.minute)
            BY <3>3
        <3>4. ASSUME NEW j \in entries, doing.id = o.id, doing.spec.schedule[j] = o.entry
              PROVE  j \in entries'
            BY <1>1, <2>4, <3>2, <3>4
        <3> QED
            BY <2>1, <3>2, <3>3, <3>4 DEF WillFire, Ahead
    <2> QED
        BY <2>5, <2>6, <2>7, <2>8, <2>9 DEF WillFire
<1> QED
    BY <1>4, <1>7 DEF OwedInvariant

\* A pass that ends owes nothing of its own minute.
LEMMA OwedEnd ==
    ASSUME OwedInvariant, EndPass
    PROVE  OwedInvariant'
<1>1. /\ UNCHANGED <<clock, mem, copy, entries, fired, owed, last>>
      /\ phase = "pass" /\ entries = {} /\ copy = <<>> /\ phase' = "asleep"
    BY DEF EndPass, Idle, storeVars, memoryVars, historyVars
<1>2. Timing'
    BY <1>1 DEF OwedInvariant, Timing
<1>3. MinuteOf(clock)' = MinuteOf(clock) /\ MinuteOf(last.woke)' = MinuteOf(last.woke)
    BY <1>1 DEF MinuteOf
<1>4. Range(mem)' = Range(mem) /\ Range(copy) = {}
    BY <1>1 DEF Range
<1>5. ASSUME NEW o \in owed' PROVE WillFire(o)'
    <2>1. WillFire(o)
        BY <1>1, <1>5 DEF OwedInvariant
    <2>2. ~Ours(o)
        BY <1>1, <1>4, <2>1 DEF WillFire, Ahead
    <2>3. InTime(o)'
        BY <1>3, <2>1, <2>2 DEF WillFire, InTime
    <2>4. Listed(o)' /\ Unclaimed(o)'
        BY <1>1, <1>4, <2>1 DEF WillFire, Listed, Unclaimed, Triggers, Runs
    <2>5. Same(o)' /\ Ahead(o)'
        BY <1>1 DEF Same, Ahead, Ours
    <2> QED
        BY <2>3, <2>4, <2>5 DEF WillFire
<1> QED
    BY <1>2, <1>5 DEF OwedInvariant

LEMMA OwedStep ==
    ASSUME OwedInvariant, Settings, [Next]_vars
    PROVE  OwedInvariant'
<1> DEFINE Left == /\ UNCHANGED <<clock, mem, phase, now, copy, doing, entries, fired, owed>>
                   /\ last'.woke = last.woke
<1>1. CASE Left
    <2>1. Range(mem)' = Range(mem)
        BY <1>1 DEF Range
    <2> QED
        BY <1>1, <2>1, OwedListed
<1>2. ASSUME NEW u, PassBy(u) \/ Follow(u) \/ Manual(u)
      PROVE  Left
    BY <1>2 DEF PassBy, Follow, ComeTo, Manual, storeVars, passVars, memoryVars, historyVars
<1>3. ASSUME NEW u, ApplyScene(u) \/ Land(u) PROVE Left
    <2>1. [last EXCEPT !.clean = FALSE].woke = last.woke
        OBVIOUS
    <2> QED
        BY <1>3, <2>1 DEF ApplyScene, Land, storeVars, memoryVars, historyVars
<1>4. CASE Restart
    <2>1. owed' = {} /\ phase' = "asleep" /\ clock' = clock /\ last' = NoPass(clock)
        BY <1>4 DEF Restart
    <2>2. last'.woke = clock /\ clock \in Nat
        BY <2>1 DEF NoPass, Settings, FiringInvariant, ClockType
    <2> QED
        BY <2>1, <2>2 DEF OwedInvariant, Timing
<1>5. Rest \/ UNCHANGED vars => Left
    BY DEF Rest, vars, storeVars, passVars, memoryVars, historyVars
<1> HIDE DEF Left
<1> QED
    BY <1>1, <1>2, <1>3, <1>4, <1>5, OwedEdit, OwedTick, OwedWake, OwedNext, OwedTrigger, OwedEnd
       DEF Next, Settings

\* run_schedule and the note above it ("a trigger only has to land inside the right
\* minute"): every trigger that was stored and enabled when its minute began, and is left
\* alone, is fired by a pass of that minute, however long passes and the nap take and
\* whatever else is edited, fails or is claimed meanwhile; lost is only what no pass
\* could come to, from one pass to the next having taken more than a minute.
THEOREM TriggersLandInTheirMinute == Spec => []NoTriggerMissed
<1> DEFINE Inv == FiringInvariant /\ StoreInvariant /\ NudgeInvariant /\ OwedInvariant
<1>1. Init => Inv
    BY FiringInit, StoreInit, NudgeInit, OwedInit
<1>2. Inv /\ [Next]_vars => Inv'
    BY FiringStep, StoreStep, NudgeStep, OwedStep DEF Settings, NudgeInvariant
<1>3. Inv => NoTriggerMissed
    BY DEF OwedInvariant, WillFire, InTime, Ours, NoTriggerMissed
<1> QED
    BY <1>1, <1>2, <1>3, PTL DEF Spec
-----------------------------------------------------------------------------
(* Where a curve is.                                                       *)

Minutes == 0 .. MinutesPerDay - 1

LEMMA Quotient ==
    ASSUME NEW d \in Nat \ {0}, NEW x \in Int
    PROVE  x \div d \in Int /\ x % d \in 0 .. d - 1 /\ x = d * (x \div d) + (x % d)
OBVIOUS

LEMMA RemainderIs ==
    ASSUME NEW d \in Nat \ {0}, NEW x \in Int, NEW k \in Int, NEW r \in 0 .. d - 1, x = d * k + r
    PROVE  x % d = r
OBVIOUS

\* How far it is from one minute of the day to another, around midnight.
LEMMA Around ==
    ASSUME NEW a \in Minutes, NEW b \in Minutes
    PROVE  Cyclic(a - b) = IF a >= b THEN a - b ELSE a - b + MinutesPerDay
<1> DEFINE d == MinutesPerDay
<1>1. d \in Nat \ {0} /\ a \in 0 .. d - 1 /\ b \in 0 .. d - 1
    BY TimeAssumption DEF Minutes
<1> HIDE DEF d
<1>2. a >= b => (a - b) % d = a - b
    <2>1. a >= b => a - b \in 0 .. d - 1 /\ a - b = d * 0 + (a - b)
        BY <1>1
    <2> QED
        BY <1>1, <2>1, RemainderIs
<1>3. ~(a >= b) => (a - b) % d = a - b + d
    <2>1. ~(a >= b) => a - b + d \in 0 .. d - 1 /\ a - b = d * (-1) + (a - b + d)
        BY <1>1
    <2> QED
        BY <1>1, <2>1, RemainderIs
<1> QED
    BY <1>2, <1>3 DEF Cyclic, d

LEMMA DayMinute ==
    ASSUME NEW minute \in Nat
    PROVE  /\ OfDay(minute) \in Minutes
           /\ \A b \in Minutes : (minute - b) % MinutesPerDay = Cyclic(OfDay(minute) - b)
<1> DEFINE d == MinutesPerDay
           q == minute \div d
           m == minute % d
<1>1. d \in Nat \ {0}
    BY TimeAssumption
<1>2. q \in Int /\ m \in 0 .. d - 1 /\ minute = d * q + m
    BY <1>1, Quotient
<1> HIDE DEF d, q, m
<1>3. ASSUME NEW b \in 0 .. d - 1 PROVE (minute - b) % d = (m - b) % d
    <2> DEFINE k == (m - b) \div d
               r == (m - b) % d
    <2>1. m - b \in Int
        BY <1>1, <1>2
    <2>2. k \in Int /\ r \in 0 .. d - 1 /\ m - b = d * k + r
        BY <1>1, <2>1, Quotient
    <2> HIDE DEF k, r
    <2>3. minute - b = d * (k + q) + r
        BY <1>1, <1>2, <2>2
    <2>4. (minute - b) % d = r
        BY <1>1, <2>2, <2>3, <1>2, RemainderIs
    <2> QED
        BY <2>4 DEF r
<1> QED
    BY <1>2, <1>3 DEF OfDay, Cyclic, Minutes, d, m
-----------------------------------------------------------------------------
\* The nearest half degree is no further than half of one away, and stays within the
\* API's range, of which the ends are half degrees.
LEMMA HalfDegrees ==
    ASSUME NEW den \in Nat \ {0}, NEW num \in Int,
           TempMin * den <= num, num <= TempMax * den
    PROVE  /\ RoundHalf(num, den) \in Int
           /\ RoundHalf(num, den) % 5 = 0
           /\ 2 * (RoundHalf(num, den) * den - num) \in -5 * den .. 5 * den
<1> DEFINE f == 5 * den
           lower == num \div f
           rest == num % f
           halves == IF 2 * rest < 5 * den \/ (2 * rest = 5 * den /\ lower % 2 = 0)
                     THEN lower ELSE lower + 1
<1>1. f \in Nat \ {0}
    OBVIOUS
<1>2. lower \in Int /\ rest \in 0 .. f - 1 /\ num = f * lower + rest
    BY <1>1, Quotient
<1>3. /\ halves = lower \/ halves = lower + 1
      /\ halves = lower => 2 * rest <= f
      /\ halves = lower + 1 => 2 * rest >= f
    BY <1>1, <1>2
<1>4. RoundHalf(num, den) =
         CASE 5 * halves < TempMin -> TempMin
           [] 5 * halves > TempMax -> TempMax
           [] OTHER -> 5 * halves
    BY DEF RoundHalf
<1> HIDE DEF halves, lower, rest
<1>5. TempMin = 160 /\ TempMax = 300
    BY DEF TempMin, TempMax
<1>6. lower >= 32
    <2>1. f * lower + rest >= f * 32
        BY <1>2, <1>5
    <2>2. lower + 1 > 32
        BY <1>1, <1>2, <2>1
    <2> QED
        BY <1>2, <2>2
<1>7. lower < 60 \/ (lower = 60 /\ rest = 0)
    <2>1. f * lower + rest <= f * 60
        BY <1>2, <1>5
    <2>2. CASE lower >= 61
        <3>1. f * lower >= f * 61
            BY <1>1, <1>2, <2>2
        <3> QED
            BY <1>1, <1>2, <2>1, <3>1
    <2>3. CASE lower = 60
        BY <1>1, <1>2, <2>1, <2>3
    <2> QED
        BY <1>2, <2>2, <2>3
<1>8. halves \in 32 .. 60
    BY <1>1, <1>2, <1>3, <1>6, <1>7
<1>9. RoundHalf(num, den) = 5 * halves
    BY <1>4, <1>5, <1>8
<1>10. (5 * halves) % 5 = 0
    BY <1>8
<1>11. 2 * (5 * halves * den - num) \in -5 * den .. 5 * den
    <2>1. 5 * halves * den = f * halves
        BY <1>8
    <2>2. CASE halves = lower
        BY <1>1, <1>2, <1>3, <2>1, <2>2
    <2>3. CASE halves = lower + 1
        <3>1. f * halves = f * lower + f
            BY <1>1, <1>2, <2>3
        <3> QED
            BY <1>1, <1>2, <1>3, <2>1, <2>3, <3>1
    <2> QED
        BY <1>3, <2>2, <2>3
<1> QED
    BY <1>8, <1>9, <1>10, <1>11
-----------------------------------------------------------------------------
\* Every set of naturals that has a member has a least one.
LEMMA Least ==
    ASSUME NEW T \in SUBSET Nat, T # {}
    PROVE  \E x \in T : \A y \in T : x <= y
<1> DEFINE R == OpToRel(<, Nat)
<1>1. IsWellFoundedOn(R, Nat)
    BY NatLessThanWellFounded
<1>2. \E x \in T : \A y \in T : <<y, x>> \notin R
    BY <1>1, WFMin
<1>3. \A x, y \in Nat : <<y, x>> \in R <=> y < x
    BY DEF OpToRel
<1> HIDE DEF R
<1>4. PICK x \in T : \A y \in T : <<y, x>> \notin R
    BY <1>2
<1>5. ASSUME NEW y \in T PROVE x <= y
    <2>1. x \in Nat /\ y \in Nat /\ ~(y < x)
        BY <1>3, <1>4
    <2> QED
        BY <2>1
<1> QED
    BY <1>5

\* The point after a point: after the last comes tomorrow's first.
After(n, i) == (i % n) + 1
Increasing(m) == \A k, l \in DOMAIN m : k < l => m[k] < m[l]

LEMMA AfterIs ==
    ASSUME NEW n \in Nat \ {0}, NEW i \in 1 .. n
    PROVE  After(n, i) = IF i = n THEN 1 ELSE i + 1
<1>1. CASE i = n
    <2>1. i = n * 1 + 0 /\ 0 \in 0 .. n - 1
        BY <1>1
    <2> QED
        BY <1>1, <2>1, RemainderIs DEF After
<1>2. CASE i # n
    <2>1. i = n * 0 + i /\ i \in 0 .. n - 1
        BY <1>2
    <2> QED
        BY <1>2, <2>1, RemainderIs DEF After
<1> QED
    BY <1>1, <1>2

\* Of the other points none comes before the next one.
LEMMA NothingBetween ==
    ASSUME NEW n \in Nat, n >= 2, NEW m \in [1 .. n -> Minutes], Increasing(m),
           NEW i \in 1 .. n, NEW j \in 1 .. n, j # i
    PROVE  /\ After(n, i) \in 1 .. n /\ After(n, i) # i
           /\ Cyclic(m[j] - m[i]) \in 1 .. MinutesPerDay - 1
           /\ Cyclic(m[After(n, i)] - m[i]) <= Cyclic(m[j] - m[i])
           /\ Cyclic(m[After(n, i)] - m[i]) = Cyclic(m[j] - m[i]) => j = After(n, i)
<1> DEFINE a == After(n, i)
<1>1. a = (IF i = n THEN 1 ELSE i + 1) /\ a \in 1 .. n /\ a # i
    BY AfterIs
<1> HIDE DEF a
<1>2. MinutesPerDay \in Nat \ {0} /\ \A k \in 1 .. n : m[k] \in 0 .. MinutesPerDay - 1
    BY TimeAssumption DEF Minutes
<1>3. \A k, l \in 1 .. n : k < l => m[k] < m[l]
    BY DEF Increasing
<1>4. \A k \in 1 .. n : Cyclic(m[k] - m[i]) = IF m[k] >= m[i] THEN m[k] - m[i]
                                             ELSE m[k] - m[i] + MinutesPerDay
    BY Around
<1>5. m[j] # m[i] /\ (j < i <=> m[j] < m[i])
    BY <1>2, <1>3
<1>6. m[a] # m[i] /\ (a < i <=> m[a] < m[i])
    BY <1>1, <1>2, <1>3
<1>7. a # j => (a < j <=> m[a] < m[j]) /\ m[a] # m[j]
    BY <1>1, <1>2, <1>3
<1>8. i = n => j < i /\ a < i /\ (a < j \/ a = j)
    BY <1>1
<1>9. i # n => a > i /\ (j < i \/ a < j \/ a = j)
    BY <1>1
<1>10. Cyclic(m[j] - m[i]) \in 1 .. MinutesPerDay - 1
    BY <1>2, <1>4, <1>5
<1>11. CASE a = j
    BY <1>1, <1>10, <1>11 DEF a
<1>12. CASE a # j
    <2>1. Cyclic(m[a] - m[i]) < Cyclic(m[j] - m[i])
        <3>1. /\ Cyclic(m[j] - m[i]) = IF m[j] >= m[i] THEN m[j] - m[i]
                                       ELSE m[j] - m[i] + MinutesPerDay
              /\ Cyclic(m[a] - m[i]) = IF m[a] >= m[i] THEN m[a] - m[i]
                                       ELSE m[a] - m[i] + MinutesPerDay
              /\ m[i] \in 0 .. MinutesPerDay - 1
              /\ m[j] \in 0 .. MinutesPerDay - 1
              /\ m[a] \in 0 .. MinutesPerDay - 1
            BY <1>1, <1>2, <1>4
        <3>2. \/ m[j] < m[i] /\ m[a] < m[i] /\ m[a] < m[j]
              \/ m[a] > m[i] /\ (m[j] < m[i] \/ m[a] < m[j])
            <4>1. m[i] \in Int /\ m[a] \in Int
                BY <3>1
            <4> QED
                BY ONLY <1>1, <1>5, <1>6, <1>7, <1>8, <1>9, <1>12, <4>1, i \in 1 .. n
        <3>3. MinutesPerDay \in Int /\ m[i] \in Int /\ m[j] \in Int /\ m[a] \in Int
            BY <1>2, <3>1
        <3>4. CASE m[j] < m[i] /\ m[a] < m[i] /\ m[a] < m[j]
            <4>1. /\ Cyclic(m[j] - m[i]) = m[j] - m[i] + MinutesPerDay
                  /\ Cyclic(m[a] - m[i]) = m[a] - m[i] + MinutesPerDay
                BY ONLY <3>1, <3>3, <3>4
            <4> QED
                BY ONLY <3>3, <3>4, <4>1
        <3>5. CASE m[a] > m[i] /\ (m[j] < m[i] \/ m[a] < m[j])
            <4>1. /\ Cyclic(m[a] - m[i]) = m[a] - m[i]
                  /\ \/ Cyclic(m[j] - m[i]) = m[j] - m[i] + MinutesPerDay
                     \/ Cyclic(m[j] - m[i]) = m[j] - m[i] /\ m[a] < m[j]
                BY ONLY <3>1, <3>3, <3>5
            <4>2. m[a] < MinutesPerDay /\ m[j] >= 0
                BY ONLY <3>1, <3>3
            <4> QED
                BY ONLY <3>3, <3>5, <4>1, <4>2
        <3> QED
            BY ONLY <3>2, <3>4, <3>5
    <2>2. Cyclic(m[a] - m[i]) \in Int
        BY <1>1, <1>2, <1>4
    <2> QED
        BY <1>1, <1>10, <2>1, <2>2 DEF a
<1> QED
    BY <1>11, <1>12

\* How long ago a point was, from how long ago another was and how far after that it is.
LEMMA Ago ==
    ASSUME NEW a \in Minutes, NEW b \in Minutes, NEW d \in Minutes
    PROVE  /\ Cyclic(d - a) \in Minutes
           /\ Cyclic(d - b) = IF Cyclic(b - a) <= Cyclic(d - a)
                              THEN Cyclic(d - a) - Cyclic(b - a)
                              ELSE MinutesPerDay + Cyclic(d - a) - Cyclic(b - a)
<1>1. MinutesPerDay \in Nat \ {0} /\ {a, b, d} \subseteq 0 .. MinutesPerDay - 1
    BY TimeAssumption DEF Minutes
<1>2. /\ Cyclic(d - a) = IF d >= a THEN d - a ELSE d - a + MinutesPerDay
      /\ Cyclic(d - b) = IF d >= b THEN d - b ELSE d - b + MinutesPerDay
      /\ Cyclic(b - a) = IF b >= a THEN b - a ELSE b - a + MinutesPerDay
    BY Around
<1> QED
    BY <1>1, <1>2 DEF Minutes

\* The point of the segment that reaches as far as now is the last so far, and the one
\* after it is the furthest back, which makes it the next to come.
LEMMA OnSegment ==
    ASSUME NEW n \in Nat, n >= 2, NEW m \in [1 .. n -> Minutes], Increasing(m),
           NEW d \in Minutes, NEW i \in 1 .. n, NEW j \in 1 .. n, j # i,
           Cyclic(d - m[i]) < Cyclic(m[After(n, i)] - m[i])
    PROVE  /\ Cyclic(d - m[i]) < Cyclic(d - m[j])
           /\ j # After(n, i) => Cyclic(d - m[j]) < Cyclic(d - m[After(n, i)])
           /\ Cyclic(d - m[After(n, i)])
                 = MinutesPerDay + Cyclic(d - m[i]) - Cyclic(m[After(n, i)] - m[i])
<1> DEFINE a == After(n, i)
           c(x, y) == Cyclic(x - y)
<1>1. /\ a \in 1 .. n /\ a # i
      /\ c(m[j], m[i]) \in 1 .. MinutesPerDay - 1
      /\ c(m[a], m[i]) <= c(m[j], m[i])
      /\ c(m[a], m[i]) = c(m[j], m[i]) => j = a
    BY NothingBetween
<1>2. c(m[a], m[i]) \in 1 .. MinutesPerDay - 1
    BY <1>1, NothingBetween
<1>3. c(d, m[i]) < c(m[a], m[i])
    OBVIOUS
<1>4. /\ m[i] \in Minutes /\ m[j] \in Minutes /\ m[a] \in Minutes
    BY <1>1
<1>5. /\ c(d, m[i]) \in Minutes
      /\ c(d, m[j]) = IF c(m[j], m[i]) <= c(d, m[i]) THEN c(d, m[i]) - c(m[j], m[i])
                      ELSE MinutesPerDay + c(d, m[i]) - c(m[j], m[i])
      /\ c(d, m[a]) = IF c(m[a], m[i]) <= c(d, m[i]) THEN c(d, m[i]) - c(m[a], m[i])
                      ELSE MinutesPerDay + c(d, m[i]) - c(m[a], m[i])
    BY <1>4, Ago
<1>6. MinutesPerDay \in Nat \ {0} /\ c(d, m[i]) \in 0 .. MinutesPerDay - 1
    BY <1>5, TimeAssumption DEF Minutes
<1> HIDE DEF c
<1>7. /\ c(d, m[i]) < c(d, m[j])
      /\ j # a => c(d, m[j]) < c(d, m[a])
      /\ c(d, m[a]) = MinutesPerDay + c(d, m[i]) - c(m[a], m[i])
    BY <1>1, <1>2, <1>3, <1>5, <1>6
<1> QED
    BY <1>7 DEF c

LEMMA SegmentExists ==
    ASSUME NEW n \in Nat, n >= 2, NEW m \in [1 .. n -> Minutes], Increasing(m), NEW d \in Minutes
    PROVE  \E i \in 1 .. n : Cyclic(d - m[i]) < Cyclic(m[After(n, i)] - m[i])
<1>1. ASSUME NEW i \in 1 .. n PROVE Cyclic(d - m[i]) \in Nat
    <2>1. Cyclic(d - m[i]) \in Minutes
        BY Ago, m[i] \in Minutes
    <2> QED
        BY <2>1, TimeAssumption DEF Minutes
<1> DEFINE ages == {Cyclic(d - m[i]) : i \in 1 .. n}
<1>2. ages \in SUBSET Nat /\ Cyclic(d - m[1]) \in ages
    BY <1>1
<1>3. PICK x \in ages : \A y \in ages : x <= y
    BY <1>2, Least
<1>4. PICK i \in 1 .. n : x = Cyclic(d - m[i])
    BY <1>3
<1> DEFINE a == After(n, i)
<1>5. a \in 1 .. n /\ a # i
    BY AfterIs
<1> HIDE DEF a
<1>6. Cyclic(d - m[i]) <= Cyclic(d - m[a])
    BY <1>3, <1>4, <1>5
<1>7. Cyclic(m[a] - m[i]) \in 1 .. MinutesPerDay - 1
    BY <1>5, NothingBetween
<1>8. m[i] \in Minutes /\ m[a] \in Minutes
    BY <1>5
<1>9. Cyclic(d - m[a]) = IF Cyclic(m[a] - m[i]) <= Cyclic(d - m[i])
                         THEN Cyclic(d - m[i]) - Cyclic(m[a] - m[i])
                         ELSE MinutesPerDay + Cyclic(d - m[i]) - Cyclic(m[a] - m[i])
    BY <1>8, Ago
<1>10. Cyclic(d - m[i]) < Cyclic(m[a] - m[i])
    <2>1. MinutesPerDay \in Nat /\ Cyclic(d - m[i]) \in Nat /\ Cyclic(d - m[a]) \in Nat
        BY <1>1, <1>5, TimeAssumption
    <2> QED
        BY ONLY <1>6, <1>7, <1>9, <2>1
<1> QED
    BY <1>10 DEF a
-----------------------------------------------------------------------------
CurvePoint == [time : [minute : Int, padded : BOOLEAN], temperature : Int]

\* The points can be put in the order of the day: each comes after those that are earlier.
LEMMA DayOrderExists ==
    ASSUME NEW n \in Nat, NEW t \in [1 .. n -> Int], \A i, j \in 1 .. n : t[i] = t[j] => i = j
    PROVE  \E s \in [1 .. n -> 1 .. n] : \A k, l \in 1 .. n : k < l => t[s[k]] < t[s[l]]
<1> DEFINE N == 1 .. n
           early == [i \in N |-> {j \in N : t[j] < t[i]}]
           rank == [i \in N |-> Cardinality(early[i]) + 1]
<1>1. IsFiniteSet(N) /\ Cardinality(N) = n
    BY FS_Interval
<1>2. \A i, j \in N : early[i] \subseteq N /\ (j \in early[i] <=> t[j] < t[i])
    OBVIOUS
<1>a. \A i \in N : rank[i] = Cardinality(early[i]) + 1
    OBVIOUS
<1>b. DOMAIN rank = N /\ rank = [i \in N |-> rank[i]]
    OBVIOUS
<1> HIDE DEF rank, early, N
<1>c. \A i, j \in N : t[i] \in Int /\ t[j] \in Int /\ (t[i] = t[j] => i = j)
    BY DEF N
<1>3. ASSUME NEW i \in N
      PROVE  /\ IsFiniteSet(early[i]) /\ Cardinality(early[i]) \in Nat
             /\ Cardinality(early[i]) < n
    <2>1. early[i] \in SUBSET N /\ i \notin early[i] /\ early[i] # N
        BY <1>2, <1>c
    <2>2. /\ IsFiniteSet(early[i])
          /\ Cardinality(early[i]) <= Cardinality(N)
          /\ Cardinality(N) = Cardinality(early[i]) => N = early[i]
        BY ONLY <1>1, <2>1, FS_Subset
    <2>3. Cardinality(early[i]) \in Nat
        BY <2>2, FS_CardinalityType
    <2> QED
        BY <1>1, <2>1, <2>2, <2>3
<1>4. ASSUME NEW i \in N, NEW j \in N, t[i] < t[j]
      PROVE  Cardinality(early[i]) < Cardinality(early[j])
    <2>1. early[i] \in SUBSET early[j] /\ early[i] # early[j]
        BY <1>2, <1>4, <1>c
    <2>2. /\ Cardinality(early[i]) <= Cardinality(early[j])
          /\ Cardinality(early[j]) = Cardinality(early[i]) => early[j] = early[i]
        BY ONLY <1>3, <2>1, FS_Subset
    <2> QED
        BY <1>3, <2>1, <2>2
<1>5. rank \in [N -> N]
    <2>1. ASSUME NEW i \in N PROVE rank[i] \in N
        <3>1. Cardinality(early[i]) \in Nat /\ Cardinality(early[i]) < n
              /\ rank[i] = Cardinality(early[i]) + 1
            BY <1>3, <1>a
        <3> QED
            BY <3>1 DEF N
    <2> QED
        BY <2>1, <1>b
<1>6. ASSUME NEW i \in N, NEW j \in N, rank[i] <= rank[j] PROVE ~(t[j] < t[i])
    <2>1. SUFFICES ASSUME t[j] < t[i] PROVE FALSE
        OBVIOUS
    <2>2. Cardinality(early[j]) < Cardinality(early[i])
        BY <1>4, <2>1
    <2> QED
        BY <1>3, <1>6, <1>a, <2>2
<1>7. rank \in Injection(N, N)
    <2>1. ASSUME NEW i \in N, NEW j \in N, rank[i] = rank[j] PROVE i = j
        <3>1. rank[i] \in Nat /\ rank[j] \in Nat
            BY <1>5 DEF N
        <3>2. ~(t[j] < t[i]) /\ ~(t[i] < t[j])
            BY <1>6, <2>1, <3>1
        <3> QED
            BY <1>c, <3>2
    <2> QED
        BY <1>5, <2>1 DEF Injection, IsInjective
<1>8. rank \in Surjection(N, N)
    BY <1>1, <1>7, FS_Injection
<1>9. \A k \in N : \E i \in N : rank[i] = k
    BY <1>8 DEF Surjection
<1> DEFINE s == [k \in N |-> CHOOSE i \in N : rank[i] = k]
<1>10. \A k \in N : s[k] \in N /\ rank[s[k]] = k
    BY <1>9
<1>11. s \in [N -> N]
    BY <1>10
<1> HIDE DEF s
<1>12. ASSUME NEW k \in N, NEW l \in N, k < l PROVE t[s[k]] < t[s[l]]
    <2>1. s[k] \in N /\ s[l] \in N /\ s[k] # s[l] /\ k \in Nat /\ l \in Nat
        BY <1>10, <1>12 DEF N
    <2>2. rank[s[k]] <= rank[s[l]]
        BY <1>10, <1>12, <2>1
    <2>3. ~(t[s[l]] < t[s[k]])
        BY <1>6, <2>1, <2>2
    <2>4. t[s[k]] \in Int /\ t[s[l]] \in Int /\ t[s[k]] # t[s[l]]
        BY <1>c, <2>1
    <2> QED
        BY <2>3, <2>4
<1> QED
    BY <1>11, <1>12 DEF N

LEMMA DayOrder ==
    ASSUME NEW points \in Seq(CurvePoint),
           \A i \in DOMAIN points : points[i].time.minute \in Minutes,
           \A i, j \in DOMAIN points : points[i].time.minute = points[j].time.minute => i = j
    PROVE  \E s \in [1 .. Len(points) -> 1 .. Len(points)] :
              /\ InDayOrder(points) = [k \in 1 .. Len(points) |-> points[s[k]]]
              /\ \A k, l \in 1 .. Len(points) :
                    k < l => points[s[k]].time.minute < points[s[l]].time.minute
              /\ \A i \in 1 .. Len(points) : \E k \in 1 .. Len(points) : s[k] = i
<1> DEFINE n == Len(points)
           N == 1 .. n
           t == [i \in N |-> points[i].time.minute]
           timed == {i \in DOMAIN points : MinutesOfDay(points[i].time) # None}
           before(i, j) == \/ points[i].time.minute < points[j].time.minute
                           \/ points[i].time.minute = points[j].time.minute /\ i < j
           Ordered(s) == \A k, l \in DOMAIN s : k < l => before(s[k], s[l])
           order == CHOOSE s \in [1 .. Cardinality(timed) -> timed] : Ordered(s)
<1>1. n \in Nat /\ DOMAIN points = N
    OBVIOUS
<1>2. \A i \in N : points[i].time.minute \in Int /\ t[i] = points[i].time.minute
    BY <1>1, TimeAssumption DEF Minutes
<1>3. timed = N
    <2>1. \A i \in N : MinutesOfDay(points[i].time) # None
        BY <1>1 DEF MinutesOfDay, None, Minutes
    <2> QED
        BY <1>1, <2>1
<1>4. IsFiniteSet(N) /\ Cardinality(N) = n
    BY <1>1, FS_Interval, SMTT(20)
<1>5. t \in [N -> Int] /\ \A i, j \in N : t[i] = t[j] => i = j
    BY <1>1, <1>2
<1>6. PICK s \in [N -> N] : \A k, l \in N : k < l => t[s[k]] < t[s[l]]
    BY <1>1, <1>5, DayOrderExists
<1>7. InDayOrder(points) = [k \in DOMAIN order |-> points[order[k]]]
    BY DEF InDayOrder
<1> HIDE DEF timed, order
<1>8. order = CHOOSE r \in [N -> N] : Ordered(r)
    BY <1>3, <1>4 DEF order
<1>9. Ordered(s)
    BY <1>2, <1>6
<1> HIDE DEF N, n, t, Ordered
<1>10. order \in [N -> N] /\ Ordered(order)
    <2>1. \E r \in [N -> N] : Ordered(r)
        BY <1>6, <1>9
    <2> QED
        BY ONLY <1>8, <2>1, Zenon
<1> USE DEF Ordered
<1>11. ASSUME NEW k \in N, NEW l \in N, k < l
       PROVE  order[k] # order[l] /\ t[order[k]] < t[order[l]]
    <2>1. before(order[k], order[l]) /\ order[k] \in N /\ order[l] \in N
        BY <1>10, <1>11
    <2>2. order[k] # order[l] /\ points[order[k]].time.minute <= points[order[l]].time.minute
        BY <1>2, <2>1 DEF N
    <2>3. t[order[k]] <= t[order[l]] /\ t[order[k]] # t[order[l]]
        BY <1>2, <1>5, <2>1, <2>2
    <2> QED
        BY <1>5, <2>1, <2>2, <2>3
<1>12. order \in Injection(N, N)
    <2>1. ASSUME NEW k \in N, NEW l \in N, order[k] = order[l] PROVE k = l
        <3>1. k \in Nat /\ l \in Nat /\ ~(k < l) /\ ~(l < k)
            BY <1>11, <2>1 DEF N
        <3> QED
            BY <3>1
    <2> QED
        BY <1>10, <2>1 DEF Injection, IsInjective
<1>13. order \in Surjection(N, N)
    BY <1>4, <1>12, FS_Injection
<1>14. \A i \in N : \E k \in N : order[k] = i
    BY <1>13 DEF Surjection
<1>15. \A k, l \in N : k < l => points[order[k]].time.minute < points[order[l]].time.minute
    BY <1>2, <1>10, <1>11
<1>16. InDayOrder(points) = [k \in N |-> points[order[k]]]
    BY <1>7, <1>10
<1> QED
    BY <1>10, <1>14, <1>15, <1>16 DEF N, n
-----------------------------------------------------------------------------
\* How long ago the time of a point was.
Since(point, minute) == Cyclic(OfDay(minute) - point.time.minute)
OfADay(points) ==
    /\ points \in Seq(CurvePoint)
    /\ \A i \in DOMAIN points : /\ points[i].time.minute \in Minutes
                                /\ points[i].temperature \in TempMin .. TempMax

\* OnTheLine, of the last point so far and the furthest back.
LEMMA LineBetween ==
    ASSUME NEW points, OfADay(points), NEW minute \in Nat, NEW x \in Int,
           NEW f \in DOMAIN points, NEW g \in DOMAIN points,
           \A j \in DOMAIN points :
              /\ j # f => Since(points[f], minute) < Since(points[j], minute)
              /\ j # g => Since(points[j], minute) < Since(points[g], minute),
           NEW length \in Int,
           length = MinutesPerDay - Since(points[g], minute) + Since(points[f], minute),
           x % 5 = 0,
           2 * ((x - points[f].temperature) * length
                  - (points[g].temperature - points[f].temperature) * Since(points[f], minute))
              \in -5 * length .. 5 * length
    PROVE  OnTheLine(points, minute, x)
<1> DEFINE D == DOMAIN points
           ago(i) == (minute - points[i].time.minute) % MinutesPerDay
           from == CHOOSE i \in D : \A j \in D : ago(i) <= ago(j)
           to == CHOOSE i \in D : \A j \in D : ago(i) >= ago(j)
<1>1. \A i \in D : ago(i) = Since(points[i], minute) /\ ago(i) \in Int
    <2>1. ASSUME NEW i \in D PROVE ago(i) = Since(points[i], minute) /\ ago(i) \in Int
        <3>1. points[i].time.minute \in Minutes /\ OfDay(minute) \in Minutes
            BY DayMinute DEF OfADay
        <3>2. ago(i) = Since(points[i], minute)
            BY <3>1, DayMinute DEF Since
        <3>3. Since(points[i], minute) \in Minutes
            BY <3>1, Ago DEF Since
        <3> QED
            BY <3>2, <3>3, TimeAssumption DEF Minutes
    <2> QED
        BY <2>1
<1>2. \A j \in D : (j # f => ago(f) < ago(j)) /\ (j # g => ago(j) < ago(g))
    BY <1>1
<1> HIDE DEF ago, D
<1>3. f \in D /\ g \in D
    BY DEF D
<1>4. from = f
    <2>1. \A j \in D : ago(f) <= ago(j)
        BY <1>1, <1>2, <1>3
    <2>2. from \in D /\ ago(from) <= ago(f)
        BY <1>3, <2>1
    <2> HIDE DEF from
    <2> QED
        BY <1>1, <1>2, <1>3, <2>2
<1>5. to = g
    <2>1. \A j \in D : ago(g) >= ago(j)
        BY <1>1, <1>2, <1>3
    <2>2. to \in D /\ ago(to) >= ago(g)
        BY <1>3, <2>1
    <2> HIDE DEF to
    <2> QED
        BY <1>1, <1>2, <1>3, <2>2
<1>6. OnTheLine(points, minute, x) <=>
         /\ x % 5 = 0
         /\ 2 * ((x - points[from].temperature) * (MinutesPerDay - ago(to) + ago(from))
                  - (points[to].temperature - points[from].temperature) * ago(from))
              \in -5 * (MinutesPerDay - ago(to) + ago(from))
                    .. 5 * (MinutesPerDay - ago(to) + ago(from))
    BY DEF OnTheLine, from, to, ago, D
<1> QED
    BY ONLY <1>1, <1>3, <1>4, <1>5, <1>6, x % 5 = 0,
       length = MinutesPerDay - Since(points[g], minute) + Since(points[f], minute),
       2 * ((x - points[f].temperature) * length
              - (points[g].temperature - points[f].temperature) * Since(points[f], minute))
          \in -5 * length .. 5 * length

\* Between the ends of a segment the line stays within the API's range.
LEMMA Between ==
    ASSUME NEW a \in TempMin .. TempMax, NEW b \in TempMin .. TempMax,
           NEW span \in Nat \ {0}, NEW off \in Nat, off < span
    PROVE  /\ a * span + (b - a) * off \in Int
           /\ TempMin * span <= a * span + (b - a) * off
           /\ a * span + (b - a) * off <= TempMax * span
<1>1. a \in Int /\ b \in Int /\ TempMin = 160 /\ TempMax = 300
      /\ a - 160 >= 0 /\ 300 - a >= 0 /\ b - 160 >= 0 /\ 300 - b >= 0
    BY DEF TempMin, TempMax
<1>2. span - off \in Nat
    OBVIOUS
<1>3. (a - 160) * (span - off) >= 0 /\ (b - 160) * off >= 0
    BY <1>1, <1>2
<1>4. (300 - a) * (span - off) >= 0 /\ (300 - b) * off >= 0
    BY <1>1, <1>2
<1>5. a * span + (b - a) * off = (a - 160) * (span - off) + (b - 160) * off + 160 * span
    BY <1>1
<1>6. 300 * span - (a * span + (b - a) * off) = (300 - a) * (span - off) + (300 - b) * off
    BY <1>1
<1>7. a * span + (b - a) * off \in Int
    BY <1>1
<1> QED
    BY <1>1, <1>3, <1>4, <1>5, <1>6, <1>7

\* A curve with one point stays there.
LEMMA OnePoint ==
    ASSUME NEW points, OfADay(points), Len(points) = 1, AtDistinctTimes(points),
           NEW minute \in Nat
    PROVE  \E x \in Int : CurveSetpoint(points, minute) = {x} /\ OnTheLine(points, minute, x)
<1>1. DOMAIN points = 1 .. 1 /\ points \in Seq(CurvePoint)
    BY DEF OfADay
<1>2. PICK s \in [1 .. 1 -> 1 .. 1] : InDayOrder(points) = [k \in 1 .. 1 |-> points[s[k]]]
    BY <1>1, DayOrder DEF OfADay, AtDistinctTimes
<1>3. s[1] = 1
    BY <1>2
<1>4. InDayOrder(points) = [k \in 1 .. 1 |-> points[1]]
    BY <1>2, <1>3
<1> DEFINE T == points[1].temperature
           x == RoundHalf(T, 1)
<1>5. Len(InDayOrder(points)) = 1 /\ InDayOrder(points)[1] = points[1]
    BY <1>4
<1>6. CurveSetpoint(points, minute) = {x}
    BY <1>5 DEF CurveSetpoint
<1>7. T \in Int /\ TempMin * 1 <= T /\ T <= TempMax * 1
    <2>1. T \in TempMin .. TempMax
        BY <1>1 DEF OfADay
    <2> QED
        BY <2>1 DEF TempMin, TempMax
<1> HIDE DEF T
<1>8. x \in Int /\ x % 5 = 0 /\ 2 * (x * 1 - T) \in -5 * 1 .. 5 * 1
    <2>1. 1 \in Nat \ {0}
        OBVIOUS
    <2> QED
        BY ONLY <1>7, <2>1, HalfDegrees
<1> HIDE DEF x
<1>9. Since(points[1], minute) \in Int
    <2>1. points[1].time.minute \in Minutes /\ OfDay(minute) \in Minutes
        BY <1>1, DayMinute DEF OfADay
    <2> QED
        BY <2>1, Ago, TimeAssumption DEF Since, Minutes
<1> DEFINE M == MinutesPerDay
           e == 2 * ((x - T) * M - (T - T) * Since(points[1], minute))
<1>10. M \in Nat \ {0} /\ M = M - Since(points[1], minute) + Since(points[1], minute)
    BY <1>9, TimeAssumption
<1> HIDE DEF M
<1>11. e \in -5 * M .. 5 * M
    <2>1. x - T \in Int /\ 2 * (x - T) <= 5 /\ 2 * (x - T) >= -5
        BY <1>7, <1>8
    <2>2. e = (2 * (x - T)) * M
        BY <1>7, <1>8, <1>9, <1>10
    <2>3. (2 * (x - T)) * M <= 5 * M /\ (2 * (x - T)) * M >= (-5) * M
        BY <1>10, <2>1
    <2> QED
        BY <1>10, <2>1, <2>2, <2>3
<1>12. OnTheLine(points, minute, x)
    <2>1. 1 \in DOMAIN points /\ \A j \in DOMAIN points : j = 1
        BY <1>1
    <2>2. M \in Int
        BY <1>10
    <2>3. M = MinutesPerDay - Since(points[1], minute) + Since(points[1], minute)
        BY <1>10 DEF M
    <2>4. 2 * ((x - points[1].temperature) * M
                 - (points[1].temperature - points[1].temperature) * Since(points[1], minute))
             \in -5 * M .. 5 * M
        BY <1>11 DEF T
    <2> QED
        BY ONLY <2>1, <2>2, <2>3, <2>4, <1>8, OfADay(points), minute \in Nat, LineBetween
<1> QED
    BY <1>6, <1>8, <1>12

LEMMA Rearranged ==
    \A x, a, b, span, off \in Int :
        (x - a) * span - (b - a) * off = x * span - (a * span + (b - a) * off)
<1>1. ASSUME NEW x \in Int, NEW a \in Int, NEW b \in Int, NEW span \in Int, NEW off \in Int
      PROVE  (x - a) * span - (b - a) * off = x * span - (a * span + (b - a) * off)
    <2>1. (x - a) * span = x * span - a * span
        OBVIOUS
    <2> QED
        BY <2>1
<1> QED
    BY <1>1

\* A curve with more is on the segment that reaches as far as now.
LEMMA SeveralPoints ==
    ASSUME NEW points, OfADay(points), Len(points) >= 2, AtDistinctTimes(points),
           NEW minute \in Nat
    PROVE  \E x \in Int : CurveSetpoint(points, minute) = {x} /\ OnTheLine(points, minute, x)
<1> DEFINE n == Len(points)
           N == 1 .. n
           d == OfDay(minute)
           pts == InDayOrder(points)
           next(i) == pts[(i % n) + 1]
           span(i) == LET r == Cyclic(next(i).time.minute - pts[i].time.minute) IN
                      IF r = 0 THEN MinutesPerDay ELSE r
           off(i)  == Cyclic(d - pts[i].time.minute)
           on == {i \in N : off(i) < span(i)}
           least == CHOOSE i \in on : \A j \in on : i <= j
<1>1. n \in Nat /\ n >= 2 /\ DOMAIN points = N /\ points \in Seq(CurvePoint)
    BY DEF OfADay
<1>2. d \in Minutes
    BY DayMinute
<1>3. \A i \in N : points[i].time.minute \in Minutes /\ points[i].temperature \in TempMin .. TempMax
    BY <1>1 DEF OfADay
<1>4. \A i, j \in N : points[i].time.minute = points[j].time.minute => i = j
    BY <1>1 DEF AtDistinctTimes
<1>5. PICK s \in [N -> N] :
         /\ pts = [k \in N |-> points[s[k]]]
         /\ \A k, l \in N : k < l => points[s[k]].time.minute < points[s[l]].time.minute
         /\ \A i \in N : \E k \in N : s[k] = i
    BY <1>1, <1>3, <1>4, DayOrder
<1> DEFINE m == [k \in N |-> points[s[k]].time.minute]
<1>6. m \in [N -> Minutes] /\ Increasing(m) /\ \A k \in N : m[k] = points[s[k]].time.minute
    BY <1>3, <1>5 DEF Increasing
<1>7. Len(pts) = n /\ \A k \in N : pts[k] = points[s[k]]
    BY <1>1, <1>5
<1>8. CurveSetpoint(points, minute) =
         IF n = 0 THEN None
         ELSE IF n = 1 \/ on = {} THEN {RoundHalf(pts[1].temperature, 1)}
         ELSE {RoundHalf(pts[least].temperature * span(least)
                  + (next(least).temperature - pts[least].temperature) * off(least), span(least))}
    BY <1>7 DEF CurveSetpoint
<1> HIDE DEF pts, m, n, d
<1>9. ASSUME NEW i \in N
      PROVE  /\ After(n, i) \in N /\ After(n, i) # i
             /\ next(i) = points[s[After(n, i)]]
             /\ off(i) = Cyclic(d - m[i])
             /\ span(i) = Cyclic(m[After(n, i)] - m[i])
             /\ span(i) \in 1 .. MinutesPerDay - 1
    <2>1. n \in Nat \ {0} /\ i \in 1 .. n /\ n >= 2
        BY <1>1
    <2>2. After(n, i) \in N /\ After(n, i) # i
        <3>1. After(n, i) = IF i = n THEN 1 ELSE i + 1
            BY ONLY <2>1, AfterIs
        <3> QED
            BY <2>1, <3>1
    <2>3. next(i) = points[s[After(n, i)]]
        BY <1>7, <2>2 DEF After
    <2>4. off(i) = Cyclic(d - m[i])
        BY <1>6, <1>7
    <2>5. next(i).time.minute = m[After(n, i)] /\ pts[i].time.minute = m[i]
        BY <1>6, <1>7, <2>2, <2>3
    <2>6. Cyclic(m[After(n, i)] - m[i]) \in 1 .. MinutesPerDay - 1
        BY <1>1, <1>6, <2>2, NothingBetween
    <2>7. span(i) = Cyclic(m[After(n, i)] - m[i])
        BY <2>5, <2>6, TimeAssumption
    <2> QED
        BY <2>2, <2>3, <2>4, <2>6, <2>7
<1> HIDE DEF next, off, span
<1>10. PICK i \in N : off(i) < span(i)
    <2>1. PICK i \in 1 .. n : Cyclic(d - m[i]) < Cyclic(m[After(n, i)] - m[i])
        BY <1>1, <1>2, <1>6, SegmentExists
    <2> QED
        BY <1>9, <2>1
<1> DEFINE a == After(n, i)
<1>11. a \in N /\ a # i /\ span(i) \in 1 .. MinutesPerDay - 1
    BY <1>9
<1>12. ASSUME NEW j \in N, j # i
       PROVE  /\ off(i) < off(j)
              /\ j # a => off(j) < off(a)
              /\ off(a) = MinutesPerDay + off(i) - span(i)
    <2>1. Cyclic(d - m[i]) < Cyclic(m[After(n, i)] - m[i])
        BY <1>9, <1>10
    <2>2. /\ Cyclic(d - m[i]) < Cyclic(d - m[j])
          /\ j # After(n, i) => Cyclic(d - m[j]) < Cyclic(d - m[After(n, i)])
          /\ Cyclic(d - m[After(n, i)])
                = MinutesPerDay + Cyclic(d - m[i]) - Cyclic(m[After(n, i)] - m[i])
        BY ONLY <1>1, <1>2, <1>6, <2>1, <1>12, i \in N, OnSegment
    <2> QED
        BY <1>9, <1>11, <2>2
<1>13. \A k \in N : off(k) \in Nat
    <2>1. ASSUME NEW k \in N PROVE off(k) \in Nat
        <3>1. Cyclic(d - m[k]) \in Minutes
            BY <1>2, <1>6, Ago
        <3> QED
            BY <1>9, <3>1, TimeAssumption DEF Minutes
    <2> QED
        BY <2>1
<1>14. on = {i} /\ least = i
    <2>1. ASSUME NEW j \in N, j # i PROVE ~(off(j) < span(j))
        <3>1. SUFFICES ASSUME off(j) < span(j) PROVE FALSE
            OBVIOUS
        <3>2. Cyclic(d - m[j]) < Cyclic(m[After(n, j)] - m[j])
            BY <1>9, <3>1
        <3>3. Cyclic(d - m[j]) < Cyclic(d - m[i])
            BY ONLY <1>1, <1>2, <1>6, <2>1, <3>2, i \in N, OnSegment
        <3>4. off(j) < off(i)
            BY <1>9, <3>3
        <3> QED
            BY <1>12, <1>13, <2>1, <3>4
    <2>2. on = {i}
        BY <1>10, <2>1
    <2>3. least = CHOOSE k \in {i} : \A j \in {i} : k <= j
        BY <2>2
    <2>4. i <= i
        BY <1>1
    <2> QED
        BY <2>2, <2>3, <2>4
<1> HIDE DEF on, least
<1> DEFINE f == s[i]
           g == s[a]
           num == points[f].temperature * span(i)
                    + (points[g].temperature - points[f].temperature) * off(i)
           x == RoundHalf(num, span(i))
<1>15. f \in N /\ g \in N
    BY <1>5, <1>11
<1>16. CurveSetpoint(points, minute) = {x}
    <2>1. n # 0 /\ n # 1 /\ on # {}
        BY <1>1, <1>14
    <2>2. CurveSetpoint(points, minute) =
             {RoundHalf(pts[i].temperature * span(i)
                          + (next(i).temperature - pts[i].temperature) * off(i), span(i))}
        BY ONLY <1>8, <1>14, <2>1
    <2>3. pts[i] = points[f] /\ next(i) = points[g]
        BY <1>7, <1>9
    <2> QED
        BY ONLY <2>2, <2>3
<1>17. /\ points[f].temperature \in TempMin .. TempMax /\ points[g].temperature \in TempMin .. TempMax
       /\ span(i) \in Nat \ {0} /\ off(i) \in Nat /\ off(i) < span(i)
    BY <1>3, <1>10, <1>11, <1>13, <1>15, SMTT(20)
<1> HIDE DEF f, g
<1>18. num \in Int /\ TempMin * span(i) <= num /\ num <= TempMax * span(i)
    BY <1>17, Between
<1> HIDE DEF num
<1>19. x \in Int /\ x % 5 = 0 /\ 2 * (x * span(i) - num) \in -5 * span(i) .. 5 * span(i)
    BY <1>17, <1>18, HalfDegrees
<1> HIDE DEF x
<1>20. \A k \in N : off(k) = Since(points[s[k]], minute)
    BY <1>6, <1>9 DEF Since, d
<1>21. span(i) = MinutesPerDay - Since(points[g], minute) + Since(points[f], minute)
    <2>1. off(i) = Since(points[f], minute) /\ off(a) = Since(points[g], minute)
        BY <1>11, <1>20 DEF f, g
    <2>2. off(a) = MinutesPerDay + off(i) - span(i)
        BY <1>11, <1>12
    <2>3. off(i) \in Nat /\ span(i) \in Nat /\ MinutesPerDay \in Nat
        BY <1>17, TimeAssumption
    <2> QED
        BY ONLY <2>1, <2>2, <2>3
<1>22. ASSUME NEW j \in DOMAIN points
       PROVE  /\ j # f => Since(points[f], minute) < Since(points[j], minute)
              /\ j # g => Since(points[j], minute) < Since(points[g], minute)
    <2>1. PICK k \in N : s[k] = j
        BY <1>1, <1>5
    <2>2. j # f => k # i /\ off(i) < off(k)
        BY <1>12, <2>1 DEF f
    <2>3. j # g => off(k) < off(a)
        BY <1>11, <1>12, <2>1 DEF g
    <2> QED
        BY <1>11, <1>20, <2>1, <2>2, <2>3 DEF f, g
<1>23. 2 * ((x - points[f].temperature) * span(i)
              - (points[g].temperature - points[f].temperature) * Since(points[f], minute))
          \in -5 * span(i) .. 5 * span(i)
    <2>1. Since(points[f], minute) = off(i)
        BY <1>20 DEF f
    <2>2. points[f].temperature \in Int /\ points[g].temperature \in Int
        <3>1. TempMin .. TempMax \subseteq Int
            BY DEF TempMin, TempMax
        <3> QED
            BY <1>17, <3>1
    <2>3. (x - points[f].temperature) * span(i)
             - (points[g].temperature - points[f].temperature) * off(i) = x * span(i) - num
        <3>1. num = points[f].temperature * span(i)
                     + (points[g].temperature - points[f].temperature) * off(i)
            BY DEF num
        <3>2. span(i) \in Int /\ off(i) \in Int /\ x \in Int
            BY <1>17, <1>19
        <3>3. PICK p \in Int, q \in Int, t \in Int, o \in Int :
                 p = points[f].temperature /\ q = points[g].temperature /\ t = span(i) /\ o = off(i)
            BY <2>2, <3>2
        <3>4. num = p * t + (q - p) * o
            BY <3>1, <3>3
        <3>5. (x - p) * t - (q - p) * o = x * t - num
            BY ONLY <3>2, <3>4, p \in Int, q \in Int, t \in Int, o \in Int, Rearranged
        <3> QED
            BY ONLY <3>3, <3>5
    <2> QED
        BY <1>19, <2>1, <2>3
<1>24. OnTheLine(points, minute, x)
    <2>1. f \in DOMAIN points /\ g \in DOMAIN points /\ span(i) \in Int
        BY <1>1, <1>15, <1>17
    <2> QED
        BY ONLY <2>1, <1>19, <1>21, <1>22, <1>23, OfADay(points), minute \in Nat, LineBetween
<1> QED
    BY <1>16, <1>19, <1>24
-----------------------------------------------------------------------------
(* A curve is tracked.                                                     *)

\* What is remembered of a unit was sent to it, with the order to be on.
Instructed ==
    \A x \in DOMAIN applied :
        /\ x \in DOMAIN sent /\ applied[x] = Said(sent[x])
        /\ \A request \in sent[x] : request.power_on = {TRUE}

\* The minute of the last pass.
LastMinute == MinuteOf(last.woke)

LEMMA SameMinute == last'.woke = last.woke => LastMinute' = LastMinute
BY DEF LastMinute, MinuteOf

\* The pass works on the programs it saw.
Seen ==
    /\ last.programs \subseteq Stored
    /\ \A p, q \in last.programs : p.id = q.id => p = q
    /\ LastMinute \in Nat
    /\ phase = "pass" => /\ LastMinute = MinuteOf(now)
                         /\ Range(copy) \subseteq last.programs
                         /\ Busy => doing \in last.programs

\* A curve has told a unit what it wants, or will before the pass ends.
Told(p, u) ==
    <<p.id, u>> \in DOMAIN applied /\ applied[<<p.id, u>>] = Setpoint(p, LastMinute)
ToBeTold(p, u) ==
    phase = "pass" /\ (p \in Range(copy) \/ (doing = p /\ u \in targets \cup sending))
Tracking ==
    last.clean =>
        \A p \in last.programs : Runs(p) = "curve" /\ Setpoint(p, LastMinute) # None =>
            \A u \in Targets(p) : Told(p, u) \/ ToBeTold(p, u)

TrackInvariant == Instructed /\ Seen /\ Tracking

LEMMA RequestedByCurve ==
    ASSUME NEW curve, NEW minute
    PROVE  /\ CurveRequest(curve, minute).power_on = {TRUE}
           /\ CurveRequest(curve, minute).target_temperature = CurveSetpoint(curve.points, minute)
<1> DEFINE on == [NoRequest EXCEPT !.power_on = {TRUE}]
           mode == [on EXCEPT !.mode = {curve.operational_mode}]
           fan == [mode EXCEPT !.fan_speed = {curve.fan_speed}]
<1>1. {"power_on", "mode", "fan_speed", "target_temperature"} \subseteq DOMAIN NoRequest
    BY DEF NoRequest, Askable
<1>2. on.power_on = {TRUE} /\ DOMAIN on = DOMAIN NoRequest
    BY <1>1
<1> HIDE DEF on
<1>3. mode.power_on = {TRUE} /\ DOMAIN mode = DOMAIN NoRequest
    BY <1>1, <1>2
<1> HIDE DEF mode
<1>4. fan.power_on = {TRUE} /\ DOMAIN fan = DOMAIN NoRequest
    BY <1>1, <1>3
<1>5. CurveRequest(curve, minute)
         = [fan EXCEPT !.target_temperature = CurveSetpoint(curve.points, minute)]
    BY DEF CurveRequest, fan, mode, on
<1> HIDE DEF fan
<1> QED
    BY <1>1, <1>4, <1>5

LEMMA TrackInit == Init => TrackInvariant
<1> SUFFICES ASSUME Init PROVE TrackInvariant
    OBVIOUS
<1>1. DOMAIN applied = {} /\ last.programs = {} /\ last.woke = 0 /\ phase = "asleep"
    BY DEF Init, NoPass
<1>2. LastMinute \in Nat
    BY <1>1, MinutesInOrder DEF LastMinute
<1> QED
    BY <1>1, <1>2 DEF TrackInvariant, Instructed, Seen, Tracking

\* What leaves the pass alone, or takes from it what is not for a curve.
LEMMA TrackQuiet ==
    ASSUME TrackInvariant, UNCHANGED <<phase, now, copy, doing, applied, sent, last>>,
           Busy' => Busy,
           \A u \in targets \cup sending :
              u \in (targets \cup sending)' \/ doing.spec.kind # "curve"
    PROVE  TrackInvariant'
<1>0. LastMinute' = LastMinute
    BY SameMinute
<1>1. Instructed'
    BY DEF TrackInvariant, Instructed, Said
<1>2. Seen'
    BY <1>0 DEF TrackInvariant, Seen, MinuteOf, Range
<1>3. ASSUME last.clean, NEW p \in last.programs, Runs(p) = "curve",
             Setpoint(p, LastMinute) # None, NEW u \in Targets(p)
      PROVE  (Told(p, u) \/ ToBeTold(p, u))'
    <2>1. Told(p, u) \/ ToBeTold(p, u)
        BY <1>3 DEF TrackInvariant, Tracking
    <2>2. Told(p, u) => Told(p, u)'
        BY <1>0 DEF Told, Setpoint, Request
    <2>3. doing = p => doing.spec.kind = "curve"
        BY <1>3 DEF Runs
    <2>4. ToBeTold(p, u) => ToBeTold(p, u)'
        BY <2>3 DEF ToBeTold, Range
    <2> QED
        BY <2>1, <2>2, <2>4
<1>4. Tracking'
    BY <1>0, <1>3 DEF Tracking, Runs, Targets, Setpoint, Request
<1> QED
    BY <1>1, <1>2, <1>4 DEF TrackInvariant

LEMMA TrackWake ==
    ASSUME TrackInvariant, StoreInvariant, AtRest, ClockType, Wake
    PROVE  TrackInvariant'
<1>1. /\ phase' = "pass" /\ now' = clock /\ copy' = mem
      /\ last' = [programs |-> Range(mem), woke |-> clock, clean |-> TRUE]
      /\ UNCHANGED <<applied, sent, targets, sending, entries>> /\ phase = "asleep"
    BY DEF Wake, memoryVars
<1>2. Instructed'
    BY <1>1 DEF TrackInvariant, Instructed, Said
<1>3. Range(copy)' = Range(mem) /\ last'.programs = Range(mem) /\ LastMinute' = MinuteOf(clock)
    BY <1>1 DEF Range, LastMinute, MinuteOf
<1>4. Seen'
    <2>1. MinuteOf(now)' = MinuteOf(clock)
        BY <1>1 DEF MinuteOf
    <2>2. MinuteOf(clock) \in Nat
        BY MinutesInOrder DEF ClockType
    <2>3. Range(mem) \subseteq Stored /\ \A p, q \in Range(mem) : p.id = q.id => p = q
        BY DEF StoreInvariant, Listing, Range
    <2>4. ~Busy'
        BY <1>1 DEF AtRest, Busy
    <2> QED
        BY <1>1, <1>3, <2>1, <2>2, <2>3, <2>4 DEF Seen
<1>5. Tracking'
    BY <1>1, <1>3 DEF Tracking, ToBeTold
<1> QED
    BY <1>2, <1>4, <1>5 DEF TrackInvariant

LEMMA TrackNext ==
    ASSUME TrackInvariant, AtRest, NextProgram
    PROVE  TrackInvariant'
<1>1. /\ phase = "pass" /\ targets = {} /\ sending = {} /\ entries = {} /\ copy # <<>>
      /\ doing' = Head(copy) /\ copy' = Tail(copy)
      /\ UNCHANGED <<phase, now, applied, sent, last>>
      /\ Runs(doing') = "curve" =>
            targets' = IF Setpoint(doing', MinuteOf(now)) = None THEN {} ELSE Targets(doing')
    BY DEF NextProgram, Idle, memoryVars, historyVars
<1>0. LastMinute' = LastMinute
    BY <1>1, SameMinute
<1>2. Range(copy) = {doing'} \cup Range(copy)'
    <2>1. Range(copy) = {Head(copy)} \cup Range(Tail(copy))
        BY <1>1, HeadAndTail DEF AtRest
    <2> QED
        BY <1>1, <2>1 DEF Range
<1>3. Instructed'
    BY <1>1 DEF TrackInvariant, Instructed, Said
<1>4. Seen'
    BY <1>0, <1>1, <1>2 DEF TrackInvariant, Seen, MinuteOf
<1>5. ASSUME last.clean, NEW p \in last.programs, Runs(p) = "curve",
             Setpoint(p, LastMinute) # None, NEW u \in Targets(p)
      PROVE  (Told(p, u) \/ ToBeTold(p, u))'
    <2>1. Told(p, u) \/ p \in Range(copy)
        BY <1>1, <1>5 DEF TrackInvariant, Tracking, ToBeTold
    <2>2. Told(p, u) => Told(p, u)'
        BY <1>0, <1>1 DEF Told, Setpoint, Request
    <2>3. CASE p \in Range(copy)'
        BY <1>1, <2>3 DEF ToBeTold
    <2>4. CASE p = doing'
        <3>1. Setpoint(p, MinuteOf(now)) # None
            BY <1>0, <1>1, <1>5 DEF TrackInvariant, Seen
        <3>2. u \in targets'
            BY <1>1, <1>5, <2>4, <3>1
        <3> QED
            BY <1>1, <2>4, <3>2 DEF ToBeTold
    <2> QED
        BY <1>2, <2>1, <2>2, <2>3, <2>4
<1>6. Tracking'
    BY <1>0, <1>1, <1>5 DEF Tracking, Runs, Targets, Setpoint, Request
<1> QED
    BY <1>3, <1>4, <1>6 DEF TrackInvariant

LEMMA TrackLand ==
    ASSUME TrackInvariant, NEW u \in Units, Land(u)
    PROVE  TrackInvariant'
<1> DEFINE key == <<doing.id, u>>
           wanted == Setpoint(doing, MinuteOf(now))
<1>1. /\ phase = "pass" /\ sending = {u} /\ sending' = {}
      /\ UNCHANGED <<phase, now, copy, doing, entries, targets>>
      /\ \/ /\ applied' = Put(applied, key, wanted)
            /\ sent' = Put(sent, key, Request(doing, MinuteOf(now))) /\ UNCHANGED last
         \/ last' = [last EXCEPT !.clean = FALSE] /\ UNCHANGED <<applied, sent>>
    BY DEF Land
<1>0. LastMinute' = LastMinute
    <2>1. [last EXCEPT !.clean = FALSE].woke = last.woke
        OBVIOUS
    <2> QED
        BY <1>1, <2>1, SameMinute
<1>2. doing \in last.programs /\ LastMinute = MinuteOf(now)
    BY <1>0, <1>1 DEF TrackInvariant, Seen, Busy
<1>3. Range(copy)' = Range(copy) /\ (Busy' => Busy) /\ MinuteOf(now)' = MinuteOf(now)
    BY <1>1 DEF Range, Busy, MinuteOf
<1>4. CASE last' = [last EXCEPT !.clean = FALSE] /\ UNCHANGED <<applied, sent>>
    <2>1. last'.clean = FALSE \/ last'.clean = last.clean
        BY <1>4
    <2>2. last'.programs = last.programs /\ last'.woke = last.woke
        BY <1>4
    <2>3. Instructed'
        BY <1>4 DEF TrackInvariant, Instructed, Said
    <2>4. Seen'
        BY <1>0, <1>1, <1>3, <2>2 DEF TrackInvariant, Seen
    <2>5. Tracking'
        BY <1>4 DEF Tracking
    <2> QED
        BY <2>3, <2>4, <2>5 DEF TrackInvariant
<1>5. CASE /\ applied' = Put(applied, key, wanted)
           /\ sent' = Put(sent, key, Request(doing, MinuteOf(now))) /\ UNCHANGED last
    <2>1. /\ DOMAIN applied' = DOMAIN applied \cup {key} /\ applied'[key] = wanted
          /\ \A x \in DOMAIN applied : x # key => applied'[x] = applied[x]
        BY <1>5 DEF Put
    <2>2. /\ DOMAIN sent' = DOMAIN sent \cup {key}
          /\ sent'[key] = Request(doing, MinuteOf(now))
          /\ \A x \in DOMAIN sent : x # key => sent'[x] = sent[x]
        BY <1>5 DEF Put
    <2>3. wanted = Said(Request(doing, MinuteOf(now)))
        BY DEF Setpoint, Said
    <2>4. \A request \in Request(doing, MinuteOf(now)) : request.power_on = {TRUE}
        <3>1. ASSUME NEW request \in Request(doing, MinuteOf(now)) PROVE request.power_on = {TRUE}
            <4>1. PICK curve \in doing.spec.curve : request = CurveRequest(curve, MinuteOf(now))
                BY DEF Request
            <4> QED
                BY <4>1, RequestedByCurve
        <3> QED
            BY <3>1
    <2> HIDE DEF key, wanted
    <2>5. Instructed'
        <3>1. ASSUME NEW x \in DOMAIN applied'
              PROVE  /\ x \in DOMAIN sent' /\ applied'[x] = Said(sent'[x])
                     /\ \A request \in sent'[x] : request.power_on = {TRUE}
            <4>1. CASE x = key
                BY <2>1, <2>2, <2>3, <2>4, <4>1
            <4>2. CASE x # key
                BY <2>1, <2>2, <3>1, <4>2 DEF TrackInvariant, Instructed
            <4> QED
                BY <4>1, <4>2
        <3> QED
            BY <3>1 DEF Instructed, Said
    <2>6. Seen'
        BY <1>0, <1>1, <1>3, <1>5 DEF TrackInvariant, Seen
    <2>7. ASSUME last.clean, NEW p \in last.programs, Runs(p) = "curve",
                 Setpoint(p, LastMinute) # None, NEW v \in Targets(p)
          PROVE  (Told(p, v) \/ ToBeTold(p, v))'
        <3>1. Told(p, v) \/ ToBeTold(p, v)
            BY <2>7 DEF TrackInvariant, Tracking
        <3>2. Setpoint(p, LastMinute)' = Setpoint(p, LastMinute)
            BY <1>0, <1>5 DEF Setpoint, Request
        <3>3. CASE <<p.id, v>> = key
            <4>1. p = doing
                BY <1>0, <1>2, <3>3 DEF key, TrackInvariant, Seen
            <4>2. applied'[key] = Setpoint(p, LastMinute)
                BY <1>2, <2>1, <4>1 DEF wanted
            <4> QED
                BY <2>1, <3>2, <3>3, <4>2 DEF Told
        <3>4. CASE <<p.id, v>> # key
            <4>1. Told(p, v) => Told(p, v)'
                BY <2>1, <3>2, <3>4 DEF Told
            <4>2. doing = p => v # u
                BY <3>4 DEF key
            <4>3. ToBeTold(p, v) => ToBeTold(p, v)'
                BY <1>1, <1>3, <4>2 DEF ToBeTold
            <4> QED
                BY <3>1, <4>1, <4>3
        <3> QED
            BY <3>3, <3>4
    <2>8. Tracking'
        BY <1>0, <1>5, <2>7 DEF Tracking, Runs, Targets, Setpoint, Request
    <2> QED
        BY <2>5, <2>6, <2>8 DEF TrackInvariant
<1> QED
    BY <1>1, <1>4, <1>5

LEMMA TrackPassBy ==
    ASSUME TrackInvariant, NEW u \in Units, PassBy(u)
    PROVE  TrackInvariant'
<1>1. /\ phase = "pass" /\ u \in targets /\ targets' = targets \ {u}
      /\ UNCHANGED <<phase, now, copy, doing, entries, sending, applied, sent, last>>
      /\ <<doing.id, u>> \in DOMAIN applied
      /\ applied[<<doing.id, u>>] = Setpoint(doing, MinuteOf(now))
    BY DEF PassBy, ComeTo, Settled, memoryVars, historyVars
<1>0. LastMinute' = LastMinute
    BY <1>1, SameMinute
<1>2. LastMinute = MinuteOf(now)
    BY <1>0, <1>1 DEF TrackInvariant, Seen
<1>3. Range(copy)' = Range(copy) /\ (Busy' => Busy) /\ MinuteOf(now)' = MinuteOf(now)
    BY <1>1 DEF Range, Busy, MinuteOf
<1>4. Instructed'
    BY <1>1 DEF TrackInvariant, Instructed, Said
<1>5. Seen'
    BY <1>0, <1>1, <1>3 DEF TrackInvariant, Seen
<1>6. ASSUME last.clean, NEW p \in last.programs, Runs(p) = "curve",
             Setpoint(p, LastMinute) # None, NEW v \in Targets(p)
      PROVE  (Told(p, v) \/ ToBeTold(p, v))'
    <2>1. Told(p, v) \/ ToBeTold(p, v)
        BY <1>6 DEF TrackInvariant, Tracking
    <2>2. doing = p /\ v = u => Told(p, v)
        BY <1>1, <1>2 DEF Told
    <2>3. Told(p, v) => Told(p, v)'
        BY <1>0, <1>1 DEF Told, Setpoint, Request
    <2>4. ToBeTold(p, v) /\ ~(doing = p /\ v = u) => ToBeTold(p, v)'
        BY <1>1, <1>3 DEF ToBeTold
    <2> QED
        BY <2>1, <2>2, <2>3, <2>4
<1>7. Tracking'
    BY <1>0, <1>1, <1>6 DEF Tracking, Runs, Targets, Setpoint, Request
<1> QED
    BY <1>4, <1>5, <1>7 DEF TrackInvariant

LEMMA TrackEnd ==
    ASSUME TrackInvariant, EndPass
    PROVE  TrackInvariant'
<1>1. /\ phase' = "asleep" /\ copy = <<>> /\ targets = {} /\ sending = {}
      /\ UNCHANGED <<applied, sent, last>>
    BY DEF EndPass, Idle, memoryVars, historyVars
<1>0. LastMinute' = LastMinute
    BY <1>1, SameMinute
<1>2. Instructed'
    BY <1>1 DEF TrackInvariant, Instructed, Said
<1>3. Seen'
    BY <1>0, <1>1 DEF TrackInvariant, Seen
<1>4. ASSUME last.clean, NEW p \in last.programs, Runs(p) = "curve",
             Setpoint(p, LastMinute) # None, NEW u \in Targets(p)
      PROVE  Told(p, u)'
    <2>1. ~ToBeTold(p, u)
        BY <1>1 DEF ToBeTold, Range
    <2>2. Told(p, u)
        BY <1>4, <2>1 DEF TrackInvariant, Tracking
    <2> QED
        BY <1>0, <1>1, <2>2 DEF Told, Setpoint, Request
<1>5. Tracking'
    BY <1>0, <1>1, <1>4 DEF Tracking, Runs, Targets, Setpoint, Request
<1> QED
    BY <1>2, <1>3, <1>5 DEF TrackInvariant

LEMMA TrackStep ==
    ASSUME TrackInvariant, StoreInvariant, AtRest, ClockType, [Next]_vars
    PROVE  TrackInvariant'
<1> USE DEF storeVars, boundVars, passVars, memoryVars, historyVars
<1> DEFINE Still ==
        /\ UNCHANGED <<phase, now, copy, doing, applied, sent, last>>
        /\ Busy' => Busy
        /\ \A u \in targets \cup sending :
              u \in (targets \cup sending)' \/ doing.spec.kind # "curve"
<1>1. CASE Still
    BY <1>1, TrackQuiet
<1>2. CASE Trigger
    <2>1. Still
        BY <1>2 DEF Trigger, Busy
    <2> QED
        BY <2>1, <1>1
<1>3. ASSUME NEW u \in Units, ApplyScene(u) \/ Follow(u) PROVE Still
    BY <1>3 DEF ApplyScene, Follow, ComeTo, Busy
<1>4. ASSUME NEW u \in Units, Manual(u) PROVE Still
    BY <1>4 DEF Manual, Busy
<1>5. Tick \/ Rest \/ UNCHANGED vars => Still
    BY DEF Tick, Rest, vars, Busy
<1>6. ASSUME NEW spec \in Specs, Create(spec) PROVE Still
    BY <1>6 DEF Create, Busy
<1>7. ASSUME NEW spec \in Specs, NEW i \in IdsOf(mem), Update(i, spec) PROVE Still
    BY <1>7 DEF Update, Busy
<1>8. ASSUME NEW i \in IdsOf(mem), Delete(i) PROVE Still
    BY <1>8 DEF Delete, Busy
<1>9. CASE Restart
    <2>1. DOMAIN applied' = {} /\ last' = NoPass(clock) /\ phase' = "asleep"
        BY <1>9 DEF Restart
    <2>2. last'.programs = {} /\ LastMinute' = MinuteOf(clock)
        BY <2>1 DEF NoPass, LastMinute, MinuteOf
    <2>3. MinuteOf(clock) \in Nat
        BY MinutesInOrder DEF ClockType
    <2> QED
        BY <2>1, <2>2, <2>3 DEF TrackInvariant, Instructed, Seen, Tracking
<1> HIDE DEF Still
<1> QED
    BY <1>1, <1>2, <1>3, <1>4, <1>5, <1>6, <1>7, <1>8, <1>9,
       TrackWake, TrackNext, TrackLand, TrackPassBy, TrackEnd DEF Next

LEMMA CurveOnTheLine ==
    ASSUME NEW points, OfADay(points), AtDistinctTimes(points), NEW minute \in Nat
    PROVE  \E x \in Int : CurveSetpoint(points, minute) = {x} /\ OnTheLine(points, minute, x)
<1>1. points \in Seq(CurvePoint) /\ points # <<>>
    BY DEF OfADay, AtDistinctTimes
<1>2. Len(points) \in Nat /\ Len(points) # 0
    BY <1>1, EmptySeq, LenProperties
<1>3. Len(points) = 1 \/ Len(points) >= 2
    BY <1>2
<1> QED
    BY <1>3, OnePoint, SeveralPoints

\* What into_program keeps of a curve: points of a day, at temperatures of the range.
LEMMA StoredCurve ==
    ASSUME NEW p \in Stored, NEW curve \in p.spec.curve
    PROVE  p.spec.curve = {curve} /\ OfADay(curve.points)
<1>1. PICK spec \in Specs : p.spec \in IntoProgram(spec)
    BY DEF Stored
<1>2. /\ p.spec.curve = {[c EXCEPT !.operational_mode = Upper(@)] : c \in spec.curve}
      /\ \A c \in spec.curve : ValidCurve(c)
    <2>1. /\ p.spec = [spec EXCEPT !.curve = {[c EXCEPT !.operational_mode = Upper(@)] : c \in @}]
          /\ \A c \in spec.curve : ValidCurve(c)
        BY <1>1 DEF IntoProgram, None
    <2> QED
        BY <2>1, SpecAssumption
<1>3. PICK c \in spec.curve : curve = [c EXCEPT !.operational_mode = Upper(@)]
    BY <1>2
<1>4. spec.curve = {c} /\ c.points \in Seq(CurvePoint)
    BY SpecAssumption DEF CurvePoint
<1>5. curve.points = c.points
    BY <1>3
<1>6. ASSUME NEW i \in DOMAIN c.points
      PROVE  c.points[i].time.minute \in Minutes /\ c.points[i].temperature \in TempMin .. TempMax
    <2>1. ValidHhmm(c.points[i].time) /\ c.points[i].temperature \in TempMin .. TempMax
        BY <1>2, <1>6 DEF ValidCurve
    <2> QED
        BY <2>1 DEF ValidHhmm, MinutesOfDay, None, Minutes
<1> QED
    BY <1>2, <1>3, <1>4, <1>5, <1>6 DEF OfADay

\* run_curve, curve_setpoint ("a daily time->temperature curve the scheduler tracks
\* continuously"): after a pass in which no command failed, every unit of every enabled
\* curve was last told to be on and at the half degree nearest to the curve's line,
\* whatever is edited, set by hand or fails before and meanwhile.
THEOREM CurvesAreTracked == Spec => []CurveTracked
<1> DEFINE Inv == /\ FiringInvariant /\ StoreInvariant /\ NudgeInvariant /\ TrackInvariant
<1>1. Init => Inv
    BY FiringInit, StoreInit, NudgeInit, TrackInit
<1>2. Inv /\ [Next]_vars => Inv'
    BY FiringStep, StoreStep, NudgeStep, TrackStep DEF NudgeInvariant, FiringInvariant
<1>3. Inv => CurveTracked
    <2> SUFFICES ASSUME Inv, phase = "asleep", last.clean, NEW p \in last.programs,
                        Runs(p) = "curve", NEW u \in Targets(p), NEW curve \in p.spec.curve,
                        AtDistinctTimes(curve.points)
                 PROVE  /\ <<p.id, u>> \in DOMAIN sent
                        /\ \E request \in sent[<<p.id, u>>] :
                              /\ request.power_on = {TRUE}
                              /\ OnTheLine(curve.points, LastMinute,
                                           Or(request.target_temperature, 0))
        BY DEF CurveTracked, Tracked, LastMinute
    <2>1. p \in Stored /\ LastMinute \in Nat
        BY DEF TrackInvariant, Seen
    <2>2. p.spec.curve = {curve} /\ OfADay(curve.points)
        BY <2>1, StoredCurve
    <2>3. PICK x \in Int : /\ CurveSetpoint(curve.points, LastMinute) = {x}
                           /\ OnTheLine(curve.points, LastMinute, x)
        BY <2>1, <2>2, CurveOnTheLine
    <2>4. Setpoint(p, LastMinute) = {x}
        <3>1. Request(p, LastMinute) = {CurveRequest(curve, LastMinute)}
            BY <2>2 DEF Request
        <3>2. CurveRequest(curve, LastMinute).target_temperature = {x}
            BY <2>3, RequestedByCurve
        <3> QED
            BY <3>1, <3>2 DEF Setpoint
    <2>5. Told(p, u)
        BY <2>4 DEF TrackInvariant, Tracking, ToBeTold, None
    <2> DEFINE key == <<p.id, u>>
    <2>6. /\ key \in DOMAIN sent /\ Said(sent[key]) = {x}
          /\ \A request \in sent[key] : request.power_on = {TRUE}
        BY <2>4, <2>5 DEF Told, TrackInvariant, Instructed
    <2> HIDE DEF key
    <2>7. PICK request \in sent[key] : request.target_temperature = {x}
        BY <2>6 DEF Said
    <2>8. Or(request.target_temperature, 0) = x
        BY <2>7 DEF Or, None
    <2> QED
        BY <2>3, <2>6, <2>7, <2>8 DEF key
<1> QED
    BY <1>1, <1>2, <1>3, PTL DEF Spec
-----------------------------------------------------------------------------
(* What type the variables of Scheduler have.                              *)

\* The program a pass is at, while something of it remains.
AtHand ==
    /\ targets \subseteq Units /\ sending \subseteq Units
    /\ Busy => phase = "pass" /\ doing \in Stored /\ doing.id \in 1 .. edits
    /\ entries # {} => entries \subseteq DOMAIN doing.spec.schedule

\* Ids were given to what was stored.
Numbered(programs) == \A p \in Range(programs) : p.id \in 1 .. edits

TypeInvariant ==
    /\ clock \in 0 .. MaxClock /\ edits \in 0 .. MaxEdits
    /\ {manuals, failures, restarts, nap, spent, now} \subseteq Nat
    /\ phase \in {"asleep", "pass"}
    /\ Numbered(mem) /\ Numbered(disk) /\ Numbered(copy)
    /\ AtHand
    /\ \A key \in DOMAIN applied : key[1] \in 1 .. edits /\ key[2] \in Units

LEMMA UpperTwice == \A name : Upper(Upper(name)) = Upper(name)
BY DEF Upper, Spellings

\* into_program: what is stored would be stored as it is.
LEMMA StoredAsItIs == ASSUME NEW p \in Stored PROVE IntoProgram(p.spec) = {p.spec}
<1>1. PICK spec \in Specs : p.spec \in IntoProgram(spec)
    BY DEF Stored
<1> DEFINE inUpper(c) == [c EXCEPT !.operational_mode = Upper(@)]
           curves == {inUpper(c) : c \in spec.curve}
<1>2. /\ p.spec = [spec EXCEPT !.curve = curves]
      /\ spec.name \in 1 .. NameMaxChars /\ spec.kind \in ProgramKinds
      /\ \A settings \in spec.favourite : Accepts(settings)
      /\ \A i \in DOMAIN spec.schedule : ValidEntry(spec.schedule[i])
      /\ \A curve \in spec.curve : ValidCurve(curve)
    BY <1>1 DEF IntoProgram, None
<1>3. /\ p.spec.curve = curves /\ p.spec.name = spec.name /\ p.spec.kind = spec.kind
      /\ p.spec.favourite = spec.favourite /\ p.spec.schedule = spec.schedule
    <2> HIDE DEF curves
    <2> QED
        BY <1>2, SpecAssumption
<1>4. ASSUME NEW c \in spec.curve
      PROVE  ValidCurve(inUpper(c)) /\ inUpper(inUpper(c)) = inUpper(c)
    <2>1. "operational_mode" \in DOMAIN c /\ "fan_speed" \in DOMAIN c /\ "points" \in DOMAIN c
        BY <1>4, SpecAssumption
    <2>2. /\ inUpper(c).operational_mode = Upper(c.operational_mode)
          /\ inUpper(c).fan_speed = c.fan_speed /\ inUpper(c).points = c.points
        BY <2>1
    <2>3. ValidCurve(inUpper(c))
        BY <1>2, <1>4, <2>2, UpperTwice DEF ValidCurve
    <2>4. Upper(inUpper(c).operational_mode) = inUpper(c).operational_mode
        BY <2>2, UpperTwice
    <2> QED
        BY <2>3, <2>4
<1>5. \A curve \in curves : inUpper(curve) = curve /\ ValidCurve(curve)
    BY <1>4
<1>6. [p.spec EXCEPT !.curve = {inUpper(curve) : curve \in @}] = p.spec
    <2> HIDE DEF inUpper
    <2>1. {inUpper(curve) : curve \in curves} = curves
        <3> HIDE DEF curves
        <3> QED
            BY <1>5
    <2> QED
        BY <1>2, <1>3, <2>1
<1>7. \A curve \in curves : ValidCurve(curve)
    BY <1>5
<1> QED
    BY <1>2, <1>3, <1>6, <1>7 DEF IntoProgram

LEMMA TargetsAreUnits == ASSUME NEW p \in Stored PROVE Targets(p) \subseteq Units
<1>1. PICK spec \in Specs : p.spec \in IntoProgram(spec)
    BY DEF Stored
<1>2. p.spec.units = spec.units
    BY <1>1, SpecAssumption DEF IntoProgram, None
<1> QED
    BY <1>2, SpecAssumption DEF Targets

LEMMA TypesBegin == Init => TypeInvariant
BY TimeAssumption, BoundAssumption
   DEF Init, TypeInvariant, AtHand, Busy, Numbered, Range

\* A change of the list of programs.
LEMMA TypesEdited ==
    ASSUME TypeInvariant, StoreInvariant, NEW programs, NEW others,
           \A p \in Range(programs) : p.id \in 1 .. edits + 1,
           \A p \in Range(others) : p.id \in 1 .. edits + 1,
           \/ mem' = programs /\ Persists(programs)
           \/ mem' = others /\ PersistFails(programs),
           edits < MaxEdits, edits' = edits + 1,
           UNCHANGED <<clock, manuals, restarts, passVars, applied>>
    PROVE  TypeInvariant'
<1>1. disk' \in {disk, programs} /\ failures' \in Nat
    BY DEF Persists, PersistFails, TypeInvariant
<1>2. edits \in Nat /\ edits' \in 0 .. MaxEdits /\ 1 .. edits \subseteq 1 .. edits'
    BY BoundAssumption DEF TypeInvariant
<1>3. Numbered(mem)' /\ Numbered(disk)' /\ Numbered(copy)'
    BY <1>1, <1>2 DEF TypeInvariant, Numbered, Range, passVars
<1>4. AtHand'
    BY <1>2 DEF TypeInvariant, AtHand, Busy, passVars
<1>5. {manuals, failures, restarts, nap, spent, now}' \subseteq Nat /\ phase' \in {"asleep", "pass"}
    BY <1>1 DEF TypeInvariant, passVars
<1> QED
    BY <1>2, <1>3, <1>4, <1>5 DEF TypeInvariant

LEMMA TypesEdit ==
    ASSUME TypeInvariant, StoreInvariant,
           \/ \E spec \in Specs : Create(spec) \/ \E i \in IdsOf(mem) : Update(i, spec)
           \/ \E i \in IdsOf(mem) : Delete(i)
    PROVE  TypeInvariant'
<1>1. mem \in Seq(Stored) /\ edits \in Nat /\ \A p \in Range(mem) : p.id \in 1 .. edits + 1
    BY DEF TypeInvariant, StoreInvariant, Listing, Numbered
<1>2. ASSUME NEW spec \in Specs, Create(spec) PROVE TypeInvariant'
    <2>1. PICK program \in IntoProgram(spec) :
              \/ /\ mem' = Append(mem, [id |-> edits + 1, spec |-> program])
                 /\ Persists(Append(mem, [id |-> edits + 1, spec |-> program]))
              \/ mem' = mem /\ PersistFails(Append(mem, [id |-> edits + 1, spec |-> program]))
        BY <1>2 DEF Create
    <2> DEFINE new == [id |-> edits + 1, spec |-> program]
    <2>2. new \in Stored /\ new.id \in 1 .. edits + 1
        BY <1>1 DEF Stored
    <2> HIDE DEF new
    <2>3. \A p \in Range(Append(mem, new)) : p.id \in 1 .. edits + 1
        BY <1>1, <2>2, AppendRange
    <2>4. \/ mem' = Append(mem, new) /\ Persists(Append(mem, new))
          \/ mem' = mem /\ PersistFails(Append(mem, new))
        BY <2>1 DEF new
    <2>5. /\ edits < MaxEdits /\ edits' = edits + 1
          /\ UNCHANGED <<clock, manuals, restarts, passVars, applied>>
        BY <1>2 DEF Create, memoryVars
    <2> QED
        BY <1>1, <2>3, <2>4, <2>5, TypesEdited
<1>3. ASSUME NEW spec \in Specs, NEW i \in IdsOf(mem), Update(i, spec) PROVE TypeInvariant'
    <2>1. PICK program \in IntoProgram(spec) :
              LET programs == [k \in DOMAIN mem |->
                                  IF mem[k].id = i THEN [id |-> i, spec |-> program] ELSE mem[k]]
              IN  \/ mem' = programs /\ Persists(programs)
                  \/ mem' = RolledBack(programs) /\ PersistFails(programs)
        BY <1>3 DEF Update
    <2> DEFINE new == [id |-> i, spec |-> program]
               programs == [k \in DOMAIN mem |-> IF mem[k].id = i THEN new ELSE mem[k]]
    <2>2. new.id \in 1 .. edits + 1
        BY <1>1 DEF IdsOf
    <2>3. \A p \in Range(programs) : p = new \/ p \in Range(mem)
        BY DEF Range
    <2>4. \A p \in Range(programs) : p.id \in 1 .. edits + 1
        <3> HIDE DEF new, programs
        <3> QED
            BY <1>1, <2>2, <2>3
    <2>5. \/ mem' = programs /\ Persists(programs)
          \/ mem' = mem /\ PersistFails(programs)
        BY <2>1 DEF RolledBack
    <2> HIDE DEF programs
    <2>6. /\ edits < MaxEdits /\ edits' = edits + 1
          /\ UNCHANGED <<clock, manuals, restarts, passVars, applied>>
        BY <1>3 DEF Update, memoryVars
    <2> QED
        BY <1>1, <2>4, <2>5, <2>6, TypesEdited
<1>4. ASSUME NEW i \in IdsOf(mem), Delete(i) PROVE TypeInvariant'
    <2>1. PICK k \in DOMAIN mem :
              \/ mem' = RemoveAt(mem, k) /\ Persists(RemoveAt(mem, k))
              \/ mem' = Append(RemoveAt(mem, k), mem[k]) /\ PersistFails(RemoveAt(mem, k))
        BY <1>4 DEF Delete
    <2> DEFINE programs == RemoveAt(mem, k)
               others == Append(programs, mem[k])
    <2>2. programs \in Seq(Stored) /\ Range(programs) \subseteq Range(mem)
        BY <1>1, RemoveAtRange
    <2>3. mem[k] \in Stored /\ mem[k] \in Range(mem)
        BY <1>1 DEF Range
    <2> HIDE DEF programs
    <2>4. Range(others) \subseteq Range(mem)
        BY <2>2, <2>3, AppendRange
    <2>5. \/ mem' = programs /\ Persists(programs)
          \/ mem' = others /\ PersistFails(programs)
        BY <2>1 DEF programs
    <2> HIDE DEF others
    <2>6. /\ edits < MaxEdits /\ edits' = edits + 1
          /\ UNCHANGED <<clock, manuals, restarts, passVars, applied>>
        BY <1>4 DEF Delete, memoryVars
    <2>7. /\ \A p \in Range(programs) : p.id \in 1 .. edits + 1
          /\ \A p \in Range(others) : p.id \in 1 .. edits + 1
        BY <1>1, <2>2, <2>4
    <2> QED
        BY <2>5, <2>6, <2>7, TypesEdited
<1> QED
    BY <1>2, <1>3, <1>4

LEMMA TypesPass ==
    ASSUME TypeInvariant, StoreInvariant, AtRest, Wake \/ NextProgram \/ Trigger \/ EndPass
    PROVE  TypeInvariant'
<1> USE DEF storeVars, boundVars, passVars, memoryVars, historyVars
<1>1. UNCHANGED <<clock, edits, manuals, failures, restarts, mem, disk, applied>>
    BY DEF Wake, NextProgram, Trigger, EndPass
<1>2. Numbered(mem)' /\ Numbered(disk)'
    BY <1>1 DEF TypeInvariant, Numbered, Range
<1>3. CASE Wake
    <2>1. Numbered(copy)'
        BY <1>1, <1>3 DEF Wake, TypeInvariant, Numbered, Range
    <2>2. AtHand' /\ now' \in Nat /\ nap' \in Nat /\ spent' \in Nat /\ phase' = "pass"
        BY <1>1, <1>3 DEF Wake, TypeInvariant, AtHand, Busy, AtRest
    <2> QED
        BY <1>1, <1>2, <2>1, <2>2 DEF TypeInvariant
<1>4. CASE NextProgram
    <2>1. /\ copy # <<>> /\ copy \in Seq(Stored) /\ phase = "pass"
          /\ doing' = Head(copy) /\ copy' = Tail(copy)
          /\ targets = {} /\ entries = {} /\ UNCHANGED <<phase, nap, spent, now, sending>>
          /\ sending = {}
        BY <1>4 DEF NextProgram, Idle, AtRest
    <2>2. Head(copy) \in Range(copy) /\ Range(Tail(copy)) \subseteq Range(copy)
        BY <2>1, HeadAndTail
    <2>3. doing' \in Stored /\ doing'.id \in 1 .. edits
        BY <2>1, <2>2, HeadTailProperties DEF TypeInvariant, Numbered
    <2>4. Numbered(copy)'
        BY <1>1, <2>1, <2>2 DEF TypeInvariant, Numbered
    <2>5. /\ targets' = {} \/ targets' = Targets(doing')
          /\ entries' = {} \/ entries' = DueEntries(doing'.spec.schedule, MinuteOf(now))
        BY <1>4, <2>1 DEF NextProgram
    <2>6. AtHand'
        BY <1>1, <2>1, <2>3, <2>5, TargetsAreUnits DEF AtHand, Busy, DueEntries
    <2> QED
        BY <1>1, <1>2, <2>1, <2>4, <2>6 DEF TypeInvariant
<1>5. CASE Trigger
    <2>1. /\ UNCHANGED <<phase, nap, spent, now, copy, doing, sending>> /\ entries # {} /\ entries' \subseteq entries
          /\ targets' = targets \/ targets' = Targets(doing)
        BY <1>5 DEF Trigger
    <2>2. phase = "pass" /\ doing \in Stored /\ doing.id \in 1 .. edits
        BY <2>1 DEF TypeInvariant, AtHand, Busy
    <2>3. AtHand'
        BY <1>1, <2>1, <2>2, TargetsAreUnits DEF TypeInvariant, AtHand, Busy
    <2>4. Numbered(copy)'
        BY <1>1, <2>1 DEF TypeInvariant, Numbered
    <2> QED
        BY <1>1, <1>2, <2>1, <2>3, <2>4 DEF TypeInvariant
<1>6. CASE EndPass
    <2>1. /\ UNCHANGED <<copy, entries, targets, sending>>
          /\ targets = {} /\ entries = {} /\ sending = {}
          /\ phase' = "asleep" /\ nap' = Nap /\ now' = 0 /\ spent' = 0
        BY <1>6 DEF EndPass, Idle
    <2>2. AtHand' /\ Numbered(copy)'
        BY <1>1, <2>1 DEF TypeInvariant, AtHand, Busy, Numbered
    <2> QED
        BY <1>1, <1>2, <2>1, <2>2, TimeAssumption DEF TypeInvariant
<1> QED
    BY <1>3, <1>4, <1>5, <1>6

LEMMA TypesCommand ==
    ASSUME TypeInvariant, NEW u \in Units,
           ApplyScene(u) \/ PassBy(u) \/ Follow(u) \/ Land(u) \/ Manual(u)
    PROVE  TypeInvariant'
<1> USE DEF storeVars, boundVars, passVars, memoryVars, historyVars
<1>1. /\ UNCHANGED <<clock, edits, restarts, mem, disk, copy, phase, nap, spent, now, doing, entries>>
      /\ targets' \subseteq targets
      /\ \/ UNCHANGED sending \/ sending' = {}
         \/ sending' = {u} /\ u \in targets
    BY DEF ApplyScene, PassBy, Follow, Land, ComeTo, Manual
<1>2. manuals' \in Nat /\ failures' \in Nat
    BY DEF ApplyScene, PassBy, Follow, Land, ComeTo, Manual, TypeInvariant
<1>3. Numbered(mem)' /\ Numbered(disk)' /\ Numbered(copy)'
    BY <1>1 DEF TypeInvariant, Numbered, Range
<1>4. AtHand'
    BY <1>1 DEF TypeInvariant, AtHand, Busy
<1>5. \A key \in DOMAIN applied' : key[1] \in 1 .. edits /\ key[2] \in Units
    <2>1. CASE applied' = applied
        BY <2>1 DEF TypeInvariant
    <2>2. CASE Land(u) /\ applied' = Put(applied, <<doing.id, u>>, Setpoint(doing, MinuteOf(now)))
        <3>1. Busy
            BY <2>2 DEF Land, Busy
        <3>2. doing.id \in 1 .. edits
            BY <3>1 DEF TypeInvariant, AtHand
        <3>3. \A key \in DOMAIN applied' : key \in DOMAIN applied \/ key = <<doing.id, u>>
            BY <2>2 DEF Put
        <3> QED
            BY <3>2, <3>3 DEF TypeInvariant
    <2> QED
        BY <2>1, <2>2 DEF ApplyScene, PassBy, Follow, Land, ComeTo, Manual
<1> QED
    BY <1>1, <1>2, <1>3, <1>4, <1>5 DEF TypeInvariant

LEMMA TypesStep ==
    ASSUME TypeInvariant, StoreInvariant, AtRest, [Next]_vars PROVE TypeInvariant'
<1> USE DEF storeVars, boundVars, passVars, memoryVars, historyVars
<1>1. CASE UNCHANGED vars
    BY <1>1 DEF vars, TypeInvariant, AtHand, Busy, Numbered, Range
<1>2. CASE Tick
    <2>1. /\ UNCHANGED <<edits, manuals, failures, restarts, mem, disk, phase, now, copy, doing,
                         entries, targets, sending, applied>>
          /\ clock < MaxClock /\ clock' = clock + 1
        BY <1>2 DEF Tick
    <2>2. nap' \in Nat /\ spent' \in Nat /\ clock' \in 0 .. MaxClock
        BY <1>2, <2>1, TimeAssumption DEF Tick, TypeInvariant
    <2>3. Numbered(mem)' /\ Numbered(disk)' /\ Numbered(copy)' /\ AtHand'
        BY <2>1 DEF TypeInvariant, Numbered, Range, AtHand, Busy
    <2> QED
        BY <2>1, <2>2, <2>3 DEF TypeInvariant
<1>3. CASE Restart
    <2>1. /\ UNCHANGED <<clock, disk, edits, manuals, failures>> /\ mem' = disk /\ copy' = <<>>
          /\ phase' = "asleep" /\ nap' = Nap /\ spent' = 0 /\ now' = 0 /\ restarts' = restarts + 1
          /\ entries' = {} /\ targets' = {} /\ sending' = {} /\ applied' = <<>>
        BY <1>3 DEF Restart
    <2>2. Numbered(mem)' /\ Numbered(disk)' /\ Numbered(copy)' /\ AtHand'
        BY <2>1 DEF TypeInvariant, Numbered, Range, AtHand, Busy
    <2> QED
        BY <2>1, <2>2, TimeAssumption DEF TypeInvariant
<1>4. Rest => UNCHANGED vars
    BY DEF Rest
<1> QED
    BY <1>1, <1>2, <1>3, <1>4, TypesEdit, TypesPass, TypesCommand DEF Next

\* Every variable keeps its type, and what is listed, on file and in a pass is what
\* into_program would make of it again.
THEOREM TypeCorrect == Spec => []TypeOK
<1> DEFINE Inv == StoreInvariant /\ NudgeInvariant /\ TypeInvariant
<1>1. Init => Inv
    BY StoreInit, NudgeInit, TypesBegin
<1>2. Inv /\ [Next]_vars => Inv'
    BY StoreStep, NudgeStep, TypesStep DEF NudgeInvariant
<1>3. Inv => TypeOK
    <2> SUFFICES ASSUME Inv PROVE TypeOK
        OBVIOUS
    <2>1. \A programs \in {mem, disk, copy} : programs \in Seq(Stored) /\ Numbered(programs)
        BY DEF StoreInvariant, Listing, NudgeInvariant, AtRest, TypeInvariant
    <2>2. 1 .. edits \subseteq Ids
        BY BoundAssumption DEF TypeInvariant, Ids
    <2>3. ASSUME NEW programs \in {mem, disk, copy}, NEW p \in Range(programs)
          PROVE  p.id \in Ids /\ IntoProgram(p.spec) = {p.spec}
        <3>1. p \in Stored /\ p.id \in 1 .. edits
            BY <2>1 DEF Range, Numbered
        <3> QED
            BY <3>1, <2>2, StoredAsItIs
    <2>4. entries # {} => phase = "pass" /\ entries \subseteq DOMAIN doing.spec.schedule
        BY DEF TypeInvariant, AtHand, Busy
    <2>5. {edits, manuals, failures, restarts, nap, spent, now} \subseteq Nat
        BY DEF TypeInvariant
    <2> QED
        BY <2>2, <2>3, <2>4, <2>5 DEF TypeOK, TypeInvariant, AtHand
<1> QED
    BY <1>1, <1>2, <1>3, PTL DEF Spec

-----------------------------------------------------------------------------
(* Server.  A program is a list of steps, and what counts is which locks   *)
(* its thread holds before each of them.                                   *)

Grants == [lock : HeldOver, mode : {"S", "X"}]
WithClient == {"receive", "reply", "stalled", "serve"}
Steps ==
    [op : {"pass", "take", "try", "give"}, lock : HeldOver, mode : {"S", "X"}]
        \cup [op : {"ask", "judge"} \cup WithClient] \cup [op : {"route"}, guard : Guards]

\* The order the locks are taken in: whoever holds one waits only for later ones.
Rank(l) == IF l = "scanning" THEN 0 ELSE IF l = "config" THEN 1 ELSE IF l = "units" THEN 2 ELSE 3

Below(H, l) == \A h \in H : Rank(h.lock) < Rank(l)
Alone(H)    == \A h \in H : h.lock \in {"device", "scanning"}
Grant(s)    == [lock |-> s.lock, mode |-> s.mode]

\* A step that may come while H is held, and what is held after it.
Fits(s, H) ==
    /\ s.op \in {"pass", "take"} => Below(H, s.lock)
    /\ s.op = "try" => \A h \in H : h.lock # s.lock
    /\ s.op = "ask" \/ (s.op = "take" /\ s.lock = "device") => Alone(H)
    /\ s.op \in {"judge", "route"} \cup WithClient => H = {}
HeldAfter(s, H) ==
    IF s.op \in {"take", "try"} THEN H \cup {Grant(s)}
    ELSE IF s.op = "give" THEN H \ {Grant(s)} ELSE H

\* The first give of the lock of step i is step j.
Gives(s, l)       == s.op = "give" /\ s.lock = l
FirstGive(p, i, j) ==
    j \in (i + 1)..Len(p) /\ Gives(p[j], p[i].lock)
        /\ \A k \in (i + 1)..(j - 1) : ~Gives(p[k], p[i].lock)

\* at[i] is what is held before step i of p; a lock that was free is given
\* back with the others as they were.
Follows(p, at) ==
    /\ at \in [1..(Len(p) + 1) -> SUBSET Grants]
    /\ \A i \in 1..Len(p) :
          /\ Fits(p[i], at[i])
          /\ at[i + 1] = HeldAfter(p[i], at[i])
          /\ p[i].op = "try" => \E j \in 1..Len(p) : FirstGive(p, i, j) /\ at[j + 1] = at[i]
Leads(p, H, K) ==
    p \in Seq(Steps) /\ \E at : Follows(p, at) /\ at[1] = H /\ at[Len(p) + 1] = K
-----------------------------------------------------------------------------
LEMMA AfterTyped ==
    ASSUME NEW s \in Steps, NEW H \in SUBSET Grants,
           s.op \in {"pass", "take", "try", "give"} => s.lock \in HeldOver /\ s.mode \in {"S", "X"}
    PROVE  HeldAfter(s, H) \in SUBSET Grants
BY DEF HeldAfter, Grants, Grant

LEMMA StepParts ==
    ASSUME NEW s \in Steps
    PROVE  /\ s.op \in {"pass", "take", "try", "give", "ask", "judge", "route"} \cup WithClient
           /\ s.op \in {"pass", "take", "try", "give"} => s.lock \in HeldOver /\ s.mode \in {"S", "X"}
           /\ s.op = "route" => s.guard \in Guards
BY DEF Steps, WithClient

\* Nothing to do.
LEMMA NothingRuns == ASSUME NEW H \in SUBSET Grants PROVE Leads(<<>>, H, H)
<1>1. Follows(<<>>, [i \in 1..1 |-> H])  BY DEF Follows
<1> QED  BY <1>1 DEF Leads

\* One step, other than a try.
LEMMA OneRuns ==
    ASSUME NEW s \in Steps, NEW H \in SUBSET Grants, Fits(s, H), s.op # "try"
    PROVE  Leads(<<s>>, H, HeldAfter(s, H))
<1> DEFINE at == [i \in 1..2 |-> IF i = 1 THEN H ELSE HeldAfter(s, H)]
<1>1. HeldAfter(s, H) \in SUBSET Grants  BY StepParts, AfterTyped
<1>2. Follows(<<s>>, at)  BY <1>1 DEF Follows
<1> QED  BY <1>2 DEF Leads

\* One list after the other.
LEMMA BothRun ==
    ASSUME NEW p, NEW q, NEW H, NEW K, NEW L, Leads(p, H, K), Leads(q, K, L)
    PROVE  Leads(p \o q, H, L)
<1>1. PICK a : Follows(p, a) /\ a[1] = H /\ a[Len(p) + 1] = K  BY DEF Leads
<1>2. PICK b : Follows(q, b) /\ b[1] = K /\ b[Len(q) + 1] = L  BY DEF Leads
<1> DEFINE m == Len(p)
           n == Len(q)
           r == p \o q
           at == [i \in 1..(m + n + 1) |-> IF i <= m + 1 THEN a[i] ELSE b[i - m]]
<1>3. p \in Seq(Steps) /\ q \in Seq(Steps) /\ m \in Nat /\ n \in Nat  BY DEF Leads
<1>4. r \in Seq(Steps) /\ Len(r) = m + n
      /\ (\A i \in 1..m : r[i] = p[i]) /\ (\A i \in 1..n : r[m + i] = q[i])
    BY <1>3
<1>5. /\ \A i \in 1..(m + 1) : at[i] = a[i]
      /\ \A i \in 1..(n + 1) : at[m + i] = b[i]
    <2>1. \A i \in 1..(m + 1) : at[i] = a[i]  BY <1>3
    <2>2. ASSUME NEW i \in 1..(n + 1)  PROVE at[m + i] = b[i]
        <3>1. CASE i = 1  BY <3>1, <1>1, <1>2, <1>3
        <3>2. CASE i # 1  BY <3>2, <1>3
        <3> QED  BY <3>1, <3>2
    <2> QED  BY <2>1, <2>2
<1>6. a \in [1..(m + 1) -> SUBSET Grants] /\ b \in [1..(n + 1) -> SUBSET Grants]  BY <1>1, <1>2 DEF Follows
<1>7. at \in [1..(m + n + 1) -> SUBSET Grants]
    <2>1. \A i \in 1..(m + n + 1) : i > m + 1 => i - m \in 1..(n + 1)  BY <1>3
    <2> QED  BY <2>1, <1>3, <1>6
<1>8. ASSUME NEW i \in 1..(m + n)
      PROVE  /\ Fits(r[i], at[i])
             /\ at[i + 1] = HeldAfter(r[i], at[i])
             /\ r[i].op = "try" => \E j \in 1..(m + n) : FirstGive(r, i, j) /\ at[j + 1] = at[i]
    <2>1. CASE i \in 1..m
        <3>1. r[i] = p[i] /\ at[i] = a[i] /\ at[i + 1] = a[i + 1]  BY <2>1, <1>3, <1>4, <1>5
        <3>2. Fits(p[i], a[i]) /\ a[i + 1] = HeldAfter(p[i], a[i])  BY <2>1, <1>1 DEF Follows
        <3>3. ASSUME r[i].op = "try"  PROVE \E j \in 1..(m + n) : FirstGive(r, i, j) /\ at[j + 1] = at[i]
            <4>1. PICK j \in 1..m : FirstGive(p, i, j) /\ a[j + 1] = a[i]  BY <2>1, <3>1, <3>3, <1>1 DEF Follows
            <4>2. j \in 1..(m + n) /\ at[j + 1] = a[j + 1] /\ r[j] = p[j]  BY <1>3, <1>4, <1>5
            <4>3. FirstGive(r, i, j)  BY <4>1, <4>2, <3>1, <2>1, <1>3, <1>4 DEF FirstGive
            <4> QED  BY <4>1, <4>2, <4>3, <3>1
        <3> QED  BY <3>1, <3>2, <3>3
    <2>2. CASE i \notin 1..m
        <3>1. PICK k \in 1..n : i = m + k  BY <2>2, <1>3
        <3>2. r[i] = q[k] /\ at[i] = b[k] /\ at[i + 1] = b[k + 1]
            <4>1. k \in 1..(n + 1) /\ k + 1 \in 1..(n + 1) /\ i + 1 = m + (k + 1)  BY <3>1, <1>3
            <4>2. at[i + 1] = b[k + 1]  BY <4>1, <1>5
            <4> QED  BY <4>1, <4>2, <3>1, <1>4, <1>5
        <3>3. Fits(q[k], b[k]) /\ b[k + 1] = HeldAfter(q[k], b[k])  BY <1>2 DEF Follows
        <3>4. ASSUME r[i].op = "try"  PROVE \E j \in 1..(m + n) : FirstGive(r, i, j) /\ at[j + 1] = at[i]
            <4>1. PICK j \in 1..n : FirstGive(q, k, j) /\ b[j + 1] = b[k]  BY <3>2, <3>4, <1>2 DEF Follows
            <4>2. m + j \in 1..(m + n) /\ r[m + j] = q[j]  BY <1>3, <1>4
            <4>3. at[(m + j) + 1] = b[j + 1]
                <5>1. j + 1 \in 1..(n + 1) /\ (m + j) + 1 = m + (j + 1)  BY <1>3
                <5> QED  BY <5>1, <1>5
            <4>4. ASSUME NEW x \in (i + 1)..((m + j) - 1)  PROVE ~Gives(r[x], r[i].lock)
                <5>1. PICK y \in (k + 1)..(j - 1) : x = m + y  BY <3>1, <1>3
                <5>2. r[x] = q[y]  BY <5>1, <1>3, <1>4
                <5> QED  BY <5>1, <5>2, <4>1, <3>2 DEF FirstGive
            <4>5. m + j \in (i + 1)..Len(r)  BY <4>1, <4>2, <3>1, <1>3, <1>4 DEF FirstGive
            <4>6. FirstGive(r, i, m + j)  BY <4>1, <4>2, <4>4, <4>5, <3>2 DEF FirstGive
            <4> QED  BY <4>1, <4>2, <4>3, <4>6, <3>2
        <3> QED  BY <3>2, <3>3, <3>4
    <2> QED  BY <2>1, <2>2
<1>9. at[1] = H /\ at[(m + n) + 1] = L
    <2>1. 1 \in 1..(m + 1) /\ n + 1 \in 1..(n + 1) /\ (m + n) + 1 = m + (n + 1)  BY <1>3
    <2> QED  BY <2>1, <1>1, <1>2, <1>5
<1>10. Follows(r, at)  BY <1>4, <1>7, <1>8 DEF Follows
<1> HIDE DEF at
<1> QED  BY <1>4, <1>9, <1>10 DEF Leads

\* What is left of a list after step j.
LEMMA RestRuns ==
    ASSUME NEW p \in Seq(Steps), NEW at, Follows(p, at), NEW j \in 1..Len(p)
    PROVE  Leads(SubSeq(p, j + 1, Len(p)), at[j + 1], at[Len(p) + 1])
<1> DEFINE m == Len(p)
           n == Len(p) - j
           q == SubSeq(p, j + 1, m)
           b == [i \in 1..(n + 1) |-> at[j + i]]
<1>1. m \in Nat /\ n \in Nat /\ j \in Nat /\ j + n = m  OBVIOUS
<1>2. q \in Seq(Steps) /\ Len(q) = n /\ \A i \in 1..n : q[i] = p[j + i]
    <2>1. /\ q \in Seq(Steps)
          /\ Len(q) = IF j + 1 <= m THEN m - (j + 1) + 1 ELSE 0
          /\ \A i \in 1..(m - (j + 1) + 1) : q[i] = p[(j + 1) + i - 1]
        <3>1. j + 1 \in Int /\ m \in Int /\ \A i \in (j + 1)..m : p[i] \in Steps  BY <1>1
        <3> HIDE DEF m
        <3> QED  BY <3>1, SubSeqProperties
    <2>2. m - (j + 1) + 1 = n /\ \A i \in 1..n : (j + 1) + i - 1 = j + i  BY <1>1
    <2>3. Len(q) = n
        <3>1. CASE j + 1 <= m  BY <2>1, <2>2, <3>1
        <3>2. CASE ~(j + 1 <= m)
            <4>1. n = 0
                <5> HIDE DEF m, n
                <5> QED  BY <1>1, <3>2
            <4>2. Len(q) = 0  BY <2>1, <3>2
            <4> HIDE DEF q, n
            <4> QED  BY <4>1, <4>2
        <3> QED  BY <3>1, <3>2
    <2> HIDE DEF q, m, n
    <2> QED  BY <2>1, <2>2, <2>3
<1>3. \A i \in 1..(n + 1) : b[i] = at[j + i]  OBVIOUS
<1>4. b \in [1..(n + 1) -> SUBSET Grants]
    <2>1. \A i \in 1..(n + 1) : j + i \in 1..(m + 1)  BY <1>1
    <2> QED  BY <2>1 DEF Follows
<1>5. ASSUME NEW i \in 1..n
      PROVE  /\ Fits(q[i], b[i])
             /\ b[i + 1] = HeldAfter(q[i], b[i])
             /\ q[i].op = "try" => \E k \in 1..n : FirstGive(q, i, k) /\ b[k + 1] = b[i]
    <2>1. j + i \in 1..m /\ q[i] = p[j + i] /\ b[i] = at[j + i] /\ b[i + 1] = at[(j + i) + 1]
        <3>1. i \in 1..(n + 1) /\ i + 1 \in 1..(n + 1) /\ j + (i + 1) = (j + i) + 1  BY <1>1
        <3>2. b[i + 1] = at[j + (i + 1)]  BY <3>1, <1>3
        <3>3. b[i] = at[j + i]  BY <3>1, <1>3
        <3>4. j + i \in 1..m  BY <1>1
        <3> QED  BY <3>1, <3>2, <3>3, <3>4, <1>2
    <2>2. Fits(p[j + i], at[j + i]) /\ at[(j + i) + 1] = HeldAfter(p[j + i], at[j + i])  BY <2>1 DEF Follows
    <2>3. ASSUME q[i].op = "try"  PROVE \E k \in 1..n : FirstGive(q, i, k) /\ b[k + 1] = b[i]
        <3>1. PICK x \in 1..m : FirstGive(p, j + i, x) /\ at[x + 1] = at[j + i]  BY <2>1, <2>3 DEF Follows
        <3>2. PICK k \in 1..n : x = j + k /\ k \in (i + 1)..n  BY <3>1, <1>1 DEF FirstGive
        <3>3. q[k] = p[x]  BY <3>2, <1>2
        <3>4. b[k + 1] = at[x + 1]
            <4>1. k + 1 \in 1..(n + 1) /\ j + (k + 1) = x + 1  BY <3>2, <1>1
            <4> QED  BY <4>1, <1>3
        <3>5. ASSUME NEW y \in (i + 1)..(k - 1)  PROVE ~Gives(q[y], q[i].lock)
            <4>1. y \in 1..n /\ j + y \in ((j + i) + 1)..(x - 1)  BY <3>2, <1>1
            <4> QED  BY <4>1, <3>1, <2>1, <1>2 DEF FirstGive
        <3>6. FirstGive(q, i, k)  BY <3>1, <3>2, <3>3, <3>5, <2>1, <1>2 DEF FirstGive
        <3> QED  BY <3>1, <3>4, <3>6, <2>1
    <2> QED  BY <2>1, <2>2, <2>3
<1>6. b[1] = at[j + 1] /\ b[n + 1] = at[m + 1]
    <2>1. 1 \in 1..(n + 1) /\ n + 1 \in 1..(n + 1) /\ j + (n + 1) = m + 1  BY <1>1
    <2> QED  BY <2>1, <1>3
<1>7. Follows(q, b)  BY <1>2, <1>4, <1>5 DEF Follows
<1> HIDE DEF b
<1> QED  BY <1>2, <1>6, <1>7 DEF Leads

\* The first step of a list, and what comes then.
LEMMA FirstStep ==
    ASSUME NEW p, NEW H, NEW K, Leads(p, H, K), p # <<>>
    PROVE  /\ Head(p) \in Steps /\ Fits(Head(p), H) /\ H \in SUBSET Grants
           /\ Leads(Tail(p), HeldAfter(Head(p), H), K)
           /\ Head(p).op = "try" =>
                \E j \in 1..Len(p) : FirstGive(p, 1, j) /\ Leads(SubSeq(p, j + 1, Len(p)), H, K)
<1>1. PICK at : Follows(p, at) /\ at[1] = H /\ at[Len(p) + 1] = K  BY DEF Leads
<1>2. p \in Seq(Steps) /\ Len(p) \in Nat /\ 1 \in 1..Len(p) /\ Head(p) = p[1] /\ p[1] \in Steps  BY DEF Leads
<1>3. Fits(p[1], at[1]) /\ at[1 + 1] = HeldAfter(p[1], at[1]) /\ at[1] \in SUBSET Grants  BY <1>1, <1>2 DEF Follows
<1>4. Tail(p) = SubSeq(p, 1 + 1, Len(p))  BY <1>2, TailIsSubSeq
<1>5. Leads(SubSeq(p, 1 + 1, Len(p)), at[1 + 1], at[Len(p) + 1])  BY <1>1, <1>2, RestRuns
<1>6. ASSUME Head(p).op = "try"
      PROVE  \E j \in 1..Len(p) : FirstGive(p, 1, j) /\ Leads(SubSeq(p, j + 1, Len(p)), H, K)
    <2>1. PICK j \in 1..Len(p) : FirstGive(p, 1, j) /\ at[j + 1] = at[1]  BY <1>1, <1>2, <1>6 DEF Follows
    <2>2. Leads(SubSeq(p, j + 1, Len(p)), at[j + 1], at[Len(p) + 1])  BY <1>1, <1>2, RestRuns
    <2> QED  BY <2>1, <2>2, <1>1
<1> QED  BY <1>1, <1>2, <1>3, <1>4, <1>5, <1>6

LEMMA NothingLeft == ASSUME NEW H, NEW K, Leads(<<>>, H, K) PROVE H = K
BY DEF Leads
-----------------------------------------------------------------------------
\* Programs that leave their thread with the locks it had.
Keeps(p, H) == H \in SUBSET Grants /\ Leads(p, H, H)

LEMMA NothingKeeps == ASSUME NEW H \in SUBSET Grants PROVE Keeps(<<>>, H)
BY NothingRuns DEF Keeps

LEMMA BothKeep ==
    ASSUME NEW p, NEW q, NEW H, Keeps(p, H), Keeps(q, H)  PROVE Keeps(p \o q, H)
BY BothRun DEF Keeps

LEMMA ThroughKeeps ==
    ASSUME NEW l, NEW m \in {"S", "X"}, NEW H \in SUBSET Grants, l \in HeldOver => Below(H, l)
    PROVE  Keeps(Through(l, m), H)
<1> DEFINE s == [op |-> "pass", lock |-> l, mode |-> m]
<1>1. CASE l \notin HeldOver  BY <1>1, NothingKeeps DEF Through
<1>2. CASE l \in HeldOver
    <2>1. s \in Steps  BY <1>2 DEF Steps
    <2>2. Fits(s, H) /\ HeldAfter(s, H) = H  BY <1>2 DEF Fits, WithClient, HeldAfter
    <2>3. Leads(<<s>>, H, H)  BY <2>1, <2>2, OneRuns
    <2> QED  BY <2>3, <1>2 DEF Through, Keeps
<1> QED  BY <1>1, <1>2

LEMMA HoldingKeeps ==
    ASSUME NEW l \in HeldOver, NEW m \in {"S", "X"}, NEW H \in SUBSET Grants, Below(H, l),
           l = "device" => Alone(H),
           NEW p, Keeps(p, H \cup {[lock |-> l, mode |-> m]})
    PROVE  Keeps(Holding(l, m, p), H)
<1> DEFINE take == [op |-> "take", lock |-> l, mode |-> m]
           give == [op |-> "give", lock |-> l, mode |-> m]
           K    == H \cup {[lock |-> l, mode |-> m]}
<1>1. take \in Steps /\ give \in Steps  BY DEF Steps
<1>2. Fits(take, H) /\ HeldAfter(take, H) = K  BY DEF Fits, WithClient, HeldAfter, Grant
<1>3. Fits(give, K) /\ HeldAfter(give, K) = H
    <2>1. [lock |-> l, mode |-> m] \notin H
        <3>1. \A h \in H : Rank(h.lock) \in Nat /\ Rank(h.lock) < Rank(l)  BY DEF Below, Rank
        <3>2. ~(Rank(l) < Rank(l))  BY DEF Rank
        <3> QED  BY <3>1, <3>2
    <2>2. Fits(give, K)  BY DEF Fits, WithClient
    <2>3. Grant(give) = [lock |-> l, mode |-> m] /\ HeldAfter(give, K) = K \ {Grant(give)}  BY DEF HeldAfter, Grant
    <2> QED  BY <2>1, <2>2, <2>3
<1>4. K \in SUBSET Grants  BY DEF Keeps
<1>5. Leads(<<take>>, H, K)  BY <1>1, <1>2, OneRuns
<1>6. Leads(<<give>>, K, H)  BY <1>1, <1>3, <1>4, OneRuns
<1>7. Leads(<<take>> \o p, H, K)  BY <1>5, BothRun DEF Keeps
<1>8. Leads((<<take>> \o p) \o <<give>>, H, H)  BY <1>6, <1>7, BothRun
<1> QED  BY <1>8 DEF Holding, Keeps

\* Where a lock is only tried, what is done with it comes to its first give.
LEMMA IfFreeKeeps ==
    ASSUME NEW l \in HeldOver, NEW H \in SUBSET Grants, \A h \in H : h.lock # l,
           NEW p, Keeps(p, H \cup {[lock |-> l, mode |-> "X"]}),
           \A i \in 1..Len(p) : ~Gives(p[i], l)
    PROVE  Keeps(IfFree(l, p), H)
<1> DEFINE try  == [op |-> "try", lock |-> l, mode |-> "X"]
           give == [op |-> "give", lock |-> l, mode |-> "X"]
           K    == H \cup {[lock |-> l, mode |-> "X"]}
           n    == Len(p)
           r    == IfFree(l, p)
<1>1. try \in Steps /\ give \in Steps  BY DEF Steps
<1>2. Fits(try, H) /\ HeldAfter(try, H) = K  BY DEF Fits, WithClient, HeldAfter, Grant
<1>3. Fits(give, K) /\ HeldAfter(give, K) = H
    <2>1. [lock |-> l, mode |-> "X"] \notin H  OBVIOUS
    <2>2. Fits(give, K)  BY DEF Fits, WithClient
    <2>3. Grant(give) = [lock |-> l, mode |-> "X"] /\ HeldAfter(give, K) = K \ {Grant(give)}  BY DEF HeldAfter, Grant
    <2> QED  BY <2>1, <2>2, <2>3
<1>4. p \in Seq(Steps) /\ n \in Nat  BY DEF Keeps, Leads
<1>5. PICK b : Follows(p, b) /\ b[1] = K /\ b[n + 1] = K  BY DEF Keeps, Leads
<1> DEFINE at == [i \in 1..(n + 3) |-> IF i = 1 \/ i = n + 3 THEN H ELSE b[i - 1]]
<1>6. r \in Seq(Steps) /\ Len(r) = n + 2 /\ r[1] = try /\ r[n + 2] = give /\ \A i \in 1..n : r[i + 1] = p[i]
    <2>1. r = (<<try>> \o p) \o <<give>>  BY DEF IfFree
    <2>2. /\ <<try>> \o p \in Seq(Steps) /\ Len(<<try>> \o p) = n + 1
          /\ (<<try>> \o p)[1] = try /\ \A i \in 1..n : (<<try>> \o p)[i + 1] = p[i]
        BY <1>1, <1>4
    <2> DEFINE q == <<try>> \o p
    <2>3. q \in Seq(Steps) /\ Len(q) = n + 1 /\ q[1] = try /\ \A i \in 1..n : q[i + 1] = p[i]  BY <2>2
    <2> HIDE DEF q
    <2>4. /\ q \o <<give>> \in Seq(Steps) /\ Len(q \o <<give>>) = n + 2 /\ (q \o <<give>>)[n + 2] = give
          /\ \A i \in 1..(n + 1) : (q \o <<give>>)[i] = q[i]
        BY <2>3, <1>1, <1>4
    <2>5. r = q \o <<give>>  BY <2>1 DEF q
    <2>6. 1 \in 1..(n + 1) /\ \A i \in 1..n : i + 1 \in 1..(n + 1)  BY <1>4
    <2> HIDE DEF r
    <2> QED  BY <2>3, <2>4, <2>5, <2>6
<1>7. at[1] = H /\ at[n + 3] = H /\ \A i \in 1..(n + 1) : at[i + 1] = b[i]  BY <1>4
<1>8. at \in [1..(n + 3) -> SUBSET Grants]
    <2>1. \A i \in 1..(n + 3) : ~(i = 1 \/ i = n + 3) => i - 1 \in 1..(n + 1)  BY <1>4
    <2>2. b \in [1..(n + 1) -> SUBSET Grants]  BY <1>5 DEF Follows
    <2> QED  BY <2>1, <2>2
<1> HIDE DEF at, r, try, give, K
<1>9. ASSUME NEW i \in 1..(n + 2)
      PROVE  /\ Fits(r[i], at[i])
             /\ at[i + 1] = HeldAfter(r[i], at[i])
             /\ r[i].op = "try" => \E j \in 1..(n + 2) : FirstGive(r, i, j) /\ at[j + 1] = at[i]
    <2>1. CASE i = 1
        <3>1. at[2] = K
            <4>1. 1 \in 1..(n + 1) /\ 1 + 1 = 2  BY <1>4
            <4> QED  BY <4>1, <1>5, <1>7
        <3>2. FirstGive(r, 1, n + 2)
            <4>1. n + 2 \in (1 + 1)..Len(r)  BY <1>4, <1>6
            <4>2. r[1].lock = l /\ Gives(r[n + 2], l)  BY <1>6 DEF try, give, Gives
            <4>3. ASSUME NEW k \in (1 + 1)..((n + 2) - 1)  PROVE ~Gives(r[k], l)
                <5>1. PICK x \in 1..n : k = x + 1  BY <1>4
                <5> QED  BY <5>1, <1>6
            <4> QED  BY <4>1, <4>2, <4>3 DEF FirstGive
        <3>3. n + 2 \in 1..(n + 2) /\ (n + 2) + 1 = n + 3  BY <1>4
        <3> QED  BY <2>1, <3>1, <3>2, <3>3, <1>2, <1>6, <1>7
    <2>2. CASE i = n + 2
        <3>1. at[n + 2] = K /\ at[(n + 2) + 1] = H
            <4>1. n + 1 \in 1..(n + 1) /\ (n + 1) + 1 = n + 2 /\ (n + 2) + 1 = n + 3  BY <1>4
            <4> QED  BY <4>1, <1>5, <1>7
        <3>2. give.op = "give"  BY DEF give
        <3> QED  BY <2>2, <3>1, <3>2, <1>3, <1>6
    <2>3. CASE i # 1 /\ i # n + 2
        <3>1. PICK x \in 1..n : i = x + 1  BY <2>3, <1>4
        <3>2. r[i] = p[x] /\ at[i] = b[x] /\ at[i + 1] = b[x + 1]
            <4>1. x \in 1..(n + 1) /\ x + 1 \in 1..(n + 1) /\ (x + 1) + 1 = i + 1  BY <3>1, <1>4
            <4>2. at[(x + 1) + 1] = b[x + 1]  BY <4>1, <1>7
            <4> QED  BY <4>1, <4>2, <3>1, <1>6, <1>7
        <3>3. Fits(p[x], b[x]) /\ b[x + 1] = HeldAfter(p[x], b[x])  BY <1>5 DEF Follows
        <3>4. ASSUME r[i].op = "try"  PROVE \E j \in 1..(n + 2) : FirstGive(r, i, j) /\ at[j + 1] = at[i]
            <4>1. PICK y \in 1..n : FirstGive(p, x, y) /\ b[y + 1] = b[x]  BY <3>2, <3>4, <1>5 DEF Follows
            <4>2. y + 1 \in 1..(n + 2) /\ r[y + 1] = p[y]  BY <1>4, <1>6
            <4>3. at[(y + 1) + 1] = b[y + 1]
                <5>1. y + 1 \in 1..(n + 1)  BY <1>4
                <5> QED  BY <5>1, <1>7
            <4>4. ASSUME NEW k \in (i + 1)..((y + 1) - 1)  PROVE ~Gives(r[k], r[i].lock)
                <5>1. PICK z \in (x + 1)..(y - 1) : k = z + 1  BY <3>1, <1>4
                <5>2. z \in 1..n  BY <5>1, <1>4
                <5> QED  BY <5>1, <5>2, <4>1, <3>2, <1>6 DEF FirstGive
            <4>5. y + 1 \in (i + 1)..Len(r)  BY <4>1, <4>2, <3>1, <1>4, <1>6 DEF FirstGive
            <4>6. FirstGive(r, i, y + 1)  BY <4>1, <4>2, <4>4, <4>5, <3>2 DEF FirstGive
            <4> QED  BY <4>2, <4>3, <4>1, <4>6, <3>2
        <3> QED  BY <3>2, <3>3, <3>4
    <2> QED  BY <2>1, <2>2, <2>3
<1>10. Follows(r, at)
    <2>1. Len(r) = n + 2 /\ Len(r) + 1 = n + 3  BY <1>4, <1>6
    <2> QED  BY <2>1, <1>8, <1>9 DEF Follows
<1>11. Leads(r, H, H)
    <2>1. Len(r) + 1 = n + 3  BY <1>4, <1>6
    <2> QED  BY <2>1, <1>6, <1>7, <1>10 DEF Leads
<1> QED  BY <1>11 DEF Keeps, r
-----------------------------------------------------------------------------
(* What each program of the server keeps.                                  *)

LEMMA NoneHeld == {} \in SUBSET Grants /\ Alone({}) /\ \A l : Below({}, l)
BY DEF Alone, Below

LEMMA FreeKeeps ==
    ASSUME NEW l  PROVE Keeps(Lock(l), {}) /\ Keeps(Read(l), {}) /\ Keeps(Write(l), {})
BY NoneHeld, ThroughKeeps DEF Lock, Read, Write

\* A lock nobody keeps may be taken at any time.
LEMMA BriefKeeps ==
    ASSUME NEW l, l \notin HeldOver, NEW H \in SUBSET Grants
    PROVE  Keeps(Lock(l), H) /\ Keeps(Read(l), H) /\ Keeps(Write(l), H)
BY ThroughKeeps DEF Lock, Read, Write

LEMMA AskKeeps == ASSUME NEW H \in SUBSET Grants, Alone(H) PROVE Keeps(Ask, H)
<1> DEFINE s == [op |-> "ask"]
<1>1. s \in Steps /\ Fits(s, H) /\ HeldAfter(s, H) = H /\ s.op # "try"  BY DEF Steps, Fits, WithClient, HeldAfter
<1>2. Leads(<<s>>, H, H)  BY <1>1, OneRuns
<1> QED  BY <1>2 DEF Ask, Keeps

LEMMA PointKeeps ==
    /\ Keeps(Judge, {}) /\ \A g \in Guards : Keeps(Route(g), {})
    /\ Keeps(Receive, {}) /\ Keeps(Reply, {}) /\ Keeps(Serve, {})
    /\ Keeps(<< [op |-> "stalled"] >>, {})
<1>1. ASSUME NEW s \in Steps, s.op \in {"judge", "route"} \cup WithClient  PROVE Keeps(<<s>>, {})
    <2>1. Fits(s, {}) /\ HeldAfter(s, {}) = {} /\ s.op # "try"
        BY <1>1 DEF Fits, HeldAfter, WithClient
    <2>2. Leads(<<s>>, {}, {})  BY <2>1, NoneHeld, OneRuns
    <2> QED  BY <2>2, NoneHeld DEF Keeps
<1>2. \A op \in {"judge"} \cup WithClient : [op |-> op] \in Steps  BY DEF Steps
<1>3. \A g \in Guards : [op |-> "route", guard |-> g] \in Steps  BY DEF Steps
<1>4. \A op \in {"judge"} \cup WithClient : Keeps(<< [op |-> op] >>, {})  BY <1>1, <1>2
<1> QED  BY <1>1, <1>3, <1>4 DEF Judge, Serve, Route, Receive, Reply, WithClient

LEMMA ExchangeKeeps == ASSUME NEW H \in SUBSET Grants, Alone(H) PROVE Keeps(Exchange, H)
<1>1. Keeps(Ask, H)  BY AskKeeps
<1>2. Keeps(Lock("status"), H)  BY BriefKeeps DEF HeldOver
<1> QED  BY <1>1, <1>2, BothKeep DEF Exchange

\* Where no lock is held, and for what is asked under "config", with that.
LEMMA SlotKeeps ==
    ASSUME NEW H \in SUBSET Grants, Below(H, "units")
    PROVE  Keeps(Slot, H) /\ Keeps(Status, H)
<1>1. Keeps(Slot, H)  BY ThroughKeeps DEF Slot, Read
<1>2. Keeps(Lock("status"), H)  BY BriefKeeps DEF HeldOver
<1> QED  BY <1>1, <1>2, BothKeep DEF Status

LEMMA InfoKeeps == Keeps(Known, {}) /\ Keeps(Slot, {}) /\ Keeps(Info, {})
<1>1. Keeps(Slot, {}) /\ Keeps(Read("info"), {}) /\ Keeps(Known, {})
    BY NoneHeld, SlotKeeps, FreeKeeps DEF Known
<1> QED  BY <1>1, BothKeep DEF Info

LEMMA WithUnit ==
    ASSUME NEW p, \A H \in SUBSET Grants : Alone(H) => Keeps(p, H)
    PROVE  Keeps(Holding("device", "X", p), {})
<1> DEFINE H == {} \cup {[lock |-> "device", mode |-> "X"]}
<1>1. H \in SUBSET Grants /\ Alone(H)  BY DEF Grants, Alone, HeldOver
<1>2. Keeps(p, H)  BY <1>1
<1> QED  BY <1>2, NoneHeld, HoldingKeeps DEF HeldOver

LEMMA ReadStateKeeps == Keeps(ReadState, {})
<1>1. Keeps(Holding("device", "X", Exchange), {})  BY ExchangeKeeps, WithUnit
<1> QED  BY <1>1, InfoKeeps, BothKeep DEF ReadState

LEMMA ApplyKeeps == Keeps(Apply, {})
<1> DEFINE body == Lock("done") \o Lock("pending") \o Exchange \o Lock("done")
<1>1. ASSUME NEW H \in SUBSET Grants, Alone(H)  PROVE Keeps(body, H)
    <2>1. Keeps(Lock("done"), H) /\ Keeps(Lock("pending"), H)  BY BriefKeeps DEF HeldOver
    <2>2. Keeps(Exchange, H)  BY <1>1, ExchangeKeeps
    <2>3. Keeps(Lock("done") \o Lock("pending"), H)  BY <2>1, BothKeep
    <2>4. Keeps(Lock("done") \o Lock("pending") \o Exchange, H)  BY <2>2, <2>3, BothKeep
    <2> QED  BY <2>1, <2>4, BothKeep
<1> HIDE DEF body
<1>2. Keeps(Holding("device", "X", body), {})  BY <1>1, WithUnit
<1>3. Keeps(Slot \o Lock("pending"), {})  BY InfoKeeps, FreeKeeps, BothKeep
<1>4. Keeps(Control, {})  BY <1>2, <1>3, BothKeep DEF Control, body
<1> QED  BY <1>4, InfoKeeps, BothKeep DEF Apply

LEMMA ReplaceKeeps ==
    ASSUME NEW H \in SUBSET Grants, Below(H, "units")  PROVE Keeps(Replace, H)
<1> DEFINE K == H \cup {[lock |-> "units", mode |-> "X"]}
<1>1. K \in SUBSET Grants  BY DEF Grants, HeldOver
<1>2. Keeps(Write("order"), K)  BY <1>1, BriefKeeps DEF HeldOver
<1> QED  BY <1>2, HoldingKeeps DEF Replace, HeldOver

\* The device's own lock is only tried under "config".
LEMMA RenameKeeps ==
    ASSUME NEW H \in SUBSET Grants, Below(H, "units")  PROVE Keeps(Rename, H)
<1> DEFINE K == H \cup {[lock |-> "device", mode |-> "X"]}
<1>1. K \in SUBSET Grants  BY DEF Grants, HeldOver
<1>2. Keeps(<<>>, K)  BY <1>1, NothingKeeps
<1>3. \A h \in H : h.lock # "device"  BY DEF Below, Rank
<1>4. Keeps(IfFree("device", <<>>), H)  BY <1>2, <1>3, IfFreeKeeps DEF HeldOver
<1>5. Keeps(Write("info"), H)  BY BriefKeeps DEF HeldOver
<1>6. Keeps(Slot \o Write("info"), H)  BY <1>5, SlotKeeps, BothKeep
<1> QED  BY <1>4, <1>6, BothKeep DEF Rename

LEMMA UnderConfig ==
    ASSUME NEW m \in {"S", "X"}, NEW p,
           \A H \in SUBSET Grants : Below(H, "units") => Keeps(p, H)
    PROVE  Keeps(Holding("config", m, p), {})
<1> DEFINE H == {} \cup {[lock |-> "config", mode |-> m]}
<1>1. H \in SUBSET Grants /\ Below(H, "units")  BY DEF Grants, Below, Rank, HeldOver
<1>2. Keeps(p, H)  BY <1>1
<1> QED  BY <1>2, NoneHeld, HoldingKeeps DEF HeldOver

LEMMA KeepWarmKeeps == Keeps(KeepWarm, {})
<1> DEFINE H == {} \cup {[lock |-> "device", mode |-> "X"]}
<1>1. H \in SUBSET Grants /\ Alone(H)  BY DEF Grants, Alone, HeldOver
<1>2. Keeps(Exchange, H)  BY <1>1, ExchangeKeeps
<1>3. \A i \in 1..Len(Exchange) : ~Gives(Exchange[i], "device")
    <2>1. Exchange = << [op |-> "ask"] >>  BY DEF Exchange, Ask, Lock, Through, HeldOver
    <2> QED  BY <2>1 DEF Gives
<1>4. Keeps(IfFree("device", Exchange), {})  BY <1>2, <1>3, NoneHeld, IfFreeKeeps DEF HeldOver
<1>5. Keeps(Known \o Slot, {})  BY InfoKeeps, BothKeep
<1> QED  BY <1>4, <1>5, BothKeep DEF KeepWarm

LEMMA ScanKeeps == Keeps(Scan, {})
<1> DEFINE H == {} \cup {[lock |-> "scanning", mode |-> "X"]}
           p == Ask \o Read("config")
<1>1. H \in SUBSET Grants /\ Alone(H) /\ Below(H, "config")  BY DEF Grants, Alone, Below, Rank, HeldOver
<1>2. Keeps(Ask, H) /\ Keeps(Read("config"), H)  BY <1>1, AskKeeps, ThroughKeeps DEF Read
<1>3. Keeps(p, H)  BY <1>2, BothKeep
<1> DEFINE ask  == [op |-> "ask"]
           read == [op |-> "pass", lock |-> "config", mode |-> "S"]
<1>4. p = <<ask>> \o <<read>>  BY DEF Ask, Read, Through, HeldOver
<1>5. \A i \in 1..Len(p) : ~Gives(p[i], "scanning")
    <2>1. ~Gives(ask, "scanning") /\ ~Gives(read, "scanning")  BY DEF Gives
    <2> HIDE DEF ask, read
    <2>2. Len(<<ask>> \o <<read>>) = 2 /\ (<<ask>> \o <<read>>)[1] = ask /\ (<<ask>> \o <<read>>)[2] = read
        OBVIOUS
    <2>3. Len(p) = 2 /\ p[1] = ask /\ p[2] = read  BY <1>4, <2>2
    <2> HIDE DEF p
    <2>4. \A i \in 1..2 : i = 1 \/ i = 2  OBVIOUS
    <2> QED  BY <2>1, <2>3, <2>4
<1> QED  BY <1>3, <1>5, NoneHeld, IfFreeKeeps DEF Scan, HeldOver
-----------------------------------------------------------------------------
LEMMA UnitPrograms ==
    /\ Keeps(AllStates, {}) /\ Keeps(ListUnits, {}) /\ Keeps(OneState, {})
    /\ Keeps(UnitCapabilities, {}) /\ Keeps(UnitHistory, {}) /\ Keeps(ControlUnit, {})
<1>1. /\ Keeps(Known, {}) /\ Keeps(Slot, {}) /\ Keeps(Info, {}) /\ Keeps(ReadState, {})
      /\ Keeps(Apply, {}) /\ Keeps(Recorded, {}) /\ Keeps(Samples, {})
    BY InfoKeeps, ReadStateKeeps, ApplyKeeps, FreeKeeps DEF Recorded, Samples
<1>2. Keeps(Known \o Info, {}) /\ Keeps(Slot \o Info, {})  BY <1>1, BothKeep
<1>3. Keeps(Known \o Info \o ReadState, {}) /\ Keeps(Slot \o Info \o ReadState, {})  BY <1>1, <1>2, BothKeep
<1>4. Keeps(AllStates, {}) /\ Keeps(OneState, {})  BY <1>1, <1>3, BothKeep DEF AllStates, OneState
<1> QED  BY <1>1, <1>2, <1>4, BothKeep DEF ListUnits, UnitCapabilities, UnitHistory, ControlUnit

LEMMA SystemPrograms ==
    /\ Keeps(System, {}) /\ Keeps(Metrics, {})
    /\ Keeps(AddUnit, {}) /\ Keeps(RenameUnit, {}) /\ Keeps(DeleteUnit, {})
<1>1. Keeps(UnitsFacts, {})
    <2>1. ASSUME NEW H \in SUBSET Grants, Below(H, "units")  PROVE Keeps(Status \o Samples \o Status, H)
        <3>1. Keeps(Status, H) /\ Keeps(Samples, H)  BY <2>1, SlotKeeps, BriefKeeps DEF Samples, HeldOver
        <3>2. Keeps(Status \o Samples, H)  BY <3>1, BothKeep
        <3> QED  BY <3>1, <3>2, BothKeep
    <2> QED  BY <2>1, UnderConfig DEF UnitsFacts
<1>2. Keeps(System, {})
    <2>1. Keeps(Lock("activity") \o UnitsFacts, {})  BY <1>1, FreeKeeps, BothKeep
    <2>2. Keeps(Lock("activity") \o UnitsFacts \o Read("devices"), {})  BY <2>1, FreeKeeps, BothKeep
    <2>3. Keeps(Lock("activity") \o UnitsFacts \o Read("devices") \o Read("programs"), {})
        BY <2>2, FreeKeeps, BothKeep
    <2>4. Keeps(Lock("activity") \o UnitsFacts \o Read("devices") \o Read("programs") \o Lock("scheduler"), {})
        BY <2>3, FreeKeeps, BothKeep
    <2> QED  BY <2>4, FreeKeeps, BothKeep DEF System
<1>3. Keeps(Metrics, {})
    <2>1. Keeps(Known, {}) /\ Keeps(Samples, {})  BY InfoKeeps, FreeKeeps DEF Samples
    <2>2. Keeps(Read("config") \o Known, {})  BY <2>1, FreeKeeps, BothKeep
    <2>3. Keeps(Read("config") \o Known \o Samples, {})  BY <2>1, <2>2, BothKeep
    <2>4. Keeps(Read("config") \o Known \o Samples \o Lock("scheduler"), {})  BY <2>3, FreeKeeps, BothKeep
    <2> QED  BY <2>1, <2>4, BothKeep DEF Metrics
<1>4. Keeps(Holding("config", "X", Replace), {}) /\ Keeps(Holding("config", "X", Rename), {})
    BY ReplaceKeeps, RenameKeeps, UnderConfig
<1>5. Keeps(Ask, {})  BY NoneHeld, AskKeeps
<1> QED  BY <1>2, <1>3, <1>4, <1>5, BothKeep DEF AddUnit, RenameUnit, DeleteUnit

LEMMA ListPrograms ==
    Keeps(CreateTimer, {}) /\ Keeps(TimerStatus, {}) /\ Keeps(ApplyNow, {}) /\ Keeps(Approve, {})
<1>1. Keeps(Read("programs") \o Known, {})  BY InfoKeeps, FreeKeeps, BothKeep
<1>2. Keeps(ApplyNow, {})  BY <1>1, ApplyKeeps, BothKeep DEF ApplyNow
<1> QED  BY <1>2, InfoKeeps, FreeKeeps, BothKeep DEF CreateTimer, TimerStatus, Approve

LEMMA HandlersKeep == ASSUME NEW g \in Guards, NEW p \in Handlers(g) PROVE Keeps(p, {})
<1>1. \A q \in PublicRoutes : Keeps(q, {})  BY NoneHeld, NothingKeeps DEF PublicRoutes
<1>2. \A q \in KeyRoutes \cup PairingRoutes : Keeps(q, {})
    BY InfoKeeps, SystemPrograms, ListPrograms, FreeKeeps DEF KeyRoutes, PairingRoutes
<1>3. \A q \in SystemRoutes : Keeps(q, {})
    BY SystemPrograms, UnitPrograms, ScanKeeps, FreeKeeps DEF SystemRoutes
<1>4. \A q \in UnitRoutes \cup TimerRoutes : Keeps(q, {})
    BY UnitPrograms, ListPrograms, FreeKeeps DEF UnitRoutes, TimerRoutes
<1>5. \A q \in ProgramRoutes \cup DeviceRoutes : Keeps(q, {})
    BY ListPrograms, FreeKeeps DEF ProgramRoutes, DeviceRoutes
<1>6. CASE g = "Open"      BY <1>1, <1>6 DEF Handlers
<1>7. CASE g = "ApiKey"    BY <1>2, <1>7 DEF Handlers
<1>8. CASE g = "AdminLan"  BY <1>2, <1>8 DEF Handlers
<1>9. CASE g = "Full"      BY <1>3, <1>4, <1>5, <1>9 DEF Handlers
<1> QED  BY <1>6, <1>7, <1>8, <1>9 DEF Guards

LEMMA HandleKeeps == ASSUME NEW g \in Guards PROVE Keeps(Handle(g), {})
<1>1. Keeps(Read("config") \o Judge, {})  BY FreeKeeps, PointKeeps, BothKeep
<1>2. Keeps(Holding("devices", "S", Lock("nonces")), {})
    <2> DEFINE H == {} \cup {[lock |-> "devices", mode |-> "S"]}
    <2>1. H \in SUBSET Grants  BY DEF Grants, HeldOver
    <2>2. Keeps(Lock("nonces"), H)  BY <2>1, BriefKeeps DEF HeldOver
    <2> QED  BY <2>2, NoneHeld, HoldingKeeps DEF HeldOver
<1>3. Keeps(Authorise(g), {})
    <2>1. CASE g = "Open"  BY <2>1, NoneHeld, NothingKeeps DEF Authorise
    <2>2. CASE g \in {"ApiKey", "AdminLan"}  BY <2>2, <1>1 DEF Authorise
    <2>3. CASE g = "Full"
        <3>1. Keeps(Read("config") \o Judge \o Holding("devices", "S", Lock("nonces")), {})
            BY <1>1, <1>2, BothKeep
        <3>2. Keeps(Read("config") \o Judge \o Holding("devices", "S", Lock("nonces")) \o Judge, {})
            BY <3>1, PointKeeps, BothKeep
        <3>3. Keeps(Read("config") \o Judge \o Holding("devices", "S", Lock("nonces")) \o Judge \o Write("devices"), {})
            BY <3>2, FreeKeeps, BothKeep
        <3> QED  BY <2>3, <3>3 DEF Authorise
    <2> QED  BY <2>1, <2>2, <2>3 DEF Guards
<1>4. Keeps(Receive \o Authorise(g), {})  BY <1>3, PointKeeps, BothKeep
<1>5. Keeps(Receive \o Authorise(g) \o Lock("activity"), {})  BY <1>4, FreeKeeps, BothKeep
<1> QED  BY <1>5, PointKeeps, BothKeep DEF Handle

LEMMA StreamKeeps == Keeps(Subscribe, {}) /\ Keeps(Streamed, {})
<1>1. Keeps(Known \o Lock("next_id"), {})  BY InfoKeeps, FreeKeeps, BothKeep
<1>2. Keeps(Subscribe, {})  BY <1>1, FreeKeeps, BothKeep DEF Subscribe
<1>3. Keeps(Subscribe \o Lock("wake_lock"), {})  BY <1>2, FreeKeeps, BothKeep
<1>4. Keeps(Subscribe \o Lock("wake_lock") \o Lock("last"), {})  BY <1>3, FreeKeeps, BothKeep
<1>5. Keeps(Subscribe \o Lock("wake_lock") \o Lock("last") \o Serve, {})  BY <1>4, PointKeeps, BothKeep
<1> QED  BY <1>2, <1>5, FreeKeeps, BothKeep DEF Streamed

LEMMA PollKeeps == Keeps(Poll, {}) /\ Keeps(NobodyListens, {})
<1>1. Keeps(Info \o ReadState, {})  BY InfoKeeps, ReadStateKeeps, BothKeep
<1>2. Keeps(Info \o ReadState \o Lock("last"), {})  BY <1>1, FreeKeeps, BothKeep
<1>3. Keeps(Info \o ReadState \o Lock("last") \o Read("config"), {})  BY <1>2, FreeKeeps, BothKeep
<1>4. Keeps(Info \o ReadState \o Lock("last") \o Read("config") \o Lock("last"), {})  BY <1>3, FreeKeeps, BothKeep
<1>5. Keeps(Info \o ReadState \o Lock("last") \o Read("config") \o Lock("last") \o Recorded, {})
    BY <1>4, FreeKeeps, BothKeep DEF Recorded
<1>6. Keeps(PollOne, {})  BY <1>5, FreeKeeps, BothKeep DEF PollOne
<1>7. Keeps(Lock("subs") \o Known, {})  BY InfoKeeps, FreeKeeps, BothKeep
<1>8. Keeps(Lock("subs") \o Known \o PollOne, {})  BY <1>6, <1>7, BothKeep
<1>9. Keeps(Poll, {})  BY <1>8, FreeKeeps, BothKeep DEF Poll
<1> DEFINE H == {} \cup {[lock |-> "wake_lock", mode |-> "X"]}
<1>10. H \in SUBSET Grants  BY DEF Grants, HeldOver
<1>11. Keeps(Lock("subs"), H)  BY <1>10, BriefKeeps DEF HeldOver
<1>12. Keeps(Holding("wake_lock", "X", Lock("subs")), {})  BY <1>11, NoneHeld, HoldingKeeps DEF HeldOver
<1>13. Keeps(Lock("subs") \o Holding("wake_lock", "X", Lock("subs")), {})  BY <1>12, FreeKeeps, BothKeep
<1> QED  BY <1>9, <1>13, FreeKeeps, BothKeep DEF NobodyListens

LEMMA PassesKeep == ASSUME NEW b \in Background, NEW p \in Passes(b) PROVE Keeps(p, {})
<1>1. Keeps(RunTimers, {})
    <2>1. Keeps(Read("timers") \o Known, {})  BY InfoKeeps, FreeKeeps, BothKeep
    <2>2. Keeps(Read("timers") \o Known \o Apply, {})  BY <2>1, ApplyKeeps, BothKeep
    <2>3. Keeps(Read("timers") \o Known \o Apply \o Write("timers"), {})  BY <2>2, FreeKeeps, BothKeep
    <2> QED  BY <2>3, FreeKeeps, BothKeep DEF RunTimers
<1>2. Keeps(RunPrograms, {})
    <2>1. Keeps(Read("programs") \o Lock("scheduler"), {})  BY FreeKeeps, BothKeep
    <2>2. Keeps(Read("programs") \o Lock("scheduler") \o Known, {})  BY <2>1, InfoKeeps, BothKeep
    <2>3. Keeps(Read("programs") \o Lock("scheduler") \o Known \o Apply, {})  BY <2>2, ApplyKeeps, BothKeep
    <2>4. Keeps(Read("programs") \o Lock("scheduler") \o Known \o Apply \o Lock("scheduler"), {})
        BY <2>3, FreeKeeps, BothKeep
    <2> QED  BY <2>4, FreeKeeps, BothKeep DEF RunPrograms
<1>3. Keeps(WarmUp, {})  BY KeepWarmKeeps, FreeKeeps, BothKeep DEF WarmUp
<1>4. CASE b = "runner"     BY <1>1, <1>4 DEF Passes
<1>5. CASE b = "scheduler"  BY <1>2, <1>5 DEF Passes
<1>6. CASE b = "poller"     BY PollKeeps, <1>6 DEF Passes
<1>7. CASE b = "warm"       BY <1>3, <1>7 DEF Passes
<1> QED  BY <1>4, <1>5, <1>6, <1>7, ServerAssumption DEF ServerAssumption
-----------------------------------------------------------------------------
(* What is left of a thread's program fits what it holds, and leaves it    *)
(* with nothing; and only writers stand in line.                           *)

ThreadTypes ==
    /\ todo \in [Threads -> Seq(Steps)] /\ holds \in [Threads -> SUBSET Grants]
    /\ queue \in 0..MaxQueue /\ requests \in 0..MaxRequests /\ passes \in 0..MaxPasses
UnderWay == \A t \in Threads : Leads(todo[t], holds[t], {})
InLine(t) ==
    /\ todo[t] # <<>> /\ Head(todo[t]).op \in {"pass", "take"}
    /\ Head(todo[t]).lock \in RwLocks /\ Head(todo[t]).mode = "X"
WritersInLine == queued \subseteq Threads /\ \A t \in queued : InLine(t)
ThreadInvariant == ThreadTypes /\ UnderWay /\ WritersInLine

LEMMA ThreadsBegin == ServerInit => ThreadInvariant
<1> SUFFICES ASSUME ServerInit PROVE ThreadInvariant  OBVIOUS
<1>1. \A t \in Threads : todo[t] = <<>> /\ holds[t] = {}  BY DEF ServerInit
<1>2. ThreadTypes
    <2>1. <<>> \in Seq(Steps)  OBVIOUS
    <2> QED  BY <2>1, NoneHeld, ServerAssumption DEF ServerInit, ThreadTypes, ServerAssumption
<1>3. UnderWay  BY <1>1, NoneHeld, NothingRuns DEF UnderWay
<1> QED  BY <1>2, <1>3 DEF ThreadInvariant, WritersInLine, ServerInit

LEMMA RunsTyped ==
    ASSUME NEW p, NEW H, NEW K, Leads(p, H, K)  PROVE p \in Seq(Steps) /\ H \in SUBSET Grants
<1>1. PICK at : Follows(p, at) /\ at[1] = H  BY DEF Leads
<1>2. p \in Seq(Steps) /\ 1 \in 1..(Len(p) + 1)  BY DEF Leads
<1> QED  BY <1>1, <1>2 DEF Follows

\* One thread goes on, with what is left and what it holds then.
LEMMA ThreadGoes ==
    ASSUME ThreadInvariant, NEW t \in Threads, NEW rest, NEW H, Leads(rest, H, {}),
           todo' = [todo EXCEPT ![t] = rest], holds' = [holds EXCEPT ![t] = H],
           queued' = queued \ {t}, UNCHANGED requests,
           queue' \in 0..MaxQueue, passes' \in 0..MaxPasses
    PROVE  ThreadInvariant'
<1>1. rest \in Seq(Steps) /\ H \in SUBSET Grants  BY RunsTyped
<1>2. ThreadTypes'  BY <1>1 DEF ThreadInvariant, ThreadTypes
<1>3. UnderWay'
    <2> SUFFICES ASSUME NEW u \in Threads  PROVE Leads(todo'[u], holds'[u], {})  BY DEF UnderWay
    <2>1. CASE u = t  BY <2>1 DEF ThreadInvariant, ThreadTypes
    <2>2. CASE u # t  BY <2>2 DEF ThreadInvariant, ThreadTypes, UnderWay
    <2> QED  BY <2>1, <2>2
<1>4. WritersInLine'
    <2> SUFFICES ASSUME NEW u \in queued'  PROVE u \in Threads /\ InLine(u)'  BY DEF WritersInLine
    <2>1. u \in queued /\ u # t /\ u \in Threads  BY DEF ThreadInvariant, WritersInLine
    <2>2. todo'[u] = todo[u]  BY <2>1 DEF ThreadInvariant, ThreadTypes
    <2> QED  BY <2>1, <2>2 DEF ThreadInvariant, WritersInLine, InLine
<1> QED  BY <1>2, <1>3, <1>4 DEF ThreadInvariant

\* A step of a thread that keeps what it holds, or changes it by one grant.
LEMMA NextStep ==
    ASSUME ThreadInvariant, NEW t \in Threads, todo[t] # <<>>
    PROVE  /\ Head(todo[t]) \in Steps /\ Fits(Head(todo[t]), holds[t]) /\ holds[t] \in SUBSET Grants
           /\ Leads(Tail(todo[t]), HeldAfter(Head(todo[t]), holds[t]), {})
           /\ Head(todo[t]).op \notin {"pass", "take"} => t \notin queued
<1>1. Leads(todo[t], holds[t], {})  BY DEF ThreadInvariant, UnderWay
<1>2. Head(todo[t]).op \notin {"pass", "take"} => t \notin queued
    BY DEF ThreadInvariant, WritersInLine, InLine
<1> QED  BY <1>1, <1>2, FirstStep

\* A thread that has nothing to do holds nothing and stands in no line.
LEMMA AtRestHoldsNothing ==
    ASSUME ThreadInvariant, NEW t \in Threads, todo[t] = <<>>  PROVE holds[t] = {} /\ t \notin queued
<1>1. Leads(<<>>, holds[t], {})  BY DEF ThreadInvariant, UnderWay
<1> QED  BY <1>1, NothingLeft DEF ThreadInvariant, WritersInLine, InLine

LEMMA BeginningsKeep ==
    ASSUME ThreadInvariant,
           (\E w \in Workers : TakeRequest(w)) \/ (\E b \in Background : BeginPass(b))
    PROVE  ThreadInvariant'
<1>1. ASSUME NEW t \in Threads, NEW p, todo[t] = <<>>, Keeps(p, {}),
             todo' = [todo EXCEPT ![t] = p], UNCHANGED <<holds, queued, requests>>,
             queue' \in 0..MaxQueue, passes' \in 0..MaxPasses
      PROVE  ThreadInvariant'
    <2>1. holds[t] = {} /\ t \notin queued  BY <1>1, AtRestHoldsNothing
    <2>2. holds' = [holds EXCEPT ![t] = {}] /\ queued' = queued \ {t}
        BY <1>1, <2>1 DEF ThreadInvariant, ThreadTypes
    <2>3. Leads(p, {}, {})  BY <1>1 DEF Keeps
    <2> QED  BY <1>1, <2>2, <2>3, ThreadGoes
<1>2. ASSUME NEW w \in Workers, TakeRequest(w)  PROVE ThreadInvariant'
    <2>1. PICK g \in Guards : todo' = [todo EXCEPT ![w] = Handle(g)]  BY <1>2 DEF TakeRequest
    <2>2. queue' \in 0..MaxQueue /\ passes' \in 0..MaxPasses
        BY <1>2, ServerAssumption DEF TakeRequest, ThreadInvariant, ThreadTypes, ServerAssumption
    <2> QED  BY <1>1, <1>2, <2>1, <2>2, HandleKeeps DEF TakeRequest, Threads
<1>3. ASSUME NEW b \in Background, BeginPass(b)  PROVE ThreadInvariant'
    <2>1. PICK p \in Passes(b) : todo' = [todo EXCEPT ![b] = p]  BY <1>3 DEF BeginPass
    <2>2. queue' \in 0..MaxQueue /\ passes' \in 0..MaxPasses
        BY <1>3, ServerAssumption DEF BeginPass, ThreadInvariant, ThreadTypes, ServerAssumption
    <2> QED  BY <1>1, <1>3, <2>1, <2>2, PassesKeep DEF BeginPass, Threads
<1> QED  BY <1>2, <1>3

LEMMA LockStepsKeep ==
    ASSUME ThreadInvariant, NEW t \in Threads, Pass(t) \/ Take(t) \/ Queue(t) \/ Give(t)
    PROVE  ThreadInvariant'
<1>1. holds = [holds EXCEPT ![t] = holds[t]] /\ todo = [todo EXCEPT ![t] = todo[t]]
    BY DEF ThreadInvariant, ThreadTypes
<1>2. queue \in 0..MaxQueue /\ passes \in 0..MaxPasses  BY DEF ThreadInvariant, ThreadTypes
<1>3. CASE Pass(t)
    <2>1. todo[t] # <<>> /\ Head(todo[t]).op = "pass"  BY <1>3 DEF Pass, NextIs
    <2>2. Leads(Tail(todo[t]), holds[t], {})  BY <2>1, NextStep DEF HeldAfter
    <2> QED  BY <1>1, <1>2, <1>3, <2>2, ThreadGoes DEF Pass, Goes
<1>4. CASE Take(t)
    <2>1. todo[t] # <<>> /\ Head(todo[t]).op = "take"  BY <1>4 DEF Take, NextIs
    <2>2. Leads(Tail(todo[t]), holds[t] \cup {Held(t)}, {})  BY <2>1, NextStep DEF HeldAfter, Held, Grant
    <2>3. holds' = [holds EXCEPT ![t] = holds[t] \cup {Held(t)}]  BY <1>4 DEF Take
    <2> QED  BY <1>2, <1>4, <2>2, <2>3, ThreadGoes DEF Take, Goes
<1>5. CASE Queue(t)
    <2>1. InLine(t)  BY <1>5 DEF Queue, WaitsFor, InLine
    <2>2. WritersInLine'  BY <1>5, <2>1 DEF Queue, ThreadInvariant, WritersInLine, InLine
    <2> QED  BY <1>5, <2>2 DEF Queue, ThreadInvariant, ThreadTypes, UnderWay
<1>6. CASE Give(t)
    <2>1. todo[t] # <<>> /\ Head(todo[t]).op = "give"  BY <1>6 DEF Give, NextIs
    <2>2. Leads(Tail(todo[t]), holds[t] \ {Held(t)}, {})  BY <2>1, NextStep DEF HeldAfter, Held, Grant
    <2>3. holds' = [holds EXCEPT ![t] = holds[t] \ {Held(t)}]  BY <1>6 DEF Give
    <2>4. queued' = queued \ {t}  BY <1>6, <2>1, NextStep DEF Give
    <2> QED  BY <1>2, <1>6, <2>2, <2>3, <2>4, ThreadGoes DEF Give, Goes
<1> QED  BY <1>3, <1>4, <1>5, <1>6

LEMMA TryKeeps == ASSUME ThreadInvariant, NEW t \in Threads, Try(t) PROVE ThreadInvariant'
<1> DEFINE p == todo[t]
<1>1. p # <<>> /\ Head(p).op = "try"  BY DEF Try, NextIs
<1>2. t \notin queued /\ queued' = queued \ {t}  BY <1>1, NextStep DEF Try
<1>3. queue' \in 0..MaxQueue /\ passes' \in 0..MaxPasses /\ UNCHANGED requests
    BY DEF Try, ThreadInvariant, ThreadTypes
<1>4. CASE Goes(t, Tail(p)) /\ holds' = [holds EXCEPT ![t] = @ \cup {Held(t)}]
    <2>1. Leads(Tail(p), holds[t] \cup {Held(t)}, {})  BY <1>1, NextStep DEF HeldAfter, Held, Grant
    <2>2. holds' = [holds EXCEPT ![t] = holds[t] \cup {Held(t)}]  BY <1>4
    <2> QED  BY <1>2, <1>3, <1>4, <2>1, <2>2, ThreadGoes DEF Goes
<1>5. CASE Goes(t, AfterGive(t)) /\ UNCHANGED holds
    <2>1. Leads(p, holds[t], {})  BY DEF ThreadInvariant, UnderWay
    <2>2. PICK j \in 1..Len(p) : FirstGive(p, 1, j) /\ Leads(SubSeq(p, j + 1, Len(p)), holds[t], {})
        BY <1>1, <2>1, FirstStep
    <2>3. p \in Seq(Steps) /\ Head(p) = p[1] /\ DOMAIN p = 1..Len(p) /\ Len(p) \in Nat
        BY <1>1 DEF ThreadInvariant, ThreadTypes
    <2> DEFINE gives == {i \in DOMAIN p : p[i].op = "give" /\ p[i].lock = Head(p).lock}
               first == CHOOSE i \in gives : \A k \in gives : i <= k
    <2>4. j \in gives  BY <2>2, <2>3 DEF FirstGive, Gives
    <2>5. ASSUME NEW k \in gives  PROVE j <= k
        <3>1. k \in 1..Len(p) /\ Gives(p[k], p[1].lock)  BY <2>3 DEF Gives
        <3>2. k # 1  BY <1>1, <2>3
        <3>3. k \notin (1 + 1)..(j - 1)  BY <3>1, <2>2 DEF FirstGive
        <3> QED  BY <3>1, <3>2, <3>3
    <2>6. ASSUME NEW i \in gives, \A k \in gives : i <= k  PROVE i = j
        <3>1. i <= j /\ j <= i /\ i \in Nat /\ j \in Nat  BY <2>4, <2>5, <2>6, <2>3
        <3> QED  BY <3>1
    <2>7. first = j  BY <2>4, <2>5, <2>6
    <2>8. AfterGive(t) = SubSeq(p, j + 1, Len(p))  BY <2>7 DEF AfterGive
    <2>9. holds' = [holds EXCEPT ![t] = holds[t]]  BY <1>5 DEF ThreadInvariant, ThreadTypes
    <2> QED  BY <1>2, <1>3, <1>5, <2>2, <2>8, <2>9, ThreadGoes DEF Goes
<1> QED  BY <1>4, <1>5 DEF Try

\* The steps in which a thread waits for nobody's lock.
LEMMA OtherStepsKeep ==
    ASSUME ThreadInvariant, NEW t \in Threads,
           Answer(t) \/ Decide(t) \/ Dispatch(t) \/ Transfer(t) \/ Stall(t) \/ ClientLeaves(t)
    PROVE  ThreadInvariant'
<1>1. todo[t] # <<>> /\ Head(todo[t]).op \in {"ask", "judge", "route"} \cup WithClient
    BY DEF Answer, Decide, Dispatch, Transfer, Stall, ClientLeaves, NextIs, WithClient
<1>2. /\ Leads(Tail(todo[t]), holds[t], {}) /\ Head(todo[t]) \in Steps /\ t \notin queued
      /\ Head(todo[t]).op \in {"judge", "route"} \cup WithClient => holds[t] = {}
    BY <1>1, NextStep DEF HeldAfter, Fits, WithClient
<1>3. /\ holds' = [holds EXCEPT ![t] = holds[t]] /\ queued' = queued \ {t}
      /\ queue' \in 0..MaxQueue /\ passes' \in 0..MaxPasses /\ UNCHANGED requests
    BY <1>2 DEF Answer, Decide, Dispatch, Transfer, Stall, ClientLeaves, ThreadInvariant, ThreadTypes
<1>4. CASE Goes(t, Tail(todo[t]))  BY <1>2, <1>3, <1>4, ThreadGoes DEF Goes
<1>5. CASE Decide(t) /\ Goes(t, Reply)
    <2>1. Leads(Reply, holds[t], {})  BY <1>2, <1>5, PointKeeps DEF Decide, NextIs, Keeps
    <2> QED  BY <1>3, <1>5, <2>1, ThreadGoes DEF Goes
<1>6. CASE Dispatch(t)
    <2>1. holds[t] = {} /\ Head(todo[t]).guard \in Guards  BY <1>2, <1>6, StepParts DEF Dispatch, NextIs
    <2>2. PICK h \in Handlers(Head(todo[t]).guard) : Goes(t, h \o Reply)  BY <1>6 DEF Dispatch
    <2>3. Keeps(h \o Reply, {})  BY <2>1, HandlersKeep, PointKeeps, BothKeep
    <2>4. Leads(h \o Reply, holds[t], {})  BY <2>1, <2>3 DEF Keeps
    <2> QED  BY <1>3, <2>2, <2>4, ThreadGoes DEF Goes
<1>7. CASE Stall(t)
    <2> DEFINE stalled == << [op |-> "stalled"] >>
    <2>1. holds[t] = {}  BY <1>2, <1>7 DEF Stall, NextIs, WithClient
    <2>2. Leads(stalled, {}, {})  BY PointKeeps DEF Keeps
    <2> HIDE DEF stalled
    <2>3. Leads(stalled \o Tail(todo[t]), holds[t], {})  BY <1>2, <2>1, <2>2, BothRun
    <2>4. Goes(t, stalled \o Tail(todo[t]))  BY <1>7 DEF Stall, stalled
    <2> QED  BY <1>3, <2>3, <2>4, ThreadGoes DEF Goes
<1> QED  BY <1>4, <1>5, <1>6, <1>7 DEF Answer, Decide, Transfer, ClientLeaves

\* The worker is done, and the stream's thread begins.
LEMMA HijackKeeps == ASSUME ThreadInvariant, NEW w \in Threads, Hijack(w) PROVE ThreadInvariant'
<1>1. PICK s \in Streamers, p \in {Subscribe, Streamed} :
          todo[s] = <<>> /\ todo' = [todo EXCEPT ![w] = <<>>, ![s] = p]
    BY DEF Hijack
<1>2. todo[w] # <<>> /\ Head(todo[w]).op = "route"  BY DEF Hijack, NextIs
<1>3. holds[w] = {} /\ w \notin queued  BY <1>2, NextStep DEF Fits
<1>4. s \in Threads /\ s # w  BY <1>1, <1>2 DEF Threads
<1>5. holds[s] = {} /\ s \notin queued  BY <1>1, <1>4, AtRestHoldsNothing
<1>6. Leads(p, {}, {}) /\ Leads(<<>>, {}, {}) /\ p \in Seq(Steps)
    BY NoneHeld, NothingRuns, StreamKeeps, RunsTyped DEF Keeps
<1>7. UNCHANGED <<holds, queued, queue, requests, passes>>  BY DEF Hijack
<1>8. todo \in [Threads -> Seq(Steps)]  BY DEF ThreadInvariant, ThreadTypes
<1>9. /\ todo'[w] = <<>> /\ todo'[s] = p
      /\ \A u \in Threads : u # w /\ u # s => todo'[u] = todo[u]
    BY <1>1, <1>4, <1>8
<1>10. ThreadTypes'
    <2>1. <<>> \in Seq(Steps)  OBVIOUS
    <2>2. todo' \in [Threads -> Seq(Steps)]  BY <2>1, <1>1, <1>6, <1>8
    <2> QED  BY <2>2, <1>7 DEF ThreadInvariant, ThreadTypes
<1>11. UnderWay'
    <2> SUFFICES ASSUME NEW u \in Threads  PROVE Leads(todo'[u], holds'[u], {})  BY DEF UnderWay
    <2>1. CASE u = w  BY <2>1, <1>3, <1>6, <1>7, <1>9
    <2>2. CASE u = s  BY <2>2, <1>5, <1>6, <1>7, <1>9
    <2>3. CASE u # w /\ u # s  BY <2>3, <1>7, <1>9 DEF ThreadInvariant, UnderWay
    <2> QED  BY <2>1, <2>2, <2>3
<1>12. WritersInLine'
    <2> SUFFICES ASSUME NEW u \in queued'  PROVE u \in Threads /\ InLine(u)'  BY DEF WritersInLine
    <2>1. u \in queued /\ u \in Threads /\ u # w /\ u # s  BY <1>3, <1>5, <1>7 DEF ThreadInvariant, WritersInLine
    <2>2. todo'[u] = todo[u]  BY <2>1, <1>9
    <2> QED  BY <2>1, <2>2 DEF ThreadInvariant, WritersInLine, InLine
<1> QED  BY <1>10, <1>11, <1>12 DEF ThreadInvariant

LEMMA ThreadSteps == ThreadInvariant /\ [ServerNext]_serverVars => ThreadInvariant'
<1> SUFFICES ASSUME ThreadInvariant, [ServerNext]_serverVars  PROVE ThreadInvariant'  OBVIOUS
<1>1. CASE UNCHANGED serverVars
    <2>1. UNCHANGED <<todo, holds, queued, queue, requests, passes>>  BY <1>1 DEF serverVars
    <2>2. ThreadTypes' /\ UnderWay'  BY <2>1 DEF ThreadInvariant, ThreadTypes, UnderWay
    <2>3. WritersInLine'  BY <2>1 DEF ThreadInvariant, WritersInLine, InLine
    <2> QED  BY <2>2, <2>3 DEF ThreadInvariant
<1>2. CASE Accept
    <2>1. ThreadTypes' /\ UnderWay'
        BY <1>2, ServerAssumption DEF Accept, ThreadInvariant, ThreadTypes, UnderWay, ServerAssumption
    <2>2. WritersInLine'  BY <1>2 DEF Accept, ThreadInvariant, WritersInLine, InLine
    <2> QED  BY <2>1, <2>2 DEF ThreadInvariant
<1>3. CASE (\E w \in Workers : TakeRequest(w)) \/ (\E b \in Background : BeginPass(b))
    BY <1>3, BeginningsKeep
<1>4. ASSUME NEW t \in Threads, Step(t) \/ Stall(t) \/ ClientLeaves(t)  PROVE ThreadInvariant'
    BY <1>4, LockStepsKeep, TryKeeps, OtherStepsKeep, HijackKeeps DEF Step
<1>5. CASE AllServed  BY <1>1, <1>5 DEF AllServed
<1> QED  BY <1>1, <1>2, <1>3, <1>4, <1>5 DEF ServerNext, Work

LEMMA ThreadInvariance == ServerSpec => []ThreadInvariant
BY ThreadsBegin, ThreadSteps, PTL DEF ServerSpec

\* Every variable of Server keeps its type; in particular the locks that are
\* ever kept are those of HeldOver, so nobody waits for any other.
THEOREM ServerTypeCorrect == ServerSpec => []ServerTypeOK
<1>1. ThreadInvariant => ServerTypeOK
    <2> SUFFICES ASSUME ThreadInvariant PROVE ServerTypeOK  OBVIOUS
    <2>1. ASSUME NEW t \in Threads, todo[t] # <<>>, Head(todo[t]).op \in {"pass", "take", "try"}
          PROVE  Head(todo[t]).lock \in Lockable
        <3>1. Head(todo[t]).lock \in HeldOver  BY <2>1, NextStep, StepParts
        <3> QED  BY <3>1 DEF HeldOver, Lockable, RwLocks, Mutexes
    <2> QED  BY <2>1 DEF ServerTypeOK, ThreadInvariant, ThreadTypes, WritersInLine, Grants
<1> QED  BY <1>1, ThreadInvariance, PTL

\* No threads wait for one another in a ring, whatever the routes they serve,
\* for any number of workers and streams: of those that wait, look at one that
\* waits for the last of the locks in the order.
THEOREM NoDeadlock == ServerSpec => []NoRing
<1>1. ThreadInvariant => NoRing
    <2> DEFINE stuck == {t \in Threads : WaitsFor(t) # {}}
               LockOf(t) == Head(todo[t]).lock
    <2> SUFFICES ASSUME ThreadInvariant, NEW T \in (SUBSET stuck) \ {{}}
                 PROVE  \E t \in T : WaitsFor(t) \cap T = {}
        BY DEF NoRing
    <2>1. ASSUME NEW t \in T
          PROVE  /\ t \in Threads /\ todo[t] # <<>> /\ Head(todo[t]).op \in {"pass", "take"}
                 /\ Rank(LockOf(t)) \in 0..3
                 /\ \A h \in holds[t] : Rank(h.lock) < Rank(LockOf(t))
        <3>1. t \in Threads /\ todo[t] # <<>> /\ Head(todo[t]).op \in {"pass", "take"}  BY DEF WaitsFor
        <3>2. Fits(Head(todo[t]), holds[t])  BY <3>1, NextStep
        <3> QED  BY <3>1, <3>2 DEF Fits, Below, Rank
    <2>2. PICK t \in T : \A u \in T : Rank(LockOf(u)) <= Rank(LockOf(t))
        <3>1. CASE \E t \in T : Rank(LockOf(t)) = 3  BY <3>1, <2>1
        <3>2. CASE (\A t \in T : Rank(LockOf(t)) # 3) /\ \E t \in T : Rank(LockOf(t)) = 2  BY <3>2, <2>1
        <3>3. CASE (\A t \in T : Rank(LockOf(t)) \notin {2, 3}) /\ \E t \in T : Rank(LockOf(t)) = 1  BY <3>3, <2>1
        <3>4. CASE \A t \in T : Rank(LockOf(t)) \notin {1, 2, 3}
            <4>1. \A u \in T : Rank(LockOf(u)) = 0  BY <3>4, <2>1
            <4>2. T # {}  OBVIOUS
            <4>3. PICK t \in T : TRUE  BY <4>2
            <4> QED  BY <4>1, <4>3
        <3> QED  BY <3>1, <3>2, <3>3, <3>4
    <2>3. ASSUME NEW u \in T, LockOf(u) = LockOf(t), NEW v \in T, NEW m, v \in HoldersOf(LockOf(u), m)
          PROVE  FALSE
        <3>1. PICK h \in holds[v] : h.lock = LockOf(t)  BY <2>3 DEF HoldersOf
        <3>2. Rank(LockOf(t)) < Rank(LockOf(v)) /\ Rank(LockOf(v)) <= Rank(LockOf(t))  BY <3>1, <2>1, <2>2
        <3> QED  BY <3>2, <2>1
    <2>4. CASE WaitsFor(t) \cap T = {}  BY <2>4
    <2>5. CASE WaitsFor(t) \cap T # {}
        <3>1. PICK u \in T : u \in WaitsFor(t)  BY <2>5
        <3>2. u \in WritersAt(LockOf(t))  BY <2>1, <2>3, <3>1 DEF WaitsFor
        <3>3. LockOf(u) = LockOf(t) /\ Head(todo[u]).mode = "X"
            BY <3>2 DEF WritersAt, ThreadInvariant, WritersInLine, InLine
        <3>4. WaitsFor(u) = HoldersOf(LockOf(u), "X")  BY <3>3, <2>1 DEF WaitsFor
        <3>5. WaitsFor(u) \cap T = {}  BY <2>3, <3>3, <3>4
        <3> QED  BY <3>5
    <2> QED  BY <2>4, <2>5
<1> QED  BY <1>1, ThreadInvariance, PTL

\* Who is with the unit, or waits for it, holds no lock that others need; who is with a
\* client, however long that one takes, holds none.
THEOREM UnitsKeepNobodyWaiting == ServerSpec => []UnitsWaitAlone
<1>1. ThreadInvariant => UnitsWaitAlone
    <2> SUFFICES ASSUME ThreadInvariant, NEW t \in Threads, todo[t] # <<>>
                 PROVE  /\ \/ Head(todo[t]).op = "ask"
                           \/ Head(todo[t]).op = "take" /\ Head(todo[t]).lock = "device"
                           => \A h \in holds[t] : h.lock \in {"device", "scanning"}
                        /\ Head(todo[t]).op \in WithClient => holds[t] = {}
        BY DEF UnitsWaitAlone, NextIs, WithClient
    <2>1. Fits(Head(todo[t]), holds[t])  BY NextStep
    <2> QED  BY <2>1 DEF Fits, Alone
<1> QED  BY <1>1, ThreadInvariance, PTL
=============================================================================
