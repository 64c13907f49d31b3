----------------------------- MODULE UnitManager -----------------------------
(***************************************************************************)
(* One configured air conditioner and the server threads that use it       *)
(* (crates/breeze-device/src/manager.rs, with the record each slot keeps   *)
(* of the unit from device.rs).                                            *)
(*                                                                         *)
(* A caller is a server thread inside one DeviceManager call.  A slot is   *)
(* the Arc<Slot> a call takes from the map: `upsert' puts a new slot in    *)
(* the map, and the calls that took the old one finish on it.  A slot's    *)
(* device mutex is held for a whole round trip; its queue mutex is held    *)
(* for one atomic step.  Instants are abstracted to their order:           *)
(*   - heard[c] is what `state_since(arrived)' and `failure_since(arrived)' *)
(*     would say to reader c;                                              *)
(*   - fresh[s]: the last report is at most CONTROL_BASE_MAX_AGE old;      *)
(*   - idle[s]: nothing was exchanged for keep-warm's max_idle, which is   *)
(*     longer.                                                             *)
(***************************************************************************)
EXTENDS Naturals, FiniteSets

CONSTANTS
    Callers,       \* server threads
    Nobody,        \* an unlocked mutex
    Fields,        \* the fields of a Change (power, mode, temperature, ...)
    Values,        \* what a field can be set to
    Absent,        \* a field a Change leaves as it is
    NoState,       \* the unit has not reported anything yet
    Changes,       \* the changes callers ask for
    Operations,    \* the calls they make
    MaxSlots,      \* bound: slots ever created for the unit
    MaxCalls,      \* bound: calls made in a behaviour
    MaxRemote,     \* bound: changes made with the IR remote
    LosesReplies,  \* can a command take effect and its reply be lost?
    PanicUnwinds   \* FALSE in the release profile (panic = "abort")

Slots    == 1 .. MaxSlots
Settings == [Fields -> Values]
Change   == [Fields -> Values \cup {Absent}]
NoChange == [f \in Fields |-> Absent]

ASSUME CallersAssumption == /\ IsFiniteSet(Callers)
                            /\ Nobody \notin Callers
ASSUME DataAssumption    == /\ Absent \notin Values
                            /\ NoState \notin Settings
                            /\ Changes \subseteq Change
                            /\ Operations \subseteq {"control", "read", "probe", "forget", "warm"}
ASSUME BoundAssumption   == /\ MaxSlots \in Nat \ {0}
                            /\ MaxCalls \in Nat
                            /\ MaxRemote \in Nat
                            /\ LosesReplies \in BOOLEAN
                            /\ PanicUnwinds \in BOOLEAN

VARIABLES
    unit,          \* the settings the air conditioner has
    remotes,       \* how often the IR remote was used (bound)
    calls,         \* how many calls were made (bound)
    current,       \* the slot in the map, 0 when the unit is not configured
    created,       \* slots created so far
    holder,        \* [Slots]: who holds the device mutex
    poisoned,      \* [Slots]: a panic happened under the device mutex
    pending,       \* [Slots]: ControlQueue.pending
    pendingCount,  \* [Slots]: ControlQueue.pending_count
    nextBatch,     \* [Slots]: ControlQueue.next_batch
    done,          \* [Slots]: ControlQueue.done, batch -> Finished
    report,        \* [Slots]: Device.last_state
    fresh,         \* [Slots]: it is young enough to build a command on
    idle,          \* [Slots]: long enough since the last exchange to warm it
    online,        \* [Slots]: Device.online
    connected,     \* [Slots]: Device.session is open
    failing,       \* [Slots]: Device.last_failure is set and recent
    known,         \* [Slots]: Device.capabilities are cached
    status,        \* [Slots]: the published copy
    pc,            \* [Callers]: where the thread is
    op,            \* [Callers]: the DeviceManager call it is in
    slot,          \* [Callers]: the slot that call took
    mine,          \* [Callers]: the change a control asks for
    batch,         \* [Callers]: the batch a control joined
    work,          \* [Callers]: the merged change it sends, and for how many
    base,          \* [Callers]: the state that command is built on
    seen,          \* [Callers]: what the unit answered, before it arrives
    heard,         \* [Callers]: reports and failures since a read arrived
    since,         \* [Callers]: history, what the unit held since a read arrived
    reply          \* [Callers]: what the call returns

unitVars   == <<unit, remotes>>
mapVars    == <<calls, current, created>>
lockVars   == <<holder, poisoned>>
queueVars  == <<pending, pendingCount, nextBatch, done>>
deviceVars == <<report, fresh, idle, online, connected, failing, known>>
callVars   == <<op, slot, mine, batch>>
vars == <<unitVars, mapVars, lockVars, queueVars, deviceVars, status, pc, callVars,
          work, base, seen, heard, since, reply>>

NoReply   == [kind |-> "none"]
NoWork    == [change |-> NoChange, merged |-> 0]
Ok(sent, merged)  == [kind |-> "ok", sent |-> sent, merged |-> merged, own |-> TRUE]
StateOf(state)    == [kind |-> "state", state |-> state]
Failed            == [kind |-> "failed"]
Lost              == [kind |-> "lost"]

\* Change::merge and Change::apply_to, field by field.
\*   Mutants: the earlier request wins; an unset field is put to a default.
MergeEarlierWins(earlier, later) ==
    [f \in Fields |-> IF earlier[f] = Absent THEN later[f] ELSE earlier[f]]
ApplyToDefaults(change, settings) ==
    [f \in Fields |-> IF change[f] = Absent THEN CHOOSE v \in Values : TRUE ELSE change[f]]
Merge(earlier, later) ==
    [f \in Fields |-> IF later[f] = Absent THEN earlier[f] ELSE later[f]]
ApplyTo(change, settings) ==
    [f \in Fields |-> IF change[f] = Absent THEN settings[f] ELSE change[f]]

\* The command a sender puts on the wire.
Sent(c) == ApplyTo(work[c].change, base[c])

\* ControlQueue.done, when one more request has its outcome of batch b, and when
\* batch b is finished with n requests left to collect it.
OneCollected(table, b) ==
    IF table[b].uncollected = 1
    THEN [x \in DOMAIN table \ {b} |-> table[x]]
    ELSE [table EXCEPT ![b] = [outcome     |-> table[b].outcome,
                               uncollected |-> table[b].uncollected - 1]]
WithOutcome(table, b, result, n) ==
    [x \in DOMAIN table \cup {b} |->
        IF x = b THEN [outcome |-> result, uncollected |-> n] ELSE table[x]]
-----------------------------------------------------------------------------
Init ==
    /\ unit \in Settings /\ remotes = 0
    /\ calls = 0 /\ current = 1 /\ created = 1
    /\ holder = [s \in Slots |-> Nobody]
    /\ poisoned = [s \in Slots |-> FALSE]
    /\ pending = [s \in Slots |-> NoChange]
    /\ pendingCount = [s \in Slots |-> 0]
    /\ nextBatch = [s \in Slots |-> 0]
    /\ done = [s \in Slots |-> [b \in {} |-> Failed]]
    /\ report = [s \in Slots |-> NoState]
    /\ fresh = [s \in Slots |-> FALSE]
    /\ idle = [s \in Slots |-> TRUE]
    /\ online = [s \in Slots |-> FALSE]
    /\ connected = [s \in Slots |-> FALSE]
    /\ failing = [s \in Slots |-> FALSE]
    /\ known = [s \in Slots |-> FALSE]
    /\ status = [s \in Slots |-> [online |-> FALSE, connected |-> FALSE, known |-> FALSE]]
    /\ pc = [c \in Callers |-> "idle"]
    /\ op = [c \in Callers |-> "none"]
    /\ slot = [c \in Callers |-> 1]
    /\ mine = [c \in Callers |-> NoChange]
    /\ batch = [c \in Callers |-> 0]
    /\ work = [c \in Callers |-> NoWork]
    /\ base = [c \in Callers |-> NoState]
    /\ seen = [c \in Callers |-> NoState]
    /\ heard = [c \in Callers |-> {}]
    /\ since = [c \in Callers |-> {}]
    /\ reply = [c \in Callers |-> NoReply]
-----------------------------------------------------------------------------
(* Entering a call: the slot is looked up and its Arc kept.                *)

Enter(c, kind, where) ==
    /\ pc[c] = "idle"
    /\ kind \in Operations
    /\ calls < MaxCalls
    /\ current # 0
    /\ calls' = calls + 1
    /\ pc' = [pc EXCEPT ![c] = where]
    /\ op' = [op EXCEPT ![c] = kind]
    /\ slot' = [slot EXCEPT ![c] = current]
    /\ reply' = [reply EXCEPT ![c] = NoReply]
    /\ UNCHANGED <<unitVars, current, created, lockVars, queueVars, deviceVars, status,
                   batch, work, base, seen>>

CallControl(c) ==
    /\ Enter(c, "control", "join")
    /\ \E change \in Changes : mine' = [mine EXCEPT ![c] = change]
    /\ UNCHANGED <<heard, since>>

\* The answer of an exchange under way: it will be heard after a read that arrives now.
OnItsWay(s) == {seen[d] : d \in {e \in Callers : slot[e] = s /\ seen[e] # NoState}}

\* `arrived' is read here, before the unit's lock is waited for.
\*   Mutant: a young enough report is taken for an answer, whenever it came.
CallReadCached(c) ==
    /\ Enter(c, "read", "lock")
    /\ heard' = [heard EXCEPT ![c] = IF fresh[current] THEN {"report"} ELSE {}]
    /\ since' = [since EXCEPT ![c] = {unit} \cup OnItsWay(current)]
    /\ UNCHANGED mine
CallRead(c) ==
    /\ Enter(c, "read", "lock")
    /\ heard' = [heard EXCEPT ![c] = {}]
    /\ since' = [since EXCEPT ![c] = {unit} \cup OnItsWay(current)]
    /\ UNCHANGED mine

\* with_unit(capabilities), and forget(): no report is shared, nothing merged.
CallOther(c) ==
    /\ \E kind \in {"probe", "forget"} : Enter(c, kind, "lock")
    /\ UNCHANGED <<mine, heard, since>>

\* keep_warm tries the lock and walks on when it cannot have it; a unit it
\* has nothing to do for is not touched either.
CallWarm(c) ==
    /\ Enter(c, "warm", "warm")
    /\ UNCHANGED <<mine, heard, since>>

\* A control joins the batch that goes out next.
\*   Mutant: the slot is looked up again, and may be another one by now.
JoinCurrent(c) ==
    /\ pc[c] = "join"
    /\ current # 0
    /\ pending' = [pending EXCEPT ![current] = Merge(@, mine[c])]
    /\ pendingCount' = [pendingCount EXCEPT ![current] = @ + 1]
    /\ batch' = [batch EXCEPT ![c] = nextBatch[current]]
    /\ pc' = [pc EXCEPT ![c] = "lock"]
    /\ UNCHANGED <<unitVars, mapVars, lockVars, nextBatch, done, deviceVars, status,
                   op, slot, mine, work, base, seen, heard, since, reply>>
Join(c) ==
    /\ pc[c] = "join"
    /\ LET s == slot[c] IN
        /\ pending' = [pending EXCEPT ![s] = Merge(@, mine[c])]
        /\ pendingCount' = [pendingCount EXCEPT ![s] = @ + 1]
        /\ batch' = [batch EXCEPT ![c] = nextBatch[s]]
    /\ pc' = [pc EXCEPT ![c] = "lock"]
    /\ UNCHANGED <<unitVars, mapVars, lockVars, nextBatch, done, deviceVars, status,
                   op, slot, mine, work, base, seen, heard, since, reply>>
-----------------------------------------------------------------------------
(* The device mutex.                                                       *)

Free(s) == holder[s] = Nobody

Release(c) == holder' = [holder EXCEPT ![slot[c]] = Nobody]

\* lock_device: a poisoned lock is taken all the same, and the session dropped.
Acquire(c) ==
    /\ pc[c] = "lock"
    /\ Free(slot[c])
    /\ LET s == slot[c] IN
        /\ holder' = [holder EXCEPT ![s] = c]
        /\ connected' = [connected EXCEPT ![s] = @ /\ ~poisoned[s]]
        /\ online' = [online EXCEPT ![s] = @ /\ ~poisoned[s]]
    /\ pc' = [pc EXCEPT ![c] = CASE op[c] = "control" -> "collect"
                                 [] op[c] = "read"    -> "share"
                                 [] op[c] = "probe"   -> IF known[slot[c]] THEN "finish" ELSE "ask"
                                 [] OTHER             -> "finish"]
    /\ UNCHANGED <<unitVars, mapVars, poisoned, queueVars, report, fresh, idle, failing, known,
                   status, callVars, work, base, seen, heard, since, reply>>

\* keep_warm's try_lock: busy and poisoned units are skipped, and so are units
\* used lately or failing.
TryWarm(c) ==
    /\ pc[c] = "warm"
    /\ LET s    == slot[c]
           free == Free(s) /\ ~poisoned[s]
       IN  IF free /\ ~failing[s] /\ idle[s]
           THEN /\ holder' = [holder EXCEPT ![s] = c]
                /\ pc' = [pc EXCEPT ![c] = "ask"]
           ELSE /\ pc' = [pc EXCEPT ![c] = "idle"]
                /\ UNCHANGED holder
    /\ UNCHANGED <<unitVars, mapVars, poisoned, queueVars, deviceVars, status,
                   callVars, work, base, seen, heard, since, reply>>
-----------------------------------------------------------------------------
(* A read, once it has the unit.                                           *)

\* A report, or else a failure, that came after the read did answers it.
ShareReport(c) ==
    /\ pc[c] = "share"
    /\ heard[c] # {}
    /\ reply' = [reply EXCEPT ![c] = IF "report" \in heard[c]
                                     THEN StateOf(report[slot[c]])
                                     ELSE Failed]
    /\ Release(c)
    /\ pc' = [pc EXCEPT ![c] = "answer"]
    /\ UNCHANGED <<unitVars, mapVars, poisoned, queueVars, deviceVars, status,
                   callVars, work, base, seen, heard, since>>

ReadAfresh(c) ==
    /\ pc[c] = "share"
    /\ heard[c] = {}
    /\ pc' = [pc EXCEPT ![c] = "ask"]
    /\ UNCHANGED <<unitVars, mapVars, lockVars, queueVars, deviceVars, status,
                   callVars, work, base, seen, heard, since, reply>>
-----------------------------------------------------------------------------
(* A control, once it has the unit.                                        *)

\* Slot::collect: the batch was sent while this request waited.
Collect(c) ==
    /\ pc[c] = "collect"
    /\ batch[c] \in DOMAIN done[slot[c]]
    /\ LET s == slot[c]
           outcome == done[s][batch[c]].outcome
       IN  /\ reply' = [reply EXCEPT ![c] =
                            IF outcome.kind = "ok" THEN [outcome EXCEPT !.own = FALSE]
                                                   ELSE outcome]
           /\ done' = [done EXCEPT ![s] = OneCollected(@, batch[c])]
    /\ Release(c)
    /\ pc' = [pc EXCEPT ![c] = "answer"]
    /\ UNCHANGED <<unitVars, mapVars, poisoned, pending, pendingCount, nextBatch,
                   deviceVars, status, callVars, work, base, seen, heard, since>>

\*   Mutant: somebody else will send it, so wait again.
NotCollectedWaits(c) ==
    /\ pc[c] = "collect"
    /\ batch[c] \notin DOMAIN done[slot[c]]
    /\ Release(c)
    /\ pc' = [pc EXCEPT ![c] = "lock"]
    /\ UNCHANGED <<unitVars, mapVars, poisoned, queueVars, deviceVars, status,
                   callVars, work, base, seen, heard, since, reply>>
NotCollected(c) ==
    /\ pc[c] = "collect"
    /\ batch[c] \notin DOMAIN done[slot[c]]
    /\ pc' = [pc EXCEPT ![c] = "take"]
    /\ UNCHANGED <<unitVars, mapVars, lockVars, queueVars, deviceVars, status,
                   callVars, work, base, seen, heard, since, reply>>

\* The first of its batch takes everything merged so far.
Take(c) ==
    /\ pc[c] = "take"
    /\ nextBatch[slot[c]] = batch[c]
    /\ LET s == slot[c] IN
        /\ work' = [work EXCEPT ![c] = [change |-> pending[s], merged |-> pendingCount[s]]]
        /\ nextBatch' = [nextBatch EXCEPT ![s] = @ + 1]
        /\ pendingCount' = [pendingCount EXCEPT ![s] = 0]
        /\ pending' = [pending EXCEPT ![s] = NoChange]
    /\ pc' = [pc EXCEPT ![c] = "base"]
    /\ UNCHANGED <<unitVars, mapVars, lockVars, done, deviceVars, status,
                   callVars, base, seen, heard, since, reply>>

\* "the command was lost before it was sent"
TakeLost(c) ==
    /\ pc[c] = "take"
    /\ nextBatch[slot[c]] # batch[c]
    /\ reply' = [reply EXCEPT ![c] = Lost]
    /\ Release(c)
    /\ pc' = [pc EXCEPT ![c] = "answer"]
    /\ UNCHANGED <<unitVars, mapVars, poisoned, queueVars, deviceVars, status,
                   callVars, work, base, seen, heard, since>>

\* send_change: a report young enough is the base, otherwise the unit is read.
ChooseBase(c) ==
    /\ pc[c] = "base"
    /\ IF fresh[slot[c]]
       THEN /\ base' = [base EXCEPT ![c] = report[slot[c]]]
            /\ pc' = [pc EXCEPT ![c] = "apply"]
       ELSE /\ pc' = [pc EXCEPT ![c] = "ask"]
            /\ UNCHANGED base
    /\ UNCHANGED <<unitVars, mapVars, lockVars, queueVars, deviceVars, status,
                   callVars, work, seen, heard, since, reply>>
-----------------------------------------------------------------------------
(* The exchange with the unit (Device::exchange).  "ask" is a query, "apply"*)
(* a command; a resend or a reconnect repeats it.                          *)

Witness == [c \in Callers |-> IF since[c] = {} THEN {} ELSE since[c] \cup {unit'}]

UnitAnswers(c) ==
    /\ pc[c] = "ask"
    /\ seen' = [seen EXCEPT ![c] = unit]
    /\ UNCHANGED <<unitVars, mapVars, lockVars, queueVars, deviceVars, status, pc,
                   callVars, work, base, heard, since, reply>>

UnitApplies(c) ==
    /\ pc[c] = "apply"
    /\ unit' = Sent(c)
    /\ seen' = [seen EXCEPT ![c] = Sent(c)]
    /\ since' = Witness
    /\ UNCHANGED <<remotes, mapVars, lockVars, queueVars, deviceVars, status, pc,
                   callVars, work, base, heard, reply>>

\* Who is in read_state on slot s, and hears what happens there.
Readers(s) == {c \in Callers : op[c] = "read" /\ pc[c] = "lock" /\ slot[c] = s}

\* How young the last report is: only another report renews it.
Renewed(was, isReport) == was \/ isReport

\* Any answer marks the unit online; a state report is remembered as well.
Answered(c, isReport) ==
    LET s == slot[c] IN
    /\ online' = [online EXCEPT ![s] = TRUE]
    /\ connected' = [connected EXCEPT ![s] = TRUE]
    /\ failing' = [failing EXCEPT ![s] = FALSE]
    /\ report' = IF isReport THEN [report EXCEPT ![s] = seen[c]] ELSE report
    /\ fresh' = [fresh EXCEPT ![s] = Renewed(@, isReport)]
    /\ idle' = [idle EXCEPT ![s] = FALSE]
    /\ heard' = [d \in Callers |->
                    IF d \notin Readers(s) THEN heard[d]
                    ELSE (heard[d] \ {"failure"}) \cup (IF isReport THEN {"report"} ELSE {})]

ReplyArrives(c) ==
    /\ pc[c] \in {"ask", "apply"}
    /\ seen[c] # NoState
    /\ Answered(c, op[c] \notin {"probe", "more"})
    /\ seen' = [seen EXCEPT ![c] = NoState]
    /\ \/ /\ op[c] = "control" /\ pc[c] = "ask"
          /\ base' = [base EXCEPT ![c] = seen[c]]
          /\ pc' = [pc EXCEPT ![c] = "apply"]
          /\ UNCHANGED <<known, op, reply>>
       \/ /\ op[c] = "control" /\ pc[c] = "apply"
          /\ reply' = [reply EXCEPT ![c] = Ok(Sent(c), work[c].merged)]
          /\ pc' = [pc EXCEPT ![c] = "finish"]
          /\ UNCHANGED <<known, op, base>>
       \/ /\ op[c] \in {"read", "warm"}
          /\ reply' = [reply EXCEPT ![c] = StateOf(seen[c])]
          /\ pc' = [pc EXCEPT ![c] = "finish"]
          /\ UNCHANGED <<known, op, base>>
       \* "more to come": a second query for the rest of the capabilities
       \/ /\ op[c] = "probe"
          /\ op' = [op EXCEPT ![c] = "more"]
          /\ UNCHANGED <<known, pc, base, reply>>
       \/ /\ op[c] \in {"probe", "more"}
          /\ known' = [known EXCEPT ![slot[c]] = TRUE]
          /\ pc' = [pc EXCEPT ![c] = "finish"]
          /\ UNCHANGED <<op, base, reply>>
    /\ UNCHANGED <<unitVars, mapVars, lockVars, queueVars, status, slot, mine, batch, work, since>>

\* Every attempt failed: the session is retired and the failure remembered.
ExchangeFails(c) ==
    /\ pc[c] \in {"ask", "apply"}
    /\ LosesReplies \/ pc[c] = "ask" \/ seen[c] = NoState
    /\ LET s == slot[c] IN
        /\ online' = [online EXCEPT ![s] = FALSE]
        /\ connected' = [connected EXCEPT ![s] = FALSE]
        /\ failing' = [failing EXCEPT ![s] = TRUE]
        /\ heard' = [d \in Callers |-> IF d \in Readers(s) THEN heard[d] \cup {"failure"}
                                                           ELSE heard[d]]
        \* half a capability list beats none: it is kept all the same
        /\ known' = [known EXCEPT ![s] = @ \/ op[c] = "more"]
    /\ reply' = [reply EXCEPT ![c] = IF op[c] = "more" THEN NoReply ELSE Failed]
    /\ seen' = [seen EXCEPT ![c] = NoState]
    /\ pc' = [pc EXCEPT ![c] = "finish"]
    /\ UNCHANGED <<unitVars, mapVars, lockVars, queueVars, report, fresh, idle, status,
                   callVars, work, base, since>>
-----------------------------------------------------------------------------
(* Leaving: publish, record the outcome for the rest of the batch, unlock. *)

Forgotten(c) == op[c] = "forget"

\*   Mutant: a unit that went offline is not published.
PublishOnline(s) ==
    IF online'[s]
    THEN status' = [status EXCEPT ![s] = [online |-> online'[s], connected |-> connected'[s],
                                          known |-> known[s]]]
    ELSE UNCHANGED status
Publish(s) ==
    status' = [status EXCEPT ![s] = [online |-> online'[s], connected |-> connected'[s],
                                     known |-> known[s]]]

Finish(c) ==
    /\ pc[c] = "finish"
    /\ LET s == slot[c] IN
        /\ connected' = [connected EXCEPT ![s] = @ /\ ~Forgotten(c)]
        /\ online' = [online EXCEPT ![s] = @ /\ ~Forgotten(c)]
        /\ Publish(s)
        /\ done' = IF op[c] = "control" /\ work[c].merged > 1
                   THEN [done EXCEPT ![s] =
                            WithOutcome(@, batch[c], reply[c], work[c].merged - 1)]
                   ELSE done
    /\ Release(c)
    /\ pc' = [pc EXCEPT ![c] = "answer"]
    /\ UNCHANGED <<unitVars, mapVars, poisoned, pending, pendingCount, nextBatch,
                   report, fresh, idle, failing, known, callVars, work, base, seen, heard,
                   since, reply>>

Return(c) ==
    /\ pc[c] = "answer"
    /\ pc' = [pc EXCEPT ![c] = "idle"]
    /\ op' = [op EXCEPT ![c] = "none"]
    /\ mine' = [mine EXCEPT ![c] = NoChange]
    /\ work' = [work EXCEPT ![c] = NoWork]
    /\ base' = [base EXCEPT ![c] = NoState]
    /\ heard' = [heard EXCEPT ![c] = {}]
    /\ since' = [since EXCEPT ![c] = {}]
    /\ reply' = [reply EXCEPT ![c] = NoReply]
    /\ UNCHANGED <<unitVars, mapVars, lockVars, queueVars, deviceVars, status,
                   slot, batch, seen>>

\* A panic under the device mutex, in a build that unwinds: the guard is
\* dropped, the mutex poisoned, and nothing published or recorded.
Panic(c) ==
    /\ PanicUnwinds
    /\ pc[c] \in {"base", "ask", "apply"}
    /\ poisoned' = [poisoned EXCEPT ![slot[c]] = TRUE]
    /\ Release(c)
    /\ seen' = [seen EXCEPT ![c] = NoState]
    /\ reply' = [reply EXCEPT ![c] = Failed]
    /\ pc' = [pc EXCEPT ![c] = "answer"]
    /\ UNCHANGED <<unitVars, mapVars, queueVars, deviceVars, status,
                   callVars, work, base, heard, since>>
-----------------------------------------------------------------------------
(* The rest of the world.                                                  *)

Upsert ==
    /\ created < MaxSlots
    /\ created' = created + 1
    /\ current' = created + 1
    /\ UNCHANGED <<unitVars, calls, lockVars, queueVars, deviceVars, status, pc, callVars,
                   work, base, seen, heard, since, reply>>

Remove ==
    /\ current # 0
    /\ current' = 0
    /\ UNCHANGED <<unitVars, calls, created, lockVars, queueVars, deviceVars, status, pc,
                   callVars, work, base, seen, heard, since, reply>>

Remote ==
    /\ remotes < MaxRemote
    /\ remotes' = remotes + 1
    /\ \E settings \in Settings \ {unit} : unit' = settings
    /\ since' = Witness
    /\ UNCHANGED <<mapVars, lockVars, queueVars, deviceVars, status, pc, callVars,
                   work, base, seen, heard, reply>>

\* The last report ages past CONTROL_BASE_MAX_AGE, then the silence past max_idle.
Age(s) ==
    /\ ~idle[s]
    /\ fresh' = [fresh EXCEPT ![s] = FALSE]
    /\ idle' = [idle EXCEPT ![s] = ~fresh[s]]
    /\ UNCHANGED <<unitVars, mapVars, lockVars, queueVars, report, online, connected, failing,
                   known, status, pc, callVars, work, base, seen, heard, since, reply>>

\* WARM_BACKOFF passes.
Backoff(s) ==
    /\ failing[s]
    /\ failing' = [failing EXCEPT ![s] = FALSE]
    /\ UNCHANGED <<unitVars, mapVars, lockVars, queueVars, report, fresh, idle, online, connected,
                   known, status, pc, callVars, work, base, seen, heard, since, reply>>

\* What one caller does next once it is in a call.
Step(c) ==
    \/ Join(c) \/ Acquire(c) \/ TryWarm(c)
    \/ ShareReport(c) \/ ReadAfresh(c)
    \/ Collect(c) \/ NotCollected(c) \/ Take(c) \/ TakeLost(c) \/ ChooseBase(c)
    \/ ReplyArrives(c) \/ ExchangeFails(c)
    \/ Finish(c) \/ Return(c)

\* Nothing left to do within the bounds.
Rest ==
    /\ \A c \in Callers : pc[c] = "idle"
    /\ calls = MaxCalls \/ (current = 0 /\ created = MaxSlots)
    /\ UNCHANGED vars

Next ==
    \/ \E c \in Callers :
        \/ CallControl(c) \/ CallRead(c) \/ CallOther(c) \/ CallWarm(c)
        \/ Step(c)
        \/ UnitAnswers(c) \/ UnitApplies(c) \/ Panic(c)
    \/ Upsert \/ Remove \/ Remote
    \/ \E s \in Slots : Age(s) \/ Backoff(s)
    \/ Rest

Spec == Init /\ [][Next]_vars

\* A thread in a call keeps running, and an exchange ends: every wait in it
\* (connect, write, reply, linger) has a timeout and the attempts are counted.
\* The mutex makes no promise of fairness, so none is asked of Acquire beyond
\* its being enabled for good once nobody else comes.
FairSpec == Spec /\ \A c \in Callers : WF_vars(Step(c))
-----------------------------------------------------------------------------
(* Properties.                                                             *)

\* Callers of the lock, by where they are.
InLock == {"collect", "take", "share", "base", "ask", "apply", "finish"}
Places == {"idle", "join", "lock", "warm", "answer"} \cup InLock

Status  == [online : BOOLEAN, connected : BOOLEAN, known : BOOLEAN]
Replies == {NoReply, Failed, Lost}
           \cup [kind : {"ok"}, sent : Settings, merged : Nat, own : BOOLEAN]
           \cup [kind : {"state"}, state : Settings]
Work    == [change : Change, merged : Nat]
Finished == [outcome : Replies, uncollected : Nat \ {0}]

\* Every variable holds a value of its kind.
TypeOK ==
    /\ unit \in Settings /\ remotes \in Nat
    /\ calls \in Nat /\ current \in {0} \cup Slots /\ created \in Slots
    /\ holder \in [Slots -> Callers \cup {Nobody}]
    /\ poisoned \in [Slots -> BOOLEAN]
    /\ pending \in [Slots -> Change]
    /\ pendingCount \in [Slots -> Nat]
    /\ nextBatch \in [Slots -> Nat]
    /\ \A s \in Slots : DOMAIN done[s] \subseteq Nat /\ done[s] \in [DOMAIN done[s] -> Finished]
    /\ DOMAIN done = Slots
    /\ report \in [Slots -> Settings \cup {NoState}]
    /\ fresh \in [Slots -> BOOLEAN] /\ idle \in [Slots -> BOOLEAN]
    /\ online \in [Slots -> BOOLEAN] /\ connected \in [Slots -> BOOLEAN]
    /\ failing \in [Slots -> BOOLEAN] /\ known \in [Slots -> BOOLEAN]
    /\ status \in [Slots -> Status]
    /\ pc \in [Callers -> Places]
    /\ op \in [Callers -> {"none", "control", "read", "probe", "more", "forget", "warm"}]
    /\ slot \in [Callers -> Slots]
    /\ mine \in [Callers -> Change]
    /\ batch \in [Callers -> Nat]
    /\ work \in [Callers -> Work]
    /\ base \in [Callers -> Settings \cup {NoState}]
    /\ seen \in [Callers -> Settings \cup {NoState}]
    /\ heard \in [Callers -> SUBSET {"report", "failure"}]
    /\ since \in [Callers -> SUBSET Settings]
    /\ reply \in [Callers -> Replies]

\* A control that joined a batch and has no answer yet; one that sends its batch.
Joined(c)  == op[c] = "control" /\ pc[c] \in {"lock", "collect", "take"}
Sending(c) == op[c] = "control" /\ pc[c] \in {"base", "ask", "apply", "finish"}

\* The requests of batch b on slot s that have no answer yet.
Waiting(s, b) == {c \in Callers : Joined(c) /\ slot[c] = s /\ batch[c] = b}

\* ControlQueue: pending_count is the number of requests that will go out with
\* the next command, and an outcome is kept exactly as long as somebody has yet
\* to collect it (so `done' cannot grow, and nobody finds it gone).
BatchesAccounted ==
    \A s \in Slots :
        /\ pendingCount[s] = Cardinality(Waiting(s, nextBatch[s]))
        /\ \A b \in DOMAIN done[s] :
            done[s][b].uncollected = Cardinality(Waiting(s, b)) /\ Waiting(s, b) # {}

\* manager.rs 384-390: a request finds its batch gone only after a panic.
NeverLost ==
    \A c \in Callers : reply[c] = Lost => poisoned[slot[c]]

\* The device mutex is held by exactly the thread that is past lock_device.
LockHeld ==
    /\ \A c \in Callers : pc[c] \in InLock => holder[slot[c]] = c
    /\ \A s \in Slots : holder[s] # Nobody => slot[holder[s]] = s /\ pc[holder[s]] \in InLock

\* Where a request's batch is: the next to go; on its way, carried by the thread
\* that holds the device mutex; in `done'; or gone in a panic.
BatchWhereabouts ==
    /\ \A s \in Slots : \A b \in DOMAIN done[s] : b < nextBatch[s] /\ done[s][b].outcome # Lost
    /\ \A c \in Callers : Joined(c) =>
        \/ batch[c] = nextBatch[slot[c]]
        \/ /\ batch[c] < nextBatch[slot[c]]
           /\ \/ batch[c] \in DOMAIN done[slot[c]]
              \/ \E d \in Callers : Sending(d) /\ slot[d] = slot[c] /\ batch[d] = batch[c]
              \/ poisoned[slot[c]]
    /\ \A c \in Callers : Sending(c) =>
        /\ batch[c] < nextBatch[slot[c]]
        /\ batch[c] \notin DOMAIN done[slot[c]]
        /\ work[c].merged = 1 + Cardinality(Waiting(slot[c], batch[c]))
    /\ \A c \in Callers : pc[c] = "take" => batch[c] \notin DOMAIN done[slot[c]]

\* Only a control joins, collects, takes and applies; only a read shares, only
\* keep-warm warms; only the end of a call finds its batch lost.
ControlPath ==
    \A c \in Callers :
        /\ pc[c] \in {"join", "collect", "take", "base", "apply"} => op[c] = "control"
        /\ pc[c] = "share" => op[c] = "read"
        /\ pc[c] = "warm" => op[c] = "warm"
        /\ reply[c] = Lost => pc[c] = "answer"

\* The inductive invariant behind BatchesAccounted and NeverLost.
BatchInvariant ==
    LockHeld /\ ControlPath /\ BatchWhereabouts /\ BatchesAccounted /\ NeverLost

\* publish: once nobody uses the unit, the status clients read without its lock
\* is what the device record says, a panic aside.
StatusCurrent ==
    \A s \in Slots :
        holder[s] = Nobody /\ ~poisoned[s] =>
            status[s] = [online |-> online[s], connected |-> connected[s], known |-> known[s]]

\* read_state ("as current as a fresh read"): the state a read returns was the unit's
\* after the read arrived, or is what the unit had just answered when it did.  The
\* remote, a lost reply or another slot may have changed the unit meanwhile.
ReadsAreCurrent ==
    \A c \in Callers : reply[c].kind = "state" /\ op[c] = "read" => reply[c].state \in since[c]

\* send_change, read_state: a command is built on, and a shared read returns, a
\* state the unit did report.
Grounded ==
    /\ \A s \in Slots : fresh[s] => report[s] # NoState
    /\ \A c \in Callers : pc[c] = "apply" => base[c] # NoState
    /\ \A c \in Callers : "report" \in heard[c] =>
            report[slot[c]] # NoState /\ op[c] = "read" /\ pc[c] \notin {"idle", "warm"}

\* The threads whose request is with the unit.
OnTheWire == {c \in Callers : pc[c] \in {"ask", "apply"}}

\* Module comment: two requests to the same air conditioner serialise.
RequestsSerialise == Cardinality(OnTheWire) <= 1

\* A command built on what the unit has changes no field that nobody it carries
\* asked for.
OnlyAskedFieldsChange ==
    [][\A c \in Callers : UnitApplies(c) =>
            \A f \in Fields : unit'[f] # unit[f]
                => work[c].change[f] # Absent \/ report[slot[c]] # unit]_vars

\* Every call returns.  The calls being finitely many, that is: there always comes
\* a time at which none is out.
EveryCallReturns == []<>(\A c \in Callers : pc[c] = "idle")
=============================================================================
