------------------------------- MODULE Server --------------------------------
(***************************************************************************)
(* Who waits for whom: the workers of the HTTP server, the threads that    *)
(* serve streams, the threads in the background, and the locks they share  *)
(* (crates/breeze-http/src/server.rs and every handler it routes to, with  *)
(* what they call in manager.rs).                                          *)
(*                                                                         *)
(* What a handler computes is in the other modules.  Here it is the list   *)
(* of what it waits for, in the order of the code: the client, a lock, in  *)
(* a mode, let go at once or held while other steps are taken, and the     *)
(* unit.  Where a handler may return early, its longest way is taken; all  *)
(* threads are after the same unit, and a walk over all units meets that   *)
(* one.                                                                    *)
(***************************************************************************)
EXTENDS Naturals, Sequences

CONSTANTS
    Workers,          \* the pool, settings.worker_threads
    Streamers,        \* threads of hijack; one for each stream at a time
    Background,       \* those of "runner", "scheduler", "poller", "warm" that run
    MaxQueue, MaxRequests, MaxPasses   \* bounds

ASSUME ServerAssumption ==
    /\ Background \subseteq {"runner", "scheduler", "poller", "warm"}
    /\ {MaxQueue, MaxRequests, MaxPasses} \subseteq Nat

Threads == Workers \cup Streamers \cup Background

VARIABLES
    todo,       \* what each thread has still to do; <<>>: it waits for work
    holds,      \* the locks each thread holds, with their modes
    queued,     \* threads that wait for a RwLock to write
    queue,      \* requests in the channel between the listener and the pool
    requests, passes   \* how many there were (bounds)

serverVars == <<todo, holds, queued, queue, requests, passes>>
-----------------------------------------------------------------------------
(* Steps.  A lock is taken in one of two modes: "S" by those who read a    *)
(* RwLock, "X" by its writer and by whoever has a mutex.                   *)

RwLocks == {"config", "devices", "timers", "programs", "history", "units", "order", "info"}
Mutexes == {"nonces", "activity", "enrollment", "runner", "scheduler", "scanning", "subs",
            "last", "next_id", "wake_lock", "device", "status", "pending", "done"}
Lockable == RwLocks \cup Mutexes

\* The locks that somebody keeps while taking other steps.  Nobody ever waits
\* for the others, which are let go at once everywhere: they are no steps.
HeldOver == {"config", "devices", "units", "scanning", "wake_lock", "device"}

\* Through a lock and out again; while it is held; if it is free.
Through(l, m)       == IF l \in HeldOver THEN << [op |-> "pass", lock |-> l, mode |-> m] >> ELSE <<>>
Holding(l, m, body) == << [op |-> "take", lock |-> l, mode |-> m] >> \o body
                         \o << [op |-> "give", lock |-> l, mode |-> m] >>
IfFree(l, body)     == << [op |-> "try", lock |-> l, mode |-> "X"] >> \o body
                         \o << [op |-> "give", lock |-> l, mode |-> "X"] >>
Lock(l)  == Through(l, "X")
Read(l)  == Through(l, "S")
Write(l) == Through(l, "X")
Ask      == << [op |-> "ask"] >>       \* a round trip to the unit, a scan, a discovery
Judge    == << [op |-> "judge"] >>     \* go on, or reply at once
Route(g) == << [op |-> "route", guard |-> g] >>
Serve    == << [op |-> "serve"] >>     \* until the client has left
\* The client: it sends its body to the end, and takes the answer.
Receive  == << [op |-> "receive"] >>
Reply    == << [op |-> "reply"] >>
-----------------------------------------------------------------------------
(* The device manager.                                                     *)

Known  == Read("order")
Slot   == Read("units")
Info   == Slot \o Read("info")
Status == Slot \o Lock("status")
Exchange  == Ask \o Lock("status")
ReadState == Slot \o Holding("device", "X", Exchange)
Control   ==
    Slot \o Lock("pending")
         \o Holding("device", "X", Lock("done") \o Lock("pending") \o Exchange \o Lock("done"))
Apply     == Info \o Control
Replace   == Holding("units", "X", Write("order"))
\*   Mutant: the device's own name is set even if that takes a wait.
RenameWaits == Slot \o Write("info") \o Holding("device", "X", <<>>)
Rename    == Slot \o Write("info") \o IfFree("device", <<>>)
KeepWarm  == Known \o Slot \o IfFree("device", Exchange)
-----------------------------------------------------------------------------
(* The handlers.                                                           *)

Recorded == Write("history")
Samples  == Read("history")
Metrics  == Read("config") \o Known \o Samples \o Lock("scheduler") \o Known
\* A unit's facts ask several times for each.
UnitsFacts == Holding("config", "S", Status \o Samples \o Status)
System == Lock("activity") \o UnitsFacts \o Read("devices") \o Read("programs")
            \o Lock("scheduler") \o Lock("subs")

\* Here, a thread for each unit, and the worker waits for all of them.
AllStates        == Known \o Info \o ReadState \o Recorded
ListUnits        == Known \o Info
OneState         == Slot \o Info \o ReadState \o Recorded
UnitCapabilities == Slot \o ReadState
UnitHistory      == Slot \o Samples
ControlUnit      == Slot \o Apply

AddUnit    == Ask \o Holding("config", "X", Replace)
RenameUnit == Holding("config", "X", Rename)
DeleteUnit == Holding("config", "X", Replace)
Scan       == IfFree("scanning", Ask \o Read("config"))

CreateTimer == Slot \o Write("timers")
TimerStatus == Lock("runner") \o Read("timers")
ApplyNow    == Read("programs") \o Known \o Apply
Approve     == Lock("enrollment") \o Write("devices")

\* What each guard lets through; a client's own device, or a list, is only read.
PublicRoutes  == {<<>>}
KeyRoutes     == {Known, Metrics, Lock("enrollment")}
PairingRoutes == {Approve, Read("devices"), Write("devices")}
SystemRoutes  == {System, ListUnits, AllStates, Read("config"), AddUnit, RenameUnit, DeleteUnit, Scan}
UnitRoutes    == {OneState, UnitCapabilities, UnitHistory, ControlUnit}
TimerRoutes   == {Read("timers"), CreateTimer, Write("timers"), TimerStatus}
ProgramRoutes == {Read("programs"), Write("programs"), Lock("scheduler"), ApplyNow}
DeviceRoutes  == {Read("devices"), Write("devices")}

Guards == {"Open", "ApiKey", "AdminLan", "Full"}
Handlers(g) ==
    CASE g = "Open"     -> PublicRoutes
      [] g = "ApiKey"   -> KeyRoutes
      [] g = "AdminLan" -> PairingRoutes
      [] g = "Full"     -> SystemRoutes \cup UnitRoutes \cup TimerRoutes \cup ProgramRoutes \cup DeviceRoutes

\* authorise: the API key, the place, the credential of a device, and its last use.
\*   Mutant: the devices stay locked for reading while the last use is noted.
AuthoriseUnderLock(g) ==
    CASE g = "Open"                   -> <<>>
      [] g \in {"ApiKey", "AdminLan"} -> Read("config") \o Judge
      [] g = "Full" -> Read("config") \o Judge
                         \o Holding("devices", "S", Lock("nonces") \o Write("devices")) \o Judge
Authorise(g) ==
    CASE g = "Open"                   -> <<>>
      [] g \in {"ApiKey", "AdminLan"} -> Read("config") \o Judge
      [] g = "Full" -> Read("config") \o Judge \o Holding("devices", "S", Lock("nonces"))
                         \o Judge \o Write("devices")
\* The body comes first: a signature covers it.
Handle(g) == Receive \o Authorise(g) \o Lock("activity") \o Route(g)
-----------------------------------------------------------------------------
(* The other threads.                                                      *)

\* Beyond MAX_STREAMS the thread answers that there are too many.
Subscribe == Known \o Lock("next_id") \o Lock("subs")
Streamed  == Subscribe \o Lock("wake_lock") \o Lock("last") \o Serve \o Lock("subs")

PollOne == Info \o ReadState \o Lock("last") \o Read("config") \o Lock("last") \o Recorded \o Lock("subs")
Poll    == Lock("subs") \o Known \o PollOne \o Lock("activity")
NobodyListens == Lock("subs") \o Holding("wake_lock", "X", Lock("subs")) \o Lock("wake_lock")
RunTimers     == Read("timers") \o Known \o Apply \o Write("timers") \o Lock("runner")
RunPrograms   ==
    Read("programs") \o Lock("scheduler") \o Known \o Apply \o Lock("scheduler") \o Lock("scheduler")
WarmUp        == Lock("activity") \o KeepWarm

Passes(b) ==
    CASE b = "runner"    -> {RunTimers}
      [] b = "scheduler" -> {RunPrograms}
      [] b = "poller"    -> {Poll, NobodyListens}
      [] b = "warm"      -> {WarmUp}

-----------------------------------------------------------------------------
(* Locks.  std::sync locks do not know who holds them: a thread that asks  *)
(* for what it has waits for itself.  A RwLock lets no reader pass a       *)
(* writer that waits.                                                      *)

Conflict(m, n) == m = "X" \/ n = "X"
HoldersOf(l, m) ==
    {u \in Threads : \E h \in holds[u] : h.lock = l /\ Conflict(h.mode, m)}
WritersAt(l) == {u \in queued : Head(todo[u]).lock = l}

\* Those t waits for, with its next step: none, if it can take it.
WaitsFor(t) ==
    IF todo[t] = <<>> \/ Head(todo[t]).op \notin {"pass", "take"} THEN {}
    ELSE LET l == Head(todo[t]).lock  m == Head(todo[t]).mode IN
         HoldersOf(l, m) \cup (IF m = "S" THEN WritersAt(l) ELSE {})

ServerTypeOK ==
    /\ \A t \in Threads :
          todo[t] # <<>> /\ Head(todo[t]).op \in {"pass", "take", "try"} => Head(todo[t]).lock \in Lockable
    /\ holds \in [Threads -> SUBSET [lock : HeldOver, mode : {"S", "X"}]]
    /\ queued \subseteq Threads
    /\ queue \in 0..MaxQueue /\ requests \in 0..MaxRequests /\ passes \in 0..MaxPasses

ServerInit ==
    /\ todo = [t \in Threads |-> <<>>]
    /\ holds = [t \in Threads |-> {}]
    /\ queued = {}
    /\ queue = 0 /\ requests = 0 /\ passes = 0
-----------------------------------------------------------------------------
(* Actions.                                                                *)

\* The listener accepts a request and puts it into the channel.
Accept ==
    /\ requests < MaxRequests /\ queue < MaxQueue
    /\ requests' = requests + 1 /\ queue' = queue + 1
    /\ UNCHANGED <<todo, holds, queued, passes>>

\* A worker that is free takes the next request.
TakeRequest(w) ==
    /\ todo[w] = <<>> /\ queue > 0
    /\ queue' = queue - 1
    /\ \E g \in Guards : todo' = [todo EXCEPT ![w] = Handle(g)]
    /\ UNCHANGED <<holds, queued, requests, passes>>

\* A thread in the background has slept its tick.
BeginPass(b) ==
    /\ todo[b] = <<>> /\ passes < MaxPasses
    /\ passes' = passes + 1
    /\ \E p \in Passes(b) : todo' = [todo EXCEPT ![b] = p]
    /\ UNCHANGED <<holds, queued, queue, requests>>

\* The next step of t is `op', and `rest' is what is left.
NextIs(t, op) == todo[t] # <<>> /\ Head(todo[t]).op = op
Goes(t, rest) == todo' = [todo EXCEPT ![t] = rest]
AfterGive(t) ==
    LET gives == {i \in DOMAIN todo[t] : todo[t][i].op = "give" /\ todo[t][i].lock = Head(todo[t]).lock}
        first == CHOOSE i \in gives : \A j \in gives : i <= j
    IN  SubSeq(todo[t], first + 1, Len(todo[t]))
Held(t) == [lock |-> Head(todo[t]).lock, mode |-> Head(todo[t]).mode]

Pass(t) ==
    /\ NextIs(t, "pass") /\ WaitsFor(t) = {}
    /\ Goes(t, Tail(todo[t]))
    /\ queued' = queued \ {t}
    /\ UNCHANGED <<holds, queue, requests, passes>>

Take(t) ==
    /\ NextIs(t, "take") /\ WaitsFor(t) = {}
    /\ Goes(t, Tail(todo[t]))
    /\ holds' = [holds EXCEPT ![t] = @ \cup {Held(t)}]
    /\ queued' = queued \ {t}
    /\ UNCHANGED <<queue, requests, passes>>

\* A writer that cannot have the lock stands in line, ahead of later readers.
Queue(t) ==
    /\ t \notin queued /\ WaitsFor(t) # {}
    /\ Head(todo[t]).lock \in RwLocks /\ Head(todo[t]).mode = "X"
    /\ queued' = queued \cup {t}
    /\ UNCHANGED <<todo, holds, queue, requests, passes>>

Give(t) ==
    /\ NextIs(t, "give")
    /\ Goes(t, Tail(todo[t]))
    /\ holds' = [holds EXCEPT ![t] = @ \ {Held(t)}]
    /\ UNCHANGED <<queued, queue, requests, passes>>

\* try_lock: what is done with the lock, or nothing, also where the lock was
\* free and there was nothing to do.
Try(t) ==
    /\ NextIs(t, "try")
    /\ \/ /\ HoldersOf(Head(todo[t]).lock, "X") = {}
          /\ holds' = [holds EXCEPT ![t] = @ \cup {Held(t)}]
          /\ Goes(t, Tail(todo[t]))
       \/ /\ Goes(t, AfterGive(t))
          /\ UNCHANGED holds
    /\ UNCHANGED <<queued, queue, requests, passes>>

\* The unit has answered, or the deadline has passed.
Answer(t) ==
    /\ NextIs(t, "ask")
    /\ Goes(t, Tail(todo[t]))
    /\ UNCHANGED <<holds, queued, queue, requests, passes>>

Decide(t) ==
    /\ NextIs(t, "judge")
    /\ Goes(t, Tail(todo[t])) \/ Goes(t, Reply)
    /\ UNCHANGED <<holds, queued, queue, requests, passes>>

Dispatch(t) ==
    /\ NextIs(t, "route")
    /\ \E h \in Handlers(Head(todo[t]).guard) : Goes(t, h \o Reply)
    /\ UNCHANGED <<holds, queued, queue, requests, passes>>

\* The client does its part at once.
Transfer(t) ==
    /\ NextIs(t, "receive") \/ NextIs(t, "reply")
    /\ Goes(t, Tail(todo[t]))
    /\ UNCHANGED <<holds, queued, queue, requests, passes>>

\* Or it does not: neither read_to_end nor respond has a deadline.
Stall(t) ==
    /\ NextIs(t, "receive") \/ NextIs(t, "reply")
    /\ Goes(t, << [op |-> "stalled"] >> \o Tail(todo[t]))
    /\ UNCHANGED <<holds, queued, queue, requests, passes>>

\* hijack: a stream is served by a thread of its own, and the worker is free.
\*   Mutant: the worker serves it itself.
HijackInPool(w) ==
    /\ NextIs(w, "route") /\ Head(todo[w]).guard = "Full"
    /\ Goes(w, Streamed)
    /\ UNCHANGED <<holds, queued, queue, requests, passes>>
Hijack(w) ==
    /\ NextIs(w, "route") /\ Head(todo[w]).guard = "Full"
    /\ \E s \in Streamers, p \in {Subscribe, Streamed} :
          /\ todo[s] = <<>>
          /\ todo' = [todo EXCEPT ![w] = <<>>, ![s] = p]
    /\ UNCHANGED <<holds, queued, queue, requests, passes>>

\* The client has gone, and a write to it fails; or one that stalled goes on, or has
\* gone, and whatever there is of its body is all.
ClientLeaves(t) ==
    /\ NextIs(t, "serve") \/ NextIs(t, "stalled")
    /\ Goes(t, Tail(todo[t]))
    /\ UNCHANGED <<holds, queued, queue, requests, passes>>

Step(t) ==
    Pass(t) \/ Take(t) \/ Queue(t) \/ Give(t) \/ Try(t) \/ Answer(t) \/ Decide(t)
        \/ Dispatch(t) \/ Hijack(t) \/ Transfer(t)

Work == (\E w \in Workers : TakeRequest(w)) \/ (\E t \in Threads : Step(t))

\* The end of what the bounds allow.
AllServed ==
    /\ queue = 0 /\ requests = MaxRequests /\ passes = MaxPasses
    /\ \A t \in Threads : todo[t] = <<>>
    /\ UNCHANGED serverVars

ServerNext ==
    Work \/ Accept \/ (\E b \in Background : BeginPass(b))
        \/ (\E t \in Threads : Stall(t) \/ ClientLeaves(t)) \/ AllServed

\* As long as some thread can go on, some thread does.
ServerSpec == ServerInit /\ [][ServerNext]_serverVars /\ WF_serverVars(Work)
-----------------------------------------------------------------------------
(* Properties.                                                             *)

\* No threads wait for one another in a ring, whatever routes they serve: the
\* locks of every handler and thread are taken in one order, and none twice
\* (server.rs:676, "or this deadlocks on the first authenticated request").
NoRing ==
    LET stuck == {t \in Threads : WaitsFor(t) # {}} IN
    \A T \in (SUBSET stuck) \ {{}} : \E t \in T : WaitsFor(t) \cap T = {}

\* Who is with the unit, or waits for it, which may take many seconds, keeps nobody else
\* waiting: it holds no lock but the unit's own and that of scans.  Who is with a client,
\* which may take for ever, holds none at all.
UnitsWaitAlone ==
    \A t \in Threads :
        /\ NextIs(t, "ask") \/ (NextIs(t, "take") /\ Head(todo[t]).lock = "device") =>
              \A h \in holds[t] : h.lock \in {"device", "scanning"}
        /\ (\E op \in {"receive", "reply", "stalled", "serve"} : NextIs(t, op)) => holds[t] = {}

\* Every request is answered whose client sends and takes what it has to, as long as the
\* other clients do not hold every worker: streams that stay open take none from the pool
\* (server.rs:220), and no thread in the background keeps one for good.
Engaged(w) == todo[w] # <<>> /\ ~NextIs(w, "stalled")
Answered ==
    (queue > 0 \/ \E w \in Workers : Engaged(w)) ~>
        \/ queue = 0 /\ \A w \in Workers : ~Engaged(w)
        \/ \A w \in Workers : NextIs(w, "stalled")
=============================================================================
