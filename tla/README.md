# A TLA+ model of breeze-core

breeze-core is a server that drives Midea air conditioners on the local network. Clients (an Android
app, a web panel, a command line) speak a REST API to it; it speaks the Midea LAN protocol to the units.
It is a plain threaded Rust program: a fixed pool of HTTP workers, one thread per event stream, and four
background threads (timers, scheduler, state poller, keep-warm). All of them meet at one record per air
conditioner, at four JSON files, and at a handful of locks. This directory models those meeting points,
checks them with TLC, and proves the core of them with TLAPS.

Source paths below are relative to `src/crates/`. `PROJECT.json` maps every definition to its lines.

## 1. Inventory

| Component | State | Operations | What is hard |
|---|---|---|---|
| **Unit manager** `breeze-device/manager.rs`, record of `device.rs` | map id → slot; per slot a device mutex, a queue (`pending`, `pending_count`, `next_batch`, `done`), the record of the unit, a lock-free status copy | control, read, probe, forget, keep-warm, rename, upsert, remove | merging of concurrent controls, sharing of reads, replacement of a slot under running calls, poisoned locks |
| **Unit session** `breeze-device/session.rs`, `device.rs`, `error.rs`, `breeze-proto/lan.rs` | connection, key and its age, receive buffer, counts | connect, handshake, drain, send and resend, linger, decode, retry | replies carry nothing that names their request; fragments; stalls; hang-ups |
| **Timers** `breeze-http/timer_routes.rs`, `breeze-store/timers.rs` | `AppState.timers`, `timers.json` | create, cancel, list, the runner | cancel and create during a pass, failed writes, restart |
| **Scheduler** `breeze-http/program_routes.rs`, `breeze-store/programs.rs` | `AppState.programs`, `programs.json`, `SchedulerState.fired` and `curve_applied` | create, update, delete, apply now, the pass; which entries are due, where a curve is | passes longer than a minute, edits during a pass, nudges, failed commands; a curve that passes midnight |
| **State stream** `breeze-http/stream.rs` | `last`, subscriber list, per-client queue, condition variable | connect, snapshot, event, keep-alive, disconnect, the poller and its lanes | missed wake-ups, slow clients, change between snapshot and subscription |
| **Pairing** `breeze-auth/enroll.rs`, `verify.rs`, `nonce.rs`, `breeze-http/auth_routes.rs` | enrolment sessions, `AppState.devices`, `devices.json`, nonce cache | start, approve, poll, upgrade, revoke, verify | two locks one after the other, failed writes, restart, retried polls |
| **Store files** `breeze-store/store.rs` | the files | save (temporary file, rename, set_mode), load | failure before or after the rename |
| **Configuration routes** `breeze-http/config_routes.rs` | `AppState.config`, `config.json`, scan lock | add, replace, rename, delete a unit, discover | memory, file and manager change one after the other |
| **Dispatch and workers** `breeze-http/server.rs` | request queue, worker threads | route, authorise, handle | all workers waiting on silent units |
| **Control requests** `breeze-http/control.rs`, `breeze-store/control.rs` | none | validate, name to protocol value, apply, compare with the report | a command restates everything, so what was not asked for goes through report and command |
| **Keep-warm thread** `breeze-http/warm.rs`, `Activity` in `state.rs` | last activity | pass over the units | pacing |
| **History, metrics, system** | ring buffer per unit | record, read | bounded buffer |
| **Protocol codec** `breeze-proto` | none | encode, decode, merge capability lists | a setpoint in two places and three encodings, short reports, a list in two answers |
| **Discovery** `breeze-proto/discover.rs`, `breeze-device/scan.rs` | what was seen, the deadline, the sender's flag | probe, collect until the deadline | two threads and a deadline that starts when one of them ends |
| **Reverse-proxy wizard** `breeze-core/cli/proxy.rs` | files of the web server and their backups, enabled sites, `proxy-undo.json`; the journal of a run, in memory | run, undo, each also as a dry run | a step that fails or a process that dies anywhere; a journal that is in memory until the end; undoing twice |
| **Cloud clients** `breeze-cloud` | session of one run | route, login id, login, list, token of a unit | three clouds whose error codes mean different things, two byte orders, requests that fail anywhere |
| **Fetching a token** `cli/fetch.rs`, `config_routes.rs` | units wanted, answers so far, tokens to save | probe, ask who knows the account, sign in, fetch, try, save | whom the password goes to, whose token it is, what a failed request makes the program say |
| **The rest of the command line** `breeze-core/src/cli` | none | one API call each, the control command two | positional words, names of units |
| **Panel, compression, build and packaging** | none | | |

How they interact. Workers call `control`, `read_state`, `with_unit` of the manager; so do the timer runner
and the scheduler (through `control::apply`), the poller (`read_state`) and the keep-warm thread
(`keep_warm`). A manager call holds the unit's mutex for a whole round trip and goes through the session.
Configuration routes call `upsert`, `remove` and `rename`. Timer, program, device and configuration
documents each have a lock in `AppState` and a file that is written under the write lock. A restart loads
all four and forgets everything else.

What makes each component correct is stated as its properties, in section 4.

## 2. Modules

| Module | Models | Composes |
|---|---|---|
| `UnitControl` | abstract: a line of requests, one command at a time carries all of it, one result for all | |
| `UnitManager` | the manager, one unit, all threads that use it | |
| `UnitManagerContract` | `UnitManager` with history variables, and its refinement mapping to `UnitControl` | `UnitManager`, `UnitControl` |
| `Session` | one unit's connection, exchange after exchange, with the unit and the network | |
| `Timers` | timer routes, `timers.json`, the runner | |
| `Programs` | what may be stored as a program, and what a stored one asks for at a minute | `Codec` |
| `Scheduler` | program routes, `programs.json`, the scheduler thread | `Programs` |
| `StateStream` | poller, lanes, condition variable, stream threads | |
| `Pairing` | enrolment, device store, check of requests | |
| `Config` | unit-management routes, `config.json`, `pair` and `fetch` of the command line | |
| `Server` | workers, streams and background threads of every route, and the locks and the unit they wait for | |
| `Codec` | reports, commands, and the control request between them | |
| `Capabilities` | the capability list, its two answers, and what clients are offered for it | |
| `CommandLine` | `breeze-core control`, from its words to its requests | `Codec` |
| `Scan` | finding units: the thread that sends and the one that listens | |
| `Clouds` | the three clouds: their answers, and what the clients make of them | |
| `Fetch` | `breeze-core fetch`, the panel's add-unit form and the scan of `pair` | `Scan`, `Clouds` |
| `Proxy` | the reverse-proxy wizard and its undo, with the files, the web server and certbot | |
| `UnitManagerProofs`, `SessionProofs`, `TimersProofs`, `ThreadProofs`, `StateStreamProofs`, `PairingProofs`, `ConfigProofs`, `CommandProofs` | theorems and their proofs | the module they name; `UnitManagerProofs` also `UnitManagerContract`; `SessionProofs` also what a session carries: `Codec`, `CommandLine`, `Capabilities`; `ThreadProofs` the threads: `Scheduler` and `Server`; `CommandProofs` the commands: `Proxy`, and `Fetch` with what it is made of |
| `MC*` | instances for TLC: symmetry and the sets that a `.cfg` cannot write; `MCSession` has the bounded inputs of `Codec`, `Capabilities` and `CommandLine` | `MCSession`: these and `Session` |

### UnitManager
A *caller* is a server thread inside one manager call, whichever thread that is. `pc` follows the code:
`join` (queue mutex: merge, count, note the batch), `lock` (wait for the device mutex), `collect` (is the
batch in `done`?), `take` (take everything merged so far), `base` (a young report, or a query first),
`ask`/`apply` (the exchange), `finish` (publish, record the outcome for the others, unlock), `answer`.
Reads go `lock`, `share`, `ask`. The queue mutex is held for one step each time, so what happens under it
is one action. Instants are kept as the comparisons made with them: `heard` is what
`state_since(arrived)` and `failure_since(arrived)` would say, `fresh` and `idle` are the two ages the code
looks at. A `Change` is a function from fields to values or `Absent`; which fields there are does not matter,
so two stand for all. An exchange is atomic per outcome here (`UnitAnswers`/`UnitApplies` on the unit's side,
`ReplyArrives` or `ExchangeFails` on ours); `Session` has what is inside it. A resend or a retry repeats
`UnitApplies`, which writes the same command.
`PanicUnwinds` is FALSE for the release profile (`panic = "abort"`), TRUE for every other.

### Session
One action per thing the code does between two waits. A tick is about the time a unit takes to reply; time
passes only when neither side has something to do, which is what blocking I/O with deadlines does. The bytes
are packets of four kinds; `part` is a packet of which the front alone has arrived. `to` names the request a
reply answers: it is there for `RightReply` alone, no guard of the program reads it. The unit ignores, stalls,
splits, garbles, refuses, hangs up, and does not listen for a while after a handshake. A write never waits here: in the code it may, for `WRITE_TIMEOUT` of ten seconds (`device.rs:35, 346`), which is not in
`Bound`; it would take a connection that a few packets fill.

### Timers, Scheduler
A store is `mem` and `disk`. A save succeeds, or fails with the file unchanged, or fails with the file
replaced (`set_mode` after the rename). A pass of the background thread is split at every command to a unit,
so edits, cancellations and restarts fall between any two. `Scheduler` splits a curve's step once more, between the check of what was last sent
(`Follow`) and the command with its record (`Land`), as the code lets go of its lock in between; `Manual`, whatever else sets a unit, comes anywhere. Ids are given in creation order and stand for list
order in `Timers`; `Scheduler` keeps the list. In `Scheduler`, `LateFailures` switches the
third outcome of a save on. `Programs` has what the code keeps free of I/O: which specs are refused, which entries are due, and a curve's
setpoint, in fractions of tenths of a degree where the code computes in `f64`; a time is its minute and whether it is written in full. The length of
a day is a constant.

### Codec, Capabilities, CommandLine
Pure definitions on payload bytes: `ParseState`, `SetState` and the request in between; `Adopt` and `Report` are the unit of the tests (`testing.rs`), which
holds what it is told; for the flags that one does not have, they mirror what `SetState` writes and `ParseState` reads. `Capabilities` walks the records of an answer as the code does, what is cut off included. A word of the command line is
a word of a small dictionary with what its parsers make of it. Frames, checksums and encryption are left out: they change no field.

### Scan, Clouds, Fetch
`Scan` has its two threads, the flag between them and the deadline that the listener sets once the flag is up; a tick is longer than the receive timeout. `Clouds` is external as far as
the clouds' answers go, taken from the comments and the tests' cloud (`mock_cloud.rs`), and what the clients make of them is a function of the answers: requests go one at a time. `lost` are the requests that come to nothing, chosen for
each call. `Fetch` follows the conversation: `phase` is the question it is at. The histories `sent`, `told` and `hit` are the clouds that were sent the password, what the person was told,
and what a failed request was about.

### StateStream
The poller's walk is split into *read*, *store* (under `last`) and *broadcast* (under `subs`) per unit, and
the lanes interleave these for different units. A stream thread connects (takes the unit list), subscribes,
nudges, writes the snapshot, then its queue. `shown` is what was written to the client.

### Pairing
A device is one phone and its record. `approve` is two steps, mint and store, since it takes two locks one
after the other; `upgrade` is two steps, authorise and apply. A credential is a scheme and a serial number:
an upgraded phone has a new serial. A tick is `CODE_TTL_SECONDS` and the accepted skew.

### Config
A document lists units; an entry is an address, whether token and key are there, and a name. `mem` is `AppState.config`, `slots` the
configuration in the manager's map. A request is at `found` (the unit answered, the lock is yet to come), then `changed` and `saved`
under the write lock, until the manager is told. A save has a `stage` between any two system calls, and a file is a *node* under a name,
because the server and the command line write the same `config.tmp`: opening truncates the node another process may be writing, renaming
takes the name away from it. `pair` and `fetch` load the store, take their time, and save what they loaded, changed. The histories
`apart`, `behind` and `overlapped` name the ways in which file and memory may differ. Left out: the name in the device's
own record, which `rename` sets only if it is free, the copy that `fetch` makes first, the API key, and a name typed into `pair`.

### Server
What each handler computes is in the other modules; this one is about who waits for whom. A handler is the sequence of what it waits for, in the code's order: a lock
taken and dropped (`Read`, `Write`, `Lock`), a lock held over other steps (`Holding`), a lock taken only if it is free (`IfFree`), a round trip to the unit (`Ask`). `todo` is what each thread has
still to do, `holds` what it has locked. A request is taken from the queue, read to the end of its body (`Receive`), authorised, counted as activity, handled by any route behind its guard, and answered (`Reply`); a stream goes to a thread of its own.
The client does its part of `Receive` and `Reply`, or it stalls (`Stall`), for as long as it likes. A
`RwLock` of `std` lets no reader pass a waiting writer, so two reads by one thread may block for good; `queued` has the writers that wait. Where a handler may return early its longest way is taken;
all threads are after one unit, and a walk over all units meets that one. `all_states` uses a thread for each unit and waits for them; here the worker goes itself.
A lock that no program holds while it does something else is no step (`Through`): it is free again without anybody's help. `HeldOver` lists the others, and `ServerTypeCorrect` shows that the list is complete.

### Proxy
`pc` follows `run` from question to question and `undo` from step to step; `steps` is the journal in memory, `record` the one on file, `todo` what is left of a
journal that is being reversed, in `undo` or in a `rollback`. A file has one of a few contents: nothing, the person's own, ours, ours after certbot's edits, or half a text. `live` is what
the web server read when it was last reloaded. `Stop` is every early end there is: a required command that fails or cannot be started, a file that cannot be copied or removed, a terminal
that goes, a kill. It leaves the machine where it is and forgets the journal in memory; `StopTorn` and the second disjunct of `Put` leave half a file.
`before` is the machine when the last run began that was not a dry one, `first` the files at the very beginning; `unrecorded` says that a run
died with steps in its memory alone, `again` that another run came after. All runs are for one web server, whose configuration is in one place. Left out: the layout of Apache without `a2ensite`,
an `a2dissite` that fails (`reverse` does not look), and edits by hand between a run and its undo.

## 3. Runs

All sizes are in the `.cfg` files. "Failures" are writes or commands that fail.

| Run | Bounds | Why they are enough |
|---|---|---|
| `unit_contract` | 3 threads, 3 controls, 2 fields, replies lost | two requests can join a batch while a third is sending, and be carried by either of them; that is every role there is |
| `unit_returns` | 2 threads, 2 calls, 2 slots, 1 remote change, panics, lost replies | the slot is replaced and removed, the remote used, a reply lost in every state of both calls |
| `timers` | 2 timers, 2 units, named or all, known or not at the start, clock to 3, 1 failure, 1 restart, 1 unit change | one timer being fired and one being made, cancelled, displaced or missed |
| `scheduler` | 7 specs, 2 edits, 2 units, a day of 4 minutes of 2 ticks, passes of up to 3 ticks and a nap of 1, clock to 11, 1 failure, 1 manual command, 1 restart | a pass with its nap is shorter than a minute, as long, or twice as long; a unit is set between any two steps of a pass; a trigger's minute comes back on the next day, a curve moves, stands still, passes midnight on a slope, has no points; one spec is refused |
| `stream` | 2 clients for 1 place, 2 units, 2 lanes, queue of 1, 1 reconfiguration | one client too many, one event too many, lanes that overtake each other |
| `fetch` | 2 units in 2 homes, any account in any of the clouds with one peculiarity, 2 passwords, 2 failed calls or two requests in one | the second unit is in the second home or another's; a request fails in each of the two byte orders |
| `session` | 2 requests, 2 attempts, 3 sends, 1 stall of 2 or 4 ticks, 1 fault, 1 hang-up, 1 expiry | a late answer of the first request can meet any state of the second; for `Codec`, about a thousand states a unit can be in and each request on each of them, with every set of fields refused; lists of up to three of eleven records, cut anywhere; about 6 000 lines of words |
| `config` | 2 units, 2 addresses, 2 requests at a time, 1 run of the command line, 1 move, 1 failed save or crash | one save of the server meets one of the command line at every stage; a unit moves or fails between a request's question and its lock |
| `server` | 2 workers, 1 stream thread, a queue of 1, 3 requests by any routes, any of whose clients stall, 1 pass of any background thread | four threads meet at once, any two of them at any pair of locks, and both workers can meet a stream or a client that stalls |
| `proxy` | 3 runs of the wizard and 3 of its undo, stopped anywhere | an undo meets what an unrecorded run left; a run meets what an undo that stopped left; a dry run comes between |
| `pairing` | 2 devices, clock to 2, 1 upgrade, 1 failure, 1 restart | a code expires, and a write fails on either side of a restart |

Bounds on time are bounds of the clock variable; nothing else is cut. Threads, devices, clients and units that
are interchangeable are symmetry sets; `unit_returns` has a liveness property and uses none. `Pairing`, `Timers`,
`UnitManager`, `Scheduler`, `Session`, `Config`, `Server`, `Fetch` (`Ended`) and `Proxy` have a `Rest` step for the end of what the bounds allow, and deadlock
is checked everywhere: a state where nothing can happen and which is not such an end is an error. For the
locks this is the property that nobody waits on everybody.

## 4. What is checked

*UnitManager.* `BatchesAccounted`: `pending_count` is exactly the number of requests that the next command will
answer, and an outcome stays in `done` exactly until its last request has it. `ReadsAreCurrent`:
a shared read returns a state the unit had after the read arrived, or was just reporting. `StatusCurrent`: the copy for lock-free readers
equals the record whenever the lock is free. `OnlyAskedFieldsChange`: a command changes only what one of its requests asked for. `EveryCallReturns`: liveness.
`ImplementsContract`: the refinement of `UnitControl`. `RequestsSerialise`, that one request at a time is with the unit, is proved and in no run. One mutant per property, listed in `PROJECT.json`, shows that each would
notice a plausible slip in the code.

*Session.* `RightReply`: what an exchange returns is the answer to what it asked, though nothing in a reply says so,
as long as no packet was sent more than twice on the connection. `Bounded`: attempts, sends and lingers add up to a bound.
`Accounted`: each arriving packet became a reply, was counted as discarded, waits, or went with lost framing.

*Codec, Capabilities, CommandLine*, for all inputs `MCSession` bounds, and proved for more (section 5). `CommandRestates`: a command changes what was asked for and nothing else, whatever the unit reported and however shortly, and the reply names
just the fields the unit refused. `CapabilitiesAddUp`: a list spread over two answers says what it would say in one, a list cut off says what its whole records say, and
what clients are offered for it the API accepts: modes, flap positions and fan speeds always, a temperature unless the unit itself told of more than the API's range, which is what a test of the repository asks for; and the flaps shown are those offered. `SentAsTyped`: each word of a control command reaches its field, a skipped one leaves it alone, the timer's place does not matter (that the API accepts it is said of the settings, not of the timer's minutes), and
a unit that is added takes no other unit's commands but by having the very name.

*Timers.* `ReportedSurvives` (what is listed is on disk), `FiresOnce` (each unit gets a timer's command once, and once more for each restart), `CancelledStaysQuiet` (across restarts),
`NoPromiseLost`, `PassLeavesNothingDue`.

*Scheduler.* `OncePerMinute`, `ReportedSurvives`. `NoTriggerMissed`: a trigger fires in its minute though passes take longer than that, except where no pass began in it (`SleptOver`). `NudgeKept`: a unit set by hand at whatever point
of a pass is left alone, except where the pass had something else to tell it already (`YetToTell`). `CurveTracked`: after a pass in which nothing failed every unit has, from every curve, the half degree nearest to the line
through the last point and the next (`OnTheLine`, a definition of its own, not the code's walk over segments).

*StateStream.* `NoMissedWake`, `PlacesHeld`, `Converges` (a stream ends with the latest state the poller knows, unless its queue was full).

*Pairing.* `HeldIsKnown` (client, memory and file agree on the credential; the ways out are named), `RevokedStaysOut`,
`NeverToldDead` (a client whose credential is good is never told `unknown_key` or `bad_signature`, which makes it pair anew).

*Config.* `DrivenAsListed`: whenever nobody holds the configuration, the manager drives what it lists, by what it lists. `ListedSurvives`: the file is a whole document at every moment, and the one a
restart should load: what is listed, or, in the middle of a change, what was listed before. `KeysKept`: no save of an up-to-date copy loses a unit's credentials.

*Server.* `NoRing`: no threads wait for one another in a ring, a writer between two readers included. `UnitsWaitAlone`: who waits for a unit, which takes seconds when it is silent, holds no lock that a
request about something else needs, and who is with a client, which may take for ever, none at all. `Answered`: liveness, every request in the queue or with a worker whose client does its part is answered, whatever streams stay open, unless every worker is with a client that stalls.

*Fetch.* `AnswersReported`: a scan reports every unit that answered a hello. `SecretsInPlace`: the password goes only to a cloud that said it has the account, and no unit's entry gets another unit's token, though the clouds list them. `ExitTellsAll`: exit code 0 means that
every unit that was wanted has its new token on file. `FairVerdicts`: what is said of a unit or an account is true unless a request about it failed, or, of the account, another cloud was offered and declined (`OthersOffered`); the list below has these.

*Proxy.* `PutBack`: when no wizard is at work and nothing is recorded, files, sites and what is loaded are as they were before the last run, unless it died with its journal in memory.
`OriginalKept`: whatever fails, a file of the person's is in its place or in its backup, until a run follows one that died.

### Fairness
`unit_returns` and `server` need some. `FairSpec` of `UnitManager` has weak fairness of `Step(c)` for each thread in a call. A thread in a call is
scheduled, and every wait inside it ends: connect, write, read and linger have deadlines, sends and attempts are counted
(`Bounded`). The Rust mutex promises no fairness, so none is assumed of it: the calls are finitely many, hence in the end
nobody else comes. No fairness is assumed of the unit, the remote, the clock, or new calls.
`Server` has weak fairness of `Work` as a whole: as long as some thread can go on, some thread does. Requests and passes are finitely many, so no one thread can take all the turns for ever.
A unit's answer is part of `Work`, since each exchange ends at its deadline. A client that sends its body and takes its answer is, too; that one stalls, or ends to stall, or leaves a stream, is not, and neither are new requests: `read_to_end` and `respond` have no deadline
(`server.rs:143, 236`; what `tiny_http` does with a connection is outside). So `Answered` says nothing of the moment when as many clients stall as there are workers, and nothing else is answered then until one of them goes on.

### Where code and comments disagree
One run shows a disagreement; it checks one property and is expected to fail.
- `proxy_undo_twice`: an undo removes each backup as soon as it is copied back (`proxy.rs:1065`), and the journal only when all is done (`proxy.rs:1132`). One that stops halfway
  can never be finished: the next stops at the first backup that is gone, and the wizard refuses to run as long as the journal is there (`proxy.rs:225`). The wiki's page on
  reverse proxies says that it "puts everything back as it was".

Met while modelling, and kept out of the passing runs by a bound, a constant or a named exception:
- *Remote and shared reads* (`manager.rs:27, 330`). A read may share an answer the unit gave just before the read arrived and that came in after it;
  with the IR remote in use that can be older than the read. `ReadsAreCurrent` counts such an answer (`OnItsWay`) among those a read may return.
- *Lost replies and the ten-second base* (`manager.rs:53`). When a command takes effect and its reply is lost, the next command is built
  on the report before it and takes it back. `OnlyAskedFieldsChange` is about commands built on what the unit has; the contract allows the other ones (`Land` may start from any earlier settings).
- *Replacing a unit* (`manager.rs:8`). Calls on the old slot and on the new one have different mutexes. `RequestsSerialise` is checked, and proved, for one slot.
- *A poisoned lock stays poisoned* (`manager.rs:197`): after a panic in a build that unwinds, every later call forgets the session, and keep-warm skips the unit.
- *A timer for all units displaces nothing* (`models.rs:246`). `OnePerUnit`, which is proved, is about timers that name their units.
- *A crash between a timer's commands and its write* fires it again (`timer_routes.rs:350`), once for each such crash; `FiresOnce` allows just that.
- *A nudge that is taken back* (`program_routes.rs:60`, "keeps their nudge until the curve genuinely moves on"). The comparison is with what was last sent, at the check. A unit that is set by hand after the curve has moved on and before it was told, while the thread sleeps,
  waits for another unit, or is between the check (`program_routes.rs:358`) and the command (`program_routes.rs:365`), is set back, though the curve does not move again; so is one set after a command whose reply was lost, which is not recorded. `NudgeKept` is about the other nudges.
- *Scheduler memory is lost on restart*: a trigger may fire again in its minute, a nudge may be taken back (`program_routes.rs:53, 60`). The histories start anew.
  An edit that moves an entry to another index within its minute fires it again: `OncePerMinute` counts by index, as the code does.
- *A pass plus a nap longer than a minute* may step over a minute and its triggers (`program_routes.rs:27`, "a trigger only has to land inside the right minute"). The run has such passes; `NoTriggerMissed` lets go of the triggers of a minute in which no pass began, and of no others.
- *A write that fails after its rename*: a deletion rolled back in memory vanishes on restart (`program_routes.rs:150`). `LateFailures` is FALSE in the run.
- *A curve edited to another mode* at the same temperature is not sent until its temperature moves (`program_routes.rs:359`, against "in its configured mode" of `breeze-store/programs.rs:95`). `CurveTracked` is about temperatures; TLC finds this at once if the mode is added to it.
- *Two curve points at one minute* (`programs.rs:79`). `into_program` does not refuse them; their segment is taken to span the whole day and hides the others. `OnTheLine` is about curves without.
- *A time written 7:30*, in a file edited by hand, counts for a curve and never fires in a schedule (`programs.rs:19, 128`): the one is read as a number, the other compared as text.
- *Programs for unknown units* are stored unchecked, timers are not.
- *Apply now* refuses schedules (`program_routes.rs:183`), which the wiki does not say.
- *A unit configured after a client connected*, whose state does not change, is not shown to it: the snapshot goes by the list of the connection (`stream.rs:351`). `Converges` is about units that were there.
- *An expired session* is overwritten without its counts being kept (`device.rs:354`), which are "cumulative since start" (`device.rs:64`). No property looks at resends.
- *Two processes save at once* (`store.rs:128`). Server and command line share `config.tmp`; one may rename what the other has just truncated, and the store is torn. A server that then restarts
  does not start, and `pair` starts afresh. `overlapped` excuses this; `ListedSurvives` says that nothing else does it.
- *Server and command line take back each other's changes.* The server never reads the file again, so a rename over the API undoes a `fetch` that was not yet followed by the restart it asks for
  (`fetch.rs:529`), keys included; and the command line saves what it loaded before its questions. `KeysKept` is about up-to-date copies.
- *A save that fails after its rename* (`store.rs:133`) is rolled back in memory and stays in the file; a restart brings it back. `apart = {"late"}`.
- *Two requests add one unit while it moves*: the one that asked first may take the lock last, and the older address stays (`config_routes.rs:260, 285`).
- *Three sends and a stall* (`session.rs:66`): the third answer may come after the linger window. `RightReply` asks for two sends at most.
- *A failed revocation* drops the device from memory though it is answered 500 (`auth_routes.rs:253`), and it is back after a restart.
- *A create whose write fails* puts back nothing of what the new timer displaced (`timer_routes.rs:213`): `NoPromiseLost` ends with the first failed write.
- *A credential before its record* (`auth_routes.rs:277`): an approval marks the session before the record is written, so a client that polls between the two locks, or
  before a write that fails, has a credential that a restart forgets. `HeldIsKnown` leaves out those between mint and store, and the `lost`.
- *A wizard that ends in an error* leaves no journal, though a file, a site or a module may be changed (`proxy.rs:1032`; the journal is saved last); a run after it takes what it left for the
  person's own, and writes over the one good backup (`proxy.rs:1145`). `unrecorded` and `again` name these two.
- *A site enabled by hand* is disabled by the undo of a run that enabled it again; modules that `a2enmod` enabled stay so (`proxy.rs:1073`).
- *A lost request and the word for it* (`breeze-cloud/lib.rs:383`). When the request in one byte order fails and the other order has no token, the person is told "not paired with this account". When SmartHome's routing fails, its default
  server is asked and may say that it does not know the account, or at the sign-in that the password is wrong. `FairVerdicts` excuses what a failed request was about (`hit`).
- *Unreachable is not a no* (`fetch.rs:844`), but "None of them has that account" (`fetch.rs:179`) is said also when the person declines the other cloud that has it, though `decide` returns `None` "when nobody does" (`fetch.rs:282`), or when one was unreachable (`fetch.rs:241`). `FairVerdicts` names both exceptions. `fetch_token_any` goes on to the next cloud when one could not be asked.
- *An unchecked token* is saved when the person says so (`fetch.rs`, "save anyway"), and a yes-or-no question takes its default at the end of the input. "Not the right shape" looks at anything but the token's shape (`state.rs:423`).
- *Units that moved*: if all of them did, `fetch` says "Nothing here needs a token" and exits with 0.
- *Half a capability list is kept for good* when the second query fails (`device.rs:247`), and a fan record with a value the list does not have offers no speed at all. A temperature record of six bytes takes `decimals` from its size, and a truncated one can announce a second page. `CapabilitiesAddUp` does not look at these.
- *A wider range than the API's*: a unit that reports 17 to 32 degrees is offered up to 32, though the API takes no more than 30 (`control.rs:106`). A test wants it so; `CapabilitiesAddUp` names it (`ToldOfMore`).
- *What a report does not say is restated as a default*: an unknown mode as AUTO, unknown flaps as OFF, and from short reports freeze protection off and humidity 40. `CommandRestates` leaves these fields out where the report does.
- *A comment on byte 21* (`command.rs:126`) is about the frame; in the payload it is byte 18.
- *The timer of a control command* is posted after its settings, which stay when it is refused; its hours are multiplied by 60 in 32 bits (`control.rs:236`).
- *A failed upgrade* whose write failed after the rename locks the client out after a restart. `HeldIsKnown` counts such a device among the `lost`.

## 5. What is proved

For any sets of threads, fields, values, units, clients and devices, any delays, and any bounds:

| Module | Theorem | States |
|---|---|---|
| `UnitManagerProofs` | `TypeCorrect` | `Spec => [](TypeOK /\ Grounded)` |
| | `BatchesCorrect` | `Spec => [](BatchesAccounted /\ NeverLost)` |
| | `Serialised` | `MaxSlots = 1` implies `Spec => []RequestsSerialise` |
| | `ReadsCurrent`, `StatusPublished` | `Spec => []` of `ReadsAreCurrent`, `StatusCurrent` |
| | `CommandsChangeWhatIsAsked` | `Spec => OnlyAskedFieldsChange` |
| | `ControlImplementsContract` | `MaxSlots = 1` and `PanicUnwinds = FALSE` imply `ContractSpec => ImplementsContract` |
| `SessionProofs` | `TypeCorrect` | `Spec => []TypeOK` |
| | `PacketsAccounted`, `ExchangeBounded` | `Spec => []` of `Accounted`, `Bounded` |
| | `RepliesMatch` | `Timely` implies `Spec => []RightReply` |
| | `AnyCommandRestates` | `Restates` for whatever a unit can hold, reports of 17 to 24 bytes, every request that is accepted, and any fields refused |
| | `AnyWordsAreSaid`, `AnyNameSettles` | `SaysWhatWasTyped` for any sequence of words, `NameSettles` for any list of units |
| | `AnyListAddsUp` | `AddsUp` for any list of up to 255 records with different ids of two bytes and values of up to 255 bytes |
| | `CommandsRestate`, `CommandsAreSent`, `CapabilitiesAreTold` | `Spec => []` of `CommandRestates`, `SentAsTyped`, `CapabilitiesAddUp`: of the inputs that TLC tries |
| `TimersProofs` | `TypeCorrect` | `Spec => []TypeOK` |
| | `ListedSurvives`, `AtMostOne`, `NeverTwice`, `CancelledForGood`, `PromiseKept` | `Spec => []` of `ReportedSurvives`, `OnePerUnit`, `FiresOnce`, `CancelledStaysQuiet`, `NoPromiseLost` |
| | `PassClears` | `Spec => PassLeavesNothingDue` |
| `ThreadProofs` | `FiresOncePerMinute`, `NudgesAreKept` | `Spec => []OncePerMinute`, `Spec => NudgeKept` |
| | `TriggersLandInTheirMinute` | `Spec => []NoTriggerMissed` |
| | `TypeCorrect`, `CurvesAreTracked` | `Spec => []` of `TypeOK`, `CurveTracked` |
| | `ListedSurvives` | `LateFailures = FALSE` implies `Spec => []ReportedSurvives` |
| | `NoDeadlock`, `UnitsKeepNobodyWaiting`, `ServerTypeCorrect` | `ServerSpec => []` of `NoRing`, `UnitsWaitAlone`, `ServerTypeOK` |
| `StateStreamProofs` | `PlacesAreHeld`, `NoWakeMissed`, `StreamsConverge` | `Spec => []` of `PlacesHeld`, `NoMissedWake`, `Converges` |
| `PairingProofs` | `TypeCorrect` | `Spec => []TypeOK` |
| | `CredentialAgreed`, `RevokedForGood`, `HandedOverOnce`, `NeverDiscouraged` | `Spec => []` of `HeldIsKnown`, `RevokedStaysOut`, `CollectedOnce`; `Spec => NeverToldDead` |
| `ConfigProofs` | `TypeCorrect` | `Spec => []TypeOK` |
| | `ManagerAgrees`, `FileWholeAndCurrent` | `Spec => []` of `DrivenAsListed`, `ListedSurvives` |
| | `CredentialsKept` | `Spec => KeysKept` |
| `CommandProofs` | `WhoAnswersIsReported` | `FetchSpec => []AnswersReported` |
| | `SecretsWellPlaced`, `ExitCodeTells`, `VerdictsAreFair` | `FetchSpec => []` of `SecretsInPlace`, `ExitTellsAll`, `FairVerdicts` |
| | `TypeCorrect` (of `Proxy`) | `Spec => []TypeOK` |
| | `AlwaysPutBack`, `OriginalsKept`, `NeverBroken` | `Spec => []` of `PutBack`, `OriginalKept`, `BrokenNeverLive` (what is loaded has passed its check) |

Type correctness, `NeverLost` ("the command was lost before it was sent" needs a panic), `RequestsSerialise`, `OnePerUnit`, `CollectedOnce` (a credential is handed over once) and `BrokenNeverLive` are proved and in no run.

Assumptions are those named in the modules: sets of threads and units are finite, bounds are naturals, markers are not values.

*UnitManager.* `BatchesAccounted` is not inductive: that taking a batch leaves the right number behind depends on where each request is. `BatchInvariant` adds
that the device mutex is held by exactly the thread that is past `lock_device` (`LockHeld`); that only controls take the steps of a control (`ControlPath`); and where
each request's batch is: the next to go, on its way and carried by the one thread that holds the mutex, in `done`, or lost in a panic (`BatchWhereabouts`).
`JoinStep`, `TakeStep`, `CollectStep`, `FinishStep` and `LossSteps` are the actions that move a request from one to the next; each shows how the set `Waiting` changes and, with
the cardinality facts of the library, how the counts follow. `QuietSteps` and `WorldSteps` cover the actions that leave the queue alone, through one lemma (`UndisturbedStep`) on what the
invariant depends on. `Exclusion` is the step from `LockHeld` to `RequestsSerialise`. `ReadInvariant` adds the evidence a read has before it returns: what the unit holds, what
it answered the threads the read waits behind, and the report the read is about to share are each something the unit had since the read arrived (`Evidence`); only a thread in an
exchange has an answer in its hands (`OnlyToAskers`). `RecordInvariant` ties the published status to the record through the one thread that may have changed it (`Published`), and a command to the report
it is built on (`BuiltOnReport`), which is what `OnlyAskedFieldsChange` speaks of.

*The refinement.* `UnitManagerContract` adds what the code forgets: the order of the line, whether the unit took the command now out, the settings the unit has had. Under the mapping there,
`Join` is `Ask`, `Take` is `Depart`, `UnitApplies` is `Land`, `Finish` of a control is `Conclude`, `Return` of a control is `Hear`, `Remote` is `Remote`, and every other step changes nothing the contract
can see (`StillStep`, `CollectStutters`): collecting a result is invisible since the verdict was read off `done` before. `ContractInvariant` is what the mapping needs besides `BatchInvariant` and `ReadInvariant`:
the line is the batch that is next, request by request, and merging them one at a time is combining them at once (`LineIsPending`, `LongerLine`); a control that ends well has the unit's consent
(`ControlProgress`); everything a command can be built on was the unit's state once (`PastStates`). The two assumptions are those of the promise: `MaxSlots = 1`, as a unit that is replaced leaves its old
calls on the old slot (section 4), and `PanicUnwinds = FALSE`, the release profile, as a panic that unwinds leaves its requests without an outcome. The proof changed the mapping: two guards of `Verdict` overlapped.

*Session.* `Bounded` says nothing of the middle of an exchange; `InTime` does: the ticks so far and the most this attempt may yet take (`Remaining`, by where the exchange is: the deadline under way, the sends it has left,
the linger window, the handshake's pause and what comes after it) are within what the attempts begun may take. Each action keeps the sum or lowers it, a tick passes only when a deadline is being waited for (`TickStep`), and a
failed attempt brings the allowance of the next one with it (`FailStep`). For this, `Places` says which half of an attempt the exchange is in. The same invariant carries `Accounted`. Nothing is assumed of the timing
but that it is given in natural numbers, and nothing of the unit.
`RightReply` needs more (`Timely`): a unit that does not stall answers within the reply timeout and within the linger window, and it stalls once at most, as with the durations of `Timing::default`. `AnswerInvariant`: all there is on the connection,
arrived, before the unit, in its hands or in part, is addressed to the current request (`Addressed`), and is no more than was sent (`Few`). Before the second send the answer comes in time or the unit has used its stall; after it, a second answer that is still out
comes within the linger window, so between exchanges the connection is clean (`Lingering`, `Done`).

*What a session carries.* These theorems are about inputs rather than states, and those of the runs are instances of them (`UnitsAreHeld`, `RequestsAreAny`, `TypedAreWords`, `ListsAreReportable`).
A command: the report tells what the unit holds (`ReportIsRead`; one in the old way only of 16 to 31.5 degrees, `Tells`), the change what the request says (`ChangeIs`), and what is written is taken as it was meant (`CommandIsTaken`), each bit by bit where fields share a byte.
Words: where a timer is inserted, taking it out again leaves the words in their slots (`RemoveInserted`, `TimerInserted`), so the same command comes out (`TimerMoves`). Names: a unit that is added moves the others in the list but no match is lost (`Inserted`), so where one is left, it is
the same one or the new one (`OnlyNewOne`).
Lists of records: what records say together is defined without an order (`Says`), and `parse` keeps to it record by record (`ApplySays`, `OneRecord`, `ParsedIs`), as `merge` does for two answers (`MergeSays`). Where the nth record begins is a matter of lengths alone (`Layout`,
`PageIs`), so a page that is cut off has its whole records where the page had them, and too little after them for another (`CutPage`). Ids differ, since of two records with one id the later one counts within an answer, and across two both do.
`parse` and `FlattenSeq` are recursive functions, which are defined as whatever satisfies their equation: that there is one, and what it is, is shown for each length by `Induct`, a statement about a set of numbers, which a least number outside the set refutes (`Least`, from the well-founded order of the naturals).

*Timers.* `TimerInvariant` follows a timer by its id. An id names one timer wherever a copy of it is (`Numbered`); a pass holds all that was due when it began, and what it
has come past is over (`PassUnderWay`); only what is due was ever tried (`TriedWhenDue`), so a timer cancelled earlier was not, and it is neither on disk nor in the pass (`QuietAreGone`); a timer was tried
at most once for each restart, and once more only if it is behind the pass or is the one it is at, with that unit done (`TriedOnce`). `OneEach` is `OnePerUnit` of the file, from which memory inherits it; that is what a restart needs.

*Scheduler.* A trigger that fired was claimed for its minute or, by now, for a later one (`Counted`), and none is claimed for a minute ahead of the pass (`Claims`), though ids of
entries that are edited are claimed anew: `OncePerMinute` needs both, and that the thread's minute is not ahead of the clock's (`ClockType`). `StoreInvariant`: an id names one program, in memory and on
file, and what is listed is a program `into_program` returned. `NudgeInvariant` follows a nudge through the copy a pass works on: what a unit was last sent is what is remembered of it (`Remembered`), every
version of the program that the pass may still come to wants just that (`StillWanted`), a unit that a curve is about to command was last sent something else (`InHand`), and a pass that ended has left nothing behind (`AtRest`). So a nudge between check and command is not one to be kept. `ListedSurvives` needs
`LateFailures = FALSE`: after a failure between the rename and `set_mode` memory is rolled back and the file is not (section 4).
`TriggersLandInTheirMinute` assumes nothing of how long a pass takes. `OwedInvariant` says of each trigger that is owed: its program is in the list and, if the pass knows it, the pass has it as it is listed
(`Listed`, `Same`); its entry was not claimed for that minute (`Unclaimed`), and a pass of that minute has the program or the entry still before it (`Ahead`); or, where no pass of that minute has begun, the minute is not over (`InTime`): a minute that ends without one is what `SleptOver` tells. Entries are claimed by their place in a list, so an edit
could leave a claim behind for an entry that is new: `Claims` says that such a claim is not of the minute to come.

`CurvesAreTracked` has two halves. `TrackInvariant`: a unit of a curve was told what the curve wants at the minute of the pass, or the pass has it still before it (`Tracking`), and what is remembered of a unit was sent to it (`Instructed`). And for every list of points at
distinct times, every minute and every length of a day, the setpoint the code finds by walking its segments is on the line that `OnTheLine` draws (`CurveOnTheLine`): the points can be put in the order of the day (`DayOrderExists`: by how many are earlier), between a point and the next in
that order lies no other, around midnight (`NothingBetween`), so the one segment that reaches as far as now begins at the latest point so far and ends at the one furthest back (`OnSegment`, `SegmentExists`), and the nearest half degree to a value between two temperatures of the range is
no more than half of one away and in the range (`HalfDegrees`, `Between`). `SpecAssumption` is the types of `ProgramSpec`, `CurveSpec` and `CurvePoint`, and that programs are for units there are.
Its type invariant says of every program in memory, on file and in a pass that `into_program` leaves it as it is, so that nothing is stored that a client could not have stored: the mode of a curve is already in upper case (`StoredAsItIs`).

*Server.* A program is good if one can say, before each of its steps, which locks its thread holds there, and each step fits what is held: a wait is for a lock that comes after all of those in one order (the scan's, the configuration, the list of units, and last the unit's own, the devices and the poller's),
only the unit's and the scan's locks are held where the unit is asked, nothing where the client is waited for or a request may end, and what is done with a lock that was only tried comes to giving it back (`Leads`). Programs that leave a thread with the locks it had (`Keeps`) can be put one after the other, under a lock, or under one that is tried (`BothKeep`, `HoldingKeeps`,
`IfFreeKeeps`), and every route and pass is built so; that is one line for each of them. `ThreadInvariant`: what is left of each thread's program is good for what the thread holds, and only writers stand in line. Of threads that wait, one that waits for a last lock in the order waits for nobody who waits, or for a writer in line who does not (`NoDeadlock`). That
a `RwLock` lets no reader pass a writer costs nothing then. `ServerAssumption` names the four threads of the background and says that the bounds are naturals.

*StateStream.* `StreamInvariant` says what a client still has to get about each unit: what is queued for it ends with the state the poller stored, or nothing is queued
and that state is the one shown, or the event was dropped, or a lane has stored the state and has yet to broadcast it (`Current`; `LanesBusy` for what a lane carries, `Untouched` for
streams that have not subscribed).

*Pairing.* `PairingInvariant` keeps each device in one place: waiting for approval, between mint and store, in the store, or out of it (`Separate`); a client with a session has
no credential yet, and with one it starts no other (`OneCode`); and the credential a client has, or will have when it polls, is the one in memory and on file (`Agreed`).

*Config.* `DrivenAsListed` speaks of the moments when nobody holds the configuration; in between, the manager is one step behind what is listed, and the request that has the write lock says
which step, and that what can still be undone takes no credentials (`LockInvariant`). For the file, `FileInvariant` says who writes what: until `overlapped`, only one of the two processes is between opening and renaming,
the node it has open is the temporary one and no other, and what is in that when it is whole is the document the process is saving (`Writers`); so what is under the name is whole, and is what memory has, or had before the change whose
save has not come to the rename, unless `apart` names the reason (`OnFile`). `KeysKept` needs in addition that the command line's copy has all that the file has until the server saves (`UpToDate`), and that what a request
looking for the lock brings is a unit it found (`FoundAdds`).

*Proxy.* `PutBack` speaks of the states where nothing is under way; `ProxyInvariant` says of every state how the machine gets back there. A file is as it was, or a step that is still ahead, in the journal
in memory, in the recorded one or in what is left to reverse, says how it becomes so: it is removed, or a backup with the old content is copied back (`FilesReversible`, likewise `SitesReversible` for the
sites and `LiveReversible` for what is loaded). The order of the steps matters where a file has two: a backup is copied before it is dropped. `Originals` adds to `OriginalKept` that the last run began with the person's own
files, unless `again`; that is what makes a later backup as good as the first.

*Fetch.* Whoever answers a hello is heard because the deadline is set after the last hello went out, a whole window from then, and an answer takes less than a window (`InTime`): an answer of a host that was asked is seen or still on
its way in time (`Accounted`). Of the clouds, with no request lost, what the clients make of the answers is what is so: which clouds have the account and whether the password fits (`KnownIsTrue`, `OwnerGetsToken`), though the same error code means different things
in each. And whatever is lost, a token that comes out is that of the unit that was asked for (`TokenIsIts`), and a password is only asked for by the clouds after a login id was given out for the account (`PasswordToOne`). `FetchInv` follows the conversation:
what each question leaves to do (`Course`), that every cloud is asked about the account before one is picked (`Inquiry`), that the one that is picked is the only one that was sent the password (`SentToOne`), that each unit that was wanted has its token, is
reported missing or still has its turn (`Turns`), and what has been said up to now (`Sayings`). `SecretsInPlace` and `FairVerdicts` follow from it, and `ExitTellsAll` from `Turns`. `FetchAssumption` is the types of the constants; `CloudsAssumption` says that the home of each unit is among those the account lists and is not called "v1", which
is how the code writes that a request goes without one.

Every invariant of every run that passes is stated by a theorem. Only model-checked: the liveness properties (`EveryCallReturns`, `Answered`) and the deadlock checks, which are outside the prover's reach.
`RightReply` is proved for the timings named above and is false for others (section 4).

## 6. What is not modelled

Frames, packets, checksums and cryptography (`frame.rs`, `packet.rs`, `crc8.rs`, `security.rs`, `signing.rs`) are pure functions with recorded test vectors, and what they carry is modelled without them. Routes that only
read (`units`, `history`, `metrics`, `system`, `panel`) have no effect on the state above; `history.rs` keeps a ring buffer whose one operation drops the oldest. Device records that expire (`AC_TOKEN_TTL_DAYS`),
`last_used` (never written to the file) and clients whose clock is ahead are left out of `Pairing`. A nonce is remembered for the accepted skew from its receipt, which covers the window of its timestamp only when
the client's clock is not ahead of the server's. The questions of `pair`, and the command line tools other than `control`, `fetch` and `proxy`, run once, one step after the other, and keep nothing.
The clouds' signatures, and what their servers really do beyond what the repository's tests and comments say of them, are outside. Conversions of names and temperatures are left out where no property looks at them.

## 7. Plan

Next, in this order:
1. Proofs: what `LateFailures` leaves of `ReportedSurvives`.
2. What a panic does to a worker, and the in-use window of the keep-warm thread.
3. The expiry of device records.
