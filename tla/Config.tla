------------------------------- MODULE Config -------------------------------
(***************************************************************************)
(* config.json and those who write it: the unit-management routes          *)
(* (crates/breeze-http/src/config_routes.rs), the manager they keep in     *)
(* step (breeze-device/src/manager.rs), `breeze-core pair' and `fetch'     *)
(* (breeze-core/src/cli), and save and load (breeze-store/src/store.rs).   *)
(*                                                                         *)
(* A document is a function from the units it lists to their entries: an   *)
(* address, whether token and key are there, a name.  All checks of a      *)
(* request's form come before anything modelled here.  The server and the  *)
(* command line are two processes, and a file is a node of the file system *)
(* under a name, since both write the same temporary file.                 *)
(***************************************************************************)
EXTENDS Naturals, FiniteSets

CONSTANTS
    Units,        \* the air conditioners there are
    Addresses,
    Off,          \* the address of a unit that does not answer
    Names,        \* names clients ask for
    NoName,       \* no name in the request
    Generated,    \* "AC <address>"
    Workers,      \* server threads
    Torn,         \* a file that is not a whole document
    NoRequest,
    MaxChanges,   \* bound: requests
    MaxRuns,      \* bound: runs of the command line
    MaxMoves,     \* bound: units that change address
    MaxFaults     \* bound: saves that fail and processes that die

Entry     == [at : Addresses, key : BOOLEAN, name : Names \cup {Generated}]
Documents == UNION {[us -> Entry] : us \in SUBSET Units}
Requests  == [kind : {"add", "rename", "delete"}, unit : Units, at : Addresses \cup {Off},
              key : BOOLEAN, name : Names \cup {NoName}]

Procs == {"server", "cli"}
Other(p) == CHOOSE q \in Procs : q # p
Nodes == 1 .. 4
NoNode == 0

ASSUME ConfigAssumption ==
    /\ IsFiniteSet(Units) /\ IsFiniteSet(Workers)
    /\ Off \notin Addresses /\ NoName \notin Names \cup {Generated}
    /\ Torn \notin Documents /\ NoRequest \notin Requests
    /\ {MaxChanges, MaxRuns, MaxMoves, MaxFaults} \subseteq Nat

VARIABLES
    lives,      \* where each unit answers
    up,         \* the server runs
    mem,        \* AppState.config
    prev,       \* `previous', what a failed save goes back to; mem when no change is unsaved
    slots,      \* DeviceManager.units: what each is driven by
    pc,         \* where each worker is: "changed" and "saved" hold the write lock
    request,    \* what it is doing
    cli,        \* the command that runs, or "idle"
    copy,       \* its AppConfig
    path, tmp,  \* the nodes that config.json and config.tmp name
    content,    \* what is in each node
    fd,         \* the node a process is writing
    stage,      \* how far its save is
    apart,      \* history: why file and memory may differ: "late" failure, "foreign" save
    behind,     \* history: the server saved after the command line loaded
    overlapped, \* history: a save began while the other process's was under way
    changes, runs, moves, faults     \* counted for the bounds

fileVars   == <<path, tmp, content, fd>>
serverVars == <<up, mem, prev, slots, pc, request>>
cliVars    == <<cli, copy>>
histVars   == <<apart, behind, overlapped>>
bounds     == <<changes, runs, moves, faults>>
vars == <<lives, serverVars, cliVars, fileVars, stage, histVars, bounds>>

Without(table, us) == [u \in DOMAIN table \ us |-> table[u]]
With(table, u, value) == [x \in DOMAIN table \cup {u} |-> IF x = u THEN value ELSE table[x]]
Empty == [u \in {} |-> Torn]

disk   == content[path]
Whole  == disk # Torn

Locked == \E w \in Workers : pc[w] \in {"changed", "saved"}

\* AppConfig::add_or_update_unit: credentials are only overwritten with credentials.
\*   Mutant: they are overwritten.
Overwrite(doc, u, entry) == With(doc, u, entry)
AddOrUpdate(doc, u, entry) ==
    With(doc, u, IF u \in DOMAIN doc THEN [entry EXCEPT !.key = @ \/ doc[u].key] ELSE entry)
-----------------------------------------------------------------------------
Init ==
    /\ lives \in [Units -> Addresses \cup {Off}]
    /\ \A u, v \in Units : lives[u] = lives[v] => u = v \/ lives[u] = Off
    /\ up = TRUE
    /\ mem \in {[u \in us |-> [at |-> lives[u], key |-> TRUE, name |-> Generated]] :
                    us \in SUBSET {u \in Units : lives[u] # Off}}
    /\ prev = mem /\ slots = mem
    /\ pc = [w \in Workers |-> "idle"]
    /\ request = [w \in Workers |-> NoRequest]
    /\ cli = "idle" /\ copy = Empty
    /\ path = 1 /\ tmp = NoNode
    /\ content = [n \in Nodes |-> IF n = 1 THEN mem ELSE Torn]
    /\ fd = [p \in Procs |-> NoNode]
    /\ stage = [p \in Procs |-> "none"]
    /\ apart = {} /\ behind = FALSE /\ overlapped = FALSE
    /\ changes = 0 /\ runs = 0 /\ moves = 0 /\ faults = 0
-----------------------------------------------------------------------------
(* save: a temporary file, renamed into place.                             *)

ToSave(p) == IF p = "server" THEN mem ELSE copy

\* fs::write opens and truncates the temporary file, whoever has it already.
Fresh == CHOOSE n \in Nodes : n \notin {path, tmp} \cup {fd[p] : p \in Procs}
Open(p) ==
    /\ stage[p] = "ready"
    /\ tmp' = IF tmp = NoNode THEN Fresh ELSE tmp
    /\ fd' = [fd EXCEPT ![p] = tmp']
    /\ content' = [content EXCEPT ![tmp'] = Torn]
    /\ stage' = [stage EXCEPT ![p] = "open"]
    /\ overlapped' = (overlapped \/ stage[Other(p)] \in {"open", "written"})
    /\ UNCHANGED <<lives, serverVars, cliVars, path, apart, behind, bounds>>

\* Two writers of one node may leave a mixture.
Write(p) ==
    /\ stage[p] = "open"
    /\ content' \in {[content EXCEPT ![fd[p]] = c] :
                         c \in {ToSave(p)} \cup (IF fd[p] = fd[Other(p)] THEN {Torn} ELSE {})}
    /\ fd' = [fd EXCEPT ![p] = NoNode]
    /\ stage' = [stage EXCEPT ![p] = "written"]
    /\ UNCHANGED <<lives, serverVars, cliVars, path, tmp, histVars, bounds>>

\* The node that loses its name is gone.
Replace(p) ==
    /\ stage[p] = "written" /\ tmp # NoNode
    /\ path' = tmp /\ tmp' = NoNode
    /\ content' = [content EXCEPT ![path] = Torn]
    /\ stage' = [stage EXCEPT ![p] = "renamed"]
    /\ apart' = IF p = "server" THEN {} ELSE apart \cup {"foreign"}
    /\ behind' = (behind \/ (p = "server" /\ cli # "idle"))
    /\ UNCHANGED <<lives, serverVars, cliVars, fd, overlapped, bounds>>

\* set_mode on the store succeeded, and persist returns.
Saved(p) ==
    /\ stage[p] = "renamed"
    /\ stage' = [stage EXCEPT ![p] = "none"]
    /\ IF p = "server"
       THEN /\ pc' = [w \in Workers |-> IF pc[w] = "changed" THEN "saved" ELSE pc[w]]
            /\ prev' = mem
            /\ UNCHANGED <<cliVars, behind>>
       ELSE cli' = "idle" /\ copy' = Empty /\ behind' = FALSE /\ UNCHANGED <<pc, prev>>
    /\ UNCHANGED <<lives, up, mem, slots, request, fileVars, apart, overlapped, bounds>>

\* Any step of it may fail, renaming does when the file is gone; the routes put
\* back what was there before and answer 500, the command line gives up.
\*   Mutant: the change stays in memory.
Fails(p) ==
    /\ stage[p] # "none"
    /\ \/ faults < MaxFaults /\ faults' = faults + 1
       \/ stage[p] = "written" /\ tmp = NoNode /\ UNCHANGED faults
    /\ stage' = [stage EXCEPT ![p] = "none"]
    /\ fd' = [fd EXCEPT ![p] = NoNode]
    /\ apart' = IF p = "server" /\ stage[p] = "renamed" THEN {"late"} ELSE apart
    /\ UNCHANGED <<lives, up, slots, path, tmp, content, overlapped, changes, runs, moves>>
ServerGivesUp(doc) ==
    /\ mem' = doc /\ prev' = doc
    /\ pc' = [w \in Workers |-> IF pc[w] = "changed" THEN "idle" ELSE pc[w]]
    /\ request' = [w \in Workers |-> IF pc[w] = "changed" THEN NoRequest ELSE request[w]]
CliGivesUp == cli' = "idle" /\ copy' = Empty /\ behind' = FALSE
NoRollBack ==
    \/ Fails("server") /\ ServerGivesUp(mem) /\ UNCHANGED <<cliVars, behind>>
    \/ Fails("cli") /\ CliGivesUp /\ UNCHANGED <<mem, prev, pc, request>>
SaveFails ==
    \/ Fails("server") /\ ServerGivesUp(prev) /\ UNCHANGED <<cliVars, behind>>
    \/ Fails("cli") /\ CliGivesUp /\ UNCHANGED <<mem, prev, pc, request>>
-----------------------------------------------------------------------------
(* The routes.                                                             *)

\* add_unit asks whoever is at the address, before it takes the lock; the cloud
\* may supply the credentials.
AddFinds(w, at, key, name) ==
    /\ up /\ pc[w] = "idle" /\ changes < MaxChanges
    /\ \E u \in Units :
          /\ lives[u] = at
          /\ request' = [request EXCEPT ![w] =
                [kind |-> "add", unit |-> u, at |-> at, key |-> key, name |-> name]]
    /\ pc' = [pc EXCEPT ![w] = "found"]
    /\ changes' = changes + 1
    /\ UNCHANGED <<lives, up, mem, prev, slots, cliVars, fileVars, stage, histVars, runs, moves,
                   faults>>

\* Under the write lock, which is kept until the manager is told.
Change(w, doc) ==
    /\ ~Locked
    /\ prev' = mem /\ mem' = doc
    /\ pc' = [pc EXCEPT ![w] = "changed"]
    /\ stage' = [stage EXCEPT !["server"] = "ready"]
    /\ UNCHANGED <<lives, up, slots, cliVars, fileVars, histVars, runs, moves, faults>>

\* The name given, else the one it has, else a generated one.
NameFor(doc, u, name) ==
    IF name # NoName THEN name
    ELSE IF u \in DOMAIN doc THEN doc[u].name ELSE Generated

AddStores(w) ==
    /\ pc[w] = "found"
    /\ LET r == request[w] IN
          Change(w, AddOrUpdate(mem, r.unit,
                       [at |-> r.at, key |-> r.key, name |-> NameFor(mem, r.unit, r.name)]))
    /\ UNCHANGED <<request, changes>>

Begins(w, kind, u, name) ==
    /\ up /\ pc[w] = "idle" /\ changes < MaxChanges
    /\ u \in DOMAIN mem
    /\ request' = [request EXCEPT ![w] =
          [kind |-> kind, unit |-> u, at |-> Off, key |-> FALSE, name |-> name]]
    /\ changes' = changes + 1

RenameUnit(w, u, name) ==
    /\ Begins(w, "rename", u, name)
    /\ Change(w, [mem EXCEPT ![u].name = name])

DeleteUnit(w, u) ==
    /\ Begins(w, "delete", u, NoName)
    /\ Change(w, Without(mem, {u}))

\* DeviceManager::upsert, rename and remove, then the reply.
\*   Mutant: an added unit is driven by what the request said.
DrivesRequest(r) ==
    CASE r.kind = "add"    -> With(slots, r.unit, [mem[r.unit] EXCEPT !.key = r.key])
      [] r.kind = "rename" -> [slots EXCEPT ![r.unit].name = r.name]
      [] r.kind = "delete" -> Without(slots, {r.unit})
Driven(r) ==
    CASE r.kind = "add"    -> With(slots, r.unit, mem[r.unit])
      [] r.kind = "rename" -> [slots EXCEPT ![r.unit].name = r.name]
      [] r.kind = "delete" -> Without(slots, {r.unit})

TellManager(w) ==
    /\ pc[w] = "saved"
    /\ slots' = Driven(request[w])
    /\ pc' = [pc EXCEPT ![w] = "idle"]
    /\ request' = [request EXCEPT ![w] = NoRequest]
    /\ UNCHANGED <<lives, up, mem, prev, cliVars, fileVars, stage, histVars, bounds>>
-----------------------------------------------------------------------------
(* The command line.                                                       *)

\* Both commands load the store first; `pair' starts afresh from one that does not
\* parse, `fetch' does not start, nor has it anything to do in an empty one.
CliLoads(command) ==
    /\ cli = "idle" /\ runs < MaxRuns
    /\ Whole \/ command = "pair"
    /\ runs' = runs + 1
    /\ cli' = command
    /\ copy' = IF Whole THEN disk ELSE Empty
    /\ UNCHANGED <<lives, serverVars, fileVars, stage, histVars, changes, moves, faults>>

\* Listening, questions and sign-in later, it saves what it loaded, changed: `pair' adds
\* or updates what answered, asking for credentials that are missing (and for names,
\* which are left out), ...
PairSaves(found, typed) ==
    /\ cli = "pair" /\ stage["cli"] = "none"
    /\ found # {} /\ \A u \in found : lives[u] # Off
    /\ typed \subseteq {u \in found : u \in DOMAIN copy => ~copy[u].key}
    /\ copy' = [u \in DOMAIN copy \cup found |->
          IF u \notin found THEN copy[u]
          ELSE [at   |-> lives[u],
                key  |-> u \in typed \/ (u \in DOMAIN copy /\ copy[u].key),
                name |-> NameFor(copy, u, NoName)]]
    /\ stage' = [stage EXCEPT !["cli"] = "ready"]
    /\ UNCHANGED <<lives, serverVars, cli, fileVars, histVars, bounds>>

\* ... `fetch' fills in credentials.
FetchSaves(got) ==
    /\ cli = "fetch" /\ stage["cli"] = "none"
    /\ got # {} /\ got \subseteq DOMAIN copy
    /\ copy' = [u \in DOMAIN copy |-> [copy[u] EXCEPT !.key = @ \/ u \in got]]
    /\ stage' = [stage EXCEPT !["cli"] = "ready"]
    /\ UNCHANGED <<lives, serverVars, cli, fileVars, histVars, bounds>>

\* Nothing answers, nothing is needed, or somebody interrupts it.
CliEnds ==
    /\ cli # "idle"
    /\ \/ stage["cli"] = "none" /\ UNCHANGED faults
       \/ stage["cli"] # "none" /\ faults < MaxFaults /\ faults' = faults + 1
    /\ cli' = "idle" /\ copy' = Empty /\ behind' = FALSE
    /\ stage' = [stage EXCEPT !["cli"] = "none"]
    /\ fd' = [fd EXCEPT !["cli"] = NoNode]
    /\ UNCHANGED <<lives, serverVars, path, tmp, content, apart, overlapped, changes, runs, moves>>
-----------------------------------------------------------------------------
\* The server dies, and a new one loads the store (AppState::load). It does not start
\* with one that does not parse, nor with an empty one, which has no API key.
Restart ==
    /\ IF up THEN faults < MaxFaults /\ faults' = faults + 1
             ELSE Whole /\ UNCHANGED faults
    /\ up' = Whole
    /\ mem' = IF Whole THEN disk ELSE Empty
    /\ prev' = mem' /\ slots' = mem'
    /\ pc' = [w \in Workers |-> "idle"] /\ request' = [w \in Workers |-> NoRequest]
    /\ stage' = [stage EXCEPT !["server"] = "none"]
    /\ fd' = [fd EXCEPT !["server"] = NoNode]
    /\ apart' = {}
    /\ UNCHANGED <<lives, cliVars, path, tmp, content, behind, overlapped, changes, runs, moves>>

\* A unit goes away, comes back, or gets another address.
Moves(u, at) ==
    /\ moves < MaxMoves /\ at # lives[u]
    /\ at = Off \/ \A v \in Units : lives[v] # at
    /\ moves' = moves + 1
    /\ lives' = [lives EXCEPT ![u] = at]
    /\ UNCHANGED <<serverVars, cliVars, fileVars, stage, histVars, changes, runs, faults>>

Save(p) == Open(p) \/ Write(p) \/ Replace(p) \/ Saved(p)

\* Nothing is under way.
Rest == cli = "idle" /\ (\A w \in Workers : pc[w] = "idle") /\ UNCHANGED vars

Next ==
    \/ \E p \in Procs : Save(p)
    \/ SaveFails
    \/ \E w \in Workers :
          \/ \E at \in Addresses, key \in BOOLEAN, name \in Names \cup {NoName} :
                AddFinds(w, at, key, name)
          \/ AddStores(w)
          \/ \E u \in Units : DeleteUnit(w, u) \/ \E name \in Names : RenameUnit(w, u, name)
          \/ TellManager(w)
    \/ \E command \in {"pair", "fetch"} : CliLoads(command)
    \/ \E found, typed \in SUBSET Units : PairSaves(found, typed)
    \/ \E got \in SUBSET Units : FetchSaves(got)
    \/ CliEnds
    \/ Restart
    \/ \E u \in Units, at \in Addresses \cup {Off} : Moves(u, at)
    \/ Rest

Spec == Init /\ [][Next]_vars
-----------------------------------------------------------------------------
(* Properties.                                                             *)

\* Every variable holds a value of its kind.
TypeOK ==
    /\ lives \in [Units -> Addresses \cup {Off}] /\ up \in BOOLEAN
    /\ {mem, prev, slots, copy} \subseteq Documents
    /\ pc \in [Workers -> {"idle", "found", "changed", "saved"}]
    /\ request \in [Workers -> Requests \cup {NoRequest}]
    /\ \A w \in Workers : pc[w] = "idle" <=> request[w] = NoRequest
    /\ cli \in {"idle", "pair", "fetch"}
    /\ path \in Nodes /\ tmp \in (Nodes \ {path}) \cup {NoNode}
    /\ content \in [Nodes -> Documents \cup {Torn}]
    /\ fd \in [Procs -> Nodes \cup {NoNode}]
    /\ stage \in [Procs -> {"none", "ready", "open", "written", "renamed"}]
    /\ apart \subseteq {"late", "foreign"} /\ behind \in BOOLEAN /\ overlapped \in BOOLEAN

\* upsert, rename and remove ("Make it drivable immediately"): whenever nobody holds
\* the configuration, the manager drives what it lists, by what it lists.
DrivenAsListed == up /\ ~Locked => slots = mem

\* rename_unit ("or the API reports a rename that a restart undoes"), save ("a crash or
\* a full disk cannot leave a truncated store behind"): the file is a whole document, and
\* what a restart would load is what is listed, or, in the middle of a change, what was:
\* all of it or nothing.  Unless two processes saved at once; and what it lists, unless a
\* save failed after its rename or the command line has saved since.
ListedSurvives ==
    ~overlapped =>
        /\ Whole
        /\ up /\ apart = {} => disk \in {mem, prev}

\* add_or_update_unit ("must not silently unpair it"): a save of an up-to-date copy
\* loses no unit's credentials, whatever was added, moved, renamed or found again.
KeysKept ==
    [][\A p \in Procs :
          stage[p] = "written" /\ stage'[p] = "renamed" /\ ~overlapped
          /\ (p = "server" => apart = {}) /\ (p = "cli" => ~behind) =>
             \A u \in DOMAIN disk \cap DOMAIN disk' : disk[u].key => disk'[u].key]_vars
=============================================================================
