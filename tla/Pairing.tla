------------------------------- MODULE Pairing -------------------------------
(***************************************************************************)
(* Pairing a phone, and what is kept of it: the enrolment table            *)
(* (crates/breeze-auth/src/enroll.rs), the device store behind the         *)
(* /api/auth routes (crates/breeze-http/src/auth_routes.rs), and the check *)
(* every request passes (verify.rs, nonce.rs).                             *)
(*                                                                         *)
(* A device stands for one client, its pairing session and the record      *)
(* approval mints for it.  A credential is its scheme and a serial number, *)
(* one for each key the device has had.  Handlers that take two locks one  *)
(* after the other are two steps: `approve' mints under the enrolment lock *)
(* and stores under the device lock, `upgrade' is authorised under a read  *)
(* lock and applied under the write lock.  A tick is CODE_TTL_SECONDS and  *)
(* the accepted clock skew, which are both a minute.                       *)
(***************************************************************************)
EXTENDS Naturals, FiniteSets

CONSTANTS
    Devices,       \* clients that want to be paired
    Nobody,        \* no credential
    CodeTTL,       \* CODE_TTL_SECONDS, in ticks
    MinVersion,    \* min_auth_version
    MaxClock, MaxUpgrades, MaxFailures, MaxRestarts   \* bounds

ASSUME PairingAssumption ==
    /\ IsFiniteSet(Devices)
    /\ {CodeTTL, MaxClock, MaxUpgrades, MaxFailures, MaxRestarts} \subseteq Nat
    /\ MinVersion \in {1, 2}
    /\ Nobody \notin [version : {1, 2}, serial : Nat]

VARIABLES
    clock,
    sessions,    \* EnrollmentService.sessions, device -> Session
    minted,      \* records approve has minted and not stored yet
    upgrading,   \* upgrades that were authorised and not applied yet
    mem, disk,   \* the device store: device -> credential
    spent,       \* devices with a nonce in NonceCache.seen
    holds,       \* what each client has
    answers,     \* the reason of the last refusal, "none" after an acceptance
    upgrades, failures, restarts,    \* counted for the bounds
    started,     \* history: when the pairing code was given out
    collected,   \* history: how often a credential was handed over
    collectedAt, \* history: and when
    revoked,     \* history: devices whose revocation was answered 204
    cut,         \* history: and 500
    unsaved,     \* history: devices whose record the file does not have, a write having failed
    lost         \* history: the ones a restart forgot

doorVars == <<sessions, minted, upgrading>>
bounds   == <<upgrades, failures, restarts>>
hist     == <<started, collected, collectedAt, revoked, cut, unsaved, lost>>
vars == <<clock, doorVars, mem, disk, spent, holds, answers, bounds, hist>>

Credential == [version : {1, 2}, serial : Nat]
First(version) == [version |-> version, serial |-> 0]
Without(table, ds) == [d \in DOMAIN table \ ds |-> table[d]]
With(table, d, value) == [x \in DOMAIN table \cup {d} |-> IF x = d THEN value ELSE table[x]]
Empty == [d \in {} |-> Nobody]
Minting == {record.device : record \in minted}

Init ==
    /\ clock = 0
    /\ sessions = Empty /\ minted = {} /\ upgrading = {}
    /\ mem = Empty /\ disk = Empty
    /\ spent = {}
    /\ holds = [d \in Devices |-> Nobody]
    /\ answers = [d \in Devices |-> "none"]
    /\ upgrades = 0 /\ failures = 0 /\ restarts = 0
    /\ started = [d \in Devices |-> 0]
    /\ collected = [d \in Devices |-> 0] /\ collectedAt = [d \in Devices |-> 0]
    /\ revoked = {} /\ cut = {} /\ unsaved = {} /\ lost = {}
-----------------------------------------------------------------------------
(* The enrolment table.                                                    *)

\* sweep: every call drops the sessions past their expiry, approved or not.
Swept == Without(sessions, {d \in DOMAIN sessions : sessions[d].expires < clock})

Expiry == clock + CodeTTL

\* start: a code for a client that is not paired, under either scheme.
Start(d, version) ==
    /\ d \notin DOMAIN sessions /\ d \notin DOMAIN mem /\ d \notin Minting
    /\ holds[d] = Nobody /\ d \notin revoked \cup cut \cup lost
    /\ sessions' = With(Swept, d, [expires |-> Expiry, version |-> version,
                                   approved |-> FALSE])
    /\ started' = [started EXCEPT ![d] = clock]
    /\ UNCHANGED <<clock, minted, upgrading, mem, disk, spent, holds, answers, bounds,
                   collected, collectedAt, revoked, cut, unsaved, lost>>

\* approve, under the enrolment lock: the session with that code gets a record.
Approve(d) ==
    /\ d \in DOMAIN Swept
    /\ ~Swept[d].approved
    /\ sessions' = [Swept EXCEPT ![d].approved = TRUE]
    /\ minted' = minted \cup {[device |-> d, version |-> Swept[d].version]}
    /\ UNCHANGED <<clock, upgrading, mem, disk, spent, holds, answers, bounds, hist>>

\* A code nobody has, or one that was used: only the sweep is left of the call.
ApproveNothing ==
    /\ sessions' = Swept /\ sessions' # sessions
    /\ UNCHANGED <<clock, minted, upgrading, mem, disk, spent, holds, answers, bounds, hist>>

\* poll: an approved session is consumed, its credential handed over.
Consumed(d) == Without(Swept, {d})

Poll(d) ==
    /\ d \in DOMAIN Swept
    /\ Swept[d].approved
    /\ sessions' = Consumed(d)
    /\ holds' = [holds EXCEPT ![d] = First(Swept[d].version)]
    /\ collected' = [collected EXCEPT ![d] = @ + 1]
    /\ collectedAt' = [collectedAt EXCEPT ![d] = clock]
    /\ UNCHANGED <<clock, minted, upgrading, mem, disk, spent, answers, bounds, started,
                   revoked, cut, unsaved, lost>>
-----------------------------------------------------------------------------
(* The device store.  The file is replaced as a whole; a write that fails  *)
(* may have done so before it failed (store::save, set_mode).              *)

Saved ==
    /\ disk' = mem'
    /\ unsaved' = {}
    /\ UNCHANGED failures
SaveFails(doc) ==
    /\ failures < MaxFailures
    /\ failures' = failures + 1
    /\ disk' \in {disk, doc}

\* persist_new_device: a failed write is answered 500, the record stays.
Persist ==
    \E record \in minted :
        /\ minted' = minted \ {record}
        /\ mem' = With(mem, record.device, First(record.version))
        /\ \/ Saved
           \/ /\ SaveFails(mem')
              /\ unsaved' = IF disk' = mem' THEN {} ELSE unsaved \cup {record.device}
        /\ UNCHANGED <<clock, sessions, upgrading, spent, holds, answers, upgrades, restarts,
                       started, collected, collectedAt, revoked, cut, lost>>

\* revoke: a failed write is answered 500, the device is out of memory.
Revoke(d) ==
    /\ d \in DOMAIN mem
    /\ mem' = Without(mem, {d})
    /\ \/ Saved /\ revoked' = revoked \cup {d} /\ UNCHANGED cut
       \/ /\ SaveFails(mem')
          /\ cut' = cut \cup {d}
          /\ unsaved' = IF disk' = mem' THEN {} ELSE unsaved
          /\ UNCHANGED revoked
    /\ UNCHANGED <<clock, doorVars, spent, holds, answers, upgrades, restarts,
                   started, collected, collectedAt, lost>>

\* upgrade: the record is found again under the write lock and re-keyed; a
\* failed write is rolled back.
\*   Mutants: the new key stays in memory; the record found when the request was
\*   authorised is stored.
RolledBackNot(d) == mem' = With(mem, d, [version |-> 2, serial |-> mem[d].serial + 1])
RolledBack(d) == mem' = mem
FoundWhenAuthorised(d) == TRUE
Found(d) == d \in DOMAIN mem

Upgrade(d) ==
    /\ d \in upgrading
    /\ upgrading' = upgrading \ {d}
    /\ IF Found(d)
       THEN LET key == [version |-> 2, serial |-> holds[d].serial + 1] IN
            \/ mem' = With(mem, d, key) /\ Saved /\ holds' = [holds EXCEPT ![d] = key]
            \/ /\ RolledBack(d) /\ SaveFails(With(mem, d, key))
               /\ unsaved' = IF disk' = disk THEN unsaved ELSE {d}
               /\ UNCHANGED holds
       ELSE UNCHANGED <<mem, disk, holds, failures, unsaved>>
    /\ UNCHANGED <<clock, sessions, minted, spent, answers, upgrades, restarts,
                   started, collected, collectedAt, revoked, cut, lost>>
-----------------------------------------------------------------------------
(* The check every request passes.                                         *)

\* find_by_secret, find_by_key_id: the record of a request's credential.
\*   Mutant: a device that was re-keyed is not found any more.
KnownByOldKey(d) == d \in DOMAIN mem /\ mem[d].version = holds[d].version /\ mem[d].serial = 0
Known(d) == d \in DOMAIN mem /\ mem[d].version = holds[d].version

\* verify_device: why a request with the client's credential is refused.
\*   `adrift': its clock is off; `again': the same request was accepted before.
Refusal(d, adrift, again) ==
    IF holds[d].version = 1
    THEN CASE ~Known(d) -> "unknown_key"
           [] 1 < MinVersion -> "upgrade_required"
           [] OTHER -> "none"
    ELSE CASE ~Known(d) -> "unknown_key"
           [] adrift -> "clock_skew"
           [] mem[d] # holds[d] -> "bad_signature"
           [] again -> "replay"
           [] OTHER -> "none"

\* authorise: a nonce is spent only by a request that is let in.
Request(d) ==
    /\ holds[d] # Nobody
    /\ \E adrift \in BOOLEAN : \E again \in IF d \in spent THEN BOOLEAN ELSE {FALSE} :
        LET refusal == Refusal(d, adrift, again) IN
        /\ answers' = [answers EXCEPT ![d] = refusal]
        /\ spent' = IF refusal = "none" /\ holds[d].version = 2 THEN spent \cup {d} ELSE spent
    /\ UNCHANGED <<clock, doorVars, mem, disk, holds, bounds, hist>>

\* The same for the upgrade route: authorised now, applied later.
AskUpgrade(d) ==
    /\ upgrades < MaxUpgrades
    /\ holds[d] # Nobody /\ d \notin upgrading
    /\ Refusal(d, FALSE, FALSE) = "none"
    /\ upgrades' = upgrades + 1
    /\ upgrading' = upgrading \cup {d}
    /\ spent' = IF holds[d].version = 2 THEN spent \cup {d} ELSE spent
    /\ answers' = [answers EXCEPT ![d] = "none"]
    /\ UNCHANGED <<clock, sessions, minted, mem, disk, holds, failures, restarts, hist>>
-----------------------------------------------------------------------------
\* The server ends at any moment and starts from its files.
Restart ==
    /\ restarts < MaxRestarts
    /\ restarts' = restarts + 1
    /\ mem' = disk
    /\ sessions' = Empty /\ minted' = {} /\ upgrading' = {} /\ spent' = {}
    /\ lost' = lost \cup unsaved \cup Minting
    /\ cut' = cut \ DOMAIN disk
    /\ unsaved' = {}
    /\ UNCHANGED <<clock, disk, holds, answers, upgrades, failures, started, collected,
                   collectedAt, revoked>>

Tick ==
    /\ clock < MaxClock
    /\ clock' = clock + 1
    /\ spent' = {}
    /\ UNCHANGED <<doorVars, mem, disk, holds, answers, bounds, hist>>

\* Nothing left to do within the bounds.
Rest == clock = MaxClock /\ minted = {} /\ upgrading = {} /\ UNCHANGED vars

Next ==
    \/ \E d \in Devices :
        \/ \E version \in {1, 2} : Start(d, version)
        \/ Approve(d) \/ Poll(d) \/ Revoke(d) \/ Upgrade(d)
        \/ Request(d) \/ AskUpgrade(d)
    \/ ApproveNothing \/ Persist \/ Restart \/ Tick \/ Rest

Spec == Init /\ [][Next]_vars
-----------------------------------------------------------------------------
(* Properties.                                                             *)

Session == [expires : Nat, version : {1, 2}, approved : BOOLEAN]
Reasons == {"none", "unknown_key", "upgrade_required", "clock_skew", "bad_signature", "replay"}

\* Every variable holds a value of its kind.
TypeOK ==
    /\ clock \in Nat
    /\ DOMAIN sessions \subseteq Devices /\ \A d \in DOMAIN sessions : sessions[d] \in Session
    /\ minted \subseteq [device : Devices, version : {1, 2}]
    /\ \A table \in {mem, disk} : /\ DOMAIN table \subseteq Devices
                                  /\ \A d \in DOMAIN table : table[d] \in Credential
    /\ {upgrading, spent, revoked, cut, unsaved, lost} \subseteq SUBSET Devices
    /\ holds \in [Devices -> Credential \cup {Nobody}]
    /\ answers \in [Devices -> Reasons]
    /\ {upgrades, failures, restarts} \subseteq Nat
    /\ \A h \in {started, collected, collectedAt} : h \in [Devices -> Nat]

\* persist_new_device, upgrade: the credential a client holds is the one the
\* running server and its file have, from the moment the approval is stored until
\* the device is revoked; a write that failed or a crash before it are the ways out.
HeldIsKnown ==
    \A d \in Devices : holds[d] # Nobody /\ d \notin Minting \cup revoked \cup cut \cup lost =>
        /\ d \in DOMAIN mem /\ mem[d] = holds[d]
        /\ d \notin unsaved => d \in DOMAIN disk /\ disk[d] = holds[d]

\* revoke: a revocation that was answered 204 is for good, across upgrades under
\* way and restarts.
RevokedStaysOut == revoked \cap (DOMAIN mem \cup DOMAIN disk) = {}

\* poll: "delivering the credential exactly once", and only "until its code would
\* have expired anyway".
CollectedOnce ==
    \A d \in Devices :
        /\ collected[d] <= 1
        /\ collected[d] = 1 => collectedAt[d] <= started[d] + CodeTTL

\* reject.rs: a client whose credential is good is never told that it is not.
NeverToldDead ==
    [][\A d \in Devices :
        Request(d) /\ answers'[d] \in {"unknown_key", "bad_signature"} =>
            d \in Minting \cup revoked \cup cut \cup lost]_vars
=============================================================================
