------------------------------- MODULE Session -------------------------------
(***************************************************************************)
(* One exchange after another with one air conditioner: the session on its *)
(* connection and the device record that opens and retires it              *)
(* (crates/breeze-device/src/session.rs and device.rs).                    *)
(*                                                                         *)
(* Time passes in ticks, one about the 0.72 s a unit takes to reply.  The  *)
(* program never sleeps while it has something to do, and no more does a   *)
(* unit unless it stalls: Tick waits for both.  What has arrived, in the   *)
(* socket or in Session.rx, is `rx'; `part' is a packet whose front alone  *)
(* has arrived.  Nothing in a reply names its request: `to' is there for   *)
(* the properties, the program reads only the kind.                        *)
(***************************************************************************)
EXTENDS Naturals, Sequences

CONSTANTS
    Attempts,         \* ATTEMPTS, connections per operation
    ConnectTimeout,   \* CONNECT_TIMEOUT
    Sends,            \* Timing.sends
    ReplyTimeout,     \* Timing.reply_timeout
    Linger,           \* Timing.linger
    Settle,           \* Timing.settle
    ReplyTime,        \* the unit: how long it takes to answer
    Stalls,           \* the unit: how much longer it may take
    Nothing,          \* no packet
    MaxRequests, MaxStalls, MaxFaults, MaxHangUps, MaxExpiries   \* bounds

ASSUME TimingAssumption ==
    /\ {Attempts, Sends} \subseteq Nat \ {0}
    /\ {ConnectTimeout, ReplyTimeout, Linger, Settle, ReplyTime} \subseteq Nat
    /\ Stalls \subseteq Nat
    /\ MaxRequests \in Nat

VARIABLES
    req,        \* number of the exchange, 0 before the first
    pc,         \* where the exchange is
    hello,      \* is it the handshake that is being sent?
    attempt,    \* Device::exchange's attempt
    sent,       \* send_and_wait's sent
    timer,      \* ticks to the deadline the program waits for
    got,        \* the packet send_and_wait returns
    stored,     \* Device.session is there
    expired,    \* its key is past SESSION_LIFETIME
    online,     \* Device.online
    kept,       \* Device.stats
    live,       \* the stats of Device.session
    own,        \* the stats of the session that is still to be authenticated
    rx, part,   \* what has arrived and was not taken
    closed,     \* the unit has hung up
    inbox,      \* the unit: packets it has not looked at
    busy, left, \* the unit: the one it is answering, and for how long yet
    deaf,       \* the unit: ticks for which it does not listen
    budget,     \* what may still go wrong (bounds)
    result,     \* what the last exchange returned
    elapsed,    \* history: ticks since the exchange began
    most,       \* history: the most often a packet was sent on this connection
    arrived, taken, lost  \* history: packets that arrived whole on this
                          \* connection, became replies, went with the framing

clientVars == <<req, pc, hello, attempt, sent, timer, got, stored, expired, online>>
statVars   == <<kept, live, own>>
linkVars   == <<rx, part, closed>>
unitVars   == <<inbox, busy, left, deaf>>
histVars   == <<result, elapsed, most, arrived, taken, lost>>
vars == <<clientVars, statVars, linkVars, unitVars, budget, histVars>>

NoStats == [resends |-> 0, discarded |-> 0]
Add(a, b) == [resends |-> a.resends + b.resends, discarded |-> a.discarded + b.discarded]
NoResult == [kind |-> "none", to |-> 0]

\* A packet from the unit: a reply to request `to' (0: the handshake); one that
\* fails its signature; one that says no; or bytes that are no packet.
Kinds  == {"reply", "garbled", "refused", "noise"}
Packet == [to : 0 .. MaxRequests, kind : Kinds]

\* A packet is there for the taking, or the front of something that is none.
Readable == rx # <<>>
Noisy    == Readable /\ Head(rx).kind = "noise"
HungUp   == closed /\ ~Readable

\* The unit has something to do in this very tick.
UnitDue == ~closed /\ \/ busy # Nothing /\ left = 0
                      \/ part # Nothing /\ left = 0
                      \/ busy = Nothing /\ part = Nothing /\ inbox # <<>>

TimedOut == timer = 0 /\ ~Readable /\ ~HungUp /\ ~UnitDue

Init ==
    /\ req = 0 /\ pc = "idle" /\ hello = FALSE /\ attempt = 0 /\ sent = 0 /\ timer = 0
    /\ got = Nothing /\ stored = FALSE /\ expired = FALSE /\ online = FALSE
    /\ kept = NoStats /\ live = NoStats /\ own = NoStats
    /\ rx = <<>> /\ part = Nothing /\ closed = TRUE
    /\ inbox = <<>> /\ busy = Nothing /\ left = 0 /\ deaf = 0
    /\ budget = [stalls |-> MaxStalls, faults |-> MaxFaults, hangups |-> MaxHangUps,
                 expiries |-> MaxExpiries]
    /\ result = NoResult /\ elapsed = 0 /\ most = 0
    /\ arrived = 0 /\ taken = 0 /\ lost = 0
-----------------------------------------------------------------------------
(* The connection.                                                         *)

\* Whatever was on the way is gone with the old one.
NewConnection(open) ==
    /\ rx' = <<>> /\ part' = Nothing /\ closed' = ~open
    /\ inbox' = <<>> /\ busy' = Nothing /\ left' = 0 /\ deaf' = 0
    /\ most' = 0 /\ arrived' = 0 /\ taken' = 0 /\ lost' = 0

\* is_authenticated
Usable == stored /\ ~expired

\* refresh, capabilities, apply: a session that can be used is drained first.
Exchange ==
    /\ pc = "idle"
    /\ req < MaxRequests
    /\ req' = req + 1
    /\ attempt' = 1
    /\ elapsed' = 0
    /\ result' = NoResult
    /\ IF Usable THEN pc' = "drain" /\ timer' = 0
                 ELSE pc' = "connect" /\ timer' = ConnectTimeout
    /\ UNCHANGED <<hello, sent, got, stored, expired, online, statVars, linkVars, unitVars, budget,
                   most, arrived, taken, lost>>

\* ensure_session, up to the handshake.  An expired session is still in its place.
Connect ==
    /\ pc = "connect"
    /\ NewConnection(TRUE)
    /\ own' = NoStats
    /\ hello' = TRUE /\ sent' = 0 /\ pc' = "send"
    /\ UNCHANGED <<req, attempt, timer, got, stored, expired, online, kept, live, budget,
                   result, elapsed>>

\* drop_session folds the counts of the session that is in place, whichever
\* that is.
Folded == IF stored THEN Add(kept, live) ELSE kept

\* A failed attempt retires the connection; one that a fresh connection could
\* cure is made again.
\*   Mutant: attempts are not counted.
AgainAlways(retryable) == retryable
Again(retryable) == retryable /\ attempt < Attempts

Fail(retryable) ==
    /\ kept' = Folded /\ live' = NoStats /\ own' = NoStats
    /\ stored' = FALSE /\ expired' = FALSE
    /\ NewConnection(FALSE)
    /\ got' = Nothing /\ sent' = 0 /\ hello' = FALSE
    /\ IF Again(retryable)
       THEN /\ attempt' = attempt + 1
            /\ pc' = "connect" /\ timer' = ConnectTimeout
            /\ UNCHANGED <<online, result>>
       ELSE /\ online' = FALSE
            /\ pc' = "idle" /\ timer' = 0
            /\ result' = [kind |-> "failed", to |-> req]
            /\ UNCHANGED attempt
    /\ UNCHANGED <<req, budget, elapsed>>

\* CONNECT_TIMEOUT passes, or nobody listens there.
ConnectFails ==
    /\ pc = "connect"
    /\ \/ timer = 0 /\ Fail(TRUE)
       \/ Fail(FALSE)
-----------------------------------------------------------------------------
(* send_and_wait.                                                          *)

\* The counts of the session that is talking.
Count(what) ==
    IF hello THEN own' = [own EXCEPT ![what] = @ + 1] /\ UNCHANGED <<kept, live>>
             ELSE live' = [live EXCEPT ![what] = @ + 1] /\ UNCHANGED <<kept, own>>

\* The unit does not hear what comes while it is deaf.
Send ==
    /\ pc = "send"
    /\ sent' = sent + 1
    /\ timer' = ReplyTimeout
    /\ pc' = "await"
    /\ inbox' = IF closed \/ deaf > 0 THEN inbox
                ELSE Append(inbox, IF hello THEN 0 ELSE req)
    /\ most' = IF sent' > most THEN sent' ELSE most
    /\ UNCHANGED <<req, hello, attempt, got, stored, expired, online, statVars, linkVars,
                   busy, left, deaf, budget, result, elapsed, arrived, taken, lost>>

\* The unit has hung up, and its reset has come: the write fails.
SendFails ==
    /\ pc = "send" /\ closed
    /\ Fail(TRUE)

\*   Mutant: the duplicates of a request that was sent again are not waited for.
AfterReplyAtOnce == "decode"
AfterReply == IF sent > 1 THEN "linger" ELSE "decode"

\* The first packet to arrive is the reply; the sends it took but one count.
Receive ==
    /\ pc = "await" /\ Readable /\ ~Noisy
    /\ got' = Head(rx)
    /\ rx' = Tail(rx)
    /\ taken' = taken + 1
    /\ pc' = AfterReply
    /\ timer' = IF sent > 1 THEN Linger ELSE 0
    /\ LET more == [resends |-> sent - 1, discarded |-> 0] IN
        IF hello THEN own' = Add(own, more) /\ UNCHANGED <<kept, live>>
                 ELSE live' = Add(live, more) /\ UNCHANGED <<kept, own>>
    /\ UNCHANGED <<req, hello, attempt, sent, stored, expired, online, part, closed, unitVars,
                   budget, result, elapsed, most, arrived, lost>>

SendsLeft == sent < Sends

Resend ==
    /\ pc = "await" /\ TimedOut /\ SendsLeft
    /\ pc' = "send"
    /\ UNCHANGED <<req, hello, attempt, sent, timer, got, stored, expired, online, statVars,
                   linkVars, unitVars, budget, histVars>>

GiveUp ==
    /\ pc = "await"
    /\ \/ TimedOut /\ ~SendsLeft /\ Fail(TRUE)
       \/ HungUp /\ Fail(TRUE)
       \/ Noisy /\ Fail(FALSE)

\* absorb_late_replies: what comes in the linger window is thrown away.
Absorb ==
    /\ pc = "linger" /\ Readable /\ ~Noisy
    /\ rx' = Tail(rx)
    /\ Count("discarded")
    /\ UNCHANGED <<clientVars, part, closed, unitVars, budget, result, elapsed, most, arrived,
                   taken, lost>>

\* The window is over, or the connection is: the reply is in hand all the same.
LingerOver ==
    /\ pc = "linger"
    /\ TimedOut \/ HungUp \/ Noisy
    /\ IF Noisy THEN rx' = <<>> /\ lost' = lost + Len(rx)
                ELSE UNCHANGED <<rx, lost>>
    /\ pc' = "decode" /\ timer' = 0
    /\ UNCHANGED <<req, hello, attempt, sent, got, stored, expired, online, statVars, part,
                   closed, unitVars, budget, result, elapsed, most, arrived, taken>>
-----------------------------------------------------------------------------
(* What becomes of the reply.                                              *)

Pause == Settle

\* authenticate: a key was derived.  The unit needs a pause before it listens.
Authenticated ==
    /\ pc = "decode" /\ hello
    /\ got.kind = "reply" /\ got.to = 0
    /\ pc' = "settle" /\ timer' = Pause
    /\ got' = Nothing
    /\ UNCHANGED <<req, hello, attempt, sent, stored, expired, online, statVars, linkVars,
                   unitVars, budget, histVars>>

\* The new session takes the place of whatever was there, counts and all.
Settled ==
    /\ pc = "settle" /\ timer = 0
    /\ stored' = TRUE /\ expired' = FALSE
    /\ live' = own /\ own' = NoStats
    /\ hello' = FALSE /\ pc' = "drain" /\ sent' = 0
    /\ UNCHANGED <<req, attempt, timer, got, online, kept, linkVars, unitVars, budget, histVars>>

\* exchange returns what the reply says.
Succeed ==
    /\ pc = "decode" /\ ~hello
    /\ got.kind = "reply" /\ got.to # 0
    /\ online' = TRUE
    /\ result' = [kind |-> "ok", to |-> got.to]
    /\ pc' = "idle" /\ got' = Nothing /\ sent' = 0
    /\ UNCHANGED <<req, hello, attempt, timer, stored, expired, statVars, linkVars, unitVars,
                   budget, elapsed, most, arrived, taken, lost>>

\* A stale key's garbage is worth a fresh connection; a rejected handshake, the
\* wrong type of packet and an unreadable report are not.
DecodeFails ==
    /\ pc = "decode"
    /\ \/ got.kind = "garbled" /\ Fail(~hello)
       \/ got.kind = "refused" /\ Fail(FALSE)
       \/ got.kind = "reply" /\ hello # (got.to = 0) /\ Fail(FALSE)
-----------------------------------------------------------------------------
(* drain, before every request.                                            *)

DrainFinds(kinds) == \E i \in DOMAIN rx : rx[i].kind \in kinds

\* What waits is thrown away; the front of a packet has to be finished first.
AfterDrain == IF part = Nothing THEN "send" ELSE "fragment"

Drain ==
    /\ pc = "drain"
    /\ ~closed /\ ~DrainFinds({"noise"})
    /\ rx' = <<>>
    /\ live' = [live EXCEPT !.discarded = @ + Len(rx)]
    /\ pc' = AfterDrain /\ timer' = ReplyTimeout
    /\ sent' = 0
    /\ UNCHANGED <<req, hello, attempt, got, stored, expired, online, kept, own, part, closed,
                   unitVars, budget, result, elapsed, most, arrived, taken, lost>>

\* A hang-up is noticed before anything is written.
DrainFails ==
    /\ pc = "drain"
    /\ \/ closed /\ Fail(TRUE)
       \/ ~closed /\ DrainFinds({"noise"}) /\ Fail(FALSE)

\* Whatever completes first is taken for the rest of the fragment.
\*   Mutant: it is not counted.
FinishFragmentUncounted ==
    /\ pc = "fragment" /\ Readable /\ ~Noisy
    /\ rx' = Tail(rx)
    /\ pc' = "send"
    /\ UNCHANGED <<req, hello, attempt, sent, timer, got, stored, expired, online, statVars, part,
                   closed, unitVars, budget, result, elapsed, most, arrived, taken, lost>>
FinishFragment ==
    /\ pc = "fragment" /\ Readable /\ ~Noisy
    /\ rx' = Tail(rx)
    /\ Count("discarded")
    /\ pc' = "send"
    /\ UNCHANGED <<req, hello, attempt, sent, timer, got, stored, expired, online, part, closed,
                   unitVars, budget, result, elapsed, most, arrived, taken, lost>>

FragmentFails ==
    /\ pc = "fragment"
    /\ \/ (TimedOut \/ HungUp) /\ Fail(TRUE)
       \/ Noisy /\ Fail(FALSE)
-----------------------------------------------------------------------------
(* The unit, and the network: external.                                    *)

Unit(a, b, l, d) == inbox' = a /\ busy' = b /\ left' = l /\ deaf' = d

\* It takes up one packet at a time, and now and then ignores one.
TakeUp ==
    /\ ~closed /\ busy = Nothing /\ part = Nothing /\ inbox # <<>>
    /\ \/ Unit(Tail(inbox), [to |-> Head(inbox), kind |-> "reply"], ReplyTime, deaf)
       \/ Unit(Tail(inbox), Nothing, 0, deaf)
    /\ UNCHANGED <<clientVars, statVars, linkVars, budget, histVars>>

Stall ==
    /\ budget.stalls > 0
    /\ ~closed /\ (busy # Nothing \/ part # Nothing) /\ left = 0
    /\ \E more \in Stalls : left' = more
    /\ budget' = [budget EXCEPT !.stalls = @ - 1]
    /\ UNCHANGED <<clientVars, statVars, linkVars, inbox, busy, deaf, histVars>>

\* It answers, in one piece or in two, and after a handshake it stops listening.
Answer ==
    /\ ~closed /\ busy # Nothing /\ left = 0
    /\ \E kind \in Kinds :
        /\ kind # "reply" => budget.faults > 0
        /\ budget' = IF kind = "reply" THEN budget ELSE [budget EXCEPT !.faults = @ - 1]
        /\ LET packet == [busy EXCEPT !.kind = kind] IN
            \/ rx' = Append(rx, packet) /\ arrived' = arrived + 1 /\ UNCHANGED part
            \/ kind # "noise" /\ part' = packet /\ UNCHANGED <<rx, arrived>>
    /\ Unit(inbox, Nothing, 0, IF busy.to = 0 THEN Settle ELSE deaf)
    /\ UNCHANGED <<clientVars, statVars, closed, result, elapsed, most, taken, lost>>

RestArrives ==
    /\ ~closed /\ part # Nothing /\ left = 0
    /\ rx' = Append(rx, part) /\ arrived' = arrived + 1
    /\ part' = Nothing
    /\ UNCHANGED <<clientVars, statVars, closed, unitVars, budget, result, elapsed, most, taken,
                   lost>>

HangUp ==
    /\ ~closed /\ budget.hangups > 0
    /\ closed' = TRUE
    /\ part' = Nothing
    /\ Unit(<<>>, Nothing, 0, 0)
    /\ budget' = [budget EXCEPT !.hangups = @ - 1]
    /\ UNCHANGED <<clientVars, statVars, rx, histVars>>

\* SESSION_LIFETIME passes between two exchanges.
Expire ==
    /\ pc = "idle" /\ Usable /\ budget.expiries > 0
    /\ expired' = TRUE
    /\ budget' = [budget EXCEPT !.expiries = @ - 1]
    /\ UNCHANGED <<req, pc, hello, attempt, sent, timer, got, stored, online, statVars,
                   linkVars, unitVars, histVars>>

\* Nobody has anything to do in this tick.
Waits ==
    \/ pc = "idle" /\ (busy # Nothing \/ part # Nothing \/ deaf > 0)
    \/ pc \in {"connect", "settle"} /\ timer > 0
    \/ pc \in {"await", "linger", "fragment"} /\ timer > 0 /\ ~Readable /\ ~HungUp

Less(n) == IF n > 0 THEN n - 1 ELSE 0

Tick ==
    /\ Waits /\ ~UnitDue
    /\ timer' = Less(timer) /\ left' = Less(left) /\ deaf' = Less(deaf)
    /\ elapsed' = IF pc = "idle" THEN elapsed ELSE elapsed + 1
    /\ UNCHANGED <<req, pc, hello, attempt, sent, got, stored, expired, online, statVars,
                   linkVars, inbox, busy, budget, result, most, arrived, taken, lost>>

Client ==
    \/ Connect \/ ConnectFails
    \/ Send \/ SendFails \/ Receive \/ Resend \/ GiveUp \/ Absorb \/ LingerOver
    \/ Authenticated \/ Settled \/ Succeed \/ DecodeFails
    \/ Drain \/ DrainFails \/ FinishFragment \/ FragmentFails

\* All exchanges were made, and the unit is at rest.
Rest == pc = "idle" /\ req = MaxRequests /\ UNCHANGED vars

Next ==
    \/ Exchange \/ Client
    \/ TakeUp \/ Stall \/ Answer \/ RestArrives \/ HangUp \/ Expire
    \/ Tick \/ Rest

Spec == Init /\ [][Next]_vars
-----------------------------------------------------------------------------
(* Properties.                                                             *)

Stats == [resends : Nat, discarded : Nat]

\* Every variable holds a value of its kind.
TypeOK ==
    /\ pc \in {"idle", "connect", "send", "await", "linger", "decode", "settle", "drain",
               "fragment"}
    /\ req \in 0 .. MaxRequests /\ attempt \in 0 .. Attempts /\ sent \in 0 .. Sends
    /\ timer \in Nat /\ left \in Nat /\ deaf \in Nat /\ elapsed \in Nat
    /\ most \in Nat /\ arrived \in Nat /\ taken \in Nat /\ lost \in Nat
    /\ hello \in BOOLEAN /\ stored \in BOOLEAN /\ expired \in BOOLEAN /\ online \in BOOLEAN
    /\ closed \in BOOLEAN
    /\ kept \in Stats /\ live \in Stats /\ own \in Stats
    /\ got \in Packet \cup {Nothing} /\ part \in Packet \cup {Nothing}
    /\ busy \in Packet \cup {Nothing}
    /\ rx \in Seq(Packet) /\ inbox \in Seq(0 .. MaxRequests)
    /\ result \in [kind : {"none", "ok", "failed"}, to : 0 .. MaxRequests]

\* Module comment of session.rs: "the defence is time, not matching".  Nothing in
\* a reply names its request, and yet what an exchange returns is the answer to
\* what it asked, as long as no packet on the connection was sent more than
\* twice and the unit stalls once.
RightReply == result.kind = "ok" /\ most <= 2 => result.to = req

\* ATTEMPTS, Timing: no exchange takes longer than its attempts' connects,
\* handshakes, fragments, sends and linger windows.
PerConnection == Sends * ReplyTimeout + Linger
Bound == Attempts * (ConnectTimeout + PerConnection + Settle + ReplyTimeout + PerConnection)
Bounded == elapsed <= Bound

\* DeviceStats.discarded, "Replies thrown away because no request was waiting for
\* them": a packet that arrived on the connection became a reply, was counted as
\* discarded, still waits, or went when the framing was lost.
Accounted ==
    arrived = taken + (IF hello THEN own ELSE live).discarded + Len(rx) + lost
=============================================================================
