---------------------------- MODULE SessionProofs ----------------------------
(***************************************************************************)
(* Proofs about Session, for any numbers of attempts and sends, and any     *)
(* deadlines: each packet is accounted for, and no exchange takes longer    *)
(* than its deadlines add up to, whatever the unit does; for a unit that    *)
(* answers within them, replies match their requests.                       *)
(*                                                                          *)
(* And about what a session carries, beyond the inputs that MCSession runs: *)
(* commands (Codec) for whatever a unit holds and a client asks, words and  *)
(* names (CommandLine) of any number, lists of records (Capabilities) of    *)
(* any length.  Their recursion is reached by Induct, from the least number *)
(* for which a statement would fail.                                        *)
(***************************************************************************)
EXTENDS MCSession, FiniteSetTheorems, SequenceTheorems, WellFoundedInduction, TLAPS

\* What the place in the exchange says of the rest.
Places ==
    /\ pc = "send" => sent < Sends
    /\ pc = "await" => sent > 0
    /\ pc = "fragment" => sent = 0
    /\ pc = "settle" => hello
    /\ pc \in {"linger", "decode"} => got \in Packet
    /\ pc \in {"idle", "connect", "drain", "fragment"} => ~hello

\* How long n sends may wait for their replies.
Replies(n) == n * ReplyTimeout

\* How much longer the attempt may take.
SecondHalf == ReplyTimeout + Replies(Sends) + Linger
Remaining ==
    CASE pc = "connect"  -> timer + Replies(Sends) + Linger + Settle + SecondHalf
      [] pc = "send"     -> Replies(Sends - sent) + Linger + (IF hello THEN Settle + SecondHalf ELSE 0)
      [] pc = "await"    -> timer + Replies(Sends - sent) + Linger
                               + (IF hello THEN Settle + SecondHalf ELSE 0)
      [] pc = "linger"   -> timer + (IF hello THEN Settle + SecondHalf ELSE 0)
      [] pc = "decode"   -> IF hello THEN Settle + SecondHalf ELSE 0
      [] pc = "settle"   -> timer + SecondHalf
      [] pc = "drain"    -> SecondHalf
      [] pc = "fragment" -> timer + Replies(Sends) + Linger
      [] OTHER           -> 0

OneAttempt == ConnectTimeout + Replies(Sends) + Linger + Settle + SecondHalf
AttemptsTake(n) == n * OneAttempt
InTime == elapsed + Remaining <= AttemptsTake(attempt)

SessionInvariant == TypeOK /\ Places /\ Accounted /\ InTime
-----------------------------------------------------------------------------
(* Arithmetic.                                                             *)

LEMMA Constants ==
    /\ Attempts \in Nat /\ Attempts > 0 /\ Sends \in Nat /\ Sends > 0
    /\ ConnectTimeout \in Nat /\ ReplyTimeout \in Nat /\ Linger \in Nat /\ Settle \in Nat
    /\ ReplyTime \in Nat /\ MaxRequests \in Nat
BY TimingAssumption

LEMMA RepliesAdd ==
    /\ \A n \in Nat : Replies(n) \in Nat /\ Replies(n + 1) = Replies(n) + ReplyTimeout
    /\ Replies(0) = 0
BY TimingAssumption DEF Replies

LEMMA AttemptsAdd ==
    /\ OneAttempt \in Nat /\ SecondHalf \in Nat
    /\ \A n \in Nat : AttemptsTake(n) \in Nat /\ AttemptsTake(n + 1) = AttemptsTake(n) + OneAttempt
    /\ AttemptsTake(0) = 0
<1>1. Replies(Sends) \in Nat
    BY RepliesAdd, TimingAssumption
<1>2. OneAttempt \in Nat /\ SecondHalf \in Nat
    BY <1>1, TimingAssumption DEF OneAttempt, SecondHalf
<1> QED
    BY <1>2 DEF AttemptsTake

LEMMA AttemptsOrdered == \A m \in 0 .. Attempts : AttemptsTake(m) <= AttemptsTake(Attempts)
<1> SUFFICES ASSUME NEW m \in 0 .. Attempts PROVE m * OneAttempt <= Attempts * OneAttempt
    BY DEF AttemptsTake
<1>1. OneAttempt \in Nat /\ Attempts \in Nat
    BY AttemptsAdd, TimingAssumption
<1>2. Attempts * OneAttempt = m * OneAttempt + (Attempts - m) * OneAttempt
    BY <1>1
<1>3. (Attempts - m) * OneAttempt \in Nat /\ m * OneAttempt \in Nat
    BY <1>1
<1> QED
    BY <1>2, <1>3

LEMMA BoundIs == AttemptsTake(Attempts) = Bound
<1>1. {Sends, Attempts, ReplyTimeout, Linger, Settle, ConnectTimeout} \subseteq Nat /\ Sends * ReplyTimeout \in Nat
    BY TimingAssumption
<1>2. OneAttempt = ConnectTimeout + PerConnection + Settle + ReplyTimeout + PerConnection
    BY <1>1 DEF OneAttempt, SecondHalf, Replies, PerConnection
<1> QED
    BY <1>2 DEF AttemptsTake, Bound
-----------------------------------------------------------------------------
LEMMA Beginning == Init => SessionInvariant
<1> SUFFICES ASSUME Init PROVE SessionInvariant
    OBVIOUS
<1> USE DEF Init
<1>1. NoStats \in Stats /\ NoResult \in [kind : {"none", "ok", "failed"}, to : 0 .. MaxRequests]
    BY Constants DEF NoStats, Stats, NoResult
<1>2. TypeOK
    <2>1. rx \in Seq(Packet) /\ inbox \in Seq(0 .. MaxRequests)
        OBVIOUS
    <2>2. /\ 0 \in Nat /\ 0 \in 0 .. MaxRequests /\ 0 \in 0 .. Attempts /\ 0 \in 0 .. Sends
          /\ TRUE \in BOOLEAN /\ FALSE \in BOOLEAN
        BY Constants
    <2> QED
        BY <1>1, <2>1, <2>2, Zenon DEF TypeOK, Init
<1>3. Places
    BY DEF Places
<1>4. Accounted
    BY DEF Accounted, NoStats
<1>5. InTime
    BY AttemptsAdd DEF InTime, Remaining
<1> QED
    BY <1>2, <1>3, <1>4, <1>5 DEF SessionInvariant

\* How much longer an exchange may take is a number.
LEMMA RemainingIs ==
    ASSUME TypeOK
    PROVE  /\ Remaining \in Nat /\ Replies(Sends - sent) \in Nat /\ Replies(Sends) \in Nat
           /\ SecondHalf \in Nat
<1>1. Sends - sent \in Nat /\ Sends \in Nat
    BY Constants DEF TypeOK
<1>2. Replies(Sends - sent) \in Nat /\ Replies(Sends) \in Nat /\ SecondHalf \in Nat
    BY <1>1, RepliesAdd, AttemptsAdd
<1>3. timer \in Nat
    BY DEF TypeOK
<1> QED
    BY <1>1, <1>2, <1>3, Constants DEF Remaining

LEMMA RemainingIsNext ==
    ASSUME TypeOK'
    PROVE  Remaining' \in Nat
<1>1. timer' \in Nat /\ sent' \in 0 .. Sends
    BY DEF TypeOK
<1>2. Sends - sent' \in Nat /\ Sends \in Nat
    <2>1. Sends \in Nat /\ \A n \in 0 .. Sends : Sends - n \in Nat
        BY Constants
    <2> QED
        BY <1>1, <2>1
<1>3. Replies(Sends - sent') \in Nat /\ Replies(Sends) \in Nat /\ SecondHalf \in Nat
    BY <1>2, RepliesAdd, AttemptsAdd
<1> QED
    BY <1>1, <1>3, Constants DEF Remaining

\* What Accounted counts are numbers.
Discarded == (IF hello THEN own ELSE live).discarded

LEMMA Counts ==
    ASSUME TypeOK
    PROVE  /\ Discarded \in Nat /\ arrived \in Nat /\ taken \in Nat /\ lost \in Nat /\ Len(rx) \in Nat
           /\ Accounted <=> arrived = taken + Discarded + Len(rx) + lost
<1>1. hello \in BOOLEAN /\ own.discarded \in Nat /\ live.discarded \in Nat
    BY DEF TypeOK, Stats
<1>2. arrived \in Nat /\ taken \in Nat /\ lost \in Nat /\ Len(rx) \in Nat
    BY DEF TypeOK
<1> QED
    BY <1>1, <1>2 DEF Discarded, Accounted

LEMMA CountsNext == Accounted' <=> arrived' = taken' + Discarded' + Len(rx') + lost'
BY DEF Accounted, Discarded

\* A failed attempt leaves the time of the next one, or the answer.
LEMMA FailStep ==
    ASSUME SessionInvariant, NEW retryable \in BOOLEAN, Fail(retryable)
    PROVE  SessionInvariant'
<1> USE DEF Fail, NewConnection, SessionInvariant
<1>1. TypeOK'
    <2>1. NoStats \in Stats /\ Folded \in Stats
        BY DEF NoStats, Stats, Folded, Add, TypeOK
    <2>2. /\ timer' \in Nat /\ attempt' \in 0 .. Attempts /\ sent' \in 0 .. Sends /\ online' \in BOOLEAN
          /\ result' \in [kind : {"none", "ok", "failed"}, to : 0 .. MaxRequests]
          /\ pc' \in {"connect", "idle"}
        <3>1. CASE Again(retryable)
            BY <3>1, Constants DEF Again, TypeOK
        <3>2. CASE ~Again(retryable)
            <4>1. [kind |-> "failed", to |-> req] \in [kind : {"none", "ok", "failed"}, to : 0 .. MaxRequests]
                BY DEF TypeOK
            <4>2. /\ online' = FALSE /\ pc' = "idle" /\ timer' = 0 /\ sent' = 0 /\ attempt' = attempt
                  /\ result' = [kind |-> "failed", to |-> req]
                BY <3>2
            <4>3. attempt \in 0 .. Attempts /\ 0 \in 0 .. Sends
                BY Constants DEF TypeOK
            <4> QED
                BY <4>1, <4>2, <4>3
        <3> QED
            BY <3>1, <3>2
    <2>3. rx' \in Seq(Packet) /\ inbox' \in Seq(0 .. MaxRequests) /\ rx' = <<>> /\ inbox' = <<>>
        OBVIOUS
    <2> QED
        BY <2>1, <2>2, <2>3 DEF TypeOK
<1>2. Places'
    BY DEF Places
<1>3. Accounted'
    BY DEF Accounted, NoStats
<1>4. InTime'
    <2>1. attempt \in Nat /\ elapsed \in Nat /\ elapsed' = elapsed /\ AttemptsTake(attempt) \in Nat
        BY AttemptsAdd DEF TypeOK
    <2>2. Remaining \in Nat
        BY RemainingIs
    <2>3. elapsed <= AttemptsTake(attempt)
        BY <2>1, <2>2 DEF InTime
    <2>4. CASE Again(retryable)
        <3>1. attempt' = attempt + 1 /\ pc' = "connect" /\ timer' = ConnectTimeout
            BY <2>4
        <3>2. Remaining' = OneAttempt
            BY <3>1 DEF Remaining, OneAttempt
        <3> QED
            BY <2>1, <2>3, <3>1, <3>2, AttemptsAdd DEF InTime
    <2>5. CASE ~Again(retryable)
        <3>1. attempt' = attempt /\ Remaining' = 0
            BY <2>5 DEF Remaining
        <3> QED
            BY <2>1, <2>3, <3>1, AttemptsAdd DEF InTime
    <2> QED
        BY <2>4, <2>5
<1> QED
    BY <1>1, <1>2, <1>3, <1>4

LEMMA Failures ==
    ASSUME SessionInvariant,
           ConnectFails \/ SendFails \/ GiveUp \/ DecodeFails \/ DrainFails \/ FragmentFails
    PROVE  SessionInvariant'
<1>1. Fail(TRUE) \/ Fail(FALSE)
    BY DEF ConnectFails, SendFails, GiveUp, DecodeFails, DrainFails, FragmentFails, SessionInvariant,
           TypeOK
<1> QED
    BY <1>1, FailStep

LEMMA ExchangeStep == ASSUME SessionInvariant, Exchange PROVE SessionInvariant'
<1> USE DEF Exchange, SessionInvariant, statVars, linkVars, unitVars
<1>1. TypeOK'
    <2>1. timer' \in Nat /\ req' \in 0 .. MaxRequests /\ pc' \in {"drain", "connect"} /\ 1 \in 0 .. Attempts
        BY Constants DEF TypeOK
    <2>2. NoResult \in [kind : {"none", "ok", "failed"}, to : 0 .. MaxRequests]
        BY Constants DEF NoResult
    <2> QED
        BY <2>1, <2>2 DEF TypeOK
<1>2. Places' /\ Accounted'
    BY DEF Places, Accounted
<1>3. InTime'
    <2>1. /\ SecondHalf \in Nat /\ Replies(Sends) \in Nat
        BY RemainingIs
    <2>2. AttemptsTake(1) = OneAttempt
        <3>1. 0 \in Nat /\ 0 + 1 = 1 /\ AttemptsTake(0 + 1) = AttemptsTake(0) + OneAttempt
            BY AttemptsAdd
        <3> QED
            BY <3>1, AttemptsAdd
    <2>3. Remaining' <= OneAttempt
        BY <2>1, Constants DEF Remaining, OneAttempt
    <2>4. Remaining' \in Nat
        BY <2>1, Constants DEF Remaining
    <2> QED
        BY <2>2, <2>3, <2>4, AttemptsAdd DEF InTime
<1> QED
    BY <1>1, <1>2, <1>3

LEMMA ConnectStep == ASSUME SessionInvariant, Connect PROVE SessionInvariant'
<1> USE DEF Connect, NewConnection, SessionInvariant
<1>1. TypeOK'
    <2>1. rx' \in Seq(Packet) /\ inbox' \in Seq(0 .. MaxRequests) /\ NoStats \in Stats
        BY DEF NoStats, Stats
    <2> QED
        BY <2>1, Constants DEF TypeOK
<1>2. Places' /\ Accounted'
    BY Constants DEF Places, Accounted, NoStats
<1>3. InTime'
    <2>1. Remaining' = Replies(Sends) + Linger + (Settle + SecondHalf)
        BY Constants DEF Remaining
    <2>2. Remaining = timer + Replies(Sends) + Linger + Settle + SecondHalf
        BY DEF Remaining
    <2>3. Replies(Sends) \in Nat /\ SecondHalf \in Nat
        BY RemainingIs
    <2>4. timer \in Nat /\ elapsed \in Nat /\ attempt \in Nat
        BY DEF TypeOK
    <2>5. AttemptsTake(attempt) \in Nat
        BY <2>4, AttemptsAdd
    <2>6. attempt' = attempt /\ elapsed' = elapsed
        OBVIOUS
    <2>7. elapsed + Remaining <= AttemptsTake(attempt)
        BY DEF InTime
    <2>8. Remaining' <= Remaining /\ Remaining \in Nat /\ Remaining' \in Nat
        BY <2>1, <2>2, <2>3, <2>4, Constants
    <2>9. elapsed' + Remaining' <= AttemptsTake(attempt)
        BY <2>4, <2>5, <2>6, <2>7, <2>8
    <2> QED
        BY <2>6, <2>9 DEF InTime
<1> QED
    BY <1>1, <1>2, <1>3

\* Within an attempt, time is left as long as it goes on.
LEMMA Onward ==
    ASSUME SessionInvariant, TypeOK', attempt' = attempt,
           elapsed' + Remaining' <= elapsed + Remaining
    PROVE  InTime'
<1>1. /\ attempt \in Nat /\ elapsed \in Nat /\ elapsed' \in Nat
    BY DEF SessionInvariant, TypeOK
<1>2. AttemptsTake(attempt) \in Nat /\ Remaining \in Nat
    BY <1>1, RemainingIs, AttemptsAdd DEF SessionInvariant
<1>3. Remaining' \in Nat
    BY RemainingIsNext
<1>4. elapsed + Remaining <= AttemptsTake(attempt)
    BY DEF SessionInvariant, InTime
<1>5. elapsed' + Remaining' <= AttemptsTake(attempt)
    <2>0. \A x, y \in Nat : x + y \in Nat
        OBVIOUS
    <2>1. elapsed' + Remaining' \in Nat /\ elapsed + Remaining \in Nat
        BY ONLY <1>1, <1>2, <1>3, <2>0
    <2>2. \A x, y, z \in Nat : x <= y /\ y <= z => x <= z
        OBVIOUS
    <2> QED
        BY ONLY <1>2, <1>4, <2>1, <2>2, elapsed' + Remaining' <= elapsed + Remaining
<1> QED
    BY <1>5 DEF InTime

LEMMA SendStep == ASSUME SessionInvariant, Send PROVE SessionInvariant'
<1> USE DEF Send, SessionInvariant, statVars, linkVars
<1>1. /\ pc = "send" /\ pc' = "await" /\ sent' = sent + 1 /\ timer' = ReplyTimeout
      /\ UNCHANGED <<req, hello, attempt, got, stored, expired, online, kept, live, own, rx, part, closed,
                     busy, left, deaf, budget, result, elapsed, arrived, taken, lost>>
      /\ sent \in Nat /\ sent < Sends
    BY DEF Places, TypeOK
<1>2. inbox' \in Seq(0 .. MaxRequests)
    <2>1. inbox \in Seq(0 .. MaxRequests) /\ 0 \in 0 .. MaxRequests /\ req \in 0 .. MaxRequests
        BY Constants DEF TypeOK
    <2>2. CASE closed \/ deaf > 0
        BY <2>1, <2>2
    <2>3. CASE ~(closed \/ deaf > 0)
        <3> DEFINE packet == IF hello THEN 0 ELSE req
        <3>1. inbox' = Append(inbox, packet) /\ packet \in 0 .. MaxRequests
            BY <2>1, <2>3
        <3> HIDE DEF packet
        <3> QED
            BY ONLY <2>1, <3>1
    <2> QED
        BY <2>2, <2>3
<1>3. most' \in Nat
    BY <1>1 DEF TypeOK
<1>4. TypeOK'
    BY <1>1, <1>2, <1>3, Constants DEF TypeOK
<1>5. Places' /\ Accounted'
    BY <1>1 DEF Places, Accounted
<1>6. InTime'
    <2>1. Replies(Sends - sent) = Replies(Sends - sent') + ReplyTimeout
        <3>1. Sends - (sent + 1) \in Nat /\ (Sends - (sent + 1)) + 1 = Sends - sent
            BY <1>1, Constants
        <3>2. Replies((Sends - (sent + 1)) + 1) = Replies(Sends - (sent + 1)) + ReplyTimeout
            BY <3>1, RepliesAdd
        <3> QED
            BY <1>1, <3>1, <3>2
    <2>2. /\ Replies(Sends - sent) \in Nat /\ SecondHalf \in Nat
          /\ Replies(Sends - sent') \in Nat
        <3>1. Sends - sent' \in Nat
            BY <1>1, Constants
        <3> QED
            BY <3>1, RemainingIs, RepliesAdd
    <2>3. Remaining' = Remaining
        BY <1>1, <2>1, <2>2, Constants DEF Remaining
    <2> QED
        <3>1. elapsed' + Remaining' <= elapsed + Remaining
            BY <1>1, <2>3, RemainingIs DEF TypeOK
        <3> QED
            BY <1>1, <1>4, <3>1, Onward
<1> QED
    BY <1>4, <1>5, <1>6

LEMMA ReceiveStep == ASSUME SessionInvariant, Receive PROVE SessionInvariant'
<1> USE DEF Receive, SessionInvariant, unitVars
<1>1. /\ pc = "await" /\ pc' \in {"linger", "decode"} /\ got' = Head(rx) /\ rx' = Tail(rx)
      /\ taken' = taken + 1 /\ rx # <<>> /\ sent > 0
      /\ timer' = (IF pc' = "linger" THEN Linger ELSE 0)
      /\ UNCHANGED <<req, hello, attempt, sent, stored, expired, online, part, closed, inbox, busy, left, deaf,
                     budget, result, elapsed, most, arrived, lost>>
    BY DEF Places, AfterReply, Readable
<1>2. rx' \in Seq(Packet) /\ got' \in Packet /\ Len(rx) = Len(rx') + 1 /\ Len(rx') \in Nat
    BY <1>1 DEF TypeOK
<1>3. /\ kept' = kept /\ own' \in Stats /\ live' \in Stats
      /\ Discarded' = Discarded
    <2>1. sent - 1 \in Nat
        BY <1>1 DEF TypeOK
    <2>2. \A a \in Stats : LET b == Add(a, [resends |-> sent - 1, discarded |-> 0])
                           IN  b \in Stats /\ b.discarded = a.discarded
        BY <2>1 DEF Add, Stats
    <2> QED
        BY <1>1, <2>2 DEF TypeOK, Discarded
<1>4. TypeOK'
    BY <1>1, <1>2, <1>3, Constants DEF TypeOK
<1>5. Places'
    BY <1>1, <1>2 DEF Places
<1>6. Accounted'
    <2>1. taken' + Discarded' + Len(rx') + lost' = taken + Discarded + Len(rx) + lost
        BY ONLY <1>1, <1>2, <1>3, Counts, TypeOK
    <2> QED
        BY <1>1, <2>1, Counts, CountsNext
<1>7. InTime'
    <2>1. timer \in Nat /\ elapsed \in Nat
        BY DEF TypeOK
    <2>2. Replies(Sends - sent) \in Nat /\ SecondHalf \in Nat
        BY RemainingIs
    <2>3. Remaining' <= Remaining
        <3> DEFINE after == IF hello THEN Settle + SecondHalf ELSE 0
                   resends == Replies(Sends - sent)
        <3>1. after \in Nat /\ Linger \in Nat
            BY ONLY <2>2, Constants
        <3>2. Remaining = timer + resends + Linger + after
            BY ONLY <1>1 DEF Remaining
        <3>3. Remaining' = (IF pc' = "linger" THEN Linger ELSE 0) + after
            BY ONLY <1>1, <3>1 DEF Remaining
        <3> HIDE DEF after, resends
        <3> QED
            BY ONLY <2>1, <2>2, <3>1, <3>2, <3>3 DEF resends
    <2>4. elapsed' + Remaining' <= elapsed + Remaining
        BY <1>1, <1>4, <2>1, <2>3, RemainingIs, RemainingIsNext
    <2> QED
        BY <1>1, <1>4, <2>4, Onward
<1> QED
    BY <1>4, <1>5, <1>6, <1>7

LEMMA ResendStep == ASSUME SessionInvariant, Resend PROVE SessionInvariant'
<1> USE DEF Resend, SessionInvariant, statVars, linkVars, unitVars, histVars
<1>1. TypeOK'
    BY DEF TypeOK
<1>2. Places' /\ Accounted'
    BY DEF Places, Accounted, SendsLeft
<1>3. InTime'
    <2>1. timer \in Nat /\ elapsed \in Nat
        BY DEF TypeOK
    <2>2. elapsed' + Remaining' <= elapsed + Remaining
        BY <2>1, RemainingIs, Constants DEF Remaining
    <2> QED
        BY <1>1, <2>2, Onward
<1> QED
    BY <1>1, <1>2, <1>3

\* Absorb, FinishFragment: one more packet, one more on the count.
LEMMA Discards == ASSUME SessionInvariant, Absorb \/ FinishFragment PROVE SessionInvariant'
<1> USE DEF Absorb, FinishFragment, SessionInvariant, clientVars, unitVars
<1>1. /\ (pc = "linger" /\ pc' = "linger") \/ (pc = "fragment" /\ pc' = "send" /\ sent = 0)
      /\ rx' = Tail(rx) /\ rx # <<>>
      /\ UNCHANGED <<req, hello, attempt, sent, timer, got, stored, expired, online, part, closed, inbox, busy,
                     left, deaf, budget, result, elapsed, most, arrived, taken, lost>>
    BY DEF Readable, Places
<1>2. rx' \in Seq(Packet) /\ Len(rx) = Len(rx') + 1 /\ Len(rx') \in Nat
    BY <1>1 DEF TypeOK
<1>3. /\ kept' = kept /\ own' \in Stats /\ live' \in Stats
      /\ Discarded' = Discarded + 1
    <2>1. Count("discarded") /\ hello' = hello
        BY <1>1
    <2>2. kept \in Stats /\ own \in Stats /\ live \in Stats /\ hello \in BOOLEAN
        BY DEF TypeOK
    <2>3. \A a \in Stats : LET b == [a EXCEPT !["discarded"] = @ + 1]
                           IN  b \in Stats /\ b.discarded = a.discarded + 1
        BY DEF Stats
    <2> QED
        BY ONLY <2>1, <2>2, <2>3 DEF Count, Discarded
<1>4. TypeOK'
    BY <1>1, <1>2, <1>3 DEF TypeOK
<1>5. Places'
    BY <1>1, Constants DEF Places
<1>6. Accounted'
    <2>1. taken' + Discarded' + Len(rx') + lost' = taken + Discarded + Len(rx) + lost
        BY ONLY <1>1, <1>2, <1>3, Counts, TypeOK
    <2> QED
        BY <1>1, <2>1, Counts, CountsNext
<1>7. InTime'
    <2>1. timer \in Nat /\ elapsed \in Nat /\ (pc = "fragment" => ~hello /\ Sends - sent = Sends)
        BY <1>1, Constants DEF TypeOK, Places
    <2>2. Replies(Sends) \in Nat /\ SecondHalf \in Nat
        BY RemainingIs
    <2>3. Remaining' <= Remaining
        BY ONLY <1>1, <2>1, <2>2, Constants, SMTT(20) DEF Remaining
    <2>4. elapsed' + Remaining' <= elapsed + Remaining
        BY <1>1, <1>4, <2>1, <2>3, RemainingIs, RemainingIsNext
    <2> QED
        BY <1>1, <1>4, <2>4, Onward
<1> QED
    BY <1>4, <1>5, <1>6, <1>7

LEMMA LingerOverStep == ASSUME SessionInvariant, LingerOver PROVE SessionInvariant'
<1> USE DEF LingerOver, SessionInvariant, statVars, unitVars
<1>1. rx' \in Seq(Packet) /\ lost' \in Nat /\ lost' + Len(rx') = lost + Len(rx)
    <2>1. rx \in Seq(Packet) /\ lost \in Nat /\ Len(rx) \in Nat
        BY DEF TypeOK
    <2>2. CASE Noisy
        <3>1. rx' = <<>> /\ lost' = lost + Len(rx)
            BY <2>2
        <3> QED
            BY ONLY <2>1, <3>1
    <2>3. CASE ~Noisy
        BY <2>1, <2>3
    <2> QED
        BY <2>2, <2>3
<1>2. TypeOK'
    BY <1>1 DEF TypeOK
<1>3. Places'
    BY DEF Places
<1>4. Accounted'
    <2>1. arrived' = arrived /\ taken' = taken /\ Discarded' = Discarded
        BY DEF Discarded
    <2>2. Len(rx') \in Nat
        BY <1>1
    <2>3. taken' + Discarded' + Len(rx') + lost' = taken + Discarded + Len(rx) + lost
        BY ONLY <1>1, <2>1, <2>2, Counts, TypeOK, SMTT(20)
    <2> QED
        BY <2>1, <2>3, Counts, CountsNext
<1>5. InTime'
    <2>1. timer \in Nat /\ elapsed \in Nat
        BY DEF TypeOK
    <2>2. elapsed' + Remaining' <= elapsed + Remaining
        <3>1. elapsed' = elapsed /\ pc = "linger" /\ pc' = "decode" /\ hello' = hello
            OBVIOUS
        <3> DEFINE rest == IF hello THEN Settle + SecondHalf ELSE 0
        <3>2. rest \in Nat
            BY RemainingIs, Constants
        <3>3. Remaining = timer + rest
            BY <3>1 DEF Remaining
        <3>4. Remaining' = rest
            BY <3>1 DEF Remaining, SecondHalf, Replies
        <3> HIDE DEF rest
        <3> QED
            BY ONLY <2>1, <3>1, <3>2, <3>3, <3>4
    <2> QED
        BY <1>2, <2>2, Onward
<1> QED
    BY <1>2, <1>3, <1>4, <1>5

\* A step of the unit or the network, or of the program without its waiting any longer.
LEMMA NoLonger ==
    ASSUME SessionInvariant, TypeOK', UNCHANGED <<pc, attempt, hello, sent, timer, elapsed>>
    PROVE  InTime'
<1>1. Remaining' = Remaining
    BY DEF Remaining
<1> QED
    BY <1>1 DEF SessionInvariant, InTime

LEMMA AuthenticatedStep == ASSUME SessionInvariant, Authenticated PROVE SessionInvariant'
<1> USE DEF Authenticated, SessionInvariant, statVars, linkVars, unitVars, histVars
<1>1. TypeOK'
    BY Constants DEF TypeOK, Pause
<1>2. Places' /\ Accounted'
    BY DEF Places, Accounted
<1>3. InTime'
    <2>1. Remaining' = Remaining
        BY DEF Remaining, Pause
    <2> QED
        BY <2>1 DEF InTime
<1> QED
    BY <1>1, <1>2, <1>3

LEMMA SettledStep == ASSUME SessionInvariant, Settled PROVE SessionInvariant'
<1> USE DEF Settled, SessionInvariant, linkVars, unitVars, histVars
<1>1. NoStats \in Stats /\ 0 \in 0 .. Sends
    BY Constants DEF NoStats, Stats
<1>2. TypeOK'
    BY <1>1 DEF TypeOK
<1>3. Places' /\ Accounted'
    BY DEF Places, Accounted
<1>4. InTime'
    <2>1. SecondHalf \in Nat
        BY RemainingIs
    <2>2. Remaining' = Remaining
        BY <2>1 DEF Remaining
    <2> QED
        BY <2>2 DEF InTime
<1> QED
    BY <1>2, <1>3, <1>4

LEMMA SucceedStep == ASSUME SessionInvariant, Succeed PROVE SessionInvariant'
<1> USE DEF Succeed, SessionInvariant, statVars, linkVars, unitVars
<1>1. got.to \in 0 .. MaxRequests /\ 0 \in 0 .. Sends
    BY Constants DEF Places, Packet
<1>2. result' \in [kind : {"none", "ok", "failed"}, to : 0 .. MaxRequests]
    BY <1>1
<1>3. TypeOK'
    BY <1>1, <1>2 DEF TypeOK
<1>4. Places' /\ Accounted'
    BY DEF Places, Accounted
<1>5. InTime'
    <2>1. Remaining' = Remaining
        BY DEF Remaining
    <2> QED
        BY <2>1 DEF InTime
<1> QED
    BY <1>3, <1>4, <1>5

\* Drain: all that waits goes on the count of a session that is not being made.
LEMMA DrainStep == ASSUME SessionInvariant, Drain PROVE SessionInvariant'
<1> USE DEF Drain, SessionInvariant, unitVars
<1>1. /\ pc = "drain" /\ ~hello /\ pc' \in {"send", "fragment"} /\ timer' = ReplyTimeout /\ sent' = 0
      /\ rx' = <<>> /\ live' = [live EXCEPT !.discarded = @ + Len(rx)]
      /\ UNCHANGED <<req, hello, attempt, got, stored, expired, online, kept, own, part, closed, inbox, busy,
                     left, deaf, budget, result, elapsed, most, arrived, taken, lost>>
    BY DEF Places, AfterDrain
<1>2. live' \in Stats /\ Discarded' = Discarded + Len(rx) /\ Len(rx) \in Nat
    <2>1. Len(rx) \in Nat /\ live \in Stats
        BY DEF TypeOK
    <2>2. \A a \in Stats, n \in Nat : LET b == [a EXCEPT !.discarded = @ + n]
                                     IN  b \in Stats /\ b.discarded = a.discarded + n
        BY DEF Stats
    <2> QED
        BY ONLY <1>1, <2>1, <2>2 DEF Discarded
<1>3. TypeOK'
    <2>1. rx' \in Seq(Packet) /\ 0 \in 0 .. Sends
        BY <1>1, Constants
    <2> QED
        BY <1>1, <1>2, <2>1, Constants DEF TypeOK
<1>4. Places'
    BY <1>1, Constants DEF Places
<1>5. Accounted'
    <2>1. Len(rx') = 0
        BY <1>1
    <2>2. taken' + Discarded' + Len(rx') + lost' = taken + Discarded + Len(rx) + lost
        BY ONLY <1>1, <1>2, <2>1, Counts, TypeOK
    <2> QED
        BY <1>1, <2>2, Counts, CountsNext
<1>6. InTime'
    <2>1. Replies(Sends) \in Nat /\ SecondHalf \in Nat
        BY RemainingIs
    <2>2. Sends - sent' = Sends
        BY <1>1, Constants
    <2>3. Remaining = SecondHalf
        BY <1>1 DEF Remaining
    <2>4. Remaining' <= Remaining
        <3>1. CASE pc' = "send"
            BY <1>1, <2>1, <2>2, <2>3, <3>1, Constants DEF Remaining, SecondHalf
        <3>2. CASE pc' = "fragment"
            BY <1>1, <2>1, <2>2, <2>3, <3>2, Constants DEF Remaining, SecondHalf
        <3> QED
            BY <1>1, <3>1, <3>2
    <2>5. elapsed' = elapsed /\ elapsed \in Nat
        BY <1>1 DEF TypeOK
    <2>6. elapsed' + Remaining' <= elapsed + Remaining
        BY <1>3, <2>4, <2>5, RemainingIs, RemainingIsNext
    <2> QED
        BY <1>1, <1>3, <2>6, Onward
<1> QED
    BY <1>3, <1>4, <1>5, <1>6

\* What the unit and the network do.
LEMMA UnitStep ==
    ASSUME SessionInvariant, TakeUp \/ Stall \/ HangUp \/ Expire
    PROVE  SessionInvariant'
<1> USE DEF SessionInvariant, clientVars, statVars, linkVars, unitVars, histVars, Unit
<1>1. ASSUME TakeUp PROVE TypeOK' /\ UNCHANGED <<rx, arrived>>
    <2>1. inbox \in Seq(0 .. MaxRequests) /\ inbox # <<>>
        BY <1>1 DEF TakeUp, TypeOK
    <2>2. Head(inbox) \in 0 .. MaxRequests /\ Tail(inbox) \in Seq(0 .. MaxRequests)
        <3> DEFINE requests == 0 .. MaxRequests
        <3>1. inbox \in Seq(requests) /\ inbox # <<>>
            BY <2>1
        <3> HIDE DEF requests
        <3>2. Head(inbox) \in requests /\ Tail(inbox) \in Seq(requests)
            BY ONLY <3>1
        <3> QED
            BY <3>2 DEF requests
    <2>3. [to |-> Head(inbox), kind |-> "reply"] \in Packet
        BY <2>2 DEF Packet, Kinds
    <2>4. /\ inbox' = Tail(inbox) /\ left' \in {ReplyTime, 0} /\ deaf' = deaf
          /\ busy' \in {[to |-> Head(inbox), kind |-> "reply"], Nothing}
        BY <1>1 DEF TakeUp
    <2>5. inbox' \in Seq(0 .. MaxRequests) /\ busy' \in Packet \cup {Nothing} /\ left' \in Nat
        BY <2>2, <2>3, <2>4, Constants
    <2> HIDE DEF Unit
    <2> QED
        BY <1>1, <2>4, <2>5 DEF TakeUp, TypeOK
<1>2. ASSUME Stall PROVE TypeOK' /\ UNCHANGED <<rx, arrived>>
    BY <1>2, TimingAssumption DEF Stall, TypeOK
<1>3. ASSUME HangUp PROVE TypeOK' /\ UNCHANGED <<rx, arrived>>
    <2>1. inbox' \in Seq(0 .. MaxRequests)
        BY <1>3 DEF HangUp
    <2> QED
        BY <1>3, <2>1 DEF HangUp, TypeOK
<1>4. ASSUME Expire PROVE TypeOK' /\ UNCHANGED <<rx, arrived>>
    BY <1>4 DEF Expire, TypeOK
<1>5. /\ UNCHANGED <<req, pc, hello, attempt, sent, timer, got, kept, live, own, result, elapsed, taken, lost>>
      /\ UNCHANGED <<rx, arrived>> /\ TypeOK'
    BY <1>1, <1>2, <1>3, <1>4 DEF TakeUp, Stall, HangUp, Expire
<1>6. Places' /\ Accounted'
    BY <1>5 DEF Places, Accounted
<1>7. InTime'
    BY <1>5, NoLonger
<1> QED
    BY <1>5, <1>6, <1>7

\* A packet arrives, whole or in part, or the rest of it.
LEMMA ArrivalStep == ASSUME SessionInvariant, Answer \/ RestArrives PROVE SessionInvariant'
<1> USE DEF SessionInvariant, clientVars, statVars, unitVars, Unit
<1>1. /\ UNCHANGED <<req, pc, hello, attempt, sent, timer, got, stored, expired, online, kept, live, own, closed,
                     result, elapsed, most, taken, lost>>
      /\ inbox' = inbox /\ busy' \in Packet \cup {Nothing} /\ left' \in Nat /\ deaf' \in Nat
      /\ part' \in Packet \cup {Nothing}
      /\ \/ UNCHANGED <<rx, arrived>>
         \/ \E packet \in Packet : rx' = Append(rx, packet) /\ arrived' = arrived + 1
    <2>1. CASE Answer
        <3>1. \A kind \in Kinds : [busy EXCEPT !.kind = kind] \in Packet
            BY <2>1 DEF Answer, TypeOK, Packet
        <3> QED
            BY <2>1, <3>1, Constants DEF Answer, TypeOK
    <2>2. CASE RestArrives
        BY <2>2 DEF RestArrives, TypeOK
    <2> QED
        BY <2>1, <2>2
<1>2. /\ rx' \in Seq(Packet) /\ arrived' \in Nat /\ Len(rx') \in Nat
      /\ arrived' + Len(rx) = arrived + Len(rx')
    <2>1. rx \in Seq(Packet) /\ arrived \in Nat
        BY DEF TypeOK
    <2>2. CASE UNCHANGED <<rx, arrived>>
        BY <2>1, <2>2
    <2>3. ASSUME NEW packet \in Packet, rx' = Append(rx, packet), arrived' = arrived + 1
          PROVE  /\ rx' \in Seq(Packet) /\ arrived' \in Nat /\ Len(rx') \in Nat
                 /\ arrived' + Len(rx) = arrived + Len(rx')
        BY ONLY <2>1, <2>3
    <2> QED
        BY ONLY <1>1, <2>2, <2>3
<1>3. TypeOK'
    BY <1>1, <1>2 DEF TypeOK
<1>4. Places'
    BY <1>1 DEF Places
<1>5. Accounted'
    <2>1. Discarded' = Discarded
        BY <1>1 DEF Discarded
    <2>2. arrived = taken + Discarded + Len(rx) + lost
        BY Counts
    <2>3. \A a, b, n, m, t, d, l \in Nat :
             b = t + d + m + l /\ a + m = b + n => a = t + d + n + l
        OBVIOUS
    <2>4. arrived' = taken + Discarded + Len(rx') + lost
        <3>1. Len(rx) \in Nat /\ arrived \in Nat /\ taken \in Nat /\ Discarded \in Nat /\ lost \in Nat
            BY Counts
        <3> QED
            BY ONLY <1>2, <2>2, <3>1
    <2>5. arrived' = taken' + Discarded' + Len(rx') + lost'
        BY <1>1, <2>1, <2>4
    <2> QED
        BY <2>5, CountsNext
<1>6. InTime'
    BY <1>1, <1>3, NoLonger
<1> QED
    BY <1>3, <1>4, <1>5, <1>6

\* A tick is waited for only while the deadline has not come.
LEMMA TickStep == ASSUME SessionInvariant, Tick PROVE SessionInvariant'
<1> USE DEF Tick, SessionInvariant, statVars, linkVars
<1>1. timer' \in Nat /\ left' \in Nat /\ deaf' \in Nat /\ elapsed' \in Nat
    BY DEF TypeOK, Less
<1>2. TypeOK'
    BY <1>1 DEF TypeOK
<1>3. Places' /\ Accounted'
    BY DEF Places, Accounted
<1>4. InTime'
    <2>1. timer \in Nat /\ elapsed \in Nat
        BY DEF TypeOK
    <2>2. CASE pc = "idle"
        <3>1. Remaining' = Remaining /\ elapsed' = elapsed /\ attempt' = attempt
            BY <2>2 DEF Remaining
        <3> QED
            BY <3>1 DEF InTime
    <2>3. CASE pc # "idle"
        <3>1. pc \in {"connect", "settle", "await", "linger", "fragment"} /\ timer' = timer - 1 /\ elapsed' = elapsed + 1
            BY <2>1, <2>3 DEF Waits, Less
        <3>2. Replies(Sends) \in Nat /\ SecondHalf \in Nat /\ Replies(Sends - sent) \in Nat
            BY RemainingIs
        <3>3. Remaining' + 1 = Remaining
            BY <2>1, <3>1, <3>2, Constants DEF Remaining
        <3>4. elapsed' + Remaining' <= elapsed + Remaining
            BY <1>2, <2>1, <3>1, <3>3, RemainingIs, RemainingIsNext
        <3> QED
            BY <1>2, <3>4, Onward
    <2> QED
        BY <2>2, <2>3
<1> QED
    BY <1>2, <1>3, <1>4

LEMMA EveryStep == SessionInvariant /\ [Next]_vars => SessionInvariant'
<1> SUFFICES ASSUME SessionInvariant, [Next]_vars PROVE SessionInvariant'
    OBVIOUS
<1>1. CASE UNCHANGED vars
    BY <1>1 DEF vars, clientVars, statVars, linkVars, unitVars, histVars, SessionInvariant, TypeOK, Places,
               Accounted, InTime, Remaining
<1>2. CASE Rest
    BY <1>1, <1>2 DEF Rest
<1> QED
    BY <1>1, <1>2, ExchangeStep, ConnectStep, Failures, SendStep, ReceiveStep, ResendStep, Discards,
       LingerOverStep, AuthenticatedStep, SettledStep, SucceedStep, DrainStep, UnitStep, ArrivalStep,
       TickStep
       DEF Next, Client
-----------------------------------------------------------------------------
\* The inductive invariant: types, what the place in an exchange says, the count of
\* the packets, and the time an exchange has left.
THEOREM InvariantHolds == Spec => []SessionInvariant
BY Beginning, EveryStep, PTL DEF Spec

\* Every variable holds a value of its kind.
THEOREM TypeCorrect == Spec => []TypeOK
<1>1. SessionInvariant => TypeOK
    BY DEF SessionInvariant
<1> QED
    BY <1>1, InvariantHolds, PTL

\* DeviceStats.discarded: "replies thrown away because no request was waiting for
\* them" -- every packet that arrived is a reply, discarded and counted, still
\* there, or went with the framing.
THEOREM PacketsAccounted == Spec => []Accounted
<1>1. SessionInvariant => Accounted
    BY DEF SessionInvariant
<1> QED
    BY <1>1, InvariantHolds, PTL

\* Device::exchange under ATTEMPTS, CONNECT_TIMEOUT and Timing: whatever the unit
\* does, an exchange ends before its deadlines have been waited for.
THEOREM ExchangeBounded == Spec => []Bounded
<1>1. SessionInvariant => Bounded
    <2> SUFFICES ASSUME SessionInvariant PROVE Bounded
        OBVIOUS
    <2>1. elapsed \in Nat /\ attempt \in 0 .. Attempts /\ elapsed + Remaining <= AttemptsTake(attempt)
        BY DEF SessionInvariant, TypeOK, InTime
    <2>2. Remaining \in Nat
        BY RemainingIs DEF SessionInvariant
    <2>3. AttemptsTake(attempt) <= AttemptsTake(Attempts) /\ AttemptsTake(attempt) \in Nat
          /\ AttemptsTake(Attempts) \in Nat
        BY <2>1, AttemptsOrdered, AttemptsAdd, Constants
    <2>4. elapsed <= AttemptsTake(Attempts)
        BY <2>1, <2>2, <2>3
    <2> QED
        BY <2>4, BoundIs DEF Bounded
<1> QED
    BY <1>1, InvariantHolds, PTL
-----------------------------------------------------------------------------
(* What comes back is the answer to what was asked.                        *)

\* The timings for which the defence holds: a unit that does not stall answers before its
\* packet is sent again and within the linger window, and it stalls once at most.
Timely == MaxStalls \in 0 .. 1 /\ ReplyTime <= ReplyTimeout /\ ReplyTime <= Linger

\* What the program is after, and the packets on the connection: arrived, in front of
\* the unit, in its hands, in part.
Current == IF hello THEN 0 ELSE req
One(packet) == IF packet = Nothing THEN 0 ELSE 1
OnWay == Len(rx) + Len(inbox) + One(busy) + One(part)
Clean == rx = <<>> /\ inbox = <<>> /\ busy = Nothing /\ part = Nothing

Addressed ==
    /\ \A i \in DOMAIN rx : rx[i].to = Current
    /\ \A i \in DOMAIN inbox : inbox[i] = Current
    /\ busy # Nothing => busy.to = Current
    /\ part # Nothing => part.to = Current

\* What has not arrived will have before the program stops waiting.
Soon ==
    /\ busy # Nothing \/ part # Nothing => left <= timer
    /\ inbox # <<>> => ReplyTime <= timer

\* With one arrived the unit has not stalled over the other.
Prompt == rx # <<>> /\ (busy # Nothing \/ part # Nothing) => left <= ReplyTime

\* No more is on its way than was sent; and if the first of two came late the unit
\* has had its stall.
OneSent == pc = "await" /\ sent = 1 /\ budget.stalls > 0 => Soon
Overdue == pc = "send" /\ sent = 1 /\ OnWay >= 1 => budget.stalls = 0
TwoSent ==
    pc \in {"send", "await"} /\ sent = 2 /\ OnWay >= 2 => budget.stalls = 0 /\ Prompt
Lingering ==
    pc = "linger" => /\ sent = 2 /\ OnWay <= 1 /\ Soon
                     /\ OnWay >= 1 => budget.stalls = 0
Few == pc \in {"send", "await"} => OnWay <= sent
Done == pc \notin {"send", "await", "linger"} => Clean
InHand == pc \in {"linger", "decode"} => got.to = Current

Expected ==
    /\ pc # "fragment" /\ Addressed /\ Few /\ Done /\ InHand
    /\ OneSent /\ Overdue /\ TwoSent /\ Lingering

\* On a connection on which nothing was sent more than twice.
AnswerInvariant ==
    /\ "stalls" \in DOMAIN budget /\ budget.stalls \in 0 .. 1
    /\ pc # "idle" => result.kind = "none"
    /\ pc \in {"send", "await", "linger", "decode"} => sent <= most
    /\ closed => inbox = <<>> /\ busy = Nothing /\ part = Nothing
    /\ RightReply
    /\ most <= 2 => Expected

LEMMA Amounts ==
    ASSUME TypeOK
    PROVE  /\ Len(rx) \in Nat /\ (Len(rx) = 0 <=> rx = <<>>)
           /\ Len(inbox) \in Nat /\ (Len(inbox) = 0 <=> inbox = <<>>)
           /\ One(busy) \in 0 .. 1 /\ (One(busy) = 0 <=> busy = Nothing)
           /\ One(part) \in 0 .. 1 /\ (One(part) = 0 <=> part = Nothing)
           /\ OnWay \in Nat /\ OnWay = Len(rx) + Len(inbox) + One(busy) + One(part)
           /\ OnWay = 0 <=> Clean
<1>1. Len(rx) \in Nat /\ (Len(rx) = 0 <=> rx = <<>>) /\ Len(inbox) \in Nat /\ (Len(inbox) = 0 <=> inbox = <<>>)
    BY DEF TypeOK
<1>2. /\ One(busy) \in 0 .. 1 /\ (One(busy) = 0 <=> busy = Nothing)
      /\ One(part) \in 0 .. 1 /\ (One(part) = 0 <=> part = Nothing)
    BY DEF One
<1> HIDE DEF One
<1> QED
    BY <1>1, <1>2 DEF OnWay, Clean

LEMMA AmountsNext ==
    ASSUME TypeOK'
    PROVE  /\ Len(rx') \in Nat /\ (Len(rx') = 0 <=> rx' = <<>>)
           /\ Len(inbox') \in Nat /\ (Len(inbox') = 0 <=> inbox' = <<>>)
           /\ One(busy') \in 0 .. 1 /\ (One(busy') = 0 <=> busy' = Nothing)
           /\ One(part') \in 0 .. 1 /\ (One(part') = 0 <=> part' = Nothing)
           /\ OnWay' \in Nat /\ OnWay' = Len(rx') + Len(inbox') + One(busy') + One(part')
           /\ OnWay' = 0 <=> Clean'
<1>1. Len(rx') \in Nat /\ (Len(rx') = 0 <=> rx' = <<>>) /\ Len(inbox') \in Nat /\ (Len(inbox') = 0 <=> inbox' = <<>>)
    <2>1. rx' \in Seq(Packet) /\ inbox' \in Seq(0 .. MaxRequests)
        BY DEF TypeOK
    <2>2. Len(rx') \in Nat /\ (Len(rx') = 0 <=> rx' = <<>>)
        BY ONLY <2>1
    <2>3. Len(inbox') \in Nat /\ (Len(inbox') = 0 <=> inbox' = <<>>)
        BY ONLY <2>1
    <2> QED
        BY <2>2, <2>3
<1>2. /\ One(busy') \in 0 .. 1 /\ (One(busy') = 0 <=> busy' = Nothing)
      /\ One(part') \in 0 .. 1 /\ (One(part') = 0 <=> part' = Nothing)
    BY DEF One
<1>3. OnWay' = Len(rx') + Len(inbox') + One(busy') + One(part')
    BY DEF OnWay, One
<1> HIDE DEF One
<1> QED
    BY <1>1, <1>2, <1>3 DEF Clean

\* Nothing is under way, and nothing was sent.
LEMMA CleanExpected ==
    ASSUME TypeOK', Clean', pc' \notin {"await", "linger", "decode", "fragment"}
    PROVE  Expected'
<1>1. OnWay' = 0
    BY AmountsNext
<1>2. rx' = <<>> /\ inbox' = <<>> /\ busy' = Nothing /\ part' = Nothing
    BY DEF Clean
<1>3. Addressed'
    BY <1>2 DEF Addressed
<1>4. Few'
    BY <1>1 DEF Few, TypeOK
<1> QED
    BY <1>1, <1>3, <1>4 DEF Expected, Done, InHand, OneSent, Overdue, TwoSent, Lingering

LEMMA AnswerInit == Timely /\ Init => AnswerInvariant
<1> SUFFICES ASSUME Timely, Init PROVE AnswerInvariant
    OBVIOUS
<1>1. TypeOK /\ Clean
    BY Beginning DEF Init, Clean, SessionInvariant
<1>2. OnWay = 0
    BY <1>1, Amounts
<1>3. pc = "idle" /\ result.kind = "none" /\ sent = 0 /\ rx = <<>> /\ inbox = <<>>
    BY DEF Init, NoResult
<1>4. Addressed
    BY <1>1, <1>3 DEF Addressed, Clean
<1>5. Expected
    BY <1>1, <1>3, <1>4 DEF Expected, Few, Done, InHand, OneSent, Overdue, TwoSent, Lingering
<1>6. "stalls" \in DOMAIN budget /\ budget.stalls \in 0 .. 1
    BY DEF Init, Timely
<1> QED
    BY <1>3, <1>5, <1>6 DEF AnswerInvariant, RightReply, Init

\* A new connection begins with nothing.
LEMMA AnswerNew ==
    ASSUME AnswerInvariant, TypeOK', budget' = budget, NEW open, NewConnection(open),
           pc' \in {"idle", "connect"} \/ (pc' = "send" /\ sent' = 0),
           pc' = "idle" => result'.kind = "failed",
           pc' # "idle" => result'.kind = "none"
    PROVE  AnswerInvariant'
<1>1. Clean' /\ most' = 0
    BY DEF Clean, NewConnection
<1>2. Expected'
    BY <1>1, CleanExpected
<1> QED
    BY <1>1, <1>2 DEF AnswerInvariant, Clean, RightReply

LEMMA AnswerFails ==
    ASSUME AnswerInvariant, TypeOK', pc # "idle", NEW retryable \in BOOLEAN, Fail(retryable)
    PROVE  AnswerInvariant'
<1>1. /\ budget' = budget /\ NewConnection(FALSE)
      /\ \/ pc' = "connect" /\ result' = result
         \/ pc' = "idle" /\ result' = [kind |-> "failed", to |-> req]
    BY DEF Fail
<1>2. result.kind = "none"
    BY DEF AnswerInvariant
<1>3. pc' \in {"idle", "connect"}
    BY <1>1
<1>4. /\ pc' = "idle" => result'.kind = "failed"
      /\ pc' # "idle" => result'.kind = "none"
    BY <1>1, <1>2
<1> QED
    BY <1>1, <1>3, <1>4, AnswerNew

\* What the connection is left with stays as it is, and nothing of it is under way.
LEMMA AnswerClean ==
    ASSUME AnswerInvariant, TypeOK', UNCHANGED <<budget, closed, most>>,
           pc' \in {"idle", "connect", "settle", "drain"} \/ (pc' = "send" /\ sent' = 0),
           most <= 2 => Clean',
           closed => inbox' = <<>> /\ busy' = Nothing /\ part' = Nothing,
           pc' # "idle" => result'.kind = "none",
           RightReply'
    PROVE  AnswerInvariant'
<1>1. most <= 2 => Expected'
    BY CleanExpected
<1>2. sent' = 0 => sent' <= most'
    BY DEF TypeOK
<1> QED
    BY <1>1, <1>2 DEF AnswerInvariant

LEMMA AnswerExchange == ASSUME SessionInvariant, TypeOK', AnswerInvariant, Exchange PROVE AnswerInvariant'
<1>1. /\ UNCHANGED <<budget, closed, most, rx, inbox, busy, part>> /\ pc = "idle"
      /\ pc' \in {"drain", "connect"} /\ result' = NoResult
    BY DEF Exchange, linkVars, unitVars
<1>2. most <= 2 => Clean'
    BY <1>1 DEF AnswerInvariant, Expected, Done, Clean
<1>3. result'.kind = "none" /\ RightReply'
    BY <1>1 DEF NoResult, RightReply
<1> QED
    BY <1>1, <1>2, <1>3, AnswerClean DEF AnswerInvariant

LEMMA AnswerConnect == ASSUME TypeOK', AnswerInvariant, Connect PROVE AnswerInvariant'
<1>1. /\ budget' = budget /\ NewConnection(TRUE) /\ pc = "connect" /\ pc' = "send" /\ sent' = 0
      /\ result' = result
    BY DEF Connect
<1>2. result.kind = "none"
    BY <1>1 DEF AnswerInvariant
<1> QED
    BY <1>1, <1>2, AnswerNew

LEMMA AnswerFailures ==
    ASSUME TypeOK', AnswerInvariant,
           ConnectFails \/ SendFails \/ GiveUp \/ DecodeFails \/ DrainFails \/ FragmentFails,
           hello \in BOOLEAN
    PROVE  AnswerInvariant'
<1>1. pc # "idle" /\ \E retryable \in BOOLEAN : Fail(retryable)
    BY DEF ConnectFails, SendFails, GiveUp, DecodeFails, DrainFails, FragmentFails
<1> QED
    BY <1>1, AnswerFails

\* A decoded reply, a settled session and a drained one leave the connection as clean as
\* they find it.
LEMMA AnswerOnward ==
    ASSUME SessionInvariant, TypeOK', AnswerInvariant, Authenticated \/ Settled \/ Succeed
    PROVE  AnswerInvariant'
<1>1. /\ UNCHANGED <<budget, closed, most, rx, inbox, busy, part, req>>
      /\ pc \in {"decode", "settle"} /\ pc' \in {"settle", "drain", "idle"}
      /\ \/ pc' # "idle" /\ result' = result
         \/ /\ pc' = "idle" /\ pc = "decode" /\ result'.to = got.to
            /\ ~hello
    BY DEF Authenticated, Settled, Succeed, linkVars, unitVars, histVars
<1>2. most <= 2 => Clean'
    BY <1>1 DEF AnswerInvariant, Expected, Done, Clean
<1>3. result.kind = "none"
    BY <1>1 DEF AnswerInvariant
<1>4. RightReply'
    <2>1. CASE result' = result
        BY <1>3, <2>1 DEF RightReply
    <2>2. CASE result'.to = got.to /\ pc = "decode" /\ ~hello
        BY <1>1, <2>2 DEF AnswerInvariant, Expected, InHand, Current, RightReply
    <2> QED
        BY <1>1, <2>1, <2>2
<1> QED
    BY <1>1, <1>2, <1>3, <1>4, AnswerClean DEF AnswerInvariant

LEMMA AnswerDrain ==
    ASSUME SessionInvariant, TypeOK', AnswerInvariant, Drain \/ FinishFragment
    PROVE  AnswerInvariant'
<1>1. /\ UNCHANGED <<budget, closed, most, inbox, busy, part, result>>
      /\ pc \in {"drain", "fragment"} /\ pc' \in {"send", "fragment"} /\ sent' = 0
      /\ pc = "drain" => rx' = <<>> /\ pc' = AfterDrain
    <2>1. CASE Drain
        BY <2>1 DEF Drain, unitVars, AfterDrain
    <2>2. CASE FinishFragment
        BY <2>2 DEF FinishFragment, unitVars, SessionInvariant, Places
    <2> QED
        BY <2>1, <2>2
<1>2. result'.kind = "none" /\ RightReply'
    BY <1>1 DEF AnswerInvariant, RightReply
<1>3. CASE most <= 2
    <2>1. pc = "drain" /\ Clean
        BY <1>1, <1>3 DEF AnswerInvariant, Expected, Done
    <2>2. Clean' /\ pc' = "send"
        BY <1>1, <2>1 DEF Clean, AfterDrain
    <2> QED
        BY <1>1, <1>2, <2>2, AnswerClean DEF AnswerInvariant
<1>4. CASE ~(most <= 2)
    <2>1. sent' <= most'
        BY <1>1, <1>4 DEF SessionInvariant, TypeOK
    <2> QED
        BY <1>1, <1>2, <1>4, <2>1 DEF AnswerInvariant
<1> QED
    BY <1>3, <1>4

\* Where the invariant says nothing: something was sent three times.
LEMMA AnswerMany ==
    ASSUME AnswerInvariant, most' >= 3, most' \in Nat,
           "stalls" \in DOMAIN budget' /\ budget'.stalls \in 0 .. 1,
           pc' # "idle" => result'.kind = "none",
           pc' \in {"send", "await", "linger", "decode"} => sent' <= most',
           closed' => inbox' = <<>> /\ busy' = Nothing /\ part' = Nothing
    PROVE  AnswerInvariant'
BY DEF AnswerInvariant, RightReply

\* One more copy in front of the unit.  It is the only one, and in time; or the first is
\* late, and has used up the stall.
LEMMA AnswerSend ==
    ASSUME Timely, SessionInvariant, TypeOK', AnswerInvariant, Send
    PROVE  AnswerInvariant'
<1>1. /\ UNCHANGED <<budget, closed, rx, part, busy, left, hello, req, result>>
      /\ pc = "send" /\ pc' = "await" /\ sent' = sent + 1 /\ timer' = ReplyTimeout
      /\ inbox' = IF closed \/ deaf > 0 THEN inbox ELSE Append(inbox, Current)
      /\ most' = IF sent' > most THEN sent' ELSE most
    BY DEF Send, linkVars, Current
<1>2. /\ sent \in Nat /\ most \in Nat /\ sent <= most
      /\ inbox \in Seq(0 .. MaxRequests) /\ Current \in 0 .. MaxRequests
    BY <1>1, Constants DEF SessionInvariant, TypeOK, AnswerInvariant, Current
<1>3. sent' <= most' /\ most <= most' /\ most' \in Nat /\ result'.kind = "none" /\ RightReply'
    BY <1>1, <1>2 DEF AnswerInvariant, RightReply
<1>4. closed' => inbox' = <<>> /\ busy' = Nothing /\ part' = Nothing
    BY <1>1 DEF AnswerInvariant
<1>5. ASSUME most' <= 2 PROVE Expected'
    <2>1. Expected /\ sent \in 0 .. 1
        BY <1>1, <1>2, <1>3, <1>5 DEF AnswerInvariant
    <2>2. Len(inbox') <= Len(inbox) + 1
        BY <1>1, <1>2
    <2>3. OnWay \in Nat /\ OnWay' \in Nat /\ OnWay' <= OnWay + 1 /\ OnWay <= sent
        <3>1. One(busy') = One(busy) /\ One(part') = One(part) /\ rx' = rx
            BY <1>1
        <3>2. OnWay <= sent
            BY <1>1, <2>1 DEF Expected, Few
        <3> HIDE DEF One
        <3> QED
            BY <2>2, <3>1, <3>2, Amounts, AmountsNext DEF SessionInvariant
    <2>4. Current' = Current
        BY <1>1 DEF Current
    <2>5. Addressed'
        <3>1. \A i \in DOMAIN inbox' : inbox'[i] = Current
            <4>1. \A i \in DOMAIN inbox : inbox[i] = Current
                BY <2>1 DEF Expected, Addressed
            <4>2. \A i \in DOMAIN Append(inbox, Current) : Append(inbox, Current)[i] = Current
                BY ONLY <1>2, <4>1
            <4> QED
                BY <1>1, <4>1, <4>2
        <3> QED
            BY <1>1, <2>1, <2>4, <3>1 DEF Expected, Addressed
    <2>6. Few' /\ Done' /\ InHand' /\ Overdue' /\ Lingering' /\ pc' # "fragment"
        BY <1>1, <1>2, <2>3 DEF Few, Done, InHand, Overdue, Lingering
    <2>7. OneSent'
        <3> SUFFICES ASSUME sent' = 1 PROVE Soon'
            BY DEF OneSent
        <3>1. OnWay = 0
            BY <1>1, <1>2, <2>3
        <3>2. busy' = Nothing /\ part' = Nothing
            BY <1>1, <3>1, Amounts DEF SessionInvariant, Clean
        <3> QED
            BY <1>1, <3>2 DEF Soon, Timely
    <2>8. TwoSent'
        <3> SUFFICES ASSUME sent' = 2, OnWay' >= 2
                     PROVE  /\ budget.stalls = 0
                            /\ rx # <<>> /\ (busy # Nothing \/ part # Nothing) => left <= ReplyTime
            BY <1>1 DEF TwoSent, Prompt
        <3>1. sent = 1 /\ OnWay = 1
            BY <1>1, <1>2, <2>3
        <3>2. budget.stalls = 0
            BY <1>1, <2>1, <3>1 DEF Expected, Overdue
        <3>3. rx # <<>> => busy = Nothing /\ part = Nothing
            <4> HIDE DEF OnWay, One
            <4> QED
                BY <3>1, Amounts DEF SessionInvariant
        <3> QED
            BY <3>2, <3>3
    <2> QED
        BY <2>5, <2>6, <2>7, <2>8 DEF Expected
<1> QED
    BY <1>1, <1>3, <1>4, <1>5 DEF AnswerInvariant

\* The reply is in hand, and nothing else is under way.
LEMMA AnswerDecode ==
    ASSUME AnswerInvariant, TypeOK', UNCHANGED <<budget, closed, most, result, inbox, busy, part>>,
           pc # "idle", pc' = "decode", sent' <= most',
           most <= 2 => Clean' /\ got'.to = Current'
    PROVE  AnswerInvariant'
<1>1. ASSUME most <= 2 PROVE Expected'
    <2>1. rx' = <<>> /\ inbox' = <<>> /\ busy' = Nothing /\ part' = Nothing /\ got'.to = Current'
        BY <1>1 DEF Clean
    <2> QED
        BY <1>1, <2>1 DEF Expected, Addressed, Few, Done, InHand, OneSent, Overdue, TwoSent, Lingering
<1>2. RightReply'
    BY DEF AnswerInvariant, RightReply
<1> QED
    BY <1>1, <1>2 DEF AnswerInvariant

\* With the timer at zero, and the unit with nothing to do, what was to be there soon is.
LEMMA NothingComes ==
    ASSUME TypeOK, Soon, timer = 0, ~closed, ~UnitDue
    PROVE  inbox = <<>> /\ busy = Nothing /\ part = Nothing
<1>1. left \in Nat
    BY DEF TypeOK
<1>2. busy = Nothing /\ part = Nothing
    BY <1>1 DEF Soon, UnitDue
<1> QED
    BY <1>2 DEF UnitDue

LEMMA TakesFirst ==
    ASSUME TypeOK, TypeOK', rx # <<>>, rx' = Tail(rx), UNCHANGED <<inbox, busy, part>>
    PROVE  /\ OnWay \in Nat /\ OnWay' = OnWay - 1
           /\ Head(rx) = rx[1] /\ 1 \in DOMAIN rx
           /\ \A i \in DOMAIN rx' : i + 1 \in DOMAIN rx /\ rx'[i] = rx[i + 1]
<1>1. rx \in Seq(Packet) /\ rx # <<>>
    BY DEF TypeOK
<1>2. Len(Tail(rx)) = Len(rx) - 1 /\ Head(rx) = rx[1] /\ 1 \in DOMAIN rx
    BY ONLY <1>1
<1>3. \A i \in DOMAIN Tail(rx) : i + 1 \in DOMAIN rx /\ Tail(rx)[i] = rx[i + 1]
    BY ONLY <1>1
<1>4. One(busy') = One(busy) /\ One(part') = One(part) /\ Len(rx') = Len(rx) - 1 /\ Len(inbox') = Len(inbox)
    BY <1>2
<1> HIDE DEF One
<1>5. OnWay' = OnWay - 1 /\ OnWay \in Nat
    BY <1>4, Amounts, AmountsNext
<1> QED
    BY <1>2, <1>3, <1>5

LEMMA AnswerReceive ==
    ASSUME Timely, SessionInvariant, TypeOK', AnswerInvariant, Receive
    PROVE  AnswerInvariant'
<1>1. /\ UNCHANGED <<budget, closed, inbox, busy, left, part, hello, req, sent, most, result>>
      /\ pc = "await" /\ rx # <<>> /\ rx' = Tail(rx) /\ got' = Head(rx)
      /\ pc' = AfterReply /\ timer' = IF sent > 1 THEN Linger ELSE 0
    BY DEF Receive, unitVars, Readable
<1>2. sent \in Nat \ {0} /\ most \in Nat /\ sent <= most /\ TypeOK
    BY <1>1 DEF SessionInvariant, TypeOK, AnswerInvariant, Places
<1>3. /\ OnWay \in Nat /\ OnWay' = OnWay - 1
      /\ Head(rx) = rx[1] /\ 1 \in DOMAIN rx
      /\ \A i \in DOMAIN rx' : i + 1 \in DOMAIN rx /\ rx'[i] = rx[i + 1]
    BY <1>1, <1>2, TakesFirst
<1>4. Current' = Current
    BY <1>1 DEF Current
<1>5. most <= 2 => Expected /\ got'.to = Current /\ OnWay <= sent
    BY <1>1, <1>3 DEF AnswerInvariant, Expected, Addressed, Few
<1>6. CASE sent = 1
    <2>1. pc' = "decode"
        BY <1>1, <1>6 DEF AfterReply
    <2>2. most <= 2 => OnWay' = 0
        BY <1>3, <1>5, <1>6, AmountsNext
    <2>3. most <= 2 => Clean'
        BY <2>2, AmountsNext
    <2> QED
        BY <1>1, <1>2, <1>4, <1>5, <2>1, <2>3, AnswerDecode
<1>7. CASE sent > 1
    <2>1. pc' = "linger" /\ timer' = Linger
        BY <1>1, <1>7 DEF AfterReply
    <2>2. RightReply' /\ result'.kind = "none" /\ sent' <= most'
        BY <1>1, <1>2 DEF AnswerInvariant, RightReply
    <2>3. ASSUME most <= 2 PROVE Expected'
        <3>1. sent = 2 /\ Expected /\ OnWay <= 2 /\ got'.to = Current
            BY <1>2, <1>5, <1>7, <2>3
        <3>2. Addressed'
            BY <1>1, <1>3, <1>4, <3>1 DEF Expected, Addressed
        <3>3. OnWay' <= 1 /\ (OnWay' >= 1 => OnWay >= 2)
            BY <1>3, <3>1
        <3>4. OnWay' >= 1 => budget'.stalls = 0
            BY <1>1, <3>1, <3>3 DEF Expected, TwoSent
        <3>5. busy # Nothing \/ part # Nothing => OnWay' >= 1
            <4>1. One(busy') = One(busy) /\ One(part') = One(part)
                BY <1>1
            <4> HIDE DEF One, OnWay
            <4> QED
                BY <1>2, <4>1, Amounts, AmountsNext
        <3>6. Soon'
            <4>1. busy # Nothing \/ part # Nothing => left <= ReplyTime
                BY <1>1, <3>1, <3>3, <3>5 DEF Expected, TwoSent, Prompt
            <4>2. left \in Nat
                BY <1>2 DEF TypeOK
            <4> QED
                BY <1>1, <2>1, <4>1, <4>2, Constants DEF Soon, Timely
        <3>7. Lingering'
            BY <1>1, <3>1, <3>3, <3>4, <3>6 DEF Lingering
        <3>8. InHand'
            BY <1>4, <3>1 DEF InHand
        <3> QED
            BY <2>1, <3>2, <3>7, <3>8 DEF Expected, Few, Done, OneSent, Overdue, TwoSent
    <2> QED
        BY <1>1, <2>2, <2>3 DEF AnswerInvariant
<1> QED
    BY <1>2, <1>6, <1>7

\* What was sent once and is sent again is lost, or late: the unit has had its stall.
LEMMA AnswerResend ==
    ASSUME Timely, SessionInvariant, TypeOK', AnswerInvariant, Resend
    PROVE  AnswerInvariant'
<1>1. /\ UNCHANGED <<budget, closed, rx, inbox, busy, left, part, hello, req, sent, timer, most, result>>
      /\ pc = "await" /\ pc' = "send" /\ timer = 0 /\ rx = <<>> /\ ~closed /\ ~UnitDue
    BY DEF Resend, TimedOut, HungUp, Readable, linkVars, unitVars, histVars
<1>2. TypeOK /\ OnWay' = OnWay /\ Current' = Current
    BY <1>1 DEF SessionInvariant, OnWay, Current, One
<1>3. RightReply' /\ result'.kind = "none" /\ sent' <= most'
    BY <1>1 DEF AnswerInvariant, RightReply
<1>4. ASSUME most <= 2 PROVE Expected'
    <2>1. Expected
        BY <1>4 DEF AnswerInvariant
    <2>2. Addressed'
        BY <1>1, <1>2, <2>1 DEF Expected, Addressed
    <2>3. Few' /\ TwoSent'
        BY <1>1, <1>2, <2>1 DEF Expected, Few, TwoSent, Prompt
    <2>4. Overdue'
        <3> SUFFICES ASSUME sent = 1, OnWay >= 1, budget.stalls # 0 PROVE FALSE
            BY <1>1, <1>2 DEF Overdue
        <3>1. Soon
            BY <1>1, <2>1 DEF AnswerInvariant, Expected, OneSent
        <3>2. Clean
            BY <1>1, <1>2, <3>1, NothingComes DEF Clean
        <3> QED
            BY <1>2, <3>2, Amounts
    <2> QED
        BY <1>1, <2>2, <2>3, <2>4 DEF Expected, Done, InHand, OneSent, Lingering
<1> QED
    BY <1>1, <1>3, <1>4 DEF AnswerInvariant

LEMMA AnswerAbsorb ==
    ASSUME SessionInvariant, TypeOK', AnswerInvariant, Absorb
    PROVE  AnswerInvariant'
<1>1. /\ UNCHANGED <<budget, closed, inbox, busy, part, hello, req, got, sent, most, result>>
      /\ pc = "linger" /\ pc' = "linger" /\ rx # <<>> /\ rx' = Tail(rx)
    BY DEF Absorb, clientVars, unitVars, Readable
<1>2. TypeOK
    BY DEF SessionInvariant
<1>3. OnWay \in Nat /\ OnWay' = OnWay - 1
    BY <1>1, <1>2, TakesFirst
<1>4. RightReply' /\ result'.kind = "none" /\ sent' <= most'
    BY <1>1 DEF AnswerInvariant, RightReply
<1>5. ASSUME most <= 2 PROVE Expected'
    <2>1. Expected /\ OnWay <= 1 /\ sent = 2 /\ got.to = Current
        BY <1>1, <1>5 DEF AnswerInvariant, Expected, Lingering, InHand
    <2>2. OnWay' = 0 /\ Clean'
        BY <1>3, <2>1, AmountsNext
    <2>3. rx' = <<>> /\ inbox' = <<>> /\ busy' = Nothing /\ part' = Nothing
        BY <2>2 DEF Clean
    <2>4. Lingering'
        BY <1>1, <2>1, <2>2, <2>3 DEF Lingering, Soon
    <2>5. InHand' /\ Addressed'
        BY <1>1, <2>1, <2>3 DEF InHand, Addressed, Current
    <2> QED
        BY <1>1, <2>4, <2>5 DEF Expected, Few, Done, OneSent, Overdue, TwoSent
<1> QED
    BY <1>1, <1>4, <1>5 DEF AnswerInvariant

\* The duplicate was absorbed, or there was none: nothing is under way any more.
LEMMA AnswerLingerOver ==
    ASSUME SessionInvariant, TypeOK', AnswerInvariant, LingerOver
    PROVE  AnswerInvariant'
<1>1. /\ UNCHANGED <<budget, closed, inbox, busy, part, hello, req, got, sent, most, result>>
      /\ pc = "linger" /\ pc' = "decode"
      /\ rx' = IF Noisy THEN <<>> ELSE rx
      /\ TimedOut \/ HungUp \/ Noisy
    BY DEF LingerOver, unitVars
<1>2. TypeOK /\ sent' <= most'
    BY <1>1 DEF SessionInvariant, AnswerInvariant
<1>3. ASSUME most <= 2 PROVE Clean' /\ got'.to = Current'
    <2>1. Lingering /\ got.to = Current /\ Soon /\ OnWay <= 1
        BY <1>1, <1>3 DEF AnswerInvariant, Expected, Lingering, InHand
    <2>2. CASE TimedOut
        <3>1. timer = 0 /\ rx = <<>> /\ ~closed /\ ~UnitDue
            BY <2>2 DEF TimedOut, HungUp, Readable
        <3>2. inbox = <<>> /\ busy = Nothing /\ part = Nothing
            BY <1>2, <2>1, <3>1, NothingComes
        <3> QED
            BY <1>1, <2>1, <3>1, <3>2 DEF Clean, Current
    <2>3. CASE HungUp
        <3>1. rx = <<>> /\ inbox = <<>> /\ busy = Nothing /\ part = Nothing
            BY <2>3 DEF HungUp, Readable, AnswerInvariant
        <3> QED
            BY <1>1, <2>1, <3>1 DEF Clean, Current
    <2>4. CASE Noisy
        <3>1. rx # <<>>
            BY <2>4 DEF Noisy, Readable
        <3>2. inbox = <<>> /\ busy = Nothing /\ part = Nothing
            <4> HIDE DEF One, OnWay
            <4> QED
                BY <1>2, <2>1, <3>1, Amounts
        <3> QED
            BY <1>1, <2>1, <2>4, <3>2 DEF Clean, Current
    <2> QED
        BY <1>1, <2>2, <2>3, <2>4
<1> QED
    BY <1>1, <1>2, <1>3, AnswerDecode

\* A step of the unit, or of time.
LEMMA AnswerMeanwhile ==
    ASSUME TypeOK, TypeOK', AnswerInvariant,
           UNCHANGED <<pc, sent, got, hello, req, most, result>>,
           "stalls" \in DOMAIN budget', budget'.stalls \in 0 .. 1, budget'.stalls <= budget.stalls,
           closed' => inbox' = <<>> /\ busy' = Nothing /\ part' = Nothing,
           OnWay' <= OnWay,
           Addressed => Addressed',
           budget.stalls = 0 /\ Prompt => Prompt',
           pc \in {"await", "linger"} /\ OnWay <= 1 /\ Soon => Soon' \/ budget'.stalls < budget.stalls
    PROVE  AnswerInvariant'
<1>1. OnWay \in Nat /\ OnWay' \in Nat /\ (OnWay' = 0 <=> Clean') /\ (OnWay = 0 <=> Clean)
    BY Amounts, AmountsNext
<1>2. sent \in Nat /\ most \in Nat
    BY DEF TypeOK
<1>3. budget.stalls \in 0 .. 1
    BY DEF AnswerInvariant
<1>4. /\ pc # "idle" => result'.kind = "none"
      /\ pc \in {"send", "await", "linger", "decode"} => sent' <= most'
      /\ RightReply'
    BY DEF AnswerInvariant, RightReply
<1>5. ASSUME most <= 2 PROVE Expected'
    <2>1. Expected
        BY <1>5 DEF AnswerInvariant
    <2>2. Few' /\ Done' /\ InHand'
        <3>1. Few'
            BY <1>1, <1>2, <2>1 DEF Expected, Few
        <3>2. Done'
            BY <1>1, <2>1 DEF Expected, Done
        <3>3. InHand'
            BY <2>1 DEF Expected, InHand, Current
        <3> QED
            BY <3>1, <3>2, <3>3
    <2>3. OneSent'
        <3> SUFFICES ASSUME pc = "await", sent = 1, budget'.stalls > 0 PROVE Soon'
            BY DEF OneSent
        <3>1. Soon /\ OnWay <= 1
            BY <1>3, <2>1 DEF Expected, OneSent, Few
        <3> QED
            BY <1>3, <3>1
    <2>4. Overdue' /\ TwoSent'
        <3>1. Overdue'
            BY <1>1, <1>3, <2>1 DEF Expected, Overdue
        <3>2. TwoSent'
            BY <1>1, <1>3, <2>1 DEF Expected, TwoSent
        <3> QED
            BY <3>1, <3>2
    <2>5. Lingering'
        <3> SUFFICES ASSUME pc = "linger"
                     PROVE  /\ sent = 2 /\ OnWay' <= 1 /\ Soon'
                            /\ OnWay' >= 1 => budget'.stalls = 0
            BY DEF Lingering
        <3>1. sent = 2 /\ OnWay <= 1 /\ Soon /\ (OnWay >= 1 => budget.stalls = 0)
            BY <2>1 DEF Expected, Lingering
        <3>2. OnWay' <= 1 /\ (OnWay' >= 1 => budget'.stalls = 0)
            BY <1>1, <1>3, <3>1
        <3>3. Soon'
            <4>1. CASE OnWay = 0
                <5>1. Clean'
                    BY <1>1, <4>1
                <5> QED
                    BY <5>1 DEF Clean, Soon
            <4>2. CASE OnWay # 0
                BY <1>1, <1>3, <3>1, <4>2
            <4> QED
                BY <4>1, <4>2
        <3> QED
            BY <3>1, <3>2, <3>3
    <2> QED
        BY <2>1, <2>2, <2>3, <2>4, <2>5 DEF Expected
<1> QED
    BY <1>4, <1>5 DEF AnswerInvariant

LEMMA AnswerTakeUp ==
    ASSUME TypeOK, TypeOK', AnswerInvariant, TakeUp
    PROVE  AnswerInvariant'
<1>1. /\ UNCHANGED <<pc, sent, got, hello, req, most, result, budget, timer, rx, part, closed>>
      /\ ~closed /\ busy = Nothing /\ part = Nothing /\ inbox # <<>> /\ inbox' = Tail(inbox)
      /\ \/ busy' = [to |-> Head(inbox), kind |-> "reply"] /\ left' = ReplyTime
         \/ busy' = Nothing
    BY DEF TakeUp, Unit, clientVars, linkVars, histVars
<1>2. inbox \in Seq(0 .. MaxRequests)
    BY DEF TypeOK
<1>3. /\ Len(Tail(inbox)) = Len(inbox) - 1 /\ Len(inbox) \in Nat \ {0}
      /\ Head(inbox) = inbox[1] /\ 1 \in DOMAIN inbox
      /\ \A i \in DOMAIN Tail(inbox) : i + 1 \in DOMAIN inbox /\ Tail(inbox)[i] = inbox[i + 1]
    BY ONLY <1>1, <1>2
<1>4. OnWay' <= OnWay
    <2>1. One(part') = One(part) /\ Len(rx') = Len(rx) /\ Len(inbox') = Len(inbox) - 1
        BY <1>1, <1>3
    <2> HIDE DEF One, OnWay
    <2> QED
        BY <2>1, Amounts, AmountsNext
<1>5. Addressed => Addressed'
    <2>1. Current' = Current
        BY <1>1 DEF Current
    <2> QED
        BY <1>1, <1>3, <2>1 DEF Addressed
<1>6. Prompt'
    BY <1>1, Constants DEF Prompt
<1>7. OnWay <= 1 /\ Soon => Soon'
    <2> SUFFICES ASSUME OnWay <= 1, Soon PROVE Soon'
        OBVIOUS
    <2>1. Len(inbox) = 1
        BY <1>3, Amounts
    <2>2. inbox' = <<>>
        BY <1>1, <1>3, <2>1, AmountsNext
    <2>3. ReplyTime <= timer
        BY <1>1 DEF Soon
    <2> QED
        BY <1>1, <2>2, <2>3 DEF Soon
<1>8. "stalls" \in DOMAIN budget' /\ budget'.stalls \in 0 .. 1 /\ budget'.stalls <= budget.stalls
    BY <1>1 DEF AnswerInvariant
<1> QED
    BY <1>1, <1>4, <1>5, <1>6, <1>7, <1>8, AnswerMeanwhile

LEMMA AnswerStall ==
    ASSUME TypeOK, TypeOK', AnswerInvariant, Stall
    PROVE  AnswerInvariant'
<1>1. /\ UNCHANGED <<pc, sent, got, hello, req, most, result, timer, rx, part, closed, inbox, busy>>
      /\ ~closed /\ budget.stalls > 0
      /\ budget' = [budget EXCEPT !.stalls = @ - 1]
    BY DEF Stall, clientVars, linkVars, histVars
<1>2. /\ budget.stalls = 1 /\ "stalls" \in DOMAIN budget' /\ budget'.stalls = 0
    BY <1>1 DEF AnswerInvariant
<1>3. OnWay' = OnWay /\ (Addressed => Addressed')
    BY <1>1 DEF OnWay, One, Addressed, Current
<1>4. OnWay \in Nat
    BY Amounts
<1> QED
    BY <1>1, <1>2, <1>3, <1>4, AnswerMeanwhile

LEMMA AnswerArrival ==
    ASSUME TypeOK, TypeOK', AnswerInvariant, Answer \/ RestArrives
    PROVE  AnswerInvariant'
<1>1. /\ UNCHANGED <<pc, sent, got, hello, req, most, result, timer, closed, inbox>>
      /\ ~closed /\ left \in Nat
    BY DEF Answer, RestArrives, Unit, clientVars, unitVars, TypeOK
<1>2. /\ "stalls" \in DOMAIN budget' /\ budget'.stalls = budget.stalls /\ budget.stalls \in 0 .. 1
    BY DEF Answer, RestArrives, AnswerInvariant
<1>3. \/ /\ busy # Nothing /\ busy' = Nothing /\ left' = 0
         /\ \E packet \in Packet : /\ packet.to = busy.to
                                   /\ \/ rx' = Append(rx, packet) /\ part' = part
                                      \/ rx' = rx /\ part' = packet
      \/ /\ part # Nothing /\ part' = Nothing /\ rx' = Append(rx, part)
         /\ left' = 0 /\ busy' = busy
    <2>1. CASE Answer
        <3>1. busy \in Packet
            BY <2>1 DEF Answer, TypeOK
        <3>2. \A kind \in Kinds : [busy EXCEPT !.kind = kind] \in Packet
                                  /\ [busy EXCEPT !.kind = kind].to = busy.to
            BY <3>1 DEF Packet
        <3> QED
            BY <2>1, <3>2 DEF Answer, Unit
    <2>2. CASE RestArrives
        BY <2>2 DEF RestArrives, unitVars
    <2> QED
        BY <2>1, <2>2
<1>4. rx \in Seq(Packet) /\ part \in Packet \cup {Nothing}
    BY DEF TypeOK
<1>5. \A packet \in Packet :
         /\ Len(Append(rx, packet)) = Len(rx) + 1
         /\ \A i \in DOMAIN Append(rx, packet) :
               (i \in DOMAIN rx /\ Append(rx, packet)[i] = rx[i]) \/ Append(rx, packet)[i] = packet
    BY ONLY <1>4
<1>6. OnWay' <= OnWay
    <2>1. CASE Len(rx') = Len(rx) + 1 /\ busy # Nothing /\ busy' = Nothing /\ part' = part
        <3>1. One(part') = One(part) /\ Len(inbox') = Len(inbox)
            BY <1>1, <2>1
        <3> HIDE DEF One, OnWay
        <3> QED
            BY <2>1, <3>1, Amounts, AmountsNext
    <2>2. CASE rx' = rx /\ busy # Nothing /\ busy' = Nothing
        <3>1. Len(inbox') = Len(inbox) /\ Len(rx') = Len(rx)
            BY <1>1, <2>2
        <3> HIDE DEF One, OnWay
        <3> QED
            BY <2>2, <3>1, Amounts, AmountsNext
    <2>3. CASE Len(rx') = Len(rx) + 1 /\ part # Nothing /\ part' = Nothing /\ busy' = busy
        <3>1. One(busy') = One(busy) /\ Len(inbox') = Len(inbox)
            BY <1>1, <2>3
        <3> HIDE DEF One, OnWay
        <3> QED
            BY <2>3, <3>1, Amounts, AmountsNext
    <2> QED
        BY <1>3, <1>4, <1>5, <2>1, <2>2, <2>3
<1>7. Addressed => Addressed'
    <2> SUFFICES ASSUME Addressed PROVE Addressed'
        OBVIOUS
    <2>1. Current' = Current
        BY <1>1 DEF Current
    <2>2. CASE /\ busy # Nothing /\ busy' = Nothing
               /\ \E packet \in Packet : /\ packet.to = busy.to
                                         /\ \/ rx' = Append(rx, packet) /\ part' = part
                                            \/ rx' = rx /\ part' = packet
        BY <1>1, <1>5, <2>1, <2>2 DEF Addressed
    <2>3. CASE part # Nothing /\ part' = Nothing /\ rx' = Append(rx, part) /\ busy' = busy
        BY <1>1, <1>4, <1>5, <2>1, <2>3 DEF Addressed
    <2> QED
        BY <1>3, <2>2, <2>3
<1>8. Prompt' /\ (Soon => Soon')
    <2>1. left' = 0 /\ timer \in Nat
        BY <1>3 DEF TypeOK
    <2> QED
        BY <1>1, <2>1, Constants DEF Prompt, Soon
<1> QED
    BY <1>1, <1>2, <1>6, <1>7, <1>8, AnswerMeanwhile

LEMMA AnswerHangUp ==
    ASSUME TypeOK, TypeOK', AnswerInvariant, HangUp
    PROVE  AnswerInvariant'
<1>1. /\ UNCHANGED <<pc, sent, got, hello, req, most, result, timer, rx>>
      /\ inbox' = <<>> /\ busy' = Nothing /\ part' = Nothing
      /\ budget' = [budget EXCEPT !.hangups = @ - 1]
    BY DEF HangUp, Unit, clientVars, histVars
<1>2. "stalls" \in DOMAIN budget' /\ budget'.stalls = budget.stalls /\ budget.stalls \in 0 .. 1
    BY <1>1 DEF AnswerInvariant
<1>3. OnWay' <= OnWay
    <2>1. Len(rx') = Len(rx)
        BY <1>1
    <2> HIDE DEF One, OnWay
    <2> QED
        BY <1>1, <2>1, Amounts, AmountsNext
<1>4. Addressed => Addressed'
    BY <1>1 DEF Addressed, Current
<1>5. Prompt' /\ Soon'
    BY <1>1 DEF Prompt, Soon
<1> QED
    BY <1>1, <1>2, <1>3, <1>4, <1>5, AnswerMeanwhile

\* Time passes for both alike, and only when neither has something to do.
LEMMA AnswerTick ==
    ASSUME TypeOK, TypeOK', AnswerInvariant, Tick
    PROVE  AnswerInvariant'
<1>1. /\ UNCHANGED <<pc, sent, got, hello, req, most, result, rx, part, closed, inbox, busy, budget>>
      /\ timer' = Less(timer) /\ left' = Less(left) /\ ~UnitDue /\ Waits
    BY DEF Tick, linkVars
<1>2. left \in Nat /\ timer \in Nat
    BY DEF TypeOK
<1>3. OnWay' = OnWay /\ OnWay \in Nat /\ (Addressed => Addressed')
    BY <1>1, Amounts DEF OnWay, One, Addressed, Current
<1>4. Prompt => Prompt'
    <2> SUFFICES ASSUME Prompt, rx # <<>>, busy # Nothing \/ part # Nothing PROVE left' <= ReplyTime
        BY <1>1 DEF Prompt
    <2>1. left' <= left /\ left' \in Nat
        BY <1>1, <1>2 DEF Less
    <2>2. left <= ReplyTime
        BY DEF Prompt
    <2> QED
        BY ONLY <1>2, <2>1, <2>2, Constants
<1>5. pc \in {"await", "linger"} /\ OnWay <= 1 /\ Soon => Soon'
    <2> SUFFICES ASSUME pc \in {"await", "linger"}, OnWay <= 1, Soon PROVE Soon'
        OBVIOUS
    <2>1. CASE closed
        BY <1>1, <2>1 DEF AnswerInvariant, Soon
    <2>2. CASE ~closed
        <3>1. timer > 0
            BY <1>1 DEF Waits
        <3>2. busy # Nothing \/ part # Nothing => left > 0 /\ left <= timer
            BY <1>1, <1>2, <2>2 DEF UnitDue, Soon
        <3>3. inbox = <<>>
            <4>1. inbox # <<>> => busy # Nothing \/ part # Nothing
                BY <1>1, <2>2 DEF UnitDue
            <4> HIDE DEF One, OnWay
            <4> QED
                BY <4>1, Amounts
        <3> QED
            BY <1>1, <1>2, <3>1, <3>2, <3>3 DEF Soon, Less
    <2> QED
        BY <2>1, <2>2
<1>6. "stalls" \in DOMAIN budget' /\ budget'.stalls \in 0 .. 1 /\ budget'.stalls <= budget.stalls
    BY <1>1 DEF AnswerInvariant
<1> QED
    BY <1>1, <1>3, <1>4, <1>5, <1>6, AnswerMeanwhile DEF AnswerInvariant

LEMMA AnswerExpire ==
    ASSUME TypeOK, TypeOK', AnswerInvariant, Expire
    PROVE  AnswerInvariant'
<1>1. /\ UNCHANGED <<pc, sent, got, hello, req, most, result, timer, rx, part, closed, inbox, busy, left>>
      /\ budget' = [budget EXCEPT !.expiries = @ - 1]
    BY DEF Expire, linkVars, unitVars, histVars
<1>2. "stalls" \in DOMAIN budget' /\ budget'.stalls = budget.stalls /\ budget.stalls \in 0 .. 1
    BY <1>1 DEF AnswerInvariant
<1>3. OnWay' = OnWay /\ OnWay \in Nat /\ (Addressed => Addressed')
    BY <1>1, Amounts DEF OnWay, One, Addressed, Current
<1>4. (Prompt => Prompt') /\ (Soon => Soon')
    BY <1>1 DEF Prompt, Soon
<1> QED
    BY <1>1, <1>2, <1>3, <1>4, AnswerMeanwhile DEF AnswerInvariant

LEMMA AnswerStep ==
    ASSUME Timely, SessionInvariant, SessionInvariant', AnswerInvariant, [Next]_vars
    PROVE  AnswerInvariant'
<1>1. TypeOK /\ TypeOK' /\ hello \in BOOLEAN
    BY DEF SessionInvariant, TypeOK
<1>2. CASE UNCHANGED vars
    BY <1>2 DEF vars, clientVars, statVars, linkVars, unitVars, histVars, AnswerInvariant, Expected,
                Addressed, Few, Done, InHand, OneSent, Overdue, TwoSent, Lingering, Soon, Prompt,
                Clean, OnWay, One, Current, RightReply
<1>3. Rest => UNCHANGED vars
    BY DEF Rest
<1> QED
    BY <1>1, <1>2, <1>3, AnswerExchange, AnswerConnect, AnswerFailures, AnswerSend, AnswerReceive,
       AnswerResend, AnswerAbsorb, AnswerLingerOver, AnswerOnward, AnswerDrain, AnswerTakeUp,
       AnswerStall, AnswerArrival, AnswerHangUp, AnswerTick, AnswerExpire
       DEF Next, Client

\* "The defence is time, not matching" (session.rs): where the unit answers in time when
\* it does not stall, and stalls once at most, no reply of an exchange is taken for
\* that of another on a connection on which nothing was sent more than twice, whatever is
\* ignored, garbled, split, refused or hung up on.
THEOREM RepliesMatch ==
    ASSUME Timely PROVE Spec => []RightReply
<1>1. Init => SessionInvariant /\ AnswerInvariant
    BY Beginning, AnswerInit
<1>2. SessionInvariant /\ AnswerInvariant /\ [Next]_vars => SessionInvariant' /\ AnswerInvariant'
    BY EveryStep, AnswerStep
<1>3. AnswerInvariant => RightReply
    BY DEF AnswerInvariant
<1> QED
    BY <1>1, <1>2, <1>3, PTL DEF Spec
-----------------------------------------------------------------------------
(* What a command says to a unit, for every state and request.             *)

\* What a unit can hold: what its report has bits for.
Held == [power_on : BOOLEAN, mode : 0 .. 7, target_temperature : 26 .. 87,
         fan_speed : 0 .. 127, swing_mode : 0 .. 15, eco : BOOLEAN, turbo : BOOLEAN,
         sleep : BOOLEAN, fahrenheit : BOOLEAN, purifier : BOOLEAN, aux_heat : BOOLEAN,
         independent_aux_heat : BOOLEAN, follow_me : BOOLEAN, freeze_protection : BOOLEAN,
         target_humidity : 0 .. 127]

\* What a report of that length tells of it.
Seen(held, length) ==
    [power_on |-> held.power_on, target_temperature |-> held.target_temperature,
     mode |-> FromWire(ModeByte, held.mode), fan_speed |-> held.fan_speed,
     swing_mode |-> FromWire(SwingByte, held.swing_mode), turbo |-> held.turbo,
     eco |-> held.eco, sleep |-> held.sleep, fahrenheit |-> held.fahrenheit,
     aux_heat |-> held.aux_heat, independent_aux_heat |-> held.independent_aux_heat,
     follow_me |-> held.follow_me, purifier |-> held.purifier,
     target_humidity |-> IF length > 19 THEN {held.target_humidity} ELSE None,
     freeze_protection |-> IF length > 21 THEN {held.freeze_protection} ELSE None]

\* The ways a report tells the setpoint: from 16 degrees on in the nibble.
Tells(held, alternate) == alternate \/ held.target_temperature \in 32 .. 63

LEMMA FlagBytes ==
    ASSUME NEW a \in BOOLEAN, NEW b \in BOOLEAN, NEW c \in BOOLEAN
    PROVE  /\ Bit(Flag(a, 0), 0) = a
           /\ LET x == Flag(a, 7) + Flag(b, 6) + Flag(c, 5) IN
              Bit(x, 7) = a /\ Bit(x, 6) = b /\ Bit(x, 5) = c
           /\ LET x == Flag(a, 5) + Flag(b, 4) + Flag(c, 3) IN
              Bit(x, 5) = a /\ Bit(x, 4) = b /\ Bit(x, 3) = c
           /\ LET x == Flag(a, 0) + Flag(b, 2) IN Bit(x, 0) = a /\ Bit(x, 2) = b /\ ~Bit(x, 1)
           /\ LET x == Flag(a, 0) + Flag(b, 1) + Flag(c, 2) IN
              Bit(x, 0) = a /\ Bit(x, 1) = b /\ Bit(x, 2) = c
           /\ LET x == Flag(a, 7) + Flag(b, 5) + Flag(c, 3) IN
              Bit(x, 7) = a /\ Bit(x, 5) = b /\ Bit(x, 3) = c
           /\ LET x == 2 + Flag(a, 6) + Flag(b, 0) IN Bit(x, 0) = b
           /\ LET x == Flag(a, 7) + Flag(b, 5) IN Bit(x, 7) = a /\ Bit(x, 5) = b
           /\ Bit(Flag(a, 7), 7) = a
           /\ Bit(Flag(a, 3), 3) = a
BY DEF Flag, Bit, Bits

LEMMA LowBits ==
    /\ \A n \in 0 .. 127 : Bits(n, 0, 7) = n
    /\ \A n \in 0 .. 15 : Bits(n, 0, 4) = n
BY DEF Bits

\* The two places of the setpoint in a report.
LEMMA SetpointBytes ==
    ASSUME NEW t \in 26 .. 87, NEW mode \in 0 .. 7, NEW alternate \in BOOLEAN,
           alternate \/ t \in 32 .. 63, NEW p,
           p[2] = 32 * mode + 16 * (t % 2) + (IF alternate THEN 0 ELSE t \div 2 - 16),
           p[13] = IF alternate THEN t \div 2 - 12 ELSE 0
    PROVE  Target(p) = t /\ Bits(p[2], 5, 3) = mode
BY DEF Target, Bits

\* State::parse of what the unit reports.
LEMMA ReportIsRead ==
    ASSUME NEW held \in Held, NEW length \in 17 .. 24, NEW alternate \in BOOLEAN,
           Tells(held, alternate)
    PROVE  ParseState(Report(held, alternate, length)) = {Seen(held, length)}
<1> DEFINE p == Report(held, alternate, length)
           t == held.target_temperature
<1>1. /\ DOMAIN p = 0 .. length - 1
      /\ p[0] = 192 /\ p[1] = Flag(held.power_on, 0)
      /\ p[2] = 32 * held.mode + 16 * (t % 2) + (IF alternate THEN 0 ELSE t \div 2 - 16)
      /\ p[3] = held.fan_speed /\ p[7] = held.swing_mode
      /\ p[8] = Flag(held.follow_me, 7) + Flag(held.independent_aux_heat, 6) + Flag(held.turbo, 5)
      /\ p[9] = Flag(held.purifier, 5) + Flag(held.eco, 4) + Flag(held.aux_heat, 3)
      /\ p[10] = Flag(held.sleep, 0) + Flag(held.fahrenheit, 2)
      /\ p[13] = IF alternate THEN t \div 2 - 12 ELSE 0
    BY DEF Report
<1>2. /\ length > 19 => p[19] = held.target_humidity
      /\ length > 21 => p[21] = Flag(held.freeze_protection, 7)
    BY DEF Report
<1>3. Cardinality(DOMAIN p) = length
    <2> HIDE DEF p
    <2>1. Cardinality(0 .. length - 1) = length
        BY FS_Interval
    <2> QED
        BY <1>1, <2>1
<1> HIDE DEF p
<1>4. /\ held.mode \in 0 .. 7 /\ t \in 26 .. 87 /\ held.swing_mode \in 0 .. 15
      /\ held.fan_speed \in 0 .. 127 /\ held.target_humidity \in 0 .. 127
      /\ alternate \/ t \in 32 .. 63
    BY DEF Held, Tells
<1>5. Target(p) = t /\ Bits(p[2], 5, 3) = held.mode
    <2>1. /\ p[2] = 32 * held.mode + 16 * (t % 2) + (IF alternate THEN 0 ELSE t \div 2 - 16)
          /\ p[13] = IF alternate THEN t \div 2 - 12 ELSE 0
        BY <1>1
    <2> HIDE DEF t
    <2> QED
        BY <1>4, <2>1, SetpointBytes
<1>6. Bits(p[3], 0, 7) = held.fan_speed /\ Bits(p[7], 0, 4) = held.swing_mode
    <2>1. p[3] = held.fan_speed /\ p[7] = held.swing_mode
        BY <1>1
    <2> QED
        BY <1>4, <2>1, LowBits
<1>7. {Bits(b, 0, 7) : b \in Byte(p, 19)} = Seen(held, length).target_humidity
    <2>1. CASE length > 19
        <3>1. Byte(p, 19) = {held.target_humidity}
            BY <1>1, <1>2, <2>1 DEF Byte
        <3> QED
            BY <1>4, <2>1, <3>1, LowBits DEF Seen
    <2>2. CASE ~(length > 19)
        BY <1>1, <2>2 DEF Byte, Seen, None
    <2> QED
        BY <2>1, <2>2
<1>8. {Bit(b, 7) : b \in Byte(p, 21)} = Seen(held, length).freeze_protection
    <2>1. CASE length > 21
        <3>1. Byte(p, 21) = {Flag(held.freeze_protection, 7)}
            BY <1>1, <1>2, <2>1 DEF Byte
        <3>2. Bit(Flag(held.freeze_protection, 7), 7) = held.freeze_protection
            BY FlagBytes DEF Held
        <3> QED
            BY <2>1, <3>1, <3>2 DEF Seen
    <2>2. CASE ~(length > 21)
        BY <1>1, <2>2 DEF Byte, Seen, None
    <2> QED
        BY <2>1, <2>2
<1>9. /\ Bit(p[1], 0) = held.power_on
      /\ Bit(p[8], 7) = held.follow_me /\ Bit(p[8], 6) = held.independent_aux_heat
      /\ Bit(p[8], 5) = held.turbo
      /\ Bit(p[9], 5) = held.purifier /\ Bit(p[9], 4) = held.eco /\ Bit(p[9], 3) = held.aux_heat
      /\ Bit(p[10], 0) = held.sleep /\ Bit(p[10], 2) = held.fahrenheit /\ ~Bit(p[10], 1)
    BY <1>1, FlagBytes DEF Held
<1>10. (Bit(p[8], 5) \/ Bit(p[10], 1)) = held.turbo
    BY <1>9 DEF Held
<1>11. ~(Cardinality(DOMAIN p) < 17 \/ p[0] # 192)
    BY <1>1, <1>3
<1> DEFINE turbo == Bit(p[8], 5) \/ Bit(p[10], 1)
           read(on) ==
               [power_on |-> Bit(p[1], 0), target_temperature |-> Target(p),
                mode |-> FromWire(ModeByte, Bits(p[2], 5, 3)), fan_speed |-> Bits(p[3], 0, 7),
                swing_mode |-> FromWire(SwingByte, Bits(p[7], 0, 4)), turbo |-> on,
                eco |-> Bit(p[9], 4), sleep |-> Bit(p[10], 0), fahrenheit |-> Bit(p[10], 2),
                aux_heat |-> Bit(p[9], 3), independent_aux_heat |-> Bit(p[8], 6),
                follow_me |-> Bit(p[8], 7), purifier |-> Bit(p[9], 5),
                target_humidity |-> {Bits(b, 0, 7) : b \in Byte(p, 19)},
                freeze_protection |-> {Bit(b, 7) : b \in Byte(p, 21)}]
<1>12. ParseState(p) = {read(turbo)}
    BY <1>11, Zenon DEF ParseState
<1>13. read(held.turbo) = Seen(held, length)
    BY <1>5, <1>6, <1>7, <1>8, <1>9 DEF Seen
<1>14. turbo = held.turbo
    BY <1>10
<1> HIDE DEF read, turbo
<1>15. ParseState(p) = {Seen(held, length)}
    BY <1>12, <1>13, <1>14
<1> QED
    BY <1>15 DEF p
\* What set_state can encode.
Setpoints ==
    [beep : BOOLEAN, power_on : BOOLEAN, mode : DOMAIN ModeByte, target_temperature : 26 .. 87,
     fan_speed : 0 .. 127, swing_mode : DOMAIN SwingByte, eco : BOOLEAN, turbo : BOOLEAN,
     sleep : BOOLEAN, fahrenheit : BOOLEAN, purifier : BOOLEAN, aux_heat : BOOLEAN,
     independent_aux_heat : BOOLEAN, follow_me : BOOLEAN, freeze_protection : BOOLEAN,
     target_humidity : 0 .. 127]

LEMMA HeldFields ==
    ASSUME NEW g, g = [f \in Fields |-> g[f]],
           \A f \in Fields : \E held \in Held : g[f] = held[f]
    PROVE  g \in Held
BY DEF Held, Fields

LEMMA ModeBytes ==
    /\ \A name \in DOMAIN ModeByte :
          ModeByte[name] \in 1 .. 5 /\ FromWire(ModeByte, ModeByte[name]) = {name}
    /\ \A name \in DOMAIN SwingByte :
          SwingByte[name] \in 0 .. 15 /\ FromWire(SwingByte, SwingByte[name]) = {name}
BY DEF ModeByte, SwingByte, FromWire

\* temperature_bytes: of its two places the setpoint is in one.
LEMMA CommandedSetpoint ==
    ASSUME NEW t \in 26 .. 87, NEW mode \in 1 .. 5, NEW p,
           p[2] = TemperatureBytes(t)[1] + 32 * mode, p[18] = TemperatureBytes(t)[2]
    PROVE  LET nibble == Bits(p[2], 0, 4) IN
           /\ 2 * (IF nibble # 0 THEN nibble + 16 ELSE Bits(p[18], 0, 5) + 12) + Bits(p[2], 4, 1) = t
           /\ Bits(p[2], 5, 3) = mode
BY DEF TemperatureBytes, Bits, Flag

\* set_state, as the unit takes it.
LEMMA CommandIsTaken ==
    ASSUME NEW s \in Setpoints, NEW held \in Held
    PROVE  LET took == Adopt(SetState(s), held) IN
           /\ took \in Held
           /\ took.mode = ModeByte[s.mode] /\ took.swing_mode = SwingByte[s.swing_mode]
           /\ \A f \in Fields \ {"mode", "swing_mode"} : took[f] = s[f]
<1> DEFINE p == SetState(s)
           took == Adopt(p, held)
<1>1. /\ p[1] = 2 + Flag(s.beep, 6) + Flag(s.power_on, 0)
      /\ p[2] = TemperatureBytes(s.target_temperature)[1] + 32 * ModeByte[s.mode]
      /\ p[3] = s.fan_speed /\ p[7] = 48 + SwingByte[s.swing_mode]
      /\ p[8] = Flag(s.follow_me, 7) + Flag(s.turbo, 5)
      /\ p[9] = Flag(s.eco, 7) + Flag(s.purifier, 5) + Flag(s.aux_heat, 3)
      /\ p[10] = Flag(s.sleep, 0) + Flag(s.turbo, 1) + Flag(s.fahrenheit, 2)
      /\ p[18] = TemperatureBytes(s.target_temperature)[2]
      /\ p[19] = Bits(s.target_humidity, 0, 7) /\ p[21] = Flag(s.freeze_protection, 7)
      /\ p[22] = Flag(s.independent_aux_heat, 3)
    BY DEF SetState
<1> HIDE DEF p
<1>2. /\ s.mode \in DOMAIN ModeByte /\ s.swing_mode \in DOMAIN SwingByte
      /\ s.target_temperature \in 26 .. 87 /\ s.fan_speed \in 0 .. 127
      /\ s.target_humidity \in 0 .. 127
    BY DEF Setpoints
<1>3. took.mode = ModeByte[s.mode] /\ took.target_temperature = s.target_temperature
    <2>1. ModeByte[s.mode] \in 1 .. 5 /\ FromWire(ModeByte, ModeByte[s.mode]) # None
        BY <1>2, ModeBytes DEF None
    <2>2. /\ p[2] = TemperatureBytes(s.target_temperature)[1] + 32 * ModeByte[s.mode]
          /\ p[18] = TemperatureBytes(s.target_temperature)[2]
        BY <1>1
    <2> QED
        BY <1>2, <2>1, <2>2, CommandedSetpoint DEF Adopt
<1>4. took.swing_mode = SwingByte[s.swing_mode]
    <2>1. SwingByte[s.swing_mode] \in 0 .. 15 /\ FromWire(SwingByte, SwingByte[s.swing_mode]) # None
        BY <1>2, ModeBytes DEF None
    <2>2. \A n \in 0 .. 15 : Bits(48 + n, 0, 4) = n
        BY DEF Bits
    <2>3. p[7] = 48 + SwingByte[s.swing_mode]
        BY <1>1
    <2> QED
        BY <2>1, <2>2, <2>3 DEF Adopt
<1>5. took.fan_speed = s.fan_speed /\ took.target_humidity = s.target_humidity
    <2>1. p[3] = s.fan_speed /\ p[19] = Bits(s.target_humidity, 0, 7)
        BY <1>1
    <2> QED
        BY <1>2, <2>1, LowBits DEF Adopt
<1>6. /\ took.power_on = s.power_on /\ took.eco = s.eco /\ took.purifier = s.purifier
      /\ took.aux_heat = s.aux_heat /\ took.sleep = s.sleep /\ took.fahrenheit = s.fahrenheit
      /\ took.independent_aux_heat = s.independent_aux_heat /\ took.follow_me = s.follow_me
      /\ took.freeze_protection = s.freeze_protection
    BY <1>1, FlagBytes DEF Adopt, Setpoints
<1>7. took.turbo = s.turbo
    <2>1. Bit(p[8], 5) = s.turbo /\ Bit(p[10], 1) = s.turbo
        BY <1>1, FlagBytes DEF Setpoints
    <2>2. (Bit(p[8], 5) /\ Bit(p[10], 1)) = s.turbo
        BY <2>1 DEF Setpoints
    <2> QED
        BY <2>2 DEF Adopt
<1>8. took = [f \in Fields |-> took[f]]
    BY DEF Adopt, Fields
<1> HIDE DEF took
<1>9. \A f \in Fields \ {"mode", "swing_mode"} : took[f] = s[f]
    BY <1>3, <1>5, <1>6, <1>7 DEF Fields
<1>10. took \in Held
    <2>1. took.mode \in 0 .. 7 /\ took.swing_mode \in 0 .. 15
        BY <1>2, <1>3, <1>4, ModeBytes
    <2> QED
        BY <1>8, <1>9, <2>1 DEF Held, Setpoints, Fields
<1>11. QED
    BY <1>3, <1>4, <1>9, <1>10 DEF took, p

\* What a client may write: any of it, and of a word any.
Options(S) == {None} \cup {{v} : v \in S}
IsRequest(request) ==
    /\ request = [f \in DOMAIN NoRequest |-> request[f]]
    /\ \A f \in {"power_on", "eco", "turbo", "beep"} : request[f] \in Options(BOOLEAN)
    /\ \A f \in {"target_temperature", "fan_speed"} : request[f] \in Options(Nat)
    /\ \A f \in {"mode", "swing_mode"} : request[f] = None \/ \E word : request[f] = {word}

LEMMA OrIs == \A v, default : Or({v}, default) = v /\ Or(None, default) = default
BY DEF Or, None

\* A change of what was accepted, field by field.
LEMMA ChangeIs ==
    ASSUME NEW request, IsRequest(request), Accepts(request)
    PROVE  LET change == ChangeFrom(request) IN
           /\ \A f \in Askable : change[f] = None <=> request[f] = None
           /\ \A f \in {"power_on", "eco", "turbo", "beep"} : change[f] \in Options(BOOLEAN)
           /\ change.mode \in Options(DOMAIN ModeByte)
           /\ change.swing_mode \in Options(DOMAIN SwingByte)
           /\ change.target_temperature \in Options(32 .. 60)
           /\ change.fan_speed \in Options(0 .. 127)
<1> DEFINE change == ChangeFrom(request)
<1>1. /\ \A f \in {"power_on", "eco", "turbo", "beep", "fan_speed"} : change[f] = request[f]
      /\ change.mode = {Upper(name) : name \in request.mode} \cap DOMAIN ModeByte
      /\ change.swing_mode = {Upper(name) : name \in request.swing_mode} \cap DOMAIN SwingByte
      /\ change.target_temperature = {t \div 5 : t \in request.target_temperature}
    BY DEF ChangeFrom, IsRequest, NoRequest, Askable
<1> HIDE DEF change
<1>2. /\ \A f \in {"power_on", "eco", "turbo", "beep"} : request[f] \in Options(BOOLEAN)
      /\ \A f \in {"mode", "swing_mode"} : request[f] = None \/ \E word : request[f] = {word}
      /\ request.target_temperature \in Options(Nat) /\ request.fan_speed \in Options(Nat)
    BY DEF IsRequest
<1>4. /\ change.mode \in Options(DOMAIN ModeByte)
      /\ change.mode = None <=> request.mode = None
    <2> DEFINE names == request.mode
               known == DOMAIN ModeByte
    <2>1. names = None \/ \E name : names = {name} /\ Upper(name) \in known
        BY <1>2 DEF Accepts, ModeByte
    <2>2. change.mode = {Upper(name) : name \in names} \cap known
        BY <1>1
    <2> HIDE DEF names, known
    <2>3. names = None => change.mode = None
        BY <2>2 DEF None
    <2>4. ASSUME NEW name, names = {name}, Upper(name) \in known
          PROVE  change.mode = {Upper(name)}
        BY <2>2, <2>4
    <2>5. change.mode \in Options(known) /\ (change.mode = None <=> names = None)
        BY <2>1, <2>2, <2>3, <2>4 DEF Options, None
    <2> QED
        BY <2>5 DEF names, known
<1>5. /\ change.swing_mode \in Options(DOMAIN SwingByte)
      /\ change.swing_mode = None <=> request.swing_mode = None
    <2> DEFINE names == request.swing_mode
               known == DOMAIN SwingByte
    <2>1. names = None \/ \E name : names = {name} /\ Upper(name) \in known
        BY <1>2 DEF Accepts, SwingByte
    <2>2. change.swing_mode = {Upper(name) : name \in names} \cap known
        BY <1>1
    <2> HIDE DEF names, known
    <2>3. names = None => change.swing_mode = None
        BY <2>2 DEF None
    <2>4. ASSUME NEW name, names = {name}, Upper(name) \in known
          PROVE  change.swing_mode = {Upper(name)}
        BY <2>2, <2>4
    <2>5. change.swing_mode \in Options(known) /\ (change.swing_mode = None <=> names = None)
        BY <2>1, <2>2, <2>3, <2>4 DEF Options, None
    <2> QED
        BY <2>5 DEF names, known
<1>6. /\ change.target_temperature \in Options(32 .. 60)
      /\ change.target_temperature = None <=> request.target_temperature = None
    <2>1. CASE request.target_temperature = None
        BY <1>1, <2>1 DEF Options, None
    <2>2. ASSUME NEW t, request.target_temperature = {t} PROVE t \div 5 \in 32 .. 60
        BY <2>2 DEF Accepts, TempMin, TempMax
    <2> QED
        BY <1>1, <1>2, <2>1, <2>2 DEF Options, None
<1>7. change.fan_speed \in Options(0 .. 127)
    BY <1>1, <1>2 DEF Options, Accepts, AllowedFanSpeeds
<1> QED
    BY <1>1, <1>2, <1>4, <1>5, <1>6, <1>7 DEF change, Askable

\* from_state of what a report told: what it does not say gets a default.
LEMMA BaseIs ==
    ASSUME NEW held \in Held, NEW length \in 17 .. 24
    PROVE  LET before == Seen(held, length)
               base   == FromState(before) IN
           /\ base \in Setpoints
           /\ \A f \in Fields \ {"mode", "swing_mode", "target_humidity", "freeze_protection"} :
                 base[f] = held[f] /\ before[f] = held[f]
           /\ \A f \in {"mode", "swing_mode"} : before[f] # None => {base[f]} = before[f]
           /\ before.mode # None => ModeByte[base.mode] = held.mode
           /\ before.swing_mode # None => SwingByte[base.swing_mode] = held.swing_mode
           /\ \A f \in {"target_humidity", "freeze_protection"} : before[f] # None => base[f] = held[f]
<1> DEFINE before == Seen(held, length)
           base == FromState(before)
<1>0. DOMAIN before = Fields
    BY DEF Seen, Fields
<1> HIDE DEF before
<1>1. /\ base = [f \in Fields \cup {"beep"} |-> base[f]] /\ base.beep = FALSE
      /\ base.mode = Or(before.mode, "AUTO") /\ base.swing_mode = Or(before.swing_mode, "OFF")
      /\ base.freeze_protection = Or(before.freeze_protection, FALSE)
      /\ base.target_humidity = Or(before.target_humidity, 40)
      /\ \A f \in Fields \ {"mode", "swing_mode", "target_humidity", "freeze_protection"} :
            base[f] = before[f]
    BY <1>0 DEF FromState, Fields
<1>2. /\ \A f \in Fields \ {"mode", "swing_mode", "target_humidity", "freeze_protection"} :
            before[f] = held[f]
      /\ before.mode = FromWire(ModeByte, held.mode)
      /\ before.swing_mode = FromWire(SwingByte, held.swing_mode)
      /\ before.target_humidity \in {None, {held.target_humidity}}
      /\ before.freeze_protection \in {None, {held.freeze_protection}}
    BY DEF before, Seen, Fields
<1> HIDE DEF base
<1>3. ASSUME NEW bytes, NEW v, NEW default,
             \A a, b \in DOMAIN bytes : bytes[a] = bytes[b] => a = b, default \in DOMAIN bytes
      PROVE  LET name == Or(FromWire(bytes, v), default) IN
             /\ name \in DOMAIN bytes
             /\ FromWire(bytes, v) # None => {name} = FromWire(bytes, v) /\ bytes[name] = v
    <2>1. CASE FromWire(bytes, v) = None
        BY <1>3, <2>1, OrIs
    <2>2. ASSUME NEW name \in FromWire(bytes, v) PROVE FromWire(bytes, v) = {name} /\ bytes[name] = v
        BY <1>3, <2>2 DEF FromWire
    <2> QED
        BY <2>1, <2>2, OrIs DEF None, FromWire
<1>4. /\ base.mode \in DOMAIN ModeByte
      /\ before.mode # None => {base.mode} = before.mode /\ ModeByte[base.mode] = held.mode
    BY <1>1, <1>2, <1>3 DEF ModeByte
<1>5. /\ base.swing_mode \in DOMAIN SwingByte
      /\ before.swing_mode # None => /\ {base.swing_mode} = before.swing_mode
                                     /\ SwingByte[base.swing_mode] = held.swing_mode
    BY <1>1, <1>2, <1>3 DEF SwingByte
<1>6. /\ base.target_humidity \in 0 .. 127
      /\ before.target_humidity # None => base.target_humidity = held.target_humidity
    <2>1. held.target_humidity \in 0 .. 127
        BY DEF Held
    <2>2. CASE before.target_humidity = None
        BY <1>1, <2>2, OrIs
    <2>3. CASE before.target_humidity = {held.target_humidity}
        <3>1. base.target_humidity = Or({held.target_humidity}, 40)
            BY <1>1, <2>3
        <3> QED
            BY <2>1, <3>1, OrIs
    <2> QED
        BY <1>2, <2>2, <2>3
<1>8. /\ base.freeze_protection \in BOOLEAN
      /\ before.freeze_protection # None => base.freeze_protection = held.freeze_protection
    <2>1. held.freeze_protection \in BOOLEAN
        BY DEF Held
    <2>2. CASE before.freeze_protection = None
        BY <1>1, <2>2, OrIs
    <2>3. CASE before.freeze_protection = {held.freeze_protection}
        <3>1. base.freeze_protection = Or({held.freeze_protection}, FALSE)
            BY <1>1, <2>3
        <3> QED
            BY <2>1, <3>1, OrIs
    <2> QED
        BY <1>2, <2>2, <2>3
<1>7. base \in Setpoints
    <2>1. /\ base.power_on = held.power_on /\ base.eco = held.eco /\ base.turbo = held.turbo
          /\ base.sleep = held.sleep /\ base.fahrenheit = held.fahrenheit
          /\ base.purifier = held.purifier /\ base.aux_heat = held.aux_heat
          /\ base.independent_aux_heat = held.independent_aux_heat
          /\ base.follow_me = held.follow_me /\ base.fan_speed = held.fan_speed
          /\ base.target_temperature = held.target_temperature
        BY <1>1, <1>2 DEF Fields
    <2>2. base = [f \in Fields \cup {"beep"} |-> base[f]] /\ base.beep = FALSE
        BY <1>1
    <2> QED
        BY <1>4, <1>5, <1>6, <1>8, <2>1, <2>2 DEF Setpoints, Held, Fields
<1> QED
    BY <1>1, <1>2, <1>4, <1>5, <1>6, <1>7, <1>8 DEF before, base
\* What is asked for goes over what the report said.
LEMMA OverlayIs ==
    ASSUME NEW base \in Setpoints, NEW request, IsRequest(request), Accepts(request)
    PROVE  LET change   == ChangeFrom(request)
               setpoint == Overlay(change, base) IN
           /\ setpoint \in Setpoints
           /\ \A f \in Fields \ Askable : setpoint[f] = base[f]
           /\ \A f \in Askable : /\ request[f] = None => setpoint[f] = base[f]
                                 /\ request[f] # None => change[f] = {setpoint[f]}
<1> DEFINE change == ChangeFrom(request)
           setpoint == Overlay(change, base)
<1>1. /\ \A f \in Askable : change[f] = None <=> request[f] = None
      /\ \A f \in {"power_on", "eco", "turbo", "beep"} : change[f] \in Options(BOOLEAN)
      /\ change.mode \in Options(DOMAIN ModeByte)
      /\ change.swing_mode \in Options(DOMAIN SwingByte)
      /\ change.target_temperature \in Options(32 .. 60)
      /\ change.fan_speed \in Options(0 .. 127)
    BY ChangeIs
<1> HIDE DEF change
<1>2. DOMAIN base = Fields \cup {"beep"}
    BY DEF Setpoints, Fields
<1>3. /\ setpoint = [f \in Fields \cup {"beep"} |-> setpoint[f]]
      /\ setpoint.beep = Or(change.beep, FALSE)
      /\ \A f \in Askable : setpoint[f] = Or(change[f], base[f])
      /\ \A f \in Fields \ Askable : setpoint[f] = base[f]
    BY <1>2 DEF Overlay, Fields, Askable
<1> HIDE DEF setpoint
<1>4. ASSUME NEW S, NEW option \in Options(S), NEW default \in S
      PROVE  /\ Or(option, default) \in S
             /\ option = None => Or(option, default) = default
             /\ option # None => option = {Or(option, default)}
    BY OrIs DEF Options
<1>5. /\ base.mode \in DOMAIN ModeByte /\ base.swing_mode \in DOMAIN SwingByte
      /\ base.target_temperature \in 26 .. 87 /\ base.fan_speed \in 0 .. 127
      /\ \A f \in {"power_on", "eco", "turbo"} : base[f] \in BOOLEAN
    BY DEF Setpoints
<1>6. change.target_temperature \in Options(26 .. 87)
    BY <1>1 DEF Options
<1>7. \A f \in {"power_on", "eco", "turbo"} :
         /\ setpoint[f] \in BOOLEAN
         /\ change[f] = None => setpoint[f] = base[f]
         /\ change[f] # None => change[f] = {setpoint[f]}
    BY <1>1, <1>3, <1>4, <1>5 DEF Askable
<1>8. /\ setpoint.mode \in DOMAIN ModeByte
      /\ change.mode = None => setpoint.mode = base.mode
      /\ change.mode # None => change.mode = {setpoint.mode}
    BY <1>1, <1>3, <1>4, <1>5 DEF Askable
<1>9. /\ setpoint.swing_mode \in DOMAIN SwingByte
      /\ change.swing_mode = None => setpoint.swing_mode = base.swing_mode
      /\ change.swing_mode # None => change.swing_mode = {setpoint.swing_mode}
    BY <1>1, <1>3, <1>4, <1>5 DEF Askable
<1>10. /\ setpoint.target_temperature \in 26 .. 87
       /\ change.target_temperature = None => setpoint.target_temperature = base.target_temperature
       /\ change.target_temperature # None => change.target_temperature = {setpoint.target_temperature}
    BY <1>3, <1>4, <1>5, <1>6 DEF Askable
<1>11. /\ setpoint.fan_speed \in 0 .. 127
       /\ change.fan_speed = None => setpoint.fan_speed = base.fan_speed
       /\ change.fan_speed # None => change.fan_speed = {setpoint.fan_speed}
    BY <1>1, <1>3, <1>4, <1>5 DEF Askable
<1>12. setpoint.beep \in BOOLEAN
    <2>1. change.beep = None \/ \E on \in BOOLEAN : change.beep = {on}
        BY <1>1 DEF Options
    <2> QED
        <3>1. CASE change.beep = None
            BY <1>3, <3>1, OrIs
        <3>2. ASSUME NEW on \in BOOLEAN, change.beep = {on} PROVE setpoint.beep = on
            BY <1>3, <3>2, OrIs, Zenon
        <3> QED
            BY <2>1, <3>1, <3>2
<1>13. \A f \in Askable : /\ change[f] = None => setpoint[f] = base[f]
                          /\ change[f] # None => change[f] = {setpoint[f]}
    BY <1>7, <1>8, <1>9, <1>10, <1>11 DEF Askable
<1>14. setpoint \in Setpoints
    BY <1>3, <1>7, <1>8, <1>9, <1>10, <1>11, <1>12 DEF Setpoints, Fields, Askable
<1> QED
    BY <1>1, <1>3, <1>13, <1>14 DEF change, setpoint

\* Whatever a unit holds, however shortly it reports that, whatever of what the API
\* accepts is asked of it, and whichever fields it refuses: it has what was asked and
\* otherwise what it had, and the reply names the fields that it refused to change.
THEOREM AnyCommandRestates ==
    ASSUME NEW held \in Held, NEW length \in 17 .. 24, NEW alternate \in BOOLEAN,
           Tells(held, alternate), NEW request, IsRequest(request), Accepts(request), NEW refused
    PROVE  Restates(held, alternate, length, request, refused)
<1> DEFINE before == Named(ParseState(Report(held, alternate, length)))
           change == ChangeFrom(request)
           base == FromState(before)
           setpoint == Overlay(change, base)
           took == Adopt(SetState(setpoint), held)
           after == [f \in DOMAIN held |-> IF f \in refused THEN held[f] ELSE took[f]]
           echoed == Named(ParseState(Report(after, TRUE, 24)))
           asked == {f \in Askable : request[f] # None}
           value(state, f) == IF f \in {"mode", "swing_mode"} THEN state[f] ELSE {state[f]}
           words == {"mode", "swing_mode"}
<1>1. before = Seen(held, length)
    BY ReportIsRead DEF Named
<1>2. /\ base \in Setpoints
      /\ \A f \in Fields \ {"mode", "swing_mode", "target_humidity", "freeze_protection"} :
            base[f] = held[f] /\ before[f] = held[f]
      /\ before.mode # None => ModeByte[base.mode] = held.mode
      /\ before.swing_mode # None => SwingByte[base.swing_mode] = held.swing_mode
      /\ \A f \in {"target_humidity", "freeze_protection"} : before[f] # None => base[f] = held[f]
    BY <1>1, BaseIs
<1> HIDE DEF base
<1>3. /\ setpoint \in Setpoints
      /\ \A f \in Fields \ Askable : setpoint[f] = base[f]
      /\ \A f \in Askable : /\ request[f] = None => setpoint[f] = base[f]
                            /\ request[f] # None => change[f] = {setpoint[f]}
    BY <1>2, OverlayIs
<1> HIDE DEF setpoint, change
<1>4. /\ took \in Held
      /\ took.mode = ModeByte[setpoint.mode] /\ took.swing_mode = SwingByte[setpoint.swing_mode]
      /\ \A f \in Fields \ words : took[f] = setpoint[f]
    BY <1>3, CommandIsTaken
<1> HIDE DEF took
<1>5. DOMAIN held = Fields
    BY DEF Held, Fields
<1>6. /\ after = [f \in Fields |-> after[f]]
      /\ \A f \in Fields : after[f] = IF f \in refused THEN held[f] ELSE took[f]
    BY <1>5
<1> HIDE DEF after
<1>7. after \in Held
    BY <1>4, <1>6, HeldFields
<1>8. echoed = Seen(after, 24)
    <2>1. Tells(after, TRUE) /\ TRUE \in BOOLEAN /\ 24 \in 17 .. 24
        BY DEF Tells
    <2>2. ParseState(Report(after, TRUE, 24)) = {Seen(after, 24)}
        BY <1>7, <2>1, ReportIsRead
    <2> QED
        BY <2>2 DEF Named
<1>9. /\ \A f \in Askable \ words : echoed[f] = after[f] /\ before[f] = held[f]
      /\ echoed.mode = FromWire(ModeByte, after.mode)
      /\ echoed.swing_mode = FromWire(SwingByte, after.swing_mode)
      /\ before.mode = FromWire(ModeByte, held.mode)
      /\ before.swing_mode = FromWire(SwingByte, held.swing_mode)
    <2>1. ASSUME NEW state, NEW n
          PROVE  /\ \A f \in Askable \ words : Seen(state, n)[f] = state[f]
                 /\ Seen(state, n).mode = FromWire(ModeByte, state.mode)
                 /\ Seen(state, n).swing_mode = FromWire(SwingByte, state.swing_mode)
        BY DEF Seen, Askable
    <2> QED
        <3> DEFINE seen == Seen(held, length)
                   reported == Seen(after, 24)
        <3>1. /\ \A f \in Askable \ words : seen[f] = held[f] /\ reported[f] = after[f]
              /\ seen.mode = FromWire(ModeByte, held.mode)
              /\ seen.swing_mode = FromWire(SwingByte, held.swing_mode)
              /\ reported.mode = FromWire(ModeByte, after.mode)
              /\ reported.swing_mode = FromWire(SwingByte, after.swing_mode)
            BY <2>1
        <3>2. before = seen /\ echoed = reported
            BY <1>1, <1>8
        <3> HIDE DEF seen, reported, before, echoed, words
        <3> QED
            BY <3>1, <3>2
<1> HIDE DEF before, echoed
<1>10. setpoint.mode \in DOMAIN ModeByte /\ setpoint.swing_mode \in DOMAIN SwingByte
    BY <1>3 DEF Setpoints
<1>11. ASSUME NEW f \in Fields \ asked,
              f \notin {"mode", "swing_mode", "target_humidity", "freeze_protection"}
                 \/ before[f] # None
       PROVE  took[f] = held[f]
    <2>1. setpoint[f] = base[f]
        BY <1>3
    <2>2. CASE f \in words
        BY <1>2, <1>4, <2>1, <2>2, <1>11
    <2>3. CASE f \notin words
        BY <1>2, <1>4, <2>1, <2>3, <1>11
    <2> QED
        BY <2>2, <2>3
<1>12. ASSUME NEW f \in asked \ refused PROVE value(echoed, f) = {setpoint[f]}
    <2>1. f \in Askable /\ f \in Fields /\ after[f] = took[f]
        BY <1>6, <1>12 DEF Askable, Fields
    <2>2. CASE f \in words
        BY <1>4, <1>9, <1>10, <2>1, <2>2, ModeBytes
    <2>3. CASE f \notin words
        BY <1>4, <1>9, <2>1, <2>3
    <2> QED
        BY <2>2, <2>3
<1>13. ASSUME NEW f \in asked \cap refused PROVE value(echoed, f) = value(before, f)
    <2>1. f \in Askable /\ after[f] = held[f]
        BY <1>6, <1>13 DEF Askable, Fields
    <2> QED
        BY <1>9, <2>1 DEF Askable
<1>14. \A f \in asked : change[f] = {setpoint[f]}
    BY <1>3
<1>15. NotApplied(request, setpoint, echoed) = {f \in asked : value(echoed, f) # {setpoint[f]}}
    BY DEF NotApplied
<1>16. NotApplied(request, setpoint, echoed) = {f \in asked \cap refused : value(before, f) # change[f]}
    <2> HIDE DEF value, asked
    <2> QED
        BY <1>12, <1>13, <1>14, <1>15
<1> QED
    BY <1>5, <1>11, <1>12, <1>14, <1>16
       DEF Restates, before, change, base, setpoint, took, after, echoed
LEMMA UnitsAreHeld ==
    ASSUME NEW m \in 0 .. 7, NEW t \in 26 .. 87, NEW s \in 0 .. 15, NEW v \in 0 .. 127,
           NEW h \in 0 .. 127, NEW on
    PROVE  HeldAs(m, t, s, v, h, on) \in Held
<1> DEFINE unit == HeldAs(m, t, s, v, h, on)
<1>1. /\ unit = [f \in Fields |-> unit[f]]
      /\ unit.mode = m /\ unit.target_temperature = t /\ unit.swing_mode = s
      /\ unit.fan_speed = v /\ unit.target_humidity = h
      /\ \A f \in Switches : unit[f] \in BOOLEAN
    BY DEF HeldAs, Fields, Switches
<1> HIDE DEF unit
<1>2. unit \in Held
    BY <1>1 DEF Held, Fields, Switches
<1> QED
    BY <1>2 DEF unit

LEMMA HeldsAreHeld == Helds \subseteq Held
<1>1. /\ \A t \in 32 .. 63 : t \in 26 .. 87
      /\ \A s \in {0, 3, 5, 12, 15} : s \in 0 .. 15
      /\ \A v \in {20, 37, 102} : v \in 0 .. 127
      /\ \A h \in {40, 65} : h \in 0 .. 127
      /\ 4 \in 0 .. 7 /\ 48 \in 26 .. 87 /\ 3 \in 0 .. 15 /\ 102 \in 0 .. 127 /\ 40 \in 0 .. 127
    OBVIOUS
<1>2. ASSUME NEW m \in 0 .. 7, NEW t \in 32 .. 63
      PROVE  HeldAs(m, t, 3, 102, 40, {"power_on"}) \in Held
    BY <1>1, UnitsAreHeld
<1>3. ASSUME NEW t \in 26 .. 87 PROVE HeldAs(4, t, 3, 102, 40, {"power_on"}) \in Held
    BY <1>1, UnitsAreHeld
<1>4. ASSUME NEW s \in 0 .. 15, NEW v \in 0 .. 127, NEW h \in 0 .. 127
      PROVE  HeldAs(4, 48, s, v, h, {"power_on"}) \in Held
    BY <1>1, UnitsAreHeld
<1>5. ASSUME NEW on PROVE HeldAs(4, 48, 3, 102, 40, on) \in Held
    BY <1>1, UnitsAreHeld
<1>6. ASSUME NEW held \in Helds PROVE held \in Held
    <2>1. CASE \E s \in {0, 3, 5, 12, 15}, v \in {20, 37, 102}, h \in {40, 65} :
                  held = HeldAs(4, 48, s, v, h, {"power_on"})
        <3>1. PICK s \in {0, 3, 5, 12, 15}, v \in {20, 37, 102}, h \in {40, 65} :
                  held = HeldAs(4, 48, s, v, h, {"power_on"})
            BY <2>1
        <3>2. s \in 0 .. 15 /\ v \in 0 .. 127 /\ h \in 0 .. 127
            BY <1>1
        <3> QED
            BY <1>4, <3>1, <3>2
    <2> QED
        BY <1>2, <1>3, <1>5, <2>1 DEF Helds
<1> QED
    BY <1>6

LEMMA RequestsAreAny == \A request \in Requests : IsRequest(request)
<1> USE DEF Asks, NoRequest, Askable, IsRequest, Options
<1>1. ASSUME NEW m \in {None, {"cool"}, {"HEAT"}} PROVE IsRequest(Asks([mode |-> m]))
    OBVIOUS
<1>2. ASSUME NEW t \in {160, 165, 170, 300} PROVE IsRequest(Asks([target_temperature |-> {t}]))
    OBVIOUS
<1>3. ASSUME NEW s \in {"OFF", "Both"} PROVE IsRequest(Asks([swing_mode |-> {s}]))
    OBVIOUS
<1>4. ASSUME NEW e \in BOOLEAN PROVE IsRequest(Asks([fan_speed |-> {20}, eco |-> {e}]))
    OBVIOUS
<1>5. ASSUME NEW p \in BOOLEAN
      PROVE  IsRequest(Asks([power_on |-> {p}, turbo |-> {p}, target_temperature |-> {245},
                             beep |-> {p}]))
    OBVIOUS
<1> HIDE DEF Asks, NoRequest, Askable, IsRequest, Options
<1>6. ASSUME NEW request \in Requests PROVE IsRequest(request)
    <2>1. CASE \E m \in {None, {"cool"}, {"HEAT"}} : request = Asks([mode |-> m])
        BY <1>1, <2>1
    <2>2. CASE \E t \in {160, 165, 170, 300} : request = Asks([target_temperature |-> {t}])
        BY <1>2, <2>2
    <2>3. CASE \E s \in {"OFF", "Both"} : request = Asks([swing_mode |-> {s}])
        BY <1>3, <2>3
    <2>4. CASE \E e \in BOOLEAN : request = Asks([fan_speed |-> {20}, eco |-> {e}])
        BY <1>4, <2>4
    <2>5. CASE \E p \in BOOLEAN :
                  request = Asks([power_on |-> {p}, turbo |-> {p}, target_temperature |-> {245},
                                  beep |-> {p}])
        BY <1>5, <2>5
    <2> QED
        BY <1>6, <2>1, <2>2, <2>3, <2>4, <2>5, Zenon DEF Requests
<1> QED
    BY <1>6

\* The same of the states and requests that are checked.
THEOREM CommandsRestate == Spec => []CommandRestates
<1>1. EveryRequest
    <2>1. ASSUME NEW held \in Helds, NEW request \in Requests, Accepts(request), NEW refused
          PROVE  /\ Restates(held, TRUE, 24, request, refused)
                 /\ held.target_temperature \in 32 .. 63 => Restates(held, FALSE, 17, request, refused)
        <3>1. held \in Held /\ IsRequest(request) /\ TRUE \in BOOLEAN /\ FALSE \in BOOLEAN
            BY HeldsAreHeld, RequestsAreAny
        <3>2. Tells(held, TRUE) /\ (held.target_temperature \in 32 .. 63 => Tells(held, FALSE))
            BY DEF Tells
        <3>3. 24 \in 17 .. 24 /\ 17 \in 17 .. 24
            OBVIOUS
        <3> QED
            BY <2>1, <3>1, <3>2, <3>3, AnyCommandRestates
    <2> QED
        BY <2>1 DEF EveryRequest
<1>2. CommandRestates
    BY <1>1 DEF CommandRestates
<1> QED
    BY <1>2, PTL
-----------------------------------------------------------------------------
(* Which unit a name means, for every list of units.                       *)

LEMMA Least ==
    ASSUME NEW S \in SUBSET Nat, S # {}
    PROVE  \E n \in S : \A m \in S : n <= m
<1>1. PICK n \in S : \A m \in S : ~(<<m, n>> \in OpToRel(<, Nat))
    BY NatLessThanWellFounded, WFMin
<1>2. \A m \in S : ~(m < n)
    BY <1>1 DEF OpToRel
<1>3. S \subseteq Int
    OBVIOUS
<1> QED
    BY <1>2, <1>3

LEMMA InsertProperties ==
    ASSUME NEW S, NEW s \in Seq(S), NEW at \in 1 .. Len(s) + 1, NEW e \in S
    PROVE  /\ InsertAt(s, at, e) \in Seq(S)
           /\ Len(InsertAt(s, at, e)) = Len(s) + 1
           /\ \A i \in 1 .. Len(s) + 1 :
                 InsertAt(s, at, e)[i] = IF i < at THEN s[i] ELSE IF i = at THEN e ELSE s[i - 1]
<1> DEFINE front == SubSeq(s, 1, at - 1)
           back  == SubSeq(s, at, Len(s))
           through  == front \o <<e>>
<1>1. Len(s) \in Nat /\ at \in Int /\ at >= 1 /\ at <= Len(s) + 1 /\ \A i \in 1 .. Len(s) : s[i] \in S
    BY LenProperties
<1>2. /\ front \in Seq(S) /\ Len(front) = at - 1
      /\ \A i \in 1 .. at - 1 : front[i] = s[i]
    <2>1. \A i \in 1 .. at - 1 : s[i] \in S
        BY <1>1
    <2> QED
        BY <1>1, <2>1, SubSeqProperties
<1>3. /\ back \in Seq(S) /\ Len(back) = Len(s) - at + 1
      /\ \A i \in 1 .. Len(s) - at + 1 : back[i] = s[at + i - 1]
    <2>1. \A i \in at .. Len(s) : s[i] \in S
        BY <1>1
    <2> QED
        BY <1>1, <2>1, SubSeqProperties
<1>4. <<e>> \in Seq(S) /\ Len(<<e>>) = 1 /\ <<e>>[1] = e
    OBVIOUS
<1> HIDE DEF front, back
<1>5. /\ through \in Seq(S) /\ Len(through) = at
      /\ \A i \in 1 .. at : through[i] = IF i < at THEN s[i] ELSE e
    BY <1>1, <1>2, <1>4, ConcatProperties
<1> HIDE DEF through
<1>6. /\ through \o back \in Seq(S) /\ Len(through \o back) = Len(s) + 1
      /\ \A i \in 1 .. Len(s) + 1 :
            (through \o back)[i] = IF i < at THEN s[i] ELSE IF i = at THEN e ELSE s[i - 1]
    <2>1. /\ through \o back \in Seq(S) /\ Len(through \o back) = Len(s) + 1
          /\ \A i \in 1 .. Len(s) + 1 : (through \o back)[i] = IF i <= at THEN through[i] ELSE back[i - at]
        <3>1. /\ through \o back \in Seq(S) /\ Len(through \o back) = Len(through) + Len(back)
              /\ \A i \in 1 .. Len(through) + Len(back) :
                    (through \o back)[i] = IF i <= Len(through) THEN through[i] ELSE back[i - Len(through)]
            BY <1>3, <1>5, ConcatProperties
        <3>2. Len(through) = at /\ Len(through) + Len(back) = Len(s) + 1
            BY <1>1, <1>3, <1>5
        <3> QED
            BY <3>1, <3>2
    <2>2. \A i \in 1 .. Len(s) + 1 : i > at => back[i - at] = s[i - 1]
        BY <1>1, <1>3
    <2>3. \A i \in 1 .. Len(s) + 1 : i <= at => through[i] = IF i < at THEN s[i] ELSE e
        BY <1>1, <1>5
    <2> QED
        BY <1>1, <2>1, <2>2, <2>3
<1>7. InsertAt(s, at, e) = through \o back
    BY DEF InsertAt, through, front, back
<1> QED
    BY <1>6, <1>7

\* Where a unit stands once another was put in front of it, or behind.
Moved(i, at) == IF i < at THEN i ELSE i + 1

\* A choice among n units, and the same choice with one more.
Extends(before, after, n, at) ==
    /\ before \subseteq 1 .. n /\ after \subseteq 1 .. n + 1
    /\ \A i \in 1 .. n : i \in before <=> Moved(i, at) \in after

LEMMA OnlyOneIsOne ==
    ASSUME NEW n \in Nat, NEW S \in SUBSET (1 .. n), NEW x \in OnlyOne(S)
    PROVE  S = {x}
<1>1. IsFiniteSet(S)
    <2>1. IsFiniteSet(1 .. n)
        BY FS_Interval
    <2> QED
        BY <2>1, FS_Subset
<1>2. Cardinality(S) = 1 /\ x \in S
    BY DEF OnlyOne, None
<1> QED
    BY <1>1, <1>2, FS_Singleton

LEMMA OnlyOneStays ==
    ASSUME NEW n \in Nat, NEW at \in 1 .. n + 1, NEW before, NEW after, Extends(before, after, n, at),
           NEW x \in OnlyOne(before), NEW y \in OnlyOne(after)
    PROVE  x \in 1 .. n /\ y = Moved(x, at)
<1>1. before \in SUBSET (1 .. n) /\ after \in SUBSET (1 .. n + 1) /\ n + 1 \in Nat
    BY DEF Extends
<1>2. before = {x} /\ after = {y}
    BY <1>1, OnlyOneIsOne
<1>3. x \in 1 .. n /\ Moved(x, at) \in after
    BY <1>1, <1>2 DEF Extends
<1> QED
    BY <1>2, <1>3

LEMMA OnlyNewOne ==
    ASSUME NEW n \in Nat, NEW at \in 1 .. n + 1, NEW before, NEW after, Extends(before, after, n, at),
           before = {}, NEW y \in after
    PROVE  y = at
<1>1. SUFFICES ASSUME y # at PROVE FALSE
    OBVIOUS
<1>2. y \in 1 .. n + 1
    BY DEF Extends
<1>3. CASE y < at
    BY <1>2, <1>3 DEF Extends, Moved
<1>4. CASE y > at
    <2>1. y - 1 \in 1 .. n /\ Moved(y - 1, at) = y
        BY <1>2, <1>4 DEF Moved
    <2> QED
        BY <2>1 DEF Extends
<1> QED
    BY <1>1, <1>2, <1>3, <1>4

ById(units, wanted)     == {i \in DOMAIN units : units[i].id = wanted}
Exact(units, wanted)    == {i \in DOMAIN units : Lower(units[i].name) = Lower(wanted)}
Prefixed(units, wanted) == {i \in DOMAIN units : IsPrefix(Lower(wanted), Lower(units[i].name))}
ByName(units, wanted)   == IF Exact(units, wanted) # {} THEN OnlyOne(Exact(units, wanted))
                                                        ELSE OnlyOne(Prefixed(units, wanted))

LEMMA Resolved ==
    ASSUME NEW U, NEW units \in Seq(U), NEW wanted, NEW id \in ResolveUnit(units, wanted)
    PROVE  \/ id = wanted /\ ById(units, wanted) # {}
           \/ ById(units, wanted) = {} /\ \E i \in ByName(units, wanted) : id = units[i].id
<1>1. CASE ById(units, wanted) = {}
    BY <1>1 DEF ResolveUnit, ByName, ById, Exact, Prefixed
<1>2. CASE ById(units, wanted) # {}
    <2> DEFINE byId  == ById(units, wanted)
               first == CHOOSE i \in byId : \A j \in byId : i <= j
    <2>1. byId \in SUBSET Nat
        BY DEF ById
    <2>2. first \in byId
        <3> HIDE DEF byId
        <3>1. \E i \in byId : \A j \in byId : i <= j
            BY <1>2, <2>1, Least DEF byId
        <3> QED
            BY <3>1
    <2>3. ResolveUnit(units, wanted) = {units[i].id : i \in {first}}
        BY <1>2 DEF ResolveUnit, ById
    <2>4. id = units[first].id
        BY <2>3
    <2> QED
        BY <1>2, <2>2, <2>4 DEF ById
<1> QED
    BY <1>1, <1>2

LEMMA Inserted ==
    ASSUME NEW U, NEW units \in Seq(U), NEW added \in U, NEW at \in 1 .. Len(units) + 1, NEW wanted
    PROVE  LET more == InsertAt(units, at, added) IN
           /\ more[at] = added
           /\ \A i \in 1 .. Len(units) : more[Moved(i, at)] = units[i]
           /\ Extends(ById(units, wanted), ById(more, wanted), Len(units), at)
           /\ Extends(Exact(units, wanted), Exact(more, wanted), Len(units), at)
           /\ Extends(Prefixed(units, wanted), Prefixed(more, wanted), Len(units), at)
<1> DEFINE more == InsertAt(units, at, added)
<1>1. Len(units) \in Nat /\ DOMAIN units = 1 .. Len(units)
    BY LenProperties
<1>2. DOMAIN more = 1 .. Len(units) + 1 /\ more[at] = added
    BY <1>1, InsertProperties, LenProperties
<1>3. \A i \in 1 .. Len(units) : Moved(i, at) \in DOMAIN more /\ more[Moved(i, at)] = units[i]
    <2>1. \A i \in 1 .. Len(units) + 1 :
             more[i] = IF i < at THEN units[i] ELSE IF i = at THEN added ELSE units[i - 1]
        BY InsertProperties
    <2> HIDE DEF more
    <2> QED
        BY <1>1, <1>2, <2>1 DEF Moved
<1> HIDE DEF more
<1>4. Extends(ById(units, wanted), ById(more, wanted), Len(units), at)
    BY <1>1, <1>2, <1>3 DEF Extends, ById
<1>5. Extends(Exact(units, wanted), Exact(more, wanted), Len(units), at)
    BY <1>1, <1>2, <1>3 DEF Extends, Exact
<1>6. Extends(Prefixed(units, wanted), Prefixed(more, wanted), Len(units), at)
    BY <1>1, <1>2, <1>3 DEF Extends, Prefixed
<1> QED
    BY <1>2, <1>3, <1>4, <1>5, <1>6 DEF more

\* resolve_unit: for every list of units, a unit that is added anywhere in it takes
\* over a command for another only by being called exactly what was typed.
THEOREM AnyNameSettles ==
    ASSUME NEW U, NEW units \in Seq(U), NEW added \in U, NEW at \in 1 .. Len(units) + 1, NEW wanted
    PROVE  NameSettles(units, added, at, wanted)
<1> DEFINE more == InsertAt(units, at, added)
           n == Len(units)
<1>1. SUFFICES ASSUME NEW before \in ResolveUnit(units, wanted), NEW after \in ResolveUnit(more, wanted),
                      after # before
               PROVE  after = added.id /\ (wanted = added.id \/ Lower(added.name) = Lower(wanted))
    BY DEF NameSettles
<1>2. /\ more \in Seq(U) /\ more[at] = added /\ n \in Nat /\ at \in 1 .. n + 1
      /\ \A i \in 1 .. n : more[Moved(i, at)] = units[i]
      /\ Extends(ById(units, wanted), ById(more, wanted), n, at)
      /\ Extends(Exact(units, wanted), Exact(more, wanted), n, at)
      /\ Extends(Prefixed(units, wanted), Prefixed(more, wanted), n, at)
    <2>1. more \in Seq(U) /\ n \in Nat
        BY InsertProperties, LenProperties
    <2> QED
        BY <2>1, Inserted
<1> HIDE DEF more, n
<1>3. /\ \/ before = wanted /\ ById(units, wanted) # {}
         \/ ById(units, wanted) = {} /\ \E i \in ByName(units, wanted) : before = units[i].id
      /\ \/ after = wanted /\ ById(more, wanted) # {}
         \/ ById(more, wanted) = {} /\ \E i \in ByName(more, wanted) : after = more[i].id
    BY <1>2, Resolved
<1>4. ById(units, wanted) # {} => ById(more, wanted) # {}
    BY <1>2 DEF Extends
<1>5. CASE ById(more, wanted) # {}
    <2>1. after = wanted /\ ById(units, wanted) = {}
        BY <1>1, <1>3, <1>5
    <2>2. PICK i \in ById(more, wanted) : TRUE
        BY <1>5
    <2>3. i = at
        BY <1>2, <2>1, <2>2, OnlyNewOne
    <2> QED
        BY <1>2, <2>1, <2>2, <2>3 DEF ById
<1>6. CASE ById(more, wanted) = {}
    <2>1. /\ ById(units, wanted) = {}
          /\ \E i \in ByName(units, wanted) : before = units[i].id
          /\ \E i \in ByName(more, wanted) : after = more[i].id
        BY <1>3, <1>4, <1>6
    <2>2. PICK i \in ByName(units, wanted), j \in ByName(more, wanted) :
             before = units[i].id /\ after = more[j].id
        BY <2>1
    <2>3. j # Moved(i, at) \/ i \notin 1 .. n
        BY <1>1, <1>2, <2>2
    <2>4. CASE Exact(units, wanted) # {}
        <3>1. Exact(more, wanted) # {}
            BY <1>2, <2>4 DEF Extends
        <3>2. i \in OnlyOne(Exact(units, wanted)) /\ j \in OnlyOne(Exact(more, wanted))
            BY <2>2, <2>4, <3>1 DEF ByName
        <3> QED
            BY <1>2, <2>3, <3>2, OnlyOneStays
    <2>5. CASE Exact(units, wanted) = {} /\ Exact(more, wanted) # {}
        <3>1. j \in Exact(more, wanted)
            BY <2>2, <2>5 DEF ByName, OnlyOne, None
        <3>2. j = at
            BY <1>2, <2>5, <3>1, OnlyNewOne
        <3> QED
            BY <1>2, <2>2, <3>1, <3>2 DEF Exact
    <2>6. CASE Exact(units, wanted) = {} /\ Exact(more, wanted) = {}
        <3>1. i \in OnlyOne(Prefixed(units, wanted)) /\ j \in OnlyOne(Prefixed(more, wanted))
            BY <2>2, <2>6 DEF ByName
        <3> QED
            BY <1>2, <2>3, <3>1, OnlyOneStays
    <2> QED
        BY <2>4, <2>5, <2>6
<1> QED
    BY <1>5, <1>6
-----------------------------------------------------------------------------
(* What the words say, for every sequence of words.                        *)

LEMMA RemoveProperties ==
    ASSUME NEW S, NEW s \in Seq(S), NEW k \in 1 .. Len(s)
    PROVE  /\ RemoveAt(s, k) \in Seq(S)
           /\ Len(RemoveAt(s, k)) = Len(s) - 1
           /\ \A i \in 1 .. Len(s) - 1 : RemoveAt(s, k)[i] = IF i < k THEN s[i] ELSE s[i + 1]
<1> DEFINE front == SubSeq(s, 1, k - 1)
           back  == SubSeq(s, k + 1, Len(s))
<1>1. Len(s) \in Nat /\ k \in Int /\ k >= 1 /\ k <= Len(s) /\ \A i \in 1 .. Len(s) : s[i] \in S
    BY LenProperties
<1>2. /\ front \in Seq(S) /\ Len(front) = k - 1
      /\ \A i \in 1 .. k - 1 : front[i] = s[i]
    <2>1. \A i \in 1 .. k - 1 : s[i] \in S
        BY <1>1
    <2> QED
        BY <1>1, <2>1, SubSeqProperties
<1>3. /\ back \in Seq(S) /\ Len(back) = Len(s) - k
      /\ \A i \in 1 .. Len(s) - k : back[i] = s[k + i]
    <2>1. \A i \in k + 1 .. Len(s) : s[i] \in S
        BY <1>1
    <2> QED
        BY <1>1, <2>1, SubSeqProperties
<1> HIDE DEF front, back
<1>4. /\ front \o back \in Seq(S) /\ Len(front \o back) = Len(front) + Len(back)
      /\ \A i \in 1 .. Len(front) + Len(back) :
            (front \o back)[i] = IF i <= Len(front) THEN front[i] ELSE back[i - Len(front)]
    BY <1>2, <1>3, ConcatProperties
<1>5. Len(front) = k - 1 /\ Len(front) + Len(back) = Len(s) - 1
    BY <1>1, <1>2, <1>3
<1>6. /\ \A i \in 1 .. Len(s) - 1 : i < k => front[i] = s[i]
      /\ \A i \in 1 .. Len(s) - 1 : i >= k => back[i - (k - 1)] = s[i + 1]
    BY <1>1, <1>2, <1>3
<1>7. \A i \in 1 .. Len(s) - 1 : (front \o back)[i] = IF i < k THEN s[i] ELSE s[i + 1]
    BY <1>1, <1>4, <1>5, <1>6
<1>8. RemoveAt(s, k) = front \o back
    BY DEF RemoveAt, front, back
<1> QED
    BY <1>4, <1>5, <1>7, <1>8

LEMMA RemoveInserted ==
    ASSUME NEW S, NEW s \in Seq(S), NEW at \in 1 .. Len(s) + 1, NEW e \in S
    PROVE  RemoveAt(InsertAt(s, at, e), at) = s
<1> DEFINE more == InsertAt(s, at, e)
<1>1. /\ more \in Seq(S) /\ Len(more) = Len(s) + 1 /\ Len(s) \in Nat
      /\ \A i \in 1 .. Len(s) + 1 : more[i] = IF i < at THEN s[i] ELSE IF i = at THEN e ELSE s[i - 1]
    BY InsertProperties, LenProperties
<1> HIDE DEF more
<1>2. /\ RemoveAt(more, at) \in Seq(S) /\ Len(RemoveAt(more, at)) = Len(s)
      /\ \A i \in 1 .. Len(s) : RemoveAt(more, at)[i] = IF i < at THEN more[i] ELSE more[i + 1]
    <2>1. at \in 1 .. Len(more) /\ Len(more) - 1 = Len(s)
        BY <1>1
    <2> QED
        BY <1>1, <2>1, RemoveProperties
<1>3. ASSUME NEW i \in 1 .. Len(s)
      PROVE  RemoveAt(more, at)[i] = s[i]
    <2>1. i \in 1 .. Len(s) + 1 /\ i + 1 \in 1 .. Len(s) + 1 /\ at \in Int
        BY <1>1
    <2>2. CASE i < at
        BY <1>1, <1>2, <2>1, <2>2
    <2>3. CASE ~(i < at)
        <3>1. ~(i + 1 < at) /\ i + 1 # at /\ (i + 1) - 1 = i
            BY <2>1, <2>3
        <3>2. more[i + 1] = s[i]
            BY <1>1, <2>1, <3>1
        <3> QED
            BY <1>2, <2>3, <3>2
    <2> QED
        BY <2>2, <2>3
<1> QED
    BY <1>2, <1>3, SeqEqual DEF more

\* The one timer there may be.
Single(words) == \A i, j \in TimersAt(words) : i = j

LEMMA SingleTimer ==
    ASSUME NEW words, Single(words), NEW t \in TimersAt(words)
    PROVE  TimersAt(words) = {t} /\ Positional(words) = RemoveAt(words, t)
<1>1. TimersAt(words) = {t}
    BY DEF Single
<1>2. (CHOOSE i \in {t} : TRUE) = t
    OBVIOUS
<1> QED
    BY <1>1, <1>2 DEF Positional

LEMMA SlotsProperties ==
    ASSUME NEW W, NEW words \in Seq(W), Single(words)
    PROVE  /\ Positional(words) \in Seq(W)
           /\ TimersAt(Positional(words)) = {}
           /\ \A t \in TimersAt(words) : Len(words) = Len(Positional(words)) + 1
<1>1. CASE TimersAt(words) = {}
    BY <1>1 DEF Positional
<1>2. ASSUME NEW t \in TimersAt(words)
      PROVE  /\ Positional(words) \in Seq(W)
             /\ TimersAt(Positional(words)) = {}
             /\ Len(words) = Len(Positional(words)) + 1
    <2> DEFINE slots == RemoveAt(words, t)
    <2>1. TimersAt(words) = {t} /\ Positional(words) = slots
        BY SingleTimer
    <2>2. t \in 1 .. Len(words) /\ Len(words) \in Nat /\ DOMAIN words = 1 .. Len(words)
        BY LenProperties DEF TimersAt
    <2>3. /\ slots \in Seq(W) /\ Len(slots) = Len(words) - 1
          /\ \A i \in 1 .. Len(words) - 1 : slots[i] = IF i < t THEN words[i] ELSE words[i + 1]
        BY <2>2, RemoveProperties
    <2>4. DOMAIN slots = 1 .. Len(words) - 1
        BY <2>3, LenProperties
    <2> HIDE DEF slots
    <2>5. \A i \in 1 .. Len(words) : i # t => ~IsTimer(words[i])
        BY <2>1, <2>2 DEF TimersAt
    <2>6. \A i \in DOMAIN slots : ~IsTimer(slots[i])
        BY <2>2, <2>3, <2>4, <2>5
    <2> QED
        BY <2>1, <2>2, <2>3, <2>6 DEF TimersAt
<1> QED
    BY <1>1, <1>2

LEMMA TimerInserted ==
    ASSUME NEW W, NEW slots \in Seq(W), TimersAt(slots) = {}, NEW word \in W, IsTimer(word),
           NEW at \in 1 .. Len(slots) + 1
    PROVE  LET more == InsertAt(slots, at, word) IN
           /\ TimersAt(more) = {at} /\ more[at] = word
           /\ Positional(more) = slots /\ Len(more) = Len(slots) + 1
<1> DEFINE more == InsertAt(slots, at, word)
<1>1. /\ more \in Seq(W) /\ Len(more) = Len(slots) + 1 /\ Len(slots) \in Nat
      /\ DOMAIN more = 1 .. Len(slots) + 1 /\ DOMAIN slots = 1 .. Len(slots)
      /\ \A i \in 1 .. Len(slots) + 1 :
            more[i] = IF i < at THEN slots[i] ELSE IF i = at THEN word ELSE slots[i - 1]
    BY InsertProperties, LenProperties
<1>2. RemoveAt(more, at) = slots
    BY RemoveInserted
<1> HIDE DEF more
<1>3. \A i \in 1 .. Len(slots) : ~IsTimer(slots[i])
    BY <1>1 DEF TimersAt
<1>4. \A i \in DOMAIN more : IsTimer(more[i]) <=> i = at
    BY <1>1, <1>3
<1>5. TimersAt(more) = {at}
    BY <1>1, <1>4 DEF TimersAt
<1>6. Single(more)
    BY <1>5 DEF Single
<1>7. Positional(more) = slots
    BY <1>2, <1>5, <1>6, SingleTimer
<1> QED
    BY <1>1, <1>5, <1>7 DEF more

LEMMA ParsedSlots ==
    ASSUME NEW words, NEW command \in ParseWords(words)
    PROVE  LET slots == Positional(words) IN
           /\ Single(words)
           /\ \A i \in DOMAIN slots : Understood(i, slots[i])
           /\ command = Told(slots, {Timer[words[i]] : i \in TimersAt(words)})
BY DEF ParseWords, Single, None

LEMMA TimerMoves ==
    ASSUME NEW W, NEW words \in Seq(W), Single(words), NEW t \in TimersAt(words),
           NEW at \in 1 .. Len(Positional(words)) + 1
    PROVE  ParseWords(InsertAt(Positional(words), at, words[t])) = ParseWords(words)
<1> DEFINE slots == Positional(words)
           more  == InsertAt(slots, at, words[t])
<1>1. /\ slots \in Seq(W) /\ TimersAt(slots) = {} /\ Len(words) = Len(slots) + 1
      /\ TimersAt(words) = {t} /\ words[t] \in W /\ IsTimer(words[t])
    <2>1. t \in 1 .. Len(words) /\ IsTimer(words[t])
        BY LenProperties DEF TimersAt
    <2> QED
        BY <2>1, SlotsProperties, SingleTimer, ElementOfSeq
<1>2. /\ TimersAt(more) = {at} /\ more[at] = words[t]
      /\ Positional(more) = slots /\ Len(more) = Len(words)
    BY <1>1, TimerInserted
<1>3. {Timer[more[i]] : i \in TimersAt(more)} = {Timer[words[i]] : i \in TimersAt(words)}
    BY <1>1, <1>2
<1> HIDE DEF more, slots
<1>4. /\ ~\E i, j \in TimersAt(more) : i # j
      /\ ~\E i, j \in TimersAt(words) : i # j
    BY <1>1, <1>2
<1> QED
    BY <1>2, <1>3, <1>4 DEF ParseWords, more, slots

LEMMA WordIs ==
    ASSUME NEW slots, \A i \in DOMAIN slots : Understood(i, slots[i]), NEW i \in 1 .. 5
    PROVE  \/ InSlot(slots, i) = None
           \/ \E w : InSlot(slots, i) = {w} /\ Understood(i, w) /\ w \notin Skipped
BY DEF InSlot, None

LEMMA TypeWords ==
    ASSUME NEW w \in DOMAIN ModeWord
    PROVE  ModeWord[w] \in {"AUTO", "COOL", "DRY", "HEAT", "FAN_ONLY"}
BY DEF ModeWord

LEMMA TemperatureWords ==
    ASSUME NEW w, Understood(2, w), w \notin Skipped
    PROVE  TemperatureWord[w] \in 160 .. 300 /\ TemperatureWord[w] % 5 = 0
BY DEF Understood

LEMMA FlapWords ==
    ASSUME NEW w, Understood(3, w), w \notin Skipped
    PROVE  FlapWord[w] \in {"OFF", "VERTICAL", "HORIZONTAL", "BOTH"}
<1>1. w \in DOMAIN FlapWord
    BY DEF Understood
<1> QED
    BY <1>1 DEF FlapWord

LEMMA FanWords ==
    ASSUME NEW w, Understood(4, w), w \notin Skipped
    PROVE  (IF w \in DOMAIN FanWord THEN FanWord[w] ELSE SpeedWord[w] \div 10) \in AllowedFanSpeeds
<1>1. w \in DOMAIN FanWord => FanWord[w] \in AllowedFanSpeeds
    BY DEF FanWord, AllowedFanSpeeds
<1>2. w \notin DOMAIN FanWord => SpeedWord[w] \div 10 \in AllowedFanSpeeds
    BY DEF Understood, FanNumbers, AllowedFanSpeeds
<1> QED
    BY <1>1, <1>2

\* Each part of an extra word names one of the two fields.
LEMMA PartsAre ==
    ASSUME NEW w \in ExtraWords
    PROVE  /\ DOMAIN PartsOf(w) \subseteq 1 .. 2 /\ 1 \in DOMAIN PartsOf(w)
           /\ \E f \in {"eco", "turbo"} : PartsOf(w)[1] \in ExtraParts[f]
<1>1. \A a, b : /\ DOMAIN <<a, b>> = 1 .. 2 /\ <<a, b>>[1] = a
                /\ DOMAIN <<a>> = 1 .. 1 /\ <<a>>[1] = a
    OBVIOUS
<1>2. 1 \in 1 .. 1 /\ 1 \in 1 .. 2 /\ 1 .. 1 \subseteq 1 .. 2
    OBVIOUS
<1>3. CASE w \in {"turbo+eco", "eco,noturbo"}
    <2>1. PartsOf(w) = <<"turbo", "eco">> \/ PartsOf(w) = <<"eco", "noturbo">>
        BY <1>3 DEF PartsOf
    <2>2. "turbo" \in ExtraParts["turbo"] /\ "eco" \in ExtraParts["eco"]
        BY DEF ExtraParts
    <2> QED
        BY <1>1, <1>2, <2>1, <2>2
<1>4. CASE w \notin {"turbo+eco", "eco,noturbo"}
    <2>1. PartsOf(w) = <<w>>
        BY <1>4 DEF PartsOf
    <2>2. w \in ExtraParts["turbo"] \/ w \in ExtraParts["eco"]
        BY <1>4 DEF ExtraWords
    <2> QED
        BY <1>1, <1>2, <2>1, <2>2
<1> QED
    BY <1>3, <1>4

LEMMA ExtraValues ==
    ASSUME NEW w, Understood(5, w), w \notin Skipped
    PROVE  /\ \A f \in {"eco", "turbo"} : ExtraValue(w, f) \in Options(BOOLEAN)
           /\ ExtraValue(w, "eco") # None \/ ExtraValue(w, "turbo") # None
<1> DEFINE parts == PartsOf(w)
           named(f) == {i \in DOMAIN parts : parts[i] \in ExtraParts[f]}
           last(S) == CHOOSE i \in S : \A j \in S : j <= i
<1>1. \A f : ExtraValue(w, f) = IF named(f) = {} THEN None ELSE {parts[last(named(f))] \in Setting}
    BY DEF ExtraValue
<1>2. \A x : (x \in Setting) \in BOOLEAN
    OBVIOUS
<1>3. ASSUME NEW f
      PROVE  /\ ExtraValue(w, f) \in Options(BOOLEAN)
             /\ named(f) # {} => ExtraValue(w, f) # None
    <2> DEFINE value == parts[last(named(f))] \in Setting
    <2>1. value \in BOOLEAN
        BY <1>2
    <2>2. ExtraValue(w, f) = IF named(f) = {} THEN None ELSE {value}
        BY <1>1
    <2> HIDE DEF value, named
    <2> QED
        BY <2>1, <2>2 DEF Options, None
<1>4. \E f \in {"eco", "turbo"} : named(f) # {}
    <2>1. w \in ExtraWords
        BY DEF Understood
    <2>2. 1 \in DOMAIN parts /\ \E f \in {"eco", "turbo"} : parts[1] \in ExtraParts[f]
        BY <2>1, PartsAre
    <2> HIDE DEF parts
    <2> QED
        BY <2>2
<1> HIDE DEF named, parts
<1> QED
    BY <1>3, <1>4

LEMMA BodyIs ==
    ASSUME NEW slots, NEW minutes, \A i \in DOMAIN slots : Understood(i, slots[i])
    PROVE  LET body == Body(Told(slots, minutes)) IN
           /\ IsRequest(body) /\ Accepts(body)
           /\ InSlot(slots, 1) = None <=> body.power_on = None /\ body.mode = None
           /\ InSlot(slots, 2) = None <=> body.target_temperature = None
           /\ InSlot(slots, 3) = None <=> body.swing_mode = None
           /\ InSlot(slots, 4) = None <=> body.fan_speed = None
           /\ InSlot(slots, 5) = None <=> body.eco = None /\ body.turbo = None
<1> DEFINE body == Body(Told(slots, minutes))
           speed(w) == IF w \in DOMAIN FanWord THEN FanWord[w] ELSE SpeedWord[w] \div 10
<1>1. /\ body = [f \in DOMAIN NoRequest |-> body[f]] /\ body.beep = None
      /\ body.power_on = {w # "off" : w \in InSlot(slots, 1)}
      /\ body.mode = {ModeWord[w] : w \in InSlot(slots, 1) \cap DOMAIN ModeWord}
      /\ body.target_temperature = {TemperatureWord[w] : w \in InSlot(slots, 2)}
      /\ body.swing_mode = {FlapWord[w] : w \in InSlot(slots, 3)}
      /\ body.fan_speed = {speed(w) : w \in InSlot(slots, 4)}
      /\ body.eco = UNION {ExtraValue(w, "eco") : w \in InSlot(slots, 5)}
      /\ body.turbo = UNION {ExtraValue(w, "turbo") : w \in InSlot(slots, 5)}
    BY DEF Body, Told, NoRequest, Askable
<1> HIDE DEF body
<1>2. /\ body.power_on \in Options(BOOLEAN) /\ body.mode \in Options(DOMAIN ModeByte)
      /\ InSlot(slots, 1) = None <=> body.power_on = None /\ body.mode = None
    <2>1. CASE InSlot(slots, 1) = None
        BY <1>1, <2>1 DEF Options, None
    <2>2. ASSUME NEW w, InSlot(slots, 1) = {w}, Understood(1, w), w \notin Skipped
          PROVE  /\ body.power_on \in Options(BOOLEAN) /\ body.power_on # None
                 /\ body.mode \in Options(DOMAIN ModeByte)
        <3> DEFINE on == w # "off"
        <3>1. /\ on \in BOOLEAN
              /\ w \in DOMAIN ModeWord => ModeWord[w] \in DOMAIN ModeByte
            BY TypeWords DEF ModeByte
        <3>2. body.power_on = {on}
            BY <1>1, <2>2
        <3> HIDE DEF on
        <3>3. (body.mode = {ModeWord[w]} /\ w \in DOMAIN ModeWord) \/ body.mode = None
            <4>1. body.mode = {ModeWord[x] : x \in {w} \cap DOMAIN ModeWord}
                BY <1>1, <2>2
            <4>2. CASE w \in DOMAIN ModeWord
                BY <4>1, <4>2
            <4>3. CASE w \notin DOMAIN ModeWord
                <5>1. \A x : x \notin body.mode
                    BY <4>1, <4>3
                <5> QED
                    BY <5>1 DEF None
            <4> QED
                BY <4>2, <4>3
        <3> QED
            BY <3>1, <3>2, <3>3 DEF Options, None
    <2>3. 1 \in 1 .. 5
        OBVIOUS
    <2> QED
        BY <2>1, <2>2, <2>3, WordIs DEF None
<1>3. /\ body.target_temperature = None
            \/ \E t \in 160 .. 300 : t % 5 = 0 /\ body.target_temperature = {t}
      /\ InSlot(slots, 2) = None <=> body.target_temperature = None
    <2>1. CASE InSlot(slots, 2) = None
        BY <1>1, <2>1 DEF None
    <2>2. ASSUME NEW w, InSlot(slots, 2) = {w}, Understood(2, w), w \notin Skipped
          PROVE  \E t \in 160 .. 300 : t % 5 = 0 /\ body.target_temperature = {t}
        <3>1. body.target_temperature = {TemperatureWord[w]}
            BY <1>1, <2>2
        <3> QED
            BY <2>2, <3>1, TemperatureWords
    <2>3. 2 \in 1 .. 5
        OBVIOUS
    <2> QED
        BY <2>1, <2>2, <2>3, WordIs DEF None
<1>4. /\ body.swing_mode \in Options(DOMAIN SwingByte)
      /\ InSlot(slots, 3) = None <=> body.swing_mode = None
    <2>1. CASE InSlot(slots, 3) = None
        BY <1>1, <2>1 DEF Options, None
    <2>2. ASSUME NEW w, InSlot(slots, 3) = {w}, Understood(3, w), w \notin Skipped
          PROVE  body.swing_mode \in Options(DOMAIN SwingByte) /\ body.swing_mode # None
        <3>1. FlapWord[w] \in DOMAIN SwingByte
            BY <2>2, FlapWords DEF SwingByte
        <3>2. body.swing_mode = {FlapWord[w]}
            BY <1>1, <2>2
        <3> QED
            BY <3>1, <3>2 DEF Options, None
    <2>3. 3 \in 1 .. 5
        OBVIOUS
    <2> QED
        BY <2>1, <2>2, <2>3, WordIs DEF None
<1>5. /\ body.fan_speed \in Options(AllowedFanSpeeds)
      /\ InSlot(slots, 4) = None <=> body.fan_speed = None
    <2>1. CASE InSlot(slots, 4) = None
        BY <1>1, <2>1 DEF Options, None
    <2>2. ASSUME NEW w, InSlot(slots, 4) = {w}, Understood(4, w), w \notin Skipped
          PROVE  body.fan_speed \in Options(AllowedFanSpeeds) /\ body.fan_speed # None
        <3>1. speed(w) \in AllowedFanSpeeds
            BY <2>2, FanWords
        <3>2. body.fan_speed = {speed(w)}
            BY <1>1, <2>2
        <3> HIDE DEF speed
        <3> QED
            BY <3>1, <3>2 DEF Options, None
    <2>3. 4 \in 1 .. 5
        OBVIOUS
    <2> QED
        BY <2>1, <2>2, <2>3, WordIs DEF None
<1>6. /\ body.eco \in Options(BOOLEAN) /\ body.turbo \in Options(BOOLEAN)
      /\ InSlot(slots, 5) = None <=> body.eco = None /\ body.turbo = None
    <2>1. CASE InSlot(slots, 5) = None
        <3>1. \A x : x \notin body.eco /\ x \notin body.turbo
            BY <1>1, <2>1 DEF None
        <3>2. body.eco = None /\ body.turbo = None
            BY <3>1 DEF None
        <3> QED
            BY <2>1, <3>2 DEF Options
    <2>2. ASSUME NEW w, InSlot(slots, 5) = {w}, Understood(5, w), w \notin Skipped
          PROVE  /\ body.eco \in Options(BOOLEAN) /\ body.turbo \in Options(BOOLEAN)
                 /\ body.eco # None \/ body.turbo # None
        <3>1. body.eco = ExtraValue(w, "eco") /\ body.turbo = ExtraValue(w, "turbo")
            BY <1>1, <2>2
        <3> QED
            BY <2>2, <3>1, ExtraValues
    <2>3. 5 \in 1 .. 5
        OBVIOUS
    <2> QED
        BY <2>1, <2>2, <2>3, WordIs DEF None
<1>7. Accepts(body)
    <2>1. \A t \in body.target_temperature : t \in TempMin .. TempMax /\ t % 5 = 0
        BY <1>3 DEF TempMin, TempMax, None
    <2>2. body.fan_speed \subseteq AllowedFanSpeeds
        BY <1>5 DEF Options, None
    <2>3. \A word \in body.mode : Upper(word) \in {"AUTO", "COOL", "DRY", "HEAT", "FAN_ONLY"}
        BY <1>2 DEF Options, None, Upper, Spellings, ModeByte
    <2>4. \A word \in body.swing_mode : Upper(word) \in {"OFF", "VERTICAL", "HORIZONTAL", "BOTH"}
        BY <1>4 DEF Options, None, Upper, Spellings, SwingByte
    <2> QED
        BY <2>1, <2>2, <2>3, <2>4 DEF Accepts
<1>8. IsRequest(body)
    <2>1. \A f \in {"power_on", "eco", "turbo", "beep"} : body[f] \in Options(BOOLEAN)
        BY <1>1, <1>2, <1>6 DEF Options
    <2>2. \A f \in {"target_temperature", "fan_speed"} : body[f] \in Options(Nat)
        BY <1>3, <1>5 DEF Options, AllowedFanSpeeds
    <2>3. \A f \in {"mode", "swing_mode"} : body[f] = None \/ \E word : body[f] = {word}
        BY <1>2, <1>4 DEF Options
    <2> QED
        BY <1>1, <2>1, <2>2, <2>3 DEF IsRequest
<1> QED
    BY <1>2, <1>3, <1>4, <1>5, <1>6, <1>7, <1>8 DEF body

\* parse, body, run: for every sequence of words, those that make a command reach the
\* fields of their slots and no others, the server takes the request as it is, and the
\* same requests go out wherever the timer stands.
THEOREM AnyWordsAreSaid ==
    ASSUME NEW W, NEW words \in Seq(W), NEW units, NEW name
    PROVE  SaysWhatWasTyped(units, name, words)
<1> DEFINE slots == Positional(words)
           minutes == {Timer[words[i]] : i \in TimersAt(words)}
           body == Body(Told(slots, minutes))
           skips == {i \in 1 .. 5 : i > Len(slots) \/ slots[i] \in Skipped}
           fields == <<{"power_on", "mode"}, {"target_temperature"}, {"swing_mode"},
                       {"fan_speed"}, {"eco", "turbo"}>>
<1>1. SUFFICES ASSUME NEW command \in ParseWords(words)
               PROVE  /\ Accepts(body)
                      /\ \A f \in Askable : body[f] # None <=> ChangeFrom(body)[f] # None
                      /\ \A i \in 1 .. 5 : i \in skips <=> \A f \in fields[i] : body[f] = None
                      /\ \A t \in TimersAt(words), i \in 1 .. Len(slots) + 1 :
                            Posts(units, name, InsertAt(slots, i, words[t]))
                               = Posts(units, name, words)
    <2>1. \A command \in ParseWords(words) : Body(command) = body
        BY ParsedSlots
    <2> HIDE DEF slots, body
    <2> QED
        BY <2>1 DEF SaysWhatWasTyped, slots
<1>2. Single(words) /\ \A i \in DOMAIN slots : Understood(i, slots[i])
    BY ParsedSlots
<1>3. slots \in Seq(W) /\ DOMAIN slots = 1 .. Len(slots) /\ Len(slots) \in Nat
    BY <1>2, SlotsProperties, LenProperties
<1> HIDE DEF minutes
<1>4. /\ IsRequest(body) /\ Accepts(body)
      /\ InSlot(slots, 1) = None <=> body.power_on = None /\ body.mode = None
      /\ InSlot(slots, 2) = None <=> body.target_temperature = None
      /\ InSlot(slots, 3) = None <=> body.swing_mode = None
      /\ InSlot(slots, 4) = None <=> body.fan_speed = None
      /\ InSlot(slots, 5) = None <=> body.eco = None /\ body.turbo = None
    BY <1>2, BodyIs
<1>5. \A t \in TimersAt(words), i \in 1 .. Len(slots) + 1 :
         Posts(units, name, InsertAt(slots, i, words[t])) = Posts(units, name, words)
    BY <1>2, TimerMoves DEF Posts, Commands
<1> HIDE DEF slots, body
<1>6. \A f \in Askable : body[f] # None <=> ChangeFrom(body)[f] # None
    BY <1>4, ChangeIs
<1>7. \A i \in 1 .. 5 : i \in skips <=> InSlot(slots, i) = None
    BY <1>3 DEF InSlot, None
<1>8. /\ \A f \in fields[1] : f \in {"power_on", "mode"}
      /\ \A f \in {"power_on", "mode"} : f \in fields[1]
      /\ fields[2] = {"target_temperature"} /\ fields[3] = {"swing_mode"}
      /\ fields[4] = {"fan_speed"} /\ fields[5] = {"eco", "turbo"}
    OBVIOUS
<1>9. ASSUME NEW i \in 1 .. 5
      PROVE  InSlot(slots, i) = None <=> \A f \in fields[i] : body[f] = None
    <2> HIDE DEF fields
    <2>1. i = 1 \/ i = 2 \/ i = 3 \/ i = 4 \/ i = 5
        OBVIOUS
    <2> QED
        BY <1>4, <1>8, <2>1
<1> QED
    BY <1>4, <1>5, <1>6, <1>7, <1>9

\* The words of the runs, and a timer.
Spoken == Slots[1] \cup Slots[2] \cup Slots[3] \cup Slots[4] \cup Slots[5] \cup {"15m", "2h"}

LEMMA TypedAreWords ==
    ASSUME NEW words \in Typed \cup WithTimer
    PROVE  words \in Seq(Spoken)
<1>1. ASSUME NEW w \in Slots[1] \X Slots[2] \X Slots[3] \X Slots[4] \X Slots[5], NEW n \in 0 .. 5
      PROVE  Start(w, n) \in Seq(Spoken)
    <2> DEFINE A == Slots[1]
               B == Slots[2]
               C == Slots[3]
               D == Slots[4]
               E == Slots[5]
    <2>1. /\ w \in A \X B \X C \X D \X E
          /\ A \subseteq Spoken /\ B \subseteq Spoken /\ C \subseteq Spoken
          /\ D \subseteq Spoken /\ E \subseteq Spoken
        BY DEF Spoken
    <2> HIDE DEF A, B, C, D, E
    <2>2. \A i \in 1 .. 5 : w[i] \in Spoken
        <3>1. w[1] \in A /\ w[2] \in B /\ w[3] \in C /\ w[4] \in D /\ w[5] \in E
            BY <2>1
        <3> QED
            BY <2>1, <3>1
    <2>3. \A i \in 1 .. n : w[i] \in Spoken
        BY <2>2
    <2> QED
        BY <2>3, SubSeqProperties DEF Start
<1>2. ASSUME NEW w \in Typed PROVE w \in Seq(Spoken)
    BY <1>1 DEF Typed
<1>3. "2h" \in Spoken /\ "15m" \in Spoken
    BY DEF Spoken
<1>4. ASSUME NEW w \in Typed PROVE Append(w, "2h") \in Seq(Spoken) /\ <<"15m">> \o w \o <<"2h">> \in Seq(Spoken)
    BY <1>2, <1>3, ConcatProperties, AppendProperties
<1> QED
    BY <1>2, <1>4 DEF WithTimer

\* SentAsTyped (cli/control.rs), in every run of a session: whatever the words and the names
\* the runs try, what is sent is what was typed, and to the unit that was meant.
THEOREM CommandsAreSent == Spec => []SentAsTyped
<1>1. EveryLine
    <2>1. ASSUME NEW words \in Typed \cup WithTimer
          PROVE  SaysWhatWasTyped(<<[id |-> <<"1">>, name |-> <<"k">>]>>, <<"k">>, words)
        BY TypedAreWords, AnyWordsAreSaid
    <2>2. ASSUME NEW a \in Names, NEW b \in Names, NEW c \in Names,
                 NEW wanted \in Names \cup {<<"1">>, <<"3">>}, NEW at \in 1 .. 3
          PROVE  NameSettles(<<[id |-> <<"1">>, name |-> a], [id |-> <<"2">>, name |-> b]>>,
                             [id |-> <<"3">>, name |-> c], at, wanted)
        <3> DEFINE x == [id |-> <<"1">>, name |-> a]
                   y == [id |-> <<"2">>, name |-> b]
                   z == [id |-> <<"3">>, name |-> c]
                   U == {x, y, z}
        <3>1. x \in U /\ y \in U /\ z \in U
            OBVIOUS
        <3> HIDE DEF x, y, z, U
        <3>2. <<x, y>> \in Seq(U) /\ Len(<<x, y>>) = 2
            BY <3>1
        <3>3. at \in 1 .. Len(<<x, y>>) + 1
            BY <3>2
        <3> QED
            BY <3>1, <3>2, <3>3, AnyNameSettles DEF x, y, z
    <2> QED
        BY <2>1, <2>2 DEF EveryLine
<1>2. SentAsTyped
    BY <1>1 DEF SentAsTyped
<1> QED
    BY <1>2, PTL
-----------------------------------------------------------------------------
(* What a unit says it can do, for every list of records.                  *)

LEMMA Induct ==
    ASSUME NEW S \in SUBSET Nat, 0 \in S, \A n \in S : n + 1 \in S
    PROVE  S = Nat
<1>1. SUFFICES ASSUME Nat \ S # {} PROVE FALSE
    OBVIOUS
<1>2. PICK n \in Nat \ S : \A m \in Nat \ S : n <= m
    BY <1>1, Least
<1>3. n # 0 /\ n - 1 \in Nat /\ ~(n <= n - 1)
    BY <1>2
<1>4. n - 1 \in S /\ (n - 1) + 1 = n
    BY <1>2, <1>3
<1> QED
    BY <1>2, <1>4

\* As far as n: how FlattenSeq is defined.
Flattens(g, seqs, n) == g = [i \in 1 .. n |-> IF i = 1 THEN seqs[i] ELSE g[i - 1] \o seqs[i]]

LEMMA FlattensExists == \A seqs : \A n \in Nat : \E g : Flattens(g, seqs, n)
<1> SUFFICES ASSUME NEW seqs PROVE \A n \in Nat : \E g : Flattens(g, seqs, n)
    OBVIOUS
<1> DEFINE S == {n \in Nat : \E g : Flattens(g, seqs, n)}
<1>1. 0 \in S
    <2> DEFINE g == [i \in 1 .. 0 |-> 0]
    <2>1. Flattens(g, seqs, 0)
        BY DEF Flattens
    <2> QED
        BY <2>1
<1>2. ASSUME NEW n \in S PROVE n + 1 \in S
    <2>1. PICK g : Flattens(g, seqs, n)
        OBVIOUS
    <2> DEFINE last == IF n = 0 THEN seqs[1] ELSE g[n] \o seqs[n + 1]
               h == [i \in 1 .. n + 1 |-> IF i = n + 1 THEN last ELSE g[i]]
    <2>2. \A i \in 1 .. n : g[i] = IF i = 1 THEN seqs[i] ELSE g[i - 1] \o seqs[i]
        BY <2>1 DEF Flattens
    <2>3. \A i \in 1 .. n + 1 : h[i] = IF i = 1 THEN seqs[i] ELSE h[i - 1] \o seqs[i]
        <3> SUFFICES ASSUME NEW i \in 1 .. n + 1
                     PROVE  h[i] = IF i = 1 THEN seqs[i] ELSE h[i - 1] \o seqs[i]
            OBVIOUS
        <3>1. CASE i = n + 1 /\ n = 0
            BY <3>1
        <3>2. CASE i = n + 1 /\ n # 0
            <4>1. n \in 1 .. n + 1 /\ n # n + 1 /\ i - 1 = n /\ i # 1
                BY <3>2
            <4> QED
                BY <3>2, <4>1
        <3>3. CASE i # n + 1
            <4>1. i \in 1 .. n /\ (i # 1 => i - 1 \in 1 .. n + 1 /\ i - 1 # n + 1)
                BY <3>3
            <4> QED
                BY <2>2, <3>3, <4>1
        <3> QED
            BY <3>1, <3>2, <3>3
    <2>4. DOMAIN h = 1 .. n + 1 /\ h = [i \in 1 .. n + 1 |-> h[i]]
        OBVIOUS
    <2> HIDE DEF h
    <2>5. Flattens(h, seqs, n + 1)
        BY <2>3, <2>4 DEF Flattens
    <2> QED
        BY <2>5
<1>3. S = Nat
    <2> HIDE DEF S
    <2>1. S \in SUBSET Nat
        BY DEF S
    <2> QED
        BY <1>1, <1>2, <2>1, Induct
<1> QED
    BY <1>3

\* Where the nth of some sequences ends when they follow each other.
Ends(at, seqs) ==
    /\ at \in [0 .. Len(seqs) -> Nat] /\ at[0] = 0
    /\ \A i \in 1 .. Len(seqs) : at[i] = at[i - 1] + Len(seqs[i])

\* The first n, laid after each other in whole, end at these places.
LaidTo(at, whole, seqs, n) ==
    \A i \in 1 .. n : /\ at[i] \in Nat /\ at[i - 1] \in Nat /\ at[i] = at[i - 1] + Len(seqs[i])
                      /\ at[i] <= Len(whole)
                      /\ \A j \in 1 .. Len(seqs[i]) : whole[at[i - 1] + j] = seqs[i][j]

LEMMA LaidOneMore ==
    ASSUME NEW S, NEW seqs \in Seq(Seq(S)), NEW whole \in Seq(S), NEW at, NEW n \in 1 .. Len(seqs),
           n + 1 \in 1 .. Len(seqs), LaidTo(at, whole, seqs, n),
           at[n] = Len(whole), at[n + 1] = Len(whole \o seqs[n + 1])
    PROVE  whole \o seqs[n + 1] \in Seq(S) /\ LaidTo(at, whole \o seqs[n + 1], seqs, n + 1)
<1> DEFINE more == whole \o seqs[n + 1]
<1>1. Len(seqs) \in Nat /\ n \in Nat /\ \A i \in 1 .. Len(seqs) : seqs[i] \in Seq(S) /\ Len(seqs[i]) \in Nat
    BY LenProperties, ElementOfSeq
<1>2. /\ more \in Seq(S) /\ Len(more) = Len(whole) + Len(seqs[n + 1])
      /\ \A k \in 1 .. Len(whole) + Len(seqs[n + 1]) :
            more[k] = IF k <= Len(whole) THEN whole[k] ELSE seqs[n + 1][k - Len(whole)]
    BY <1>1, ConcatProperties
<1>3. Len(whole) \in Nat /\ Len(seqs[n + 1]) \in Nat
    BY <1>1, LenProperties
<1>4. at[n] = Len(whole) /\ at[n + 1] = Len(more)
    OBVIOUS
<1> HIDE DEF more
<1>5. ASSUME NEW i \in 1 .. n + 1
      PROVE  /\ at[i] \in Nat /\ at[i - 1] \in Nat /\ at[i] = at[i - 1] + Len(seqs[i])
             /\ at[i] <= Len(more)
             /\ \A j \in 1 .. Len(seqs[i]) : more[at[i - 1] + j] = seqs[i][j]
    <2>1. CASE i = n + 1
        <3>1. i - 1 = n
            BY <1>1, <2>1
        <3>2. at[i] = Len(more) /\ at[i - 1] = Len(whole) /\ seqs[i] = seqs[n + 1]
            BY <1>4, <2>1, <3>1
        <3>3. \A j \in 1 .. Len(seqs[n + 1]) : more[Len(whole) + j] = seqs[n + 1][j]
            <4> SUFFICES ASSUME NEW j \in 1 .. Len(seqs[n + 1]) PROVE more[Len(whole) + j] = seqs[n + 1][j]
                OBVIOUS
            <4>1. /\ Len(whole) + j \in 1 .. Len(whole) + Len(seqs[n + 1]) /\ ~(Len(whole) + j <= Len(whole))
                  /\ (Len(whole) + j) - Len(whole) = j
                BY <1>3
            <4> QED
                BY <1>2, <4>1
        <3>4. \A j \in 1 .. Len(seqs[i]) : more[at[i - 1] + j] = seqs[i][j]
            BY <3>2, <3>3
        <3>5. Len(more) \in Nat /\ Len(more) = Len(whole) + Len(seqs[i])
            BY <1>2, <1>3, <3>2
        <3> QED
            BY <1>3, <3>2, <3>4, <3>5
    <2>2. CASE i # n + 1
        <3>1. i \in 1 .. n /\ i \in 1 .. Len(seqs)
            BY <1>1, <2>2
        <3>2. /\ at[i] \in Nat /\ at[i - 1] \in Nat /\ at[i] = at[i - 1] + Len(seqs[i])
              /\ at[i] <= Len(whole)
              /\ \A j \in 1 .. Len(seqs[i]) : whole[at[i - 1] + j] = seqs[i][j]
            BY <3>1 DEF LaidTo
        <3>3. Len(seqs[i]) \in Nat
            BY <1>1, <3>1
        <3>4. \A j \in 1 .. Len(seqs[i]) :
                 at[i - 1] + j \in 1 .. Len(whole) + Len(seqs[n + 1]) /\ at[i - 1] + j <= Len(whole)
            <4> DEFINE a == at[i - 1]
                       l == Len(seqs[i])
                       m == Len(seqs[n + 1])
                       w == Len(whole)
            <4>1. a \in Nat /\ l \in Nat /\ m \in Nat /\ w \in Nat /\ a + l <= w
                BY <1>3, <3>2, <3>3
            <4> HIDE DEF a, l, m, w
            <4>2. \A j \in 1 .. l : a + j \in 1 .. w + m /\ a + j <= w
                BY <4>1
            <4> QED
                BY <4>2 DEF a, l, m, w
        <3>5. at[i] <= Len(more)
            BY <1>2, <1>3, <3>2
        <3> QED
            BY <1>2, <3>2, <3>4, <3>5
    <2> QED
        BY <2>1, <2>2
<1>6. LaidTo(at, more, seqs, n + 1)
    BY <1>5 DEF LaidTo
<1> QED
    BY <1>2, <1>6 DEF more

LEMMA FlattenIs ==
    ASSUME NEW S, NEW seqs \in Seq(Seq(S))
    PROVE  /\ FlattenSeq(seqs) \in Seq(S)
           /\ \E at : /\ Ends(at, seqs) /\ Len(FlattenSeq(seqs)) = at[Len(seqs)]
                      /\ LaidTo(at, FlattenSeq(seqs), seqs, Len(seqs))
<1>1. Len(seqs) \in Nat /\ \A i \in 1 .. Len(seqs) : seqs[i] \in Seq(S) /\ Len(seqs[i]) \in Nat
    BY LenProperties, ElementOfSeq
<1>2. CASE Len(seqs) = 0
    <2> DEFINE at == [i \in 0 .. 0 |-> 0]
    <2>1. FlattenSeq(seqs) = seqs /\ seqs = <<>>
        BY <1>2, EmptySeq DEF FlattenSeq
    <2>2. Ends(at, seqs)
        BY <1>2 DEF Ends
    <2>3. FlattenSeq(seqs) \in Seq(S) /\ Len(FlattenSeq(seqs)) = at[Len(seqs)]
        BY <1>2, <2>1
    <2>4. LaidTo(at, FlattenSeq(seqs), seqs, Len(seqs))
        BY <1>2 DEF LaidTo
    <2> QED
        BY <2>2, <2>3, <2>4
<1>3. CASE Len(seqs) # 0
    <2> DEFINE f == CHOOSE g : Flattens(g, seqs, Len(seqs))
    <2>1. Flattens(f, seqs, Len(seqs))
        BY <1>1, FlattensExists
    <2>2. FlattenSeq(seqs) = f[Len(seqs)]
        BY <1>3 DEF FlattenSeq, Flattens
    <2> HIDE DEF f
    <2>3. \A i \in 1 .. Len(seqs) : f[i] = IF i = 1 THEN seqs[i] ELSE f[i - 1] \o seqs[i]
        BY <2>1 DEF Flattens
    <2> DEFINE at == [i \in 0 .. Len(seqs) |-> IF i = 0 THEN 0 ELSE Len(f[i])]
               T == {n \in Nat : n \in 1 .. Len(seqs) => f[n] \in Seq(S) /\ LaidTo(at, f[n], seqs, n)}
    <2>4. \A i \in 0 .. Len(seqs) : at[i] = IF i = 0 THEN 0 ELSE Len(f[i])
        OBVIOUS
    <2>5. at \in [0 .. Len(seqs) -> Nat] <=> \A i \in 0 .. Len(seqs) : at[i] \in Nat
        OBVIOUS
    <2> HIDE DEF at
    <2>6. ASSUME NEW n \in Nat, n \in T PROVE n + 1 \in T
        <3>1. CASE n + 1 \notin 1 .. Len(seqs)
            BY <3>1
        <3>2. CASE n + 1 \in 1 .. Len(seqs) /\ n = 0
            <4>1. f[1] = seqs[1] /\ 1 \in 1 .. Len(seqs) /\ seqs[1] \in Seq(S) /\ Len(seqs[1]) \in Nat
                BY <1>1, <2>3, <3>2
            <4>2. at[1] = Len(seqs[1]) /\ at[0] = 0
                BY <1>1, <2>4, <4>1
            <4>3. \A i \in 1 .. 1 : i = 1 /\ i - 1 = 0
                OBVIOUS
            <4>4. \A j \in 1 .. Len(seqs[1]) : 0 + j = j
                BY <4>1
            <4>5. LaidTo(at, f[1], seqs, 1)
                BY <4>1, <4>2, <4>3, <4>4 DEF LaidTo
            <4> QED
                BY <3>2, <4>1, <4>5
        <3>3. CASE n + 1 \in 1 .. Len(seqs) /\ n # 0
            <4>1. n \in 1 .. Len(seqs)
                BY <1>1, <3>3
            <4>2. f[n] \in Seq(S) /\ LaidTo(at, f[n], seqs, n)
                BY <2>6, <4>1
            <4>3. (n + 1) - 1 = n /\ n + 1 # 1
                BY <3>3
            <4>4. f[n + 1] = f[n] \o seqs[n + 1]
                BY <2>3, <3>3, <4>3
            <4>5. at[n] = Len(f[n]) /\ at[n + 1] = Len(f[n + 1])
                BY <1>1, <2>4, <3>3
            <4> HIDE DEF T
            <4>6. f[n + 1] \in Seq(S) /\ LaidTo(at, f[n + 1], seqs, n + 1)
                BY <3>3, <4>1, <4>2, <4>4, <4>5, LaidOneMore
            <4> QED
                BY <4>6 DEF T
        <3> QED
            BY <3>1, <3>2, <3>3
    <2>7. 0 \in T
        OBVIOUS
    <2>8. T = Nat
        <3>1. T \in SUBSET Nat
            OBVIOUS
        <3> HIDE DEF T
        <3> QED
            BY <2>6, <2>7, <3>1, Induct
    <2>9. Len(seqs) \in 1 .. Len(seqs)
        BY <1>1, <1>3
    <2>10. f[Len(seqs)] \in Seq(S) /\ LaidTo(at, f[Len(seqs)], seqs, Len(seqs))
        BY <1>1, <2>8, <2>9
    <2> HIDE DEF T
    <2>11. at[0] = 0 /\ at[Len(seqs)] = Len(f[Len(seqs)])
        BY <1>1, <1>3, <2>4
    <2>12. \A i \in 0 .. Len(seqs) : i = 0 \/ i \in 1 .. Len(seqs)
        OBVIOUS
    <2>13. \A i \in 0 .. Len(seqs) : at[i] \in Nat
        BY <2>10, <2>11, <2>12 DEF LaidTo
    <2>14. Ends(at, seqs)
        BY <2>5, <2>10, <2>11, <2>13 DEF Ends, LaidTo
    <2> QED
        BY <2>2, <2>10, <2>11, <2>14
<1> QED
    BY <1>1, <1>2, <1>3

-----------------------------------------------------------------------------
(* What records say together.                                              *)

FeaturesOf(id) == {f \in DOMAIN Feature : Feature[f][1] = id}
Brings(r) == {f \in FeaturesOf(r[1]) : Len(r[2]) > 0 /\ r[2][1] \in Feature[f][2]}
Limiting(r) == FeaturesOf(r[1]) = {} /\ r[1] = TEMPERATURES /\ Len(r[2]) >= 6
WithDecimals(r) == Limiting(r) /\ (Len(r[2]) > 6 => r[2][7] # 0)
NotKnown(r) == FeaturesOf(r[1]) = {} /\ r[1] \notin {TEMPERATURES, UNKNOWN_0040} /\ Len(r[2]) > 0

FeaturesFrom(R) ==
    (UNION {Brings(r) : r \in R}) \cup {d \in {"decimals"} : \E r \in R : WithDecimals(r)}
LimitsFrom(R) == [i \in 1 .. 6 |-> {r[2][i] : r \in {q \in R : Limiting(q)}}]
LimitsOf(r) == [i \in 1 .. 6 |-> {r[2][i]}]
UnknownFrom(R) == {r[1] : r \in {q \in R : NotKnown(q)}}
Says(R, more) == [has |-> FeaturesFrom(R), limits |-> LimitsFrom(R), additional |-> more,
                  unknown_ids |-> UnknownFrom(R)]

LEMMA DecimalsApart == "decimals" \notin DOMAIN Feature
BY DEF Feature

LEMMA SayingNothing == Says({}, FALSE) = NoCapabilities
<1>1. FeaturesFrom({}) = {}
    BY DEF FeaturesFrom
<1>2. LimitsFrom({}) = [i \in 1 .. 6 |-> None]
    BY DEF LimitsFrom, None
<1>3. UnknownFrom({}) = {}
    BY DEF UnknownFrom
<1> QED
    BY <1>1, <1>2, <1>3 DEF Says, NoCapabilities

LEMMA FeaturesAre ==
    ASSUME NEW R, NEW x
    PROVE  x \in FeaturesFrom(R) <=> \/ \E r \in R : x \in Brings(r)
                                     \/ x = "decimals" /\ \E r \in R : WithDecimals(r)
<1> DEFINE A == UNION {Brings(r) : r \in R}
           B == {d \in {"decimals"} : \E r \in R : WithDecimals(r)}
<1>1. x \in A <=> \E r \in R : x \in Brings(r)
    OBVIOUS
<1>2. x \in B <=> x = "decimals" /\ \E r \in R : WithDecimals(r)
    OBVIOUS
<1>3. FeaturesFrom(R) = A \cup B
    BY DEF FeaturesFrom
<1> HIDE DEF A, B
<1> QED
    BY <1>1, <1>2, <1>3

LEMMA Together ==
    ASSUME NEW R, NEW Q
    PROVE  /\ FeaturesFrom(R \cup Q) = FeaturesFrom(R) \cup FeaturesFrom(Q)
           /\ UnknownFrom(R \cup Q) = UnknownFrom(R) \cup UnknownFrom(Q)
<1>1. FeaturesFrom(R \cup Q) = FeaturesFrom(R) \cup FeaturesFrom(Q)
    <2>1. ASSUME NEW x
          PROVE  x \in FeaturesFrom(R \cup Q) <=> x \in FeaturesFrom(R) \cup FeaturesFrom(Q)
        BY FeaturesAre
    <2> QED
        BY <2>1
<1>2. UnknownFrom(R \cup Q) = UnknownFrom(R) \cup UnknownFrom(Q)
    BY DEF UnknownFrom
<1> QED
    BY <1>1, <1>2

LEMMA LimitsTogether ==
    ASSUME NEW R, NEW Q
    PROVE  LimitsFrom(R \cup Q) = [i \in 1 .. 6 |-> LimitsFrom(R)[i] \cup LimitsFrom(Q)[i]]
<1>1. ASSUME NEW i \in 1 .. 6
      PROVE  {r[2][i] : r \in {q \in R \cup Q : Limiting(q)}}
                = LimitsFrom(R)[i] \cup LimitsFrom(Q)[i]
    BY DEF LimitsFrom
<1> QED
    BY <1>1 DEF LimitsFrom

LEMMA NoMoreLimits ==
    ASSUME NEW R, NEW Q, \A q \in Q : ~Limiting(q)
    PROVE  LimitsFrom(R \cup Q) = LimitsFrom(R) /\ LimitsFrom(Q \cup R) = LimitsFrom(R)
<1>1. {q \in R \cup Q : Limiting(q)} = {q \in R : Limiting(q)} /\ Q \cup R = R \cup Q
    OBVIOUS
<1> QED
    BY <1>1 DEF LimitsFrom

LEMMA OnlyTheseLimits ==
    ASSUME NEW R, NEW r, \A q \in R : ~Limiting(q), Limiting(r)
    PROVE  LimitsFrom(R \cup {r}) = LimitsOf(r)
<1>1. {q \in R \cup {r} : Limiting(q)} = {r}
    OBVIOUS
<1>2. \A i \in 1 .. 6 : {q[2][i] : q \in {r}} = {r[2][i]}
    OBVIOUS
<1> QED
    BY <1>1, <1>2 DEF LimitsFrom, LimitsOf

LEMMA Alone ==
    ASSUME NEW r
    PROVE  /\ \A x : x \in FeaturesFrom({r}) <=> x \in Brings(r) \/ (x = "decimals" /\ WithDecimals(r))
           /\ UnknownFrom({r}) = IF NotKnown(r) THEN {r[1]} ELSE {}
<1>1. ASSUME NEW x
      PROVE  x \in FeaturesFrom({r}) <=> x \in Brings(r) \/ (x = "decimals" /\ WithDecimals(r))
    BY FeaturesAre
<1>2. UnknownFrom({r}) = IF NotKnown(r) THEN {r[1]} ELSE {}
    BY DEF UnknownFrom
<1> QED
    BY <1>1, <1>2

LEMMA ExceptHas ==
    ASSUME NEW H, NEW L, NEW A, NEW U, NEW h,
           NEW caps, caps = [has |-> H, limits |-> L, additional |-> A, unknown_ids |-> U]
    PROVE  [caps EXCEPT !.has = h] = [has |-> h, limits |-> L, additional |-> A, unknown_ids |-> U]
OBVIOUS

LEMMA ExceptUnknown ==
    ASSUME NEW H, NEW L, NEW A, NEW U, NEW u,
           NEW caps, caps = [has |-> H, limits |-> L, additional |-> A, unknown_ids |-> U]
    PROVE  [caps EXCEPT !.unknown_ids = u]
              = [has |-> H, limits |-> L, additional |-> A, unknown_ids |-> u]
OBVIOUS

LEMMA SaysExcept ==
    ASSUME NEW R, NEW more, NEW h, NEW l
    PROVE  /\ [Says(R, more) EXCEPT !.has = h] =
                 [has |-> h, limits |-> LimitsFrom(R), additional |-> more, unknown_ids |-> UnknownFrom(R)]
           /\ [Says(R, more) EXCEPT !.limits = l, !.has = h] =
                 [has |-> h, limits |-> l, additional |-> more, unknown_ids |-> UnknownFrom(R)]
           /\ [Says(R, more) EXCEPT !.unknown_ids = h] =
                 [has |-> FeaturesFrom(R), limits |-> LimitsFrom(R), additional |-> more, unknown_ids |-> h]
<1>1. [Says(R, more) EXCEPT !.has = h] =
         [has |-> h, limits |-> LimitsFrom(R), additional |-> more, unknown_ids |-> UnknownFrom(R)]
    BY ExceptHas DEF Says
<1>2. [Says(R, more) EXCEPT !.limits = l, !.has = h] =
         [has |-> h, limits |-> l, additional |-> more, unknown_ids |-> UnknownFrom(R)]
    <2>1. PICK c : c = Says(R, more)
        OBVIOUS
    <2>2. PICK L, U, H : L = LimitsFrom(R) /\ U = UnknownFrom(R) /\ H = FeaturesFrom(R)
        OBVIOUS
    <2>3. c = [has |-> H, limits |-> L, additional |-> more, unknown_ids |-> U]
        BY <2>1, <2>2 DEF Says
    <2> DEFINE e == [c EXCEPT !.limits = l, !.has = h]
    <2>4. e = [f \in {"has", "limits", "additional", "unknown_ids"} |-> e[f]]
        BY <2>3
    <2>5. e.has = h /\ e.limits = l /\ e.additional = more /\ e.unknown_ids = U
        BY <2>3
    <2>6. e = [Says(R, more) EXCEPT !.limits = l, !.has = h]
        BY <2>1
    <2> HIDE DEF e
    <2>7. e = [has |-> h, limits |-> l, additional |-> more, unknown_ids |-> U]
        BY <2>4, <2>5
    <2> QED
        BY <2>2, <2>6, <2>7
<1>3. [Says(R, more) EXCEPT !.unknown_ids = h] =
         [has |-> FeaturesFrom(R), limits |-> LimitsFrom(R), additional |-> more, unknown_ids |-> h]
    BY ExceptUnknown DEF Says
<1> QED
    BY <1>1, <1>2, <1>3

\* apply, of a record whose id is new, adds what the record says.
LEMMA ApplySays ==
    ASSUME NEW R, NEW more, NEW r, r[1] \in Nat, r[2] \in Seq(Nat), Len(r[2]) > 0, \A q \in R : q[1] # r[1],
           NEW rest \in Seq(Nat), Len(rest) >= 3 + Len(r[2]), rest[3] = Len(r[2]),
           \A j \in 1 .. Len(r[2]) : rest[3 + j] = r[2][j]
    PROVE  Apply(Says(R, more), r[1], r[2], rest) = Says(R \cup {r}, more)
<1> DEFINE caps == Says(R, more)
           all == Says(R \cup {r}, more)
           told == FeaturesOf(r[1])
<1>1. r[1] \in Nat /\ r[2] \in Seq(Nat) /\ Len(r[2]) \in Nat /\ Len(rest) \in Nat
    BY LenProperties
<1>2. /\ caps = [has |-> FeaturesFrom(R), limits |-> LimitsFrom(R), additional |-> more,
                 unknown_ids |-> UnknownFrom(R)]
      /\ all = [has |-> FeaturesFrom(R) \cup FeaturesFrom({r}), limits |-> LimitsFrom(R \cup {r}),
                additional |-> more, unknown_ids |-> UnknownFrom(R) \cup UnknownFrom({r})]
    BY Together DEF Says
<1>3. \A h, l :
         /\ [caps EXCEPT !.has = h] =
               [has |-> h, limits |-> LimitsFrom(R), additional |-> more, unknown_ids |-> UnknownFrom(R)]
         /\ [caps EXCEPT !.limits = l, !.has = h] =
               [has |-> h, limits |-> l, additional |-> more, unknown_ids |-> UnknownFrom(R)]
         /\ [caps EXCEPT !.unknown_ids = h] =
               [has |-> FeaturesFrom(R), limits |-> LimitsFrom(R), additional |-> more, unknown_ids |-> h]
    BY SaysExcept
<1>8. /\ Len(r[2]) > 6 => 7 \in 1 .. Len(r[2]) /\ Len(rest) > 9
      /\ ~(Len(r[2]) < 6) => Len(rest) >= 9 /\ \A i \in 1 .. 6 : i \in 1 .. Len(r[2]) /\ i + 3 = 3 + i
    <2> DEFINE n == Len(r[2])
               m == Len(rest)
    <2>1. n \in Nat /\ m \in Nat /\ m >= 3 + n
        BY <1>1
    <2> HIDE DEF n, m
    <2>2. /\ n > 6 => 7 \in 1 .. n /\ m > 9
          /\ ~(n < 6) => m >= 9 /\ \A i \in 1 .. 6 : i \in 1 .. n /\ i + 3 = 3 + i
        BY <2>1
    <2> QED
        BY <2>2 DEF n, m
<1> HIDE DEF caps
<1>4. \A f \in told : f \notin FeaturesFrom(R)
    <2> SUFFICES ASSUME NEW f \in told, f \in FeaturesFrom(R) PROVE FALSE
        OBVIOUS
    <2>1. f # "decimals" /\ Feature[f][1] = r[1]
        BY DecimalsApart DEF FeaturesOf
    <2>2. PICK q \in R : f \in Brings(q)
        BY <2>1, FeaturesAre
    <2>3. Feature[f][1] = q[1]
        BY <2>2 DEF Brings, FeaturesOf
    <2> QED
        BY <2>1, <2>3
<1>5. CASE told # {}
    <2>1. Apply(caps, r[1], r[2], rest) =
             [caps EXCEPT !.has = (caps.has \ told) \cup {f \in told : r[2][1] \in Feature[f][2]}]
        BY <1>5 DEF Apply, FeaturesOf
    <2>2. ~Limiting(r) /\ ~WithDecimals(r) /\ ~NotKnown(r)
        BY <1>5 DEF Limiting, WithDecimals, NotKnown
    <2>3. Brings(r) = {f \in told : r[2][1] \in Feature[f][2]}
        BY DEF Brings
    <2>4. FeaturesFrom({r}) = {f \in told : r[2][1] \in Feature[f][2]}
        <3>1. \A x : x \in FeaturesFrom({r}) <=> x \in Brings(r)
            BY <2>2, Alone
        <3> QED
            BY <2>3, <3>1
    <2>5. FeaturesFrom(R) \ told = FeaturesFrom(R)
        BY <1>4
    <2>6. UnknownFrom({r}) = {}
        BY <2>2, Alone
    <2>7. LimitsFrom(R \cup {r}) = LimitsFrom(R)
        BY <2>2, NoMoreLimits
    <2> HIDE DEF told
    <2>8. Apply(caps, r[1], r[2], rest) =
             [has |-> FeaturesFrom(R) \cup FeaturesFrom({r}), limits |-> LimitsFrom(R),
              additional |-> more, unknown_ids |-> UnknownFrom(R)]
        <3>1. caps.has = FeaturesFrom(R)
            BY <1>2
        <3>2. (caps.has \ told) \cup {f \in told : r[2][1] \in Feature[f][2]}
                 = FeaturesFrom(R) \cup FeaturesFrom({r})
            BY <2>4, <2>5, <3>1
        <3> QED
            BY <1>3, <2>1, <3>2
    <2> QED
        <3>1. UnknownFrom(R) \cup UnknownFrom({r}) = UnknownFrom(R)
            BY <2>6
        <3> QED
            BY <1>2, <2>7, <2>8, <3>1 DEF caps
<1>6. CASE told = {} /\ r[1] = TEMPERATURES
    <2>1. Apply(caps, r[1], r[2], rest) =
             IF Len(rest) < 9 \/ Len(r[2]) < 6 THEN caps ELSE
             [caps EXCEPT !.limits = [i \in 1 .. 6 |-> {rest[i + 3]}],
                          !.has = Put(caps.has, "decimals",
                                      IF Len(r[2]) > 6 /\ Len(rest) > 9 THEN rest[10] # 0
                                                                        ELSE rest[3] # 0)]
        BY <1>6 DEF Apply, FeaturesOf
    <2>2. ~NotKnown(r) /\ Brings(r) = {}
        BY <1>6 DEF NotKnown, Brings
    <2>3. CASE Len(r[2]) < 6
        <3>1. ~Limiting(r) /\ ~WithDecimals(r)
            BY <1>1, <2>3 DEF Limiting, WithDecimals
        <3>2. FeaturesFrom({r}) = {} /\ UnknownFrom({r}) = {}
            BY <2>2, <3>1, Alone
        <3>3. LimitsFrom(R \cup {r}) = LimitsFrom(R)
            BY <3>1, NoMoreLimits
        <3>4. caps = all
            <4>1. /\ FeaturesFrom(R) \cup FeaturesFrom({r}) = FeaturesFrom(R)
                  /\ UnknownFrom(R) \cup UnknownFrom({r}) = UnknownFrom(R)
                BY <3>2
            <4> QED
                BY <1>2, <3>3, <4>1
        <3> QED
            BY <2>1, <2>3, <3>4 DEF caps
    <2>4. CASE ~(Len(r[2]) < 6)
        <3> DEFINE on == IF Len(r[2]) > 6 /\ Len(rest) > 9 THEN rest[10] # 0 ELSE rest[3] # 0
        <3>1. Limiting(r)
            BY <1>1, <1>6, <2>4 DEF Limiting
        <3>2. Len(rest) >= 9
            BY <1>8, <2>4
        <3>3. on <=> WithDecimals(r)
            <4>1. CASE Len(r[2]) > 6
                <5>1. 7 \in 1 .. Len(r[2]) /\ 3 + 7 = 10 /\ Len(rest) > 9
                    BY <1>8, <4>1
                <5>2. rest[3 + 7] = r[2][7]
                    BY <5>1
                <5>3. rest[10] = r[2][7]
                    BY <5>2
                <5> QED
                    BY <3>1, <4>1, <5>1, <5>3 DEF WithDecimals
            <4>2. CASE ~(Len(r[2]) > 6)
                BY <1>1, <3>1, <4>2 DEF WithDecimals
            <4> QED
                BY <4>1, <4>2
        <3>4. \A i \in 1 .. 6 : rest[i + 3] = r[2][i]
            <4> SUFFICES ASSUME NEW i \in 1 .. 6 PROVE rest[i + 3] = r[2][i]
                OBVIOUS
            <4>1. i \in 1 .. Len(r[2]) /\ i + 3 = 3 + i
                BY <1>8, <2>4
            <4>2. rest[3 + i] = r[2][i]
                BY <4>1
            <4> QED
                BY <4>1, <4>2
        <3>5. \A q \in R : ~Limiting(q)
            BY <1>6 DEF Limiting
        <3>7. \A q \in R : ~WithDecimals(q)
            BY <3>5 DEF WithDecimals
        <3>6. LimitsFrom(R \cup {r}) = LimitsOf(r)
            BY <3>1, <3>5, OnlyTheseLimits
        <3>8. LimitsFrom(R \cup {r}) = [i \in 1 .. 6 |-> {rest[i + 3]}]
            BY <3>4, <3>6 DEF LimitsOf
        <3>9. "decimals" \notin FeaturesFrom(R)
            <4>1. \A q \in R : "decimals" \notin Brings(q)
                BY DecimalsApart DEF Brings, FeaturesOf
            <4> QED
                BY <3>7, <4>1, FeaturesAre
        <3>10. Put(FeaturesFrom(R), "decimals", on) = FeaturesFrom(R) \cup FeaturesFrom({r})
            <4> HIDE DEF on
            <4>1. ASSUME NEW x PROVE x \in FeaturesFrom({r}) <=> x = "decimals" /\ on
                <5>1. x \in FeaturesFrom({r}) <=> x \in Brings(r) \/ (x = "decimals" /\ WithDecimals(r))
                    BY Alone
                <5>2. x \notin Brings(r)
                    BY <2>2
                <5> QED
                    BY <3>3, <5>1, <5>2
            <4> QED
                BY <3>9, <4>1 DEF Put
        <3>11. UnknownFrom({r}) = {}
            BY <2>2, Alone
        <3>12. Apply(caps, r[1], r[2], rest) =
                  [caps EXCEPT !.limits = [i \in 1 .. 6 |-> {rest[i + 3]}],
                               !.has = Put(caps.has, "decimals", on)]
            BY <1>1, <2>1, <2>4, <3>2
        <3> HIDE DEF on
        <3>13. Apply(caps, r[1], r[2], rest) =
                  [has |-> Put(FeaturesFrom(R), "decimals", on), limits |-> [i \in 1 .. 6 |-> {rest[i + 3]}],
                   additional |-> more, unknown_ids |-> UnknownFrom(R)]
            <4>1. caps.has = FeaturesFrom(R)
                BY <1>2
            <4>2. Apply(caps, r[1], r[2], rest) =
                     [caps EXCEPT !.limits = [i \in 1 .. 6 |-> {rest[i + 3]}],
                                  !.has = Put(FeaturesFrom(R), "decimals", on)]
                BY <3>12, <4>1
            <4> DEFINE l == [i \in 1 .. 6 |-> {rest[i + 3]}]
                       h == Put(FeaturesFrom(R), "decimals", on)
            <4>3. Apply(caps, r[1], r[2], rest) = [caps EXCEPT !.limits = l, !.has = h]
                BY <4>2
            <4> HIDE DEF l, h
            <4>4. Apply(caps, r[1], r[2], rest) = [has |-> h, limits |-> l, additional |-> more,
                                                   unknown_ids |-> UnknownFrom(R)]
                BY <1>3, <4>3
            <4> QED
                BY <4>4 DEF l, h
        <3> QED
            BY <1>2, <3>8, <3>10, <3>11, <3>13 DEF caps
    <2> QED
        BY <2>3, <2>4
<1>7. CASE told = {} /\ r[1] # TEMPERATURES
    <2>1. Apply(caps, r[1], r[2], rest) =
             IF r[1] = UNKNOWN_0040 THEN caps ELSE [caps EXCEPT !.unknown_ids = caps.unknown_ids \cup {r[1]}]
        BY <1>7 DEF Apply, FeaturesOf
    <2>2. Brings(r) = {} /\ ~Limiting(r) /\ ~WithDecimals(r)
        BY <1>7 DEF Limiting, Brings, WithDecimals
    <2>3. NotKnown(r) <=> r[1] # UNKNOWN_0040
        BY <1>7 DEF NotKnown
    <2>4. FeaturesFrom({r}) = {}
        BY <2>2, Alone
    <2>5. LimitsFrom(R \cup {r}) = LimitsFrom(R)
        BY <2>2, NoMoreLimits
    <2>6. UnknownFrom({r}) = IF r[1] # UNKNOWN_0040 THEN {r[1]} ELSE {}
        BY <2>3, Alone
    <2>9. caps.unknown_ids = UnknownFrom(R) /\ FeaturesFrom(R) \cup FeaturesFrom({r}) = FeaturesFrom(R)
        BY <1>2, <2>4
    <2>7. CASE r[1] = UNKNOWN_0040
        <3>1. UnknownFrom(R) \cup UnknownFrom({r}) = UnknownFrom(R)
            BY <2>6, <2>7
        <3> QED
            BY <1>2, <2>1, <2>5, <2>7, <2>9, <3>1 DEF caps
    <2>8. CASE r[1] # UNKNOWN_0040
        <3>1. Apply(caps, r[1], r[2], rest) =
                 [has |-> FeaturesFrom(R), limits |-> LimitsFrom(R), additional |-> more,
                  unknown_ids |-> UnknownFrom(R) \cup {r[1]}]
            BY <1>3, <2>1, <2>8, <2>9
        <3> QED
            BY <1>2, <2>5, <2>6, <2>8, <2>9, <3>1 DEF caps
    <2> QED
        BY <2>7, <2>8
<1> QED
    BY <1>5, <1>6, <1>7 DEF caps

\* The payload goes on with r, which has an id of its own and is not empty.
GoesOn(R, r, rest) ==
    /\ r[1] \in Nat /\ r[2] \in Seq(Nat) /\ Len(r[2]) > 0
    /\ \A q \in R : q[1] # r[1]
    /\ rest \in Seq(Nat) /\ Len(rest) >= 3 + Len(r[2]) /\ rest[3] = Len(r[2])
    /\ \A j \in 1 .. Len(r[2]) : rest[3 + j] = r[2][j]

LEMMA ApplyNext ==
    ASSUME NEW R, NEW more, NEW r, NEW rest, GoesOn(R, r, rest)
    PROVE  Apply(Says(R, more), r[1], r[2], rest) = Says(R \cup {r}, more)
<1>1. r[1] \in Nat /\ r[2] \in Seq(Nat) /\ Len(r[2]) > 0 /\ rest \in Seq(Nat)
    BY DEF GoesOn
<1>2. \A q \in R : q[1] # r[1]
    BY DEF GoesOn
<1>3. /\ Len(rest) >= 3 + Len(r[2]) /\ rest[3] = Len(r[2])
      /\ \A j \in 1 .. Len(r[2]) : rest[3 + j] = r[2][j]
    BY DEF GoesOn
<1> QED
    BY <1>1, <1>2, <1>3, ApplySays

\* An empty record says nothing.
LEMMA EmptySays ==
    ASSUME NEW R, NEW more, NEW r, Len(r[2]) = 0
    PROVE  Says(R \cup {r}, more) = Says(R, more)
<1>1. Brings(r) = {} /\ ~Limiting(r) /\ ~WithDecimals(r) /\ ~NotKnown(r)
    BY DEF Brings, Limiting, WithDecimals, NotKnown
<1>2. FeaturesFrom({r}) = {} /\ UnknownFrom({r}) = {}
    BY <1>1, Alone
<1>3. LimitsFrom(R \cup {r}) = LimitsFrom(R)
    BY <1>1, NoMoreLimits
<1>3a. /\ FeaturesFrom(R \cup {r}) = FeaturesFrom(R) \cup FeaturesFrom({r})
       /\ UnknownFrom(R \cup {r}) = UnknownFrom(R) \cup UnknownFrom({r})
    BY Together
<1>4. /\ FeaturesFrom(R \cup {r}) = FeaturesFrom(R) \cup {}
      /\ UnknownFrom(R \cup {r}) = UnknownFrom(R) \cup {}
    BY <1>2, <1>3a
<1>5. \A S : S \cup {} = S
    OBVIOUS
<1> QED
    BY <1>3, <1>4, <1>5 DEF Says

\* merge, of answers with no id in common.
LEMMA MergeSays ==
    ASSUME NEW R, NEW Q, \A r \in R, q \in Q : r[1] # q[1]
    PROVE  Merge(Says(R, TRUE), Says(Q, FALSE)) = Says(R \cup Q, FALSE)
<1>1. /\ Says(R, TRUE).has = FeaturesFrom(R) /\ Says(R, TRUE).limits = LimitsFrom(R)
      /\ Says(R, TRUE).unknown_ids = UnknownFrom(R)
      /\ Says(Q, FALSE).has = FeaturesFrom(Q) /\ Says(Q, FALSE).limits = LimitsFrom(Q)
      /\ Says(Q, FALSE).unknown_ids = UnknownFrom(Q) /\ Says(Q, FALSE).additional = FALSE
    BY DEF Says
<1>2. ASSUME NEW i \in 1 .. 6
      PROVE  (IF LimitsFrom(R)[i] = None THEN LimitsFrom(Q)[i] ELSE LimitsFrom(R)[i])
                = LimitsFrom(R)[i] \cup LimitsFrom(Q)[i]
    <2>1. CASE LimitsFrom(R)[i] = {}
        BY <2>1 DEF None
    <2>2. CASE LimitsFrom(R)[i] # {}
        <3>1. \E r \in R : Limiting(r)
            BY <2>2 DEF LimitsFrom
        <3>2. \A q \in Q : ~Limiting(q)
            BY <3>1 DEF Limiting
        <3>3. LimitsFrom(Q)[i] = {}
            BY <3>2 DEF LimitsFrom
        <3> QED
            BY <2>2, <3>3 DEF None
    <2> QED
        BY <2>1, <2>2
<1>3. LimitsFrom(R \cup Q)
         = [i \in 1 .. 6 |-> IF LimitsFrom(R)[i] = None THEN LimitsFrom(Q)[i] ELSE LimitsFrom(R)[i]]
    BY <1>2, LimitsTogether
<1>4. Says(R \cup Q, FALSE) = [has |-> FeaturesFrom(R) \cup FeaturesFrom(Q), limits |-> LimitsFrom(R \cup Q),
                               additional |-> FALSE, unknown_ids |-> UnknownFrom(R) \cup UnknownFrom(Q)]
    BY Together DEF Says
<1> QED
    BY <1>1, <1>3, <1>4 DEF Merge

-----------------------------------------------------------------------------
(* What parse makes of a payload that holds such records.                  *)

RecordIds == 0 .. 65535
RecordValues == {v \in Seq(0 .. 255) : Len(v) <= 255}
Reportable == RecordIds \X RecordValues
Distinct(records) == \A i, j \in 1 .. Len(records) : i # j => records[i][1] # records[j][1]
ReportableLists == {records \in Seq(Reportable) : Len(records) <= 255 /\ Distinct(records)}

LEMMA PairIs ==
    ASSUME NEW A, NEW B, NEW r \in A \X B
    PROVE  r = <<r[1], r[2]>> /\ r[1] \in A /\ r[2] \in B
OBVIOUS

LEMMA ListIs ==
    ASSUME NEW records \in Seq(Reportable)
    PROVE  /\ Len(records) \in Nat /\ DOMAIN records = 1 .. Len(records)
           /\ \A i \in 1 .. Len(records) :
                 /\ records[i] = <<records[i][1], records[i][2]>>
                 /\ records[i][1] \in Nat /\ records[i][2] \in Seq(Nat)
                 /\ Len(records[i][2]) \in Nat
<1>1. Len(records) \in Nat /\ DOMAIN records = 1 .. Len(records)
    BY LenProperties
<1>2. ASSUME NEW i \in 1 .. Len(records)
      PROVE  /\ records[i] = <<records[i][1], records[i][2]>>
             /\ records[i][1] \in Nat /\ records[i][2] \in Seq(Nat)
             /\ Len(records[i][2]) \in Nat
    <2>1. records[i] \in Reportable
        BY ElementOfSeq
    <2>2. /\ records[i] = <<records[i][1], records[i][2]>>
          /\ records[i][1] \in RecordIds /\ records[i][2] \in RecordValues
        BY <2>1, PairIs DEF Reportable
    <2>3. RecordIds \subseteq Nat /\ 0 .. 255 \subseteq Nat
        BY DEF RecordIds
    <2>5. records[i][2] \in Seq(0 .. 255)
        BY <2>2 DEF RecordValues
    <2>6. records[i][2] \in Seq(Nat)
        BY <2>3, <2>5, SeqMonotonic
    <2>7. Len(records[i][2]) \in Nat
        BY <2>6, LenProperties
    <2>8. records[i][1] \in Nat
        BY <2>2, <2>3
    <2> QED
        BY <2>2, <2>6, <2>7, <2>8
<1> QED
    BY <1>1, <1>2

\* Where each record ends in the payload, and what it is there.
Layout(at, records) ==
    /\ at \in [0 .. Len(records) -> Nat] /\ at[0] = 2
    /\ \A i \in 1 .. Len(records) : at[i] = at[i - 1] + 3 + Len(records[i][2])
HoldsRecord(p, a, r) ==
    /\ a + 3 + Len(r[2]) <= Len(p)
    /\ p[a + 1] + 256 * p[a + 2] = r[1] /\ p[a + 3] = Len(r[2])
    /\ \A j \in 1 .. Len(r[2]) : p[a + 3 + j] = r[2][j]
HoldsRecords(p, at, records) == \A i \in 1 .. Len(records) : HoldsRecord(p, at[i - 1], records[i])

FirstOf(records, n) == {records[i] : i \in 1 .. n}

\* rest is what is left of p after its first a.
Leaves(p, a, rest) ==
    rest \in Seq(Nat) /\ Len(rest) = Len(p) - a /\ \A k \in 1 .. Len(p) - a : rest[k] = p[a + k]

LEMMA RestIs ==
    ASSUME NEW p \in Seq(Nat), NEW a \in Nat, a <= Len(p)
    PROVE  Leaves(p, a, SubSeq(p, a + 1, Len(p)))
<1>1. Len(p) \in Nat /\ \A i \in 1 .. Len(p) : p[i] \in Nat
    BY LenProperties, ElementOfSeq
<1>2. a + 1 \in Int /\ Len(p) \in Int /\ \A i \in a + 1 .. Len(p) : p[i] \in Nat
    BY <1>1
<1>3. /\ SubSeq(p, a + 1, Len(p)) \in Seq(Nat)
      /\ Len(SubSeq(p, a + 1, Len(p))) = IF a + 1 <= Len(p) THEN Len(p) - (a + 1) + 1 ELSE 0
      /\ \A i \in 1 .. Len(p) - (a + 1) + 1 : SubSeq(p, a + 1, Len(p))[i] = p[(a + 1) + i - 1]
    BY <1>2, SubSeqProperties
<1>4. /\ (IF a + 1 <= Len(p) THEN Len(p) - (a + 1) + 1 ELSE 0) = Len(p) - a
      /\ Len(p) - (a + 1) + 1 = Len(p) - a
      /\ \A i \in 1 .. Len(p) - a : (a + 1) + i - 1 = a + i
    BY <1>1
<1> DEFINE rest == SubSeq(p, a + 1, Len(p))
<1> HIDE DEF rest
<1>5. rest \in Seq(Nat) /\ Len(rest) = Len(p) - a
    BY <1>3, <1>4 DEF rest
<1>6. ASSUME NEW k \in 1 .. Len(p) - a PROVE rest[k] = p[a + k]
    <2>1. k \in 1 .. Len(p) - (a + 1) + 1 /\ (a + 1) + k - 1 = a + k
        BY <1>4
    <2>2. rest[k] = p[(a + 1) + k - 1]
        BY <1>3, <2>1 DEF rest
    <2> QED
        BY <2>1, <2>2
<1>7. Leaves(p, a, rest)
    BY <1>5, <1>6 DEF Leaves
<1> QED
    BY <1>7 DEF rest

LEMMA RestOfRest ==
    ASSUME NEW p \in Seq(Nat), NEW a \in Nat, NEW m \in Nat, a + m <= Len(p)
    PROVE  LET rest == SubSeq(p, a + 1, Len(p)) IN
           SubSeq(rest, m + 1, Len(rest)) = SubSeq(p, (a + m) + 1, Len(p))
<1> DEFINE rest == SubSeq(p, a + 1, Len(p))
           left1 == SubSeq(rest, m + 1, Len(rest))
           left2 == SubSeq(p, (a + m) + 1, Len(p))
<1>1. Len(p) \in Nat /\ a <= Len(p) /\ a + m \in Nat
    BY LenProperties
<1>2. Leaves(p, a, rest)
    BY <1>1, RestIs
<1>3. Leaves(p, a + m, left2)
    BY <1>1, RestIs
<1> HIDE DEF rest, left2
<1>4. rest \in Seq(Nat) /\ m <= Len(rest)
    BY <1>1, <1>2 DEF Leaves
<1>5. Leaves(rest, m, left1)
    BY <1>4, RestIs
<1> HIDE DEF left1
<1>6. Len(left1) = Len(left2)
    BY <1>1, <1>2, <1>3, <1>5 DEF Leaves
<1>7. ASSUME NEW k \in 1 .. Len(left1) PROVE left1[k] = left2[k]
    <2>1. /\ k \in 1 .. Len(rest) - m /\ m + k \in 1 .. Len(p) - a /\ k \in 1 .. Len(p) - (a + m)
          /\ a + (m + k) = (a + m) + k
        BY <1>1, <1>2, <1>3, <1>5 DEF Leaves
    <2>2. left1[k] = rest[m + k] /\ rest[m + k] = p[a + (m + k)] /\ left2[k] = p[(a + m) + k]
        BY <1>2, <1>3, <1>5, <2>1 DEF Leaves
    <2> QED
        BY <2>1, <2>2
<1>8. left1 = left2
    BY <1>3, <1>5, <1>6, <1>7, SeqEqual DEF Leaves
<1> QED
    BY <1>8 DEF left1, left2, rest

LEMMA ValueIs ==
    ASSUME NEW rest \in Seq(Nat), NEW v \in Seq(Nat), NEW m \in Nat, m = Len(v), Len(rest) >= 3 + m,
           \A j \in 1 .. m : rest[3 + j] = v[j]
    PROVE  SubSeq(rest, 4, 3 + m) = v
<1> DEFINE value == SubSeq(rest, 4, 3 + m)
<1>1. Len(rest) \in Nat /\ \A i \in 1 .. Len(rest) : rest[i] \in Nat
    BY LenProperties, ElementOfSeq
<1>2. 4 \in Int /\ 3 + m \in Int /\ \A i \in 4 .. 3 + m : rest[i] \in Nat
    BY <1>1
<1>3. /\ value \in Seq(Nat) /\ Len(value) = IF 4 <= 3 + m THEN (3 + m) - 4 + 1 ELSE 0
      /\ \A i \in 1 .. (3 + m) - 4 + 1 : value[i] = rest[4 + i - 1]
    BY <1>2, SubSeqProperties
<1> HIDE DEF value
<1>4. Len(value) = m /\ \A i \in 1 .. m : i \in 1 .. (3 + m) - 4 + 1 /\ 4 + i - 1 = 3 + i
    BY <1>3
<1>5. \A i \in 1 .. m : value[i] = v[i]
    <2> SUFFICES ASSUME NEW i \in 1 .. m PROVE value[i] = v[i]
        OBVIOUS
    <2>1. value[i] = rest[4 + i - 1]
        BY <1>3, <1>4
    <2>2. value[i] = rest[3 + i]
        BY <1>4, <2>1
    <2> QED
        BY <2>2
<1>6. value = v
    BY <1>3, <1>4, <1>5, SeqEqual
<1> QED
    BY <1>6 DEF value

\* The walk after n records.
After(p, at, records, n) ==
    [rest |-> SubSeq(p, at[n] + 1, Len(p)), caps |-> Says(FirstOf(records, n), FALSE), whole |-> TRUE]

LEMMA OneRecord ==
    ASSUME NEW records \in ReportableLists, NEW p \in Seq(Nat), NEW at, Layout(at, records),
           HoldsRecords(p, at, records), NEW n \in Nat, n < Len(records)
    PROVE  ParseRecord(After(p, at, records, n)) = After(p, at, records, n + 1)
<1> DEFINE r == records[n + 1]
           m == Len(r[2])
           a == at[n]
           rest == SubSeq(p, a + 1, Len(p))
           value == SubSeq(rest, 4, 3 + m)
           R == FirstOf(records, n)
<1>1. /\ records \in Seq(Reportable) /\ Distinct(records) /\ Len(records) \in Nat
      /\ n + 1 \in 1 .. Len(records) /\ (n + 1) - 1 = n /\ n \in 0 .. Len(records)
    BY ListIs DEF ReportableLists
<1>2. r = <<r[1], r[2]>> /\ r[1] \in Nat /\ r[2] \in Seq(Nat) /\ m \in Nat
    BY <1>1, ListIs
<1>3. a \in Nat /\ at[n + 1] = a + 3 + m /\ HoldsRecord(p, a, r)
    BY <1>1 DEF Layout, HoldsRecords
<1>4. a + 3 + m <= Len(p) /\ Len(p) \in Nat
    BY <1>3, LenProperties DEF HoldsRecord
<1>5. a <= Len(p)
    BY <1>2, <1>3, <1>4
<1>6. Leaves(p, a, rest)
    BY <1>3, <1>5, RestIs
<1>7. /\ p[a + 1] + 256 * p[a + 2] = r[1] /\ p[a + 3] = m
      /\ \A j \in 1 .. m : p[a + 3 + j] = r[2][j]
    BY <1>3 DEF HoldsRecord
<1>8. FirstOf(records, n + 1) = R \cup {r}
    <2>1. 1 .. n + 1 = (1 .. n) \cup {n + 1}
        OBVIOUS
    <2>2. {records[i] : i \in (1 .. n) \cup {n + 1}} = {records[i] : i \in 1 .. n} \cup {records[n + 1]}
        OBVIOUS
    <2> QED
        BY <2>1, <2>2 DEF FirstOf
<1>9. \A q \in R : q[1] # r[1]
    <2> SUFFICES ASSUME NEW i \in 1 .. n PROVE records[i][1] # records[n + 1][1]
        BY DEF FirstOf
    <2>1. i \in 1 .. Len(records) /\ i # n + 1
        BY <1>1
    <2> QED
        BY <1>1, <2>1 DEF Distinct
<1> HIDE DEF r, m, a, rest, R
<1>6a. rest \in Seq(Nat) /\ Len(rest) \in Nat /\ Len(rest) = Len(p) - a
    BY <1>6, LenProperties DEF Leaves
<1>6b. \A k \in 1 .. Len(p) - a : rest[k] = p[a + k]
    BY <1>6 DEF Leaves
<1>10. /\ Len(rest) >= 3 + m /\ Len(rest) >= 3
       /\ 1 \in 1 .. Len(p) - a /\ 2 \in 1 .. Len(p) - a /\ 3 \in 1 .. Len(p) - a
       /\ \A j \in 1 .. m : 3 + j \in 1 .. Len(p) - a /\ a + (3 + j) = a + 3 + j
       /\ \A i \in 4 .. 3 + m : i \in 1 .. Len(rest)
       /\ a + (3 + m) = at[n + 1] /\ 3 + m \in Nat /\ a + (3 + m) <= Len(p)
    <2> DEFINE l == Len(p)
               k == Len(rest)
               b == at[n + 1]
    <2>1. m \in Nat /\ a \in Nat /\ l \in Nat /\ k \in Nat /\ k = l - a /\ a + 3 + m <= l /\ b = a + 3 + m
        BY <1>2, <1>3, <1>4, <1>6a
    <2> HIDE DEF l, k, b
    <2>2. /\ k >= 3 + m /\ k >= 3
          /\ 1 \in 1 .. l - a /\ 2 \in 1 .. l - a /\ 3 \in 1 .. l - a
          /\ \A j \in 1 .. m : 3 + j \in 1 .. l - a /\ a + (3 + j) = a + 3 + j
          /\ \A i \in 4 .. 3 + m : i \in 1 .. k
          /\ a + (3 + m) = b /\ 3 + m \in Nat /\ a + (3 + m) <= l
        BY <2>1
    <2> QED
        BY <2>2 DEF l, k, b
<1>11. rest[1] + 256 * rest[2] = r[1] /\ rest[3] = m
    <2>1. rest[1] = p[a + 1] /\ rest[2] = p[a + 2] /\ rest[3] = p[a + 3]
        BY <1>6b, <1>10
    <2> QED
        BY <1>7, <2>1
<1>12. \A j \in 1 .. m : rest[3 + j] = r[2][j]
    <2> SUFFICES ASSUME NEW j \in 1 .. m PROVE rest[3 + j] = r[2][j]
        OBVIOUS
    <2>1. 3 + j \in 1 .. Len(p) - a /\ a + (3 + j) = a + 3 + j
        BY <1>10
    <2>2. rest[3 + j] = p[a + (3 + j)]
        BY <1>6b, <2>1
    <2> QED
        BY <1>7, <2>1, <2>2
<1>13. value = r[2]
    <2>1. Len(r[2]) = m
        BY DEF m
    <2> QED
        BY <1>2, <1>6a, <1>10, <1>12, <2>1, ValueIs
<1>14. SubSeq(rest, (3 + m) + 1, Len(rest)) = SubSeq(p, at[n + 1] + 1, Len(p))
    <2>1. SubSeq(rest, (3 + m) + 1, Len(rest)) = SubSeq(p, (a + (3 + m)) + 1, Len(p))
        BY <1>3, <1>10, RestOfRest DEF rest
    <2> QED
        BY <1>10, <2>1
<1>15. (IF m = 0 THEN Says(R, FALSE) ELSE Apply(Says(R, FALSE), r[1], value, rest)) = Says(R \cup {r}, FALSE)
    <2>1. CASE m = 0
        BY <2>1, EmptySays DEF m
    <2>2. CASE m # 0
        <3>1. Len(r[2]) > 0 /\ Len(rest) >= 3 + Len(r[2]) /\ rest[3] = Len(r[2])
              /\ \A j \in 1 .. Len(r[2]) : rest[3 + j] = r[2][j]
            BY <1>2, <1>10, <1>11, <1>12, <2>2 DEF m
        <3>2. PICK no : no = FALSE
            OBVIOUS
        <3>3. GoesOn(R, r, rest)
            BY <1>2, <1>6a, <1>9, <3>1 DEF GoesOn
        <3>4. Apply(Says(R, no), r[1], r[2], rest) = Says(R \cup {r}, no)
            BY <3>3, ApplyNext
        <3> QED
            BY <1>13, <2>2, <3>2, <3>4
    <2> QED
        BY <2>1, <2>2
<1>16. After(p, at, records, n) = [rest |-> rest, caps |-> Says(R, FALSE), whole |-> TRUE]
    BY DEF After, rest, R, a
<1>17. ~(Len(rest) < 3) /\ ~(Len(rest) < 3 + m)
    BY <1>2, <1>6a, <1>10
<1> HIDE DEF value
<1>18. ParseRecord(After(p, at, records, n)) =
          [rest |-> SubSeq(rest, (3 + m) + 1, Len(rest)),
           caps |-> IF m = 0 THEN Says(R, FALSE) ELSE Apply(Says(R, FALSE), r[1], value, rest),
           whole |-> TRUE]
    <2> DEFINE x == After(p, at, records, n)
    <2>1. x.rest = rest /\ x.caps = Says(R, FALSE) /\ x.whole
        BY <1>16
    <2> HIDE DEF x
    <2>2. ParseRecord(x) =
             [rest |-> SubSeq(rest, (3 + m) + 1, Len(rest)),
              caps |-> IF m = 0 THEN x.caps ELSE Apply(x.caps, rest[1] + 256 * rest[2], value, rest),
              whole |-> TRUE]
        BY <1>11, <1>17, <2>1 DEF ParseRecord, RecordLength, value
    <2> QED
        BY <1>11, <2>1, <2>2 DEF x
<1> QED
    BY <1>8, <1>14, <1>15, <1>18 DEF After

\* As far as n: how parse walks.
FirstAt(p) == [rest |-> SubSeq(p, 3, Len(p)), caps |-> NoCapabilities, whole |-> TRUE]
Walks(g, p, n) == g = [i \in 0 .. n |-> IF i = 0 THEN FirstAt(p) ELSE ParseRecord(g[i - 1])]

LEMMA WalksExists == \A p : \A n \in Nat : \E g : Walks(g, p, n)
<1> SUFFICES ASSUME NEW p PROVE \A n \in Nat : \E g : Walks(g, p, n)
    OBVIOUS
<1> DEFINE S == {n \in Nat : \E g : Walks(g, p, n)}
<1>1. 0 \in S
    <2> DEFINE g == [i \in 0 .. 0 |-> FirstAt(p)]
    <2>1. DOMAIN g = 0 .. 0 /\ g = [i \in 0 .. 0 |-> g[i]] /\ \A i \in 0 .. 0 : i = 0 /\ g[i] = FirstAt(p)
        OBVIOUS
    <2> HIDE DEF g
    <2>2. Walks(g, p, 0)
        BY <2>1 DEF Walks
    <2> QED
        BY <2>2
<1>2. ASSUME NEW n \in Nat, n \in S PROVE n + 1 \in S
    <2>1. PICK g : Walks(g, p, n)
        BY <1>2
    <2> DEFINE h == [i \in 0 .. n + 1 |-> IF i = n + 1 THEN ParseRecord(g[n]) ELSE g[i]]
    <2>2. \A i \in 0 .. n : g[i] = IF i = 0 THEN FirstAt(p) ELSE ParseRecord(g[i - 1])
        BY <2>1 DEF Walks
    <2>3. \A i \in 0 .. n + 1 : h[i] = IF i = n + 1 THEN ParseRecord(g[n]) ELSE g[i]
        OBVIOUS
    <2>4. h = [i \in 0 .. n + 1 |-> h[i]]
        OBVIOUS
    <2> HIDE DEF h
    <2>5. ASSUME NEW i \in 0 .. n + 1
          PROVE  h[i] = IF i = 0 THEN FirstAt(p) ELSE ParseRecord(h[i - 1])
        <3>1. CASE i = n + 1
            <4>1. i # 0 /\ i - 1 = n /\ n \in 0 .. n + 1 /\ n # n + 1
                BY <3>1
            <4> QED
                BY <2>3, <3>1, <4>1
        <3>2. CASE i # n + 1
            <4>1. i \in 0 .. n /\ (i # 0 => i - 1 \in 0 .. n + 1 /\ i - 1 # n + 1)
                BY <3>2
            <4> QED
                BY <2>2, <2>3, <3>2, <4>1
        <3> QED
            BY <3>1, <3>2
    <2>6. Walks(h, p, n + 1)
        BY <2>4, <2>5 DEF Walks
    <2> QED
        BY <2>6
<1>3. S = Nat
    <2>1. S \in SUBSET Nat
        OBVIOUS
    <2> HIDE DEF S
    <2> QED
        BY <1>1, <1>2, <2>1, Induct
<1> QED
    BY <1>3

\* It is not a whole record that is left.
NoRecord(rest) == Len(rest) < 3 \/ Len(rest) < 3 + rest[3]

\* Whether more is to come, by what is left.
MoreToCome(rest) == Len(rest) > 1 /\ rest[Len(rest) - 1] # 0

LEMMA ParsedIs ==
    ASSUME NEW records \in ReportableLists, NEW p \in Seq(Nat), NEW at, Layout(at, records),
           HoldsRecords(p, at, records), Len(p) >= at[Len(records)], p[2] \in Nat, p[2] >= Len(records),
           p[2] # Len(records) => NoRecord(SubSeq(p, at[Len(records)] + 1, Len(p)))
    PROVE  Parse(p) = Says(FirstOf(records, Len(records)),
                           MoreToCome(SubSeq(p, at[Len(records)] + 1, Len(p))))
<1> DEFINE N == Len(records)
           count == p[2]
           walk == CHOOSE g : Walks(g, p, count)
           rest == SubSeq(p, at[N] + 1, Len(p))
           caps == Says(FirstOf(records, N), FALSE)
<1>1. N \in Nat /\ count \in Nat /\ count >= N /\ Len(p) \in Nat
    BY ListIs, LenProperties DEF ReportableLists
<1>2. \A i \in 0 .. N : at[i] \in Nat
    BY DEF Layout
<1>3. at[0] = 2 /\ \A i \in 1 .. N : at[i] = at[i - 1] + 3 + Len(records[i][2]) /\ Len(records[i][2]) \in Nat
    BY ListIs DEF Layout, ReportableLists
<1>4. Len(p) >= 2
    <2>1. CASE N = 0
        BY <1>3, <2>1
    <2>2. CASE N # 0
        <3>1. 1 \in 1 .. N /\ 1 - 1 = 0
            BY <1>1, <2>2
        <3>2. HoldsRecord(p, at[0], records[1]) /\ Len(records[1][2]) \in Nat
            BY <1>3, <3>1 DEF HoldsRecords
        <3> QED
            BY <1>1, <1>3, <3>2 DEF HoldsRecord
    <2> QED
        BY <2>1, <2>2
<1>5. Walks(walk, p, count)
    BY <1>1, WalksExists
<1>6. Parse(p) = [walk[count].caps EXCEPT !.additional = MoreToCome(walk[count].rest)]
    <2>1. ~(Len(p) < 2)
        BY <1>1, <1>4
    <2> QED
        BY <2>1 DEF Parse, Walks, FirstAt, MoreToCome
<1> HIDE DEF walk
<1>7. \A i \in 0 .. count : walk[i] = IF i = 0 THEN FirstAt(p) ELSE ParseRecord(walk[i - 1])
    BY <1>5 DEF Walks
<1>8. \A n \in 0 .. N : walk[n] = After(p, at, records, n)
    <2> DEFINE T == {n \in Nat : n \in 0 .. N => walk[n] = After(p, at, records, n)}
    <2>1. 0 \in T
        <3>1. walk[0] = FirstAt(p)
            BY <1>1, <1>7
        <3>2. FirstOf(records, 0) = {}
            BY DEF FirstOf
        <3>3. After(p, at, records, 0) = [rest |-> SubSeq(p, 2 + 1, Len(p)), caps |-> NoCapabilities, whole |-> TRUE]
            BY <1>3, <3>2, SayingNothing DEF After
        <3>4. 2 + 1 = 3
            OBVIOUS
        <3>5. walk[0] = After(p, at, records, 0)
            BY <3>1, <3>3, <3>4 DEF FirstAt
        <3> QED
            BY <3>5
    <2>2. ASSUME NEW n \in Nat, n \in T PROVE n + 1 \in T
        <3> SUFFICES ASSUME n + 1 \in 0 .. N PROVE walk[n + 1] = After(p, at, records, n + 1)
            OBVIOUS
        <3>1. n \in 0 .. N /\ n < N /\ n + 1 \in 0 .. count /\ n + 1 # 0 /\ (n + 1) - 1 = n
            BY <1>1
        <3>2. walk[n] = After(p, at, records, n)
            BY <2>2, <3>1
        <3>3. walk[n + 1] = ParseRecord(walk[n])
            BY <1>7, <3>1
        <3> QED
            BY <3>1, <3>2, <3>3, OneRecord
    <2>3. T = Nat
        <3>1. T \in SUBSET Nat
            OBVIOUS
        <3> HIDE DEF T
        <3> QED
            BY <2>1, <2>2, <3>1, Induct
    <2> QED
        BY <1>1, <2>3
<1>9. /\ walk[N].rest = rest /\ walk[N].caps = caps
      /\ \A n \in N .. count : walk[n].rest = rest /\ walk[n].caps = caps
    <2>1. walk[N] = After(p, at, records, N)
        BY <1>1, <1>8
    <2>2. walk[N].rest = rest /\ walk[N].caps = caps
        <3>1. walk[N] = [rest |-> rest, caps |-> caps, whole |-> TRUE]
            BY <2>1 DEF After
        <3> HIDE DEF rest, caps, N
        <3> QED
            BY <3>1
    <2> DEFINE Stays(n) == n \in N .. count => walk[n].rest = rest /\ walk[n].caps = caps
               T == {n \in Nat : Stays(n)}
    <2> HIDE DEF rest, caps
    <2>3. 0 \in T
        <3>1. 0 \in N .. count => N = 0
            BY <1>1
        <3> QED
            BY <2>2, <3>1
    <2>4. ASSUME NEW n \in Nat, n \in T PROVE n + 1 \in T
        <3> SUFFICES ASSUME n + 1 \in N .. count PROVE walk[n + 1].rest = rest /\ walk[n + 1].caps = caps
            OBVIOUS
        <3>1. CASE n + 1 = N
            BY <2>2, <3>1
        <3>2. CASE n + 1 # N
            <4>1. n \in N .. count /\ n + 1 \in 0 .. count /\ n + 1 # 0 /\ (n + 1) - 1 = n /\ count # N
                BY <1>1, <3>2
            <4>2. walk[n].rest = rest /\ walk[n].caps = caps /\ walk[n + 1] = ParseRecord(walk[n])
                BY <1>7, <2>4, <4>1
            <4>3. NoRecord(rest)
                BY <4>1 DEF rest
            <4>4. Len(rest) < 3 \/ Len(rest) < RecordLength(rest[3])
                BY <4>3 DEF NoRecord, RecordLength
            <4>5. ParseRecord(walk[n]) = [walk[n] EXCEPT !.whole = FALSE]
                BY <4>2, <4>4 DEF ParseRecord
            <4>6. ParseRecord(walk[n]).rest = walk[n].rest /\ ParseRecord(walk[n]).caps = walk[n].caps
                BY <4>5
            <4> QED
                BY <4>2, <4>6
        <3> QED
            BY <3>1, <3>2
    <2>5. T = Nat
        <3>1. T \in SUBSET Nat
            OBVIOUS
        <3> HIDE DEF T
        <3> QED
            BY <2>3, <2>4, <3>1, Induct
    <2> QED
        BY <1>1, <2>2, <2>5
<1>10. walk[count].rest = rest /\ walk[count].caps = caps
    <2>1. count \in N .. count
        BY <1>1
    <2> HIDE DEF rest, caps, N, count
    <2> QED
        BY <1>9, <2>1
<1>11. [caps EXCEPT !.additional = MoreToCome(rest)] = Says(FirstOf(records, N), MoreToCome(rest))
    BY DEF Says
<1> HIDE DEF rest, caps
<1>12. Parse(p) = [caps EXCEPT !.additional = MoreToCome(rest)]
    BY <1>6, <1>10
<1> QED
    BY <1>11, <1>12 DEF rest

-----------------------------------------------------------------------------
(* A page, whole or cut off.                                               *)

LEMMA TwoBytes ==
    ASSUME NEW n \in Nat
    PROVE  n % 256 \in Nat /\ n \div 256 \in Nat /\ (n % 256) + 256 * (n \div 256) = n
OBVIOUS

\* all is t after s.
Follows(all, s, t) ==
    /\ all \in Seq(Nat) /\ Len(all) = Len(s) + Len(t)
    /\ \A k \in 1 .. Len(s) : all[k] = s[k]
    /\ \A k \in 1 .. Len(t) : all[Len(s) + k] = t[k]

LEMMA Concatenation ==
    ASSUME NEW s \in Seq(Nat), NEW t \in Seq(Nat)
    PROVE  Follows(s \o t, s, t)
<1> DEFINE all == s \o t
<1>1. Len(s) \in Nat /\ Len(t) \in Nat
    BY LenProperties
<1>2. /\ all \in Seq(Nat) /\ Len(all) = Len(s) + Len(t)
      /\ \A k \in 1 .. Len(s) + Len(t) : all[k] = IF k <= Len(s) THEN s[k] ELSE t[k - Len(s)]
    BY ConcatProperties
<1> HIDE DEF all
<1>3. \A k \in 1 .. Len(s) : k \in 1 .. Len(s) + Len(t) /\ k <= Len(s)
    BY <1>1
<1>4. \A k \in 1 .. Len(t) : /\ Len(s) + k \in 1 .. Len(s) + Len(t) /\ ~(Len(s) + k <= Len(s))
                             /\ (Len(s) + k) - Len(s) = k
    BY <1>1
<1>5. \A k \in 1 .. Len(s) : all[k] = s[k]
    BY <1>2, <1>3
<1>6. \A k \in 1 .. Len(t) : all[Len(s) + k] = t[k]
    BY <1>2, <1>4
<1>7. Follows(all, s, t)
    BY <1>2, <1>5, <1>6 DEF Follows
<1> QED
    BY <1>7 DEF all

LEMMA BytesAre ==
    ASSUME NEW r, r[1] \in Nat, r[2] \in Seq(Nat)
    PROVE  /\ Bytes(r) \in Seq(Nat) /\ Len(Bytes(r)) = 3 + Len(r[2])
           /\ Bytes(r)[1] + 256 * Bytes(r)[2] = r[1] /\ Bytes(r)[3] = Len(r[2])
           /\ \A j \in 1 .. Len(r[2]) : Bytes(r)[3 + j] = r[2][j]
<1> DEFINE low == r[1] % 256
           high == r[1] \div 256
           size == Len(r[2])
           head == <<low, high, size>>
           bytes == Bytes(r)
<1>1. low \in Nat /\ high \in Nat /\ low + 256 * high = r[1]
    BY TwoBytes
<1>2. size \in Nat
    BY LenProperties
<1>3. head \in Seq(Nat) /\ Len(head) = 3 /\ head[1] = low /\ head[2] = high /\ head[3] = size
    <2> HIDE DEF low, high, size
    <2> QED
        BY <1>1, <1>2
<1>4. bytes = head \o r[2]
    BY DEF Bytes
<1> HIDE DEF low, high, size, head, bytes
<1>5. /\ bytes \in Seq(Nat) /\ Len(bytes) = Len(head) + Len(r[2])
      /\ \A k \in 1 .. Len(head) + Len(r[2]) :
            bytes[k] = IF k <= Len(head) THEN head[k] ELSE r[2][k - Len(head)]
    BY <1>3, <1>4, ConcatProperties
<1>6. Len(bytes) = 3 + size /\ \A k \in 1 .. 3 + size : bytes[k] = IF k <= 3 THEN head[k] ELSE r[2][k - 3]
    BY <1>3, <1>5 DEF size
<1>7. bytes[1] = low /\ bytes[2] = high /\ bytes[3] = size
    BY <1>2, <1>3, <1>6
<1>8. ASSUME NEW j \in 1 .. size PROVE bytes[3 + j] = r[2][j]
    <2>1. 3 + j \in 1 .. 3 + size /\ ~(3 + j <= 3) /\ (3 + j) - 3 = j
        BY <1>2
    <2> QED
        BY <1>6, <2>1
<1> QED
    BY <1>1, <1>5, <1>6, <1>7, <1>8 DEF bytes, size

LEMMA PageBytes ==
    ASSUME NEW flat \in Seq(Nat), NEW n \in Nat, NEW last \in Nat,
           NEW p, p = <<181, n>> \o flat \o <<last, 7>>
    PROVE  /\ p \in Seq(Nat) /\ Len(p) = Len(flat) + 4
           /\ p[2] = n /\ p[Len(flat) + 3] = last
           /\ \A k \in 1 .. Len(flat) : p[2 + k] = flat[k]
<1>1. PICK ahead : ahead = <<181, n>>
    OBVIOUS
<1>2. PICK tail : tail = <<last, 7>>
    OBVIOUS
<1>3. PICK front : front = ahead \o flat
    OBVIOUS
<1>4. p = front \o tail
    BY <1>1, <1>2, <1>3
<1>5. ahead \in Seq(Nat) /\ Len(ahead) = 2 /\ ahead[2] = n
    BY <1>1
<1>6. tail \in Seq(Nat) /\ Len(tail) = 2 /\ tail[1] = last
    BY <1>2
<1>6a. Follows(front, ahead, flat)
    BY <1>3, <1>5, Concatenation
<1>7. /\ front \in Seq(Nat) /\ Len(front) = Len(ahead) + Len(flat)
      /\ \A k \in 1 .. Len(ahead) : front[k] = ahead[k]
      /\ \A k \in 1 .. Len(flat) : front[Len(ahead) + k] = flat[k]
    BY <1>6a DEF Follows
<1>7a. Follows(p, front, tail)
    BY <1>4, <1>6, <1>7, Concatenation
<1>8. /\ p \in Seq(Nat) /\ Len(p) = Len(front) + Len(tail)
      /\ \A k \in 1 .. Len(front) : p[k] = front[k]
      /\ \A k \in 1 .. Len(tail) : p[Len(front) + k] = tail[k]
    BY <1>7a DEF Follows
<1>9. Len(flat) \in Nat
    BY LenProperties
<1>10. Len(front) = 2 + Len(flat) /\ Len(p) = Len(flat) + 4 /\ Len(front) + 1 = Len(flat) + 3
    <2> DEFINE l == Len(flat)
               f == Len(front)
               m == Len(p)
    <2>1. l \in Nat /\ f = 2 + l /\ m = f + 2
        BY <1>5, <1>6, <1>7, <1>8, <1>9
    <2> HIDE DEF l, f, m
    <2>2. f = 2 + l /\ m = l + 4 /\ f + 1 = l + 3
        BY <2>1
    <2> QED
        BY <2>2 DEF l, f, m
<1>11. \A k \in 1 .. Len(flat) : p[2 + k] = flat[k]
    <2> SUFFICES ASSUME NEW k \in 1 .. Len(flat) PROVE p[2 + k] = flat[k]
        OBVIOUS
    <2>1. 2 + k \in 1 .. Len(front)
        BY <1>9, <1>10
    <2>2. p[2 + k] = front[2 + k] /\ front[2 + k] = flat[k]
        BY <1>5, <1>7, <1>8, <2>1
    <2> QED
        BY <2>2
<1>12. p[2] = n
    <2>1. 2 \in 1 .. Len(front) /\ 2 \in 1 .. Len(ahead)
        BY <1>5, <1>9, <1>10
    <2> QED
        BY <1>5, <1>7, <1>8, <2>1
<1>13. p[Len(flat) + 3] = last
    <2>1. 1 \in 1 .. Len(tail)
        BY <1>6
    <2>2. p[Len(front) + 1] = tail[1]
        BY <1>8, <2>1
    <2> QED
        BY <1>6, <1>10, <2>2
<1> QED
    BY <1>8, <1>10, <1>11, <1>12, <1>13

\* A page with these records and that ending.
PageOf(p, at, records, more) ==
    /\ p \in Seq(Nat) /\ Len(p) = at[Len(records)] + 2 /\ p[2] = Len(records)
    /\ HoldsRecords(p, at, records)
    /\ p[at[Len(records)] + 1] = IF more THEN 1 ELSE 0

LEMMA PageIs ==
    ASSUME NEW records \in Seq(Reportable)
    PROVE  \E at : Layout(at, records) /\ \A more \in BOOLEAN : PageOf(Page(records, more), at, records, more)
<1> DEFINE N == Len(records)
           seqs == [i \in DOMAIN records |-> Bytes(records[i])]
           flat == FlattenSeq(seqs)
<1>1. N \in Nat /\ DOMAIN records = 1 .. N
    BY ListIs
<1>2. \A i \in 1 .. N : /\ records[i][1] \in Nat /\ records[i][2] \in Seq(Nat) /\ Len(records[i][2]) \in Nat
                        /\ seqs[i] = Bytes(records[i])
    BY <1>1, ListIs
<1>3. seqs \in Seq(Seq(Nat)) /\ Len(seqs) = N
    <2>1. \A i \in 1 .. N : Bytes(records[i]) \in Seq(Nat)
        BY <1>2, BytesAre
    <2>2. seqs \in [1 .. N -> Seq(Nat)]
        BY <1>1, <2>1
    <2> HIDE DEF seqs, N
    <2> QED
        BY <1>1, <2>2
<1> HIDE DEF seqs
<1>4. PICK ends : /\ Ends(ends, seqs) /\ Len(flat) = ends[N] /\ LaidTo(ends, flat, seqs, N)
    BY <1>3, FlattenIs
<1>5. flat \in Seq(Nat)
    BY <1>3, FlattenIs
<1> HIDE DEF flat
<1> DEFINE at == [i \in 0 .. N |-> ends[i] + 2]
<1>6. \A i \in 0 .. N : ends[i] \in Nat /\ at[i] = ends[i] + 2
    BY <1>3, <1>4 DEF Ends
<1>7. ends[0] = 0 /\ \A i \in 1 .. N : ends[i] = ends[i - 1] + Len(seqs[i])
    BY <1>3, <1>4 DEF Ends
<1>8. at \in [0 .. N -> Nat]
    BY <1>6
<1> HIDE DEF at
<1>9. \A i \in 1 .. N : Len(seqs[i]) = 3 + Len(records[i][2])
    BY <1>2, BytesAre
<1>10. Layout(at, records)
    <2>1. at[0] = 2
        BY <1>1, <1>6, <1>7
    <2>2. ASSUME NEW i \in 1 .. N PROVE at[i] = at[i - 1] + 3 + Len(records[i][2])
        <3>1. i \in 0 .. N /\ i - 1 \in 0 .. N
            BY <1>1
        <3>2. ends[i] = ends[i - 1] + (3 + Len(records[i][2])) /\ Len(records[i][2]) \in Nat
            BY <1>2, <1>7, <1>9
        <3>3. at[i] = ends[i] + 2 /\ at[i - 1] = ends[i - 1] + 2 /\ ends[i - 1] \in Nat
            BY <1>6, <3>1
        <3> DEFINE m == Len(records[i][2])
                   e == ends[i - 1]
        <3> HIDE DEF m, e
        <3>4. m \in Nat /\ e \in Nat
            BY <3>2, <3>3 DEF m, e
        <3>5. (e + (3 + m)) + 2 = (e + 2) + 3 + m
            BY <3>4
        <3> QED
            BY <3>2, <3>3, <3>5 DEF m, e
    <2> QED
        BY <1>8, <2>1, <2>2 DEF Layout
<1>11. ASSUME NEW more \in BOOLEAN PROVE PageOf(Page(records, more), at, records, more)
    <2> DEFINE last == IF more THEN 1 ELSE 0
               p == Page(records, more)
    <2>1. p = <<181, N>> \o flat \o <<last, 7>> /\ last \in Nat
        BY DEF Page, flat, seqs
    <2> HIDE DEF last, p
    <2>2. /\ p \in Seq(Nat) /\ Len(p) = Len(flat) + 4 /\ p[2] = N /\ p[Len(flat) + 3] = last
          /\ \A k \in 1 .. Len(flat) : p[2 + k] = flat[k]
        <3> HIDE DEF N
        <3> QED
            BY <1>1, <1>5, <2>1, PageBytes
    <2>7. ends[N] \in Nat /\ at[N] = ends[N] + 2 /\ Len(flat) = ends[N]
        BY <1>1, <1>4, <1>6
    <2>8. Len(p) = at[N] + 2 /\ at[N] + 1 = Len(flat) + 3
        <3> DEFINE l == Len(flat)
        <3>1. l \in Nat /\ at[N] = l + 2 /\ Len(p) = l + 4
            BY <2>2, <2>7
        <3> HIDE DEF l
        <3>2. Len(p) = at[N] + 2 /\ at[N] + 1 = l + 3
            BY <3>1
        <3> QED
            BY <3>2 DEF l
    <2>9. \A k \in 1 .. ends[N] : p[2 + k] = flat[k]
        BY <2>2, <2>7
    <2>11. p[at[N] + 1] = last
        BY <2>2, <2>8
    <2>12. ASSUME NEW i \in 1 .. N PROVE HoldsRecord(p, at[i - 1], records[i])
        <3> DEFINE r == records[i]
                   m == Len(r[2])
                   e == ends[i - 1]
                   a == at[i - 1]
        <3>1. i \in 0 .. N /\ i - 1 \in 0 .. N
            BY <1>1
        <3>2. a = e + 2 /\ e \in Nat /\ m \in Nat /\ Len(seqs[i]) = 3 + m /\ ends[i] = e + (3 + m)
            BY <1>2, <1>6, <1>7, <1>9, <3>1
        <3>3. /\ ends[i] <= Len(flat)
              /\ \A j \in 1 .. Len(seqs[i]) : flat[e + j] = seqs[i][j]
            BY <1>4 DEF LaidTo
        <3>4. /\ seqs[i][1] + 256 * seqs[i][2] = r[1] /\ seqs[i][3] = m
              /\ \A j \in 1 .. m : seqs[i][3 + j] = r[2][j]
            <4>1. r[1] \in Nat /\ r[2] \in Seq(Nat) /\ seqs[i] = Bytes(r)
                BY <1>2
            <4> HIDE DEF r
            <4> QED
                BY <4>1, BytesAre
        <3> HIDE DEF m, e, a
        <3>5. a + 3 + m <= Len(p)
            BY <2>7, <2>8, <3>2, <3>3
        <3>6. \A j \in 1 .. 3 + m : p[a + j] = seqs[i][j]
            <4> SUFFICES ASSUME NEW j \in 1 .. 3 + m PROVE p[a + j] = seqs[i][j]
                OBVIOUS
            <4>1. e + j \in 1 .. ends[N] /\ 2 + (e + j) = a + j
                BY <2>7, <3>2, <3>3
            <4>2. p[2 + (e + j)] = flat[e + j]
                BY <2>9, <4>1
            <4>3. flat[e + j] = seqs[i][j]
                BY <3>2, <3>3
            <4> QED
                BY <4>1, <4>2, <4>3
        <3>7. p[a + 1] = seqs[i][1] /\ p[a + 2] = seqs[i][2] /\ p[a + 3] = seqs[i][3]
            BY <3>2, <3>6
        <3>8. \A j \in 1 .. m : p[a + 3 + j] = r[2][j]
            <4> SUFFICES ASSUME NEW j \in 1 .. m PROVE p[a + 3 + j] = r[2][j]
                OBVIOUS
            <4>1. 3 + j \in 1 .. 3 + m /\ a + (3 + j) = a + 3 + j
                BY <3>2
            <4>2. p[a + (3 + j)] = seqs[i][3 + j]
                BY <3>6, <4>1
            <4> QED
                BY <3>4, <4>1, <4>2
        <3> QED
            BY <3>4, <3>5, <3>7, <3>8 DEF HoldsRecord, m, a
    <2>13. HoldsRecords(p, at, records)
        BY <2>12 DEF HoldsRecords
    <2> QED
        BY <2>2, <2>8, <2>11, <2>13 DEF PageOf, p, last
<1> QED
    BY <1>10, <1>11

\* parse, of a page that is all there.
LEMMA WholePage ==
    ASSUME NEW records \in ReportableLists, NEW more \in BOOLEAN
    PROVE  Parse(Page(records, more)) = Says(FirstOf(records, Len(records)), more)
<1> DEFINE N == Len(records)
           p == Page(records, more)
<1>1. records \in Seq(Reportable) /\ N \in Nat
    BY ListIs DEF ReportableLists
<1>2. PICK at : Layout(at, records) /\ PageOf(p, at, records, more)
    BY <1>1, PageIs
<1> HIDE DEF p
<1> DEFINE a == at[N]
           rest == SubSeq(p, a + 1, Len(p))
<1>3. /\ p \in Seq(Nat) /\ Len(p) = a + 2 /\ p[2] = N /\ HoldsRecords(p, at, records)
      /\ p[a + 1] = IF more THEN 1 ELSE 0
    BY <1>2 DEF PageOf
<1>4. a \in Nat
    BY <1>1, <1>2 DEF Layout
<1>5. Len(p) >= a /\ a <= Len(p) /\ N >= N /\ Len(p) - a = 2
    <2> HIDE DEF a, N
    <2> QED
        BY <1>1, <1>3, <1>4
<1>6. Leaves(p, a, rest)
    BY <1>3, <1>4, <1>5, RestIs
<1>7. Parse(p) = Says(FirstOf(records, N), MoreToCome(rest))
    BY <1>1, <1>2, <1>3, <1>5, ParsedIs
<1>8. MoreToCome(rest) = more
    <2> HIDE DEF rest, a, N
    <2>1. Len(rest) = 2 /\ rest[1] = p[a + 1]
        BY <1>5, <1>6 DEF Leaves
    <2>2. Len(rest) > 1 /\ Len(rest) - 1 = 1
        BY <2>1
    <2>3. rest[Len(rest) - 1] # 0 <=> more
        BY <1>3, <2>1, <2>2
    <2>4. MoreToCome(rest) <=> more
        BY <2>2, <2>3 DEF MoreToCome
    <2>5. MoreToCome(rest) \in BOOLEAN
        BY DEF MoreToCome
    <2> QED
        BY <2>4, <2>5
<1> QED
    BY <1>7, <1>8 DEF p

LEMMA Parts ==
    ASSUME NEW records \in ReportableLists, NEW n \in 0 .. Len(records)
    PROVE  LET first == Start(records, n)
               second == SubSeq(records, n + 1, Len(records)) IN
           /\ first \in ReportableLists /\ Len(first) = n /\ \A i \in 1 .. n : first[i] = records[i]
           /\ second \in ReportableLists /\ Len(second) = Len(records) - n
           /\ \A i \in 1 .. Len(records) - n : second[i] = records[n + i]
<1> DEFINE N == Len(records)
           first == SubSeq(records, 1, n)
           second == SubSeq(records, n + 1, N)
<1>1. records \in Seq(Reportable) /\ N \in Nat /\ N <= 255 /\ Distinct(records) /\ n \in Nat /\ n <= N
    BY ListIs DEF ReportableLists
<1>2. \A i \in 1 .. N : records[i] \in Reportable
    BY <1>1, ElementOfSeq
<1>3. /\ first \in Seq(Reportable) /\ Len(first) = IF 1 <= n THEN n - 1 + 1 ELSE 0
      /\ \A i \in 1 .. n - 1 + 1 : first[i] = records[1 + i - 1]
    <2>1. 1 \in Int /\ n \in Int /\ \A i \in 1 .. n : records[i] \in Reportable
        BY <1>1, <1>2
    <2> QED
        BY <2>1, SubSeqProperties
<1>4. /\ second \in Seq(Reportable) /\ Len(second) = IF n + 1 <= N THEN N - (n + 1) + 1 ELSE 0
      /\ \A i \in 1 .. N - (n + 1) + 1 : second[i] = records[(n + 1) + i - 1]
    <2>1. n + 1 \in Int /\ N \in Int /\ \A i \in n + 1 .. N : records[i] \in Reportable
        BY <1>1, <1>2
    <2> QED
        BY <2>1, SubSeqProperties
<1> HIDE DEF first, second, N
<1>5. Len(first) = n /\ Len(second) = N - n
    BY <1>1, <1>3, <1>4
<1>6. ASSUME NEW i \in 1 .. n PROVE first[i] = records[i]
    <2>1. i \in 1 .. n - 1 + 1 /\ 1 + i - 1 = i
        BY <1>1
    <2>2. first[i] = records[1 + i - 1]
        BY <1>3, <2>1
    <2> QED
        BY <2>1, <2>2
<1>7. ASSUME NEW i \in 1 .. N - n PROVE second[i] = records[n + i]
    <2>1. i \in 1 .. N - (n + 1) + 1 /\ (n + 1) + i - 1 = n + i
        BY <1>1
    <2>2. second[i] = records[(n + 1) + i - 1]
        BY <1>4, <2>1
    <2> QED
        BY <2>1, <2>2
<1>8. Distinct(first)
    <2> SUFFICES ASSUME NEW i \in 1 .. n, NEW j \in 1 .. n, i # j PROVE first[i][1] # first[j][1]
        BY <1>5 DEF Distinct
    <2>1. i \in 1 .. N /\ j \in 1 .. N
        BY <1>1
    <2>2. records[i][1] # records[j][1]
        BY <1>1, <2>1 DEF Distinct, N
    <2> QED
        BY <1>6, <2>2
<1>9. Distinct(second)
    <2> SUFFICES ASSUME NEW i \in 1 .. N - n, NEW j \in 1 .. N - n, i # j PROVE second[i][1] # second[j][1]
        BY <1>5 DEF Distinct
    <2>1. n + i \in 1 .. N /\ n + j \in 1 .. N /\ n + i # n + j
        BY <1>1
    <2>2. records[n + i][1] # records[n + j][1]
        BY <1>1, <2>1 DEF Distinct, N
    <2> QED
        BY <1>7, <2>2
<1>10. Len(first) <= 255 /\ Len(second) <= 255
    BY <1>1, <1>5
<1>11. first \in ReportableLists /\ second \in ReportableLists
    BY <1>3, <1>4, <1>8, <1>9, <1>10 DEF ReportableLists
<1> QED
    BY <1>5, <1>6, <1>7, <1>11 DEF Start, first, second, N

\* merge, of two pages that share the records between them.
LEMMA TwoPages ==
    ASSUME NEW records \in ReportableLists, NEW n \in 0 .. Len(records)
    PROVE  Fetched(Page(Start(records, n), TRUE), {Page(SubSeq(records, n + 1, Len(records)), FALSE)})
              = Parse(Page(records, FALSE))
<1> DEFINE N == Len(records)
           first == Start(records, n)
           second == SubSeq(records, n + 1, N)
           R == FirstOf(first, n)
           Q == FirstOf(second, N - n)
<1>1. /\ records \in Seq(Reportable) /\ N \in Nat /\ Distinct(records) /\ n \in Nat /\ n <= N
    BY ListIs DEF ReportableLists
<1>2. /\ first \in ReportableLists /\ Len(first) = n /\ \A i \in 1 .. n : first[i] = records[i]
      /\ second \in ReportableLists /\ Len(second) = N - n
      /\ \A i \in 1 .. N - n : second[i] = records[n + i]
    BY Parts
<1> HIDE DEF first, second, N
<1>3. Parse(Page(first, TRUE)) = Says(R, TRUE)
    BY <1>2, WholePage
<1>4. Parse(Page(second, FALSE)) = Says(Q, FALSE)
    BY <1>2, WholePage
<1>5. Parse(Page(records, FALSE)) = Says(FirstOf(records, N), FALSE)
    BY WholePage DEF N
<1>6. FirstOf(records, N) = R \cup Q
    <2>1. ASSUME NEW i \in 1 .. N PROVE records[i] \in R \cup Q
        <3>1. CASE i <= n
            <4>1. i \in 1 .. n
                BY <1>1, <3>1
            <4>2. first[i] \in R
                BY <4>1 DEF FirstOf
            <4> QED
                BY <1>2, <4>1, <4>2
        <3>2. CASE ~(i <= n)
            <4>1. i - n \in 1 .. N - n /\ n + (i - n) = i
                BY <1>1, <3>2
            <4>2. second[i - n] \in Q
                BY <4>1 DEF FirstOf
            <4>3. second[i - n] = records[i]
                BY <1>2, <4>1
            <4> QED
                BY <4>2, <4>3
        <3> QED
            BY <3>1, <3>2
    <2>2. ASSUME NEW q \in R \cup Q PROVE q \in FirstOf(records, N)
        <3>1. CASE q \in R
            <4>1. PICK i \in 1 .. n : q = first[i]
                BY <3>1 DEF FirstOf
            <4>2. i \in 1 .. N /\ q = records[i]
                BY <1>1, <1>2, <4>1
            <4> QED
                BY <4>2 DEF FirstOf
        <3>2. CASE q \in Q
            <4>1. PICK i \in 1 .. N - n : q = second[i]
                BY <3>2 DEF FirstOf
            <4>2. n + i \in 1 .. N /\ q = records[n + i]
                BY <1>1, <1>2, <4>1
            <4> QED
                BY <4>2 DEF FirstOf
        <3> QED
            BY <3>1, <3>2
    <2>3. \A q \in FirstOf(records, N) : q \in R \cup Q
        BY <2>1 DEF FirstOf
    <2> HIDE DEF R, Q
    <2> QED
        BY <2>2, <2>3
<1>7. ASSUME NEW r \in R, NEW q \in Q PROVE r[1] # q[1]
    <2>1. PICK i \in 1 .. n : r = first[i]
        BY DEF FirstOf
    <2>2. PICK j \in 1 .. N - n : q = second[j]
        BY DEF FirstOf
    <2>3. r = records[i] /\ q = records[n + j]
        BY <1>2, <2>1, <2>2
    <2>4. i \in 1 .. N /\ n + j \in 1 .. N /\ i # n + j
        BY <1>1
    <2> QED
        BY <1>1, <2>3, <2>4 DEF Distinct, N
<1> HIDE DEF R, Q
<1>8. Merge(Says(R, TRUE), Says(Q, FALSE)) = Says(R \cup Q, FALSE)
    BY <1>7, MergeSays
<1>9. Says(R, TRUE).additional = TRUE
    BY DEF Says
<1>10. Named({Page(second, FALSE)}) = Page(second, FALSE)
    BY DEF Named
<1>11. {Page(second, FALSE)} # None
    BY DEF None
<1>12. Fetched(Page(first, TRUE), {Page(second, FALSE)})
          = Merge(Says(R, TRUE), Parse(Named({Page(second, FALSE)})))
    BY <1>3, <1>9, <1>11 DEF Fetched
<1> QED
    BY <1>4, <1>5, <1>6, <1>8, <1>10, <1>12 DEF first, second, N

\* The ends of the records of a longer list.
LEMMA SameLayout ==
    ASSUME NEW records \in ReportableLists, NEW n \in 0 .. Len(records), NEW at, NEW other,
           Layout(at, records), Layout(other, Start(records, n))
    PROVE  \A i \in 0 .. n : other[i] = at[i]
<1>1. /\ records \in Seq(Reportable) /\ Len(records) \in Nat /\ n \in Nat /\ n <= Len(records)
      /\ Len(Start(records, n)) = n /\ \A i \in 1 .. n : Start(records, n)[i] = records[i]
    BY ListIs, Parts DEF ReportableLists
<1> DEFINE T == {i \in Nat : i \in 0 .. n => other[i] = at[i]}
<1>2. 0 \in T
    <2>1. other[0] = at[0]
        BY DEF Layout
    <2> QED
        BY <2>1
<1>3. ASSUME NEW i \in Nat, i \in T PROVE i + 1 \in T
    <2> SUFFICES ASSUME i + 1 \in 0 .. n PROVE other[i + 1] = at[i + 1]
        OBVIOUS
    <2>1. i + 1 \in 1 .. n /\ i + 1 \in 1 .. Len(records) /\ i \in 0 .. n /\ (i + 1) - 1 = i
        BY <1>1
    <2>2. other[i] = at[i]
        BY <1>3, <2>1
    <2>3. other[i + 1] = other[i] + 3 + Len(Start(records, n)[i + 1][2])
        BY <1>1, <2>1 DEF Layout
    <2>4. at[i + 1] = at[i] + 3 + Len(records[i + 1][2])
        BY <2>1 DEF Layout
    <2>5. Start(records, n)[i + 1] = records[i + 1]
        BY <1>1, <2>1
    <2> QED
        BY <2>2, <2>3, <2>4, <2>5
<1>4. T = Nat
    <2>1. T \in SUBSET Nat
        OBVIOUS
    <2> HIDE DEF T
    <2> QED
        BY <1>2, <1>3, <2>1, Induct
<1> QED
    BY <1>1, <1>4

LEMMA LayoutGrows ==
    ASSUME NEW records \in ReportableLists, NEW at, Layout(at, records)
    PROVE  \A m \in 0 .. Len(records) : /\ at[m] \in Nat
                                        /\ \A i \in 0 .. m : at[i] \in Nat /\ at[i] <= at[m]
<1> DEFINE N == Len(records)
<1>1. /\ N \in Nat /\ \A i \in 1 .. N : Len(records[i][2]) \in Nat
      /\ \A i \in 0 .. N : at[i] \in Nat
    BY ListIs DEF ReportableLists, Layout
<1>2. \A i \in 1 .. N : at[i - 1] <= at[i]
    <2> SUFFICES ASSUME NEW i \in 1 .. N PROVE at[i - 1] <= at[i]
        OBVIOUS
    <2>1. i - 1 \in 0 .. N
        BY <1>1
    <2>2. at[i] = at[i - 1] + 3 + Len(records[i][2])
        BY DEF Layout
    <2> DEFINE a == at[i - 1]
               l == Len(records[i][2])
    <2>3. a \in Nat /\ l \in Nat /\ at[i] = a + 3 + l
        BY <1>1, <2>1, <2>2
    <2> HIDE DEF a, l
    <2>4. a <= at[i]
        BY <2>3
    <2> QED
        BY <2>4 DEF a
<1> HIDE DEF N
<1> DEFINE T == {m \in Nat : m \in 0 .. N => \A i \in 0 .. m : at[i] <= at[m]}
<1>3. 0 \in T
    <2>1. \A i \in 0 .. 0 : i = 0
        OBVIOUS
    <2>2. 0 \in 0 .. N /\ at[0] <= at[0]
        BY <1>1
    <2> QED
        BY <2>1, <2>2
<1>4. ASSUME NEW m \in Nat, m \in T PROVE m + 1 \in T
    <2> SUFFICES ASSUME m + 1 \in 0 .. N, NEW i \in 0 .. m + 1 PROVE at[i] <= at[m + 1]
        OBVIOUS
    <2>1. m + 1 \in 1 .. N /\ m \in 0 .. N /\ (m + 1) - 1 = m /\ i \in 0 .. N
        BY <1>1
    <2>2. at[m] <= at[m + 1] /\ at[m] \in Nat /\ at[m + 1] \in Nat /\ at[i] \in Nat
        BY <1>1, <1>2, <2>1
    <2>3. CASE i = m + 1
        BY <2>2, <2>3
    <2>4. CASE i # m + 1
        <3>1. i \in 0 .. m
            BY <2>4
        <3>2. at[i] <= at[m]
            BY <1>4, <2>1, <3>1
        <3> QED
            BY <2>2, <3>2
    <2> QED
        BY <2>3, <2>4
<1>5. T = Nat
    <2>1. T \in SUBSET Nat
        OBVIOUS
    <2> HIDE DEF T
    <2> QED
        BY <1>3, <1>4, <2>1, Induct
<1>6. ASSUME NEW m \in 0 .. N, NEW i \in 0 .. m PROVE at[i] <= at[m] /\ at[i] \in Nat
    <2>1. m \in T /\ i \in 0 .. N
        BY <1>1, <1>5
    <2> QED
        BY <1>1, <2>1
<1> QED
    BY <1>1, <1>6 DEF N

LEMMA ReachIs ==
    ASSUME NEW records \in ReportableLists, NEW n \in 0 .. Len(records), NEW at, Layout(at, records)
    PROVE  Reach(records, n) = at[n]
<1>1. Start(records, n) \in ReportableLists /\ Len(Start(records, n)) = n /\ n \in Nat
    BY ListIs, Parts DEF ReportableLists
<1>2. Start(records, n) \in Seq(Reportable)
    BY <1>1 DEF ReportableLists
<1>3. PICK other : /\ Layout(other, Start(records, n))
                   /\ PageOf(Page(Start(records, n), FALSE), other, Start(records, n), FALSE)
    BY <1>2, PageIs
<1>4. n \in 0 .. n
    BY <1>1
<1>5. other[n] = at[n] /\ other[n] \in Nat
    <2>1. other[n] = at[n]
        BY <1>3, <1>4, SameLayout
    <2>2. other[n] \in Nat
        BY <1>1, <1>3, <1>4 DEF Layout
    <2> QED
        BY <2>1, <2>2
<1>6. Len(Page(Start(records, n), FALSE)) = other[n] + 2
    BY <1>1, <1>3 DEF PageOf
<1>7. PICK long : long = Len(Page(Start(records, n), FALSE))
    OBVIOUS
<1>8. Reach(records, n) = long - 2
    BY <1>7 DEF Reach
<1>9. long = other[n] + 2
    BY <1>6, <1>7
<1> QED
    BY <1>5, <1>8, <1>9

LEMMA StartOf ==
    ASSUME NEW p \in Seq(Nat), NEW cut \in Nat, cut <= Len(p)
    PROVE  /\ SubSeq(p, 1, cut) \in Seq(Nat) /\ Len(SubSeq(p, 1, cut)) = cut
           /\ \A k \in 1 .. cut : SubSeq(p, 1, cut)[k] = p[k]
<1> DEFINE c == SubSeq(p, 1, cut)
<1>1. Len(p) \in Nat /\ \A i \in 1 .. Len(p) : p[i] \in Nat
    BY LenProperties, ElementOfSeq
<1>2. 1 \in Int /\ cut \in Int /\ \A i \in 1 .. cut : p[i] \in Nat
    BY <1>1
<1>3. /\ c \in Seq(Nat) /\ Len(c) = IF 1 <= cut THEN cut - 1 + 1 ELSE 0
      /\ \A i \in 1 .. cut - 1 + 1 : c[i] = p[1 + i - 1]
    BY <1>2, SubSeqProperties
<1> HIDE DEF c
<1>4. Len(c) = cut
    BY <1>3
<1>5. ASSUME NEW k \in 1 .. cut PROVE c[k] = p[k]
    <2>1. k \in 1 .. cut - 1 + 1 /\ 1 + k - 1 = k
        OBVIOUS
    <2>2. c[k] = p[1 + k - 1]
        BY <1>3, <2>1
    <2> QED
        BY <2>1, <2>2
<1> QED
    BY <1>3, <1>4, <1>5 DEF c

\* parse, of a page that is cut off.
LEMMA CutPage ==
    ASSUME NEW records \in ReportableLists, NEW at, Layout(at, records),
           PageOf(Page(records, FALSE), at, records, FALSE),
           NEW cut \in Nat, cut >= 2, cut <= at[Len(records)],
           NEW n \in 0 .. Len(records), at[n] <= cut, n = Len(records) \/ at[n + 1] > cut
    PROVE  \E more : Parse(SubSeq(Page(records, FALSE), 1, cut)) = Says(FirstOf(Start(records, n), n), more)
<1> DEFINE N == Len(records)
           p == Page(records, FALSE)
           c == SubSeq(p, 1, cut)
           first == Start(records, n)
           a == at[n]
           rest == SubSeq(c, a + 1, Len(c))
<1>1. /\ records \in Seq(Reportable) /\ N \in Nat /\ n \in Nat /\ n <= N
      /\ first \in ReportableLists /\ Len(first) = n /\ \A i \in 1 .. n : first[i] = records[i]
    BY ListIs, Parts DEF ReportableLists
<1>2. /\ a \in Nat /\ at[N] \in Nat
      /\ \A i \in 0 .. n : at[i] \in Nat /\ at[i] <= a
    BY <1>1, LayoutGrows
<1>3. /\ p \in Seq(Nat) /\ Len(p) = at[N] + 2 /\ p[2] = N /\ HoldsRecords(p, at, records)
    BY DEF PageOf
<1> HIDE DEF p
<1>4. cut <= Len(p)
    BY <1>2, <1>3
<1>5. c \in Seq(Nat) /\ Len(c) = cut /\ \A k \in 1 .. cut : c[k] = p[k]
    BY <1>3, <1>4, StartOf
<1> HIDE DEF c
<1>6. PICK other : Layout(other, first)
    <2>1. first \in Seq(Reportable)
        BY <1>1 DEF ReportableLists
    <2> QED
        BY <2>1, PageIs
<1>7. \A i \in 0 .. n : other[i] = at[i]
    BY <1>6, SameLayout
<1> HIDE DEF first, a, N
<1>8. HoldsRecords(c, other, first)
    <2> SUFFICES ASSUME NEW i \in 1 .. n PROVE HoldsRecord(c, other[i - 1], first[i])
        BY <1>1 DEF HoldsRecords
    <2> DEFINE r == records[i]
               b == at[i - 1]
               m == Len(r[2])
    <2>1. /\ i \in 1 .. N /\ i \in 0 .. n /\ i - 1 \in 0 .. n
          /\ other[i - 1] = b /\ first[i] = r
        BY <1>1, <1>7
    <2>2. m \in Nat
        BY <1>1, <2>1, ListIs DEF N
    <2>3. b \in Nat /\ at[i] = b + 3 + m /\ at[i] <= cut
        <3>1. at[i] = b + 3 + m
            BY <2>1 DEF Layout, N
        <3>2. b \in Nat /\ at[i] <= a /\ at[i] \in Nat /\ a <= cut
            BY <1>2, <2>1 DEF a
        <3> QED
            BY <1>2, <3>1, <3>2
    <2>4. HoldsRecord(p, b, r)
        BY <1>3, <2>1 DEF HoldsRecords, N
    <2>5. /\ p[b + 1] + 256 * p[b + 2] = r[1] /\ p[b + 3] = m
          /\ \A j \in 1 .. m : p[b + 3 + j] = r[2][j]
        BY <2>4 DEF HoldsRecord
    <2> HIDE DEF r, b, m
    <2>6. /\ b + 3 + m <= cut
          /\ b + 1 \in 1 .. cut /\ b + 2 \in 1 .. cut /\ b + 3 \in 1 .. cut
          /\ \A j \in 1 .. m : b + 3 + j \in 1 .. cut
        BY <2>2, <2>3
    <2>7. c[b + 1] = p[b + 1] /\ c[b + 2] = p[b + 2] /\ c[b + 3] = p[b + 3]
        BY <1>5, <2>6
    <2>8. \A j \in 1 .. m : c[b + 3 + j] = r[2][j]
        BY <1>5, <2>5, <2>6
    <2>9. b + 3 + Len(r[2]) <= Len(c) /\ c[b + 1] + 256 * c[b + 2] = r[1] /\ c[b + 3] = Len(r[2])
        BY <1>5, <2>5, <2>6, <2>7 DEF m
    <2>10. HoldsRecord(c, b, r)
        BY <2>8, <2>9 DEF HoldsRecord, m
    <2> QED
        BY <2>1, <2>10
<1>9. c[2] = N
    <2>1. 2 \in 1 .. cut
        OBVIOUS
    <2> QED
        BY <1>3, <1>5, <2>1
<1>10. a <= cut /\ Leaves(c, a, rest)
    <2>1. a <= cut
        BY DEF a
    <2>2. a <= Len(c)
        BY <1>5, <2>1
    <2> QED
        BY <1>2, <1>5, <2>1, <2>2, RestIs
<1>11. c[2] # n => NoRecord(rest)
    <2> HIDE DEF rest
    <2> SUFFICES ASSUME c[2] # n PROVE NoRecord(rest)
        OBVIOUS
    <2> DEFINE m == Len(records[n + 1][2])
    <2>1. n + 1 \in 1 .. N /\ (n + 1) - 1 = n /\ n # N
        BY <1>1, <1>9
    <2>2. m \in Nat
        BY <1>1, <2>1, ListIs DEF N
    <2>3. at[n + 1] > cut /\ at[n + 1] = a + 3 + m
        BY <2>1 DEF Layout, N, a
    <2>4. HoldsRecord(p, a, records[n + 1])
        BY <1>3, <2>1 DEF HoldsRecords, N, a
    <2>5. p[a + 3] = m
        BY <2>4 DEF HoldsRecord
    <2> HIDE DEF m
    <2>6. Len(rest) = cut - a /\ \A k \in 1 .. cut - a : rest[k] = c[a + k]
        BY <1>5, <1>10 DEF Leaves
    <2>7. cut - a < 3 + m
        BY <1>2, <1>10, <2>2, <2>3
    <2>8. CASE cut - a < 3
        BY <2>6, <2>8 DEF NoRecord
    <2>9. CASE ~(cut - a < 3)
        <3>1. 3 \in 1 .. cut - a /\ a + 3 \in 1 .. cut
            BY <1>2, <1>10, <2>9
        <3>2. rest[3] = c[a + 3] /\ c[a + 3] = p[a + 3]
            BY <1>5, <2>6, <3>1
        <3>3. rest[3] = m
            BY <2>5, <3>2
        <3> QED
            BY <2>6, <2>7, <3>3 DEF NoRecord
    <2> QED
        BY <2>8, <2>9
<1>12. other[Len(first)] = a
    <2>1. n \in 0 .. n
        BY <1>1
    <2> QED
        BY <1>1, <1>7, <2>1 DEF a
<1>13. c[2] \in Nat /\ c[2] >= Len(first) /\ Len(c) >= other[Len(first)]
    BY <1>1, <1>5, <1>9, <1>10, <1>12
<1>14. Parse(c) = Says(FirstOf(first, n), MoreToCome(rest))
    <2> HIDE DEF rest
    <2>1. SubSeq(c, other[Len(first)] + 1, Len(c)) = rest
        BY <1>12 DEF rest
    <2>2. c[2] # Len(first) => NoRecord(SubSeq(c, other[Len(first)] + 1, Len(c)))
        BY <1>1, <1>11, <2>1
    <2>3. Parse(c) = Says(FirstOf(first, Len(first)), MoreToCome(SubSeq(c, other[Len(first)] + 1, Len(c))))
        BY <1>1, <1>5, <1>6, <1>8, <1>13, <2>2, ParsedIs
    <2> QED
        BY <1>1, <2>1, <2>3
<1> QED
    BY <1>14 DEF c, p, first

LEMMA CutIsAt ==
    ASSUME NEW records \in ReportableLists, NEW at, Layout(at, records),
           NEW cut \in Nat, cut >= 2
    PROVE  \E n \in 0 .. Len(records) : at[n] <= cut /\ (n = Len(records) \/ at[n + 1] > cut)
<1> DEFINE N == Len(records)
           T == {n \in Nat : n = N \/ (n < N /\ at[n + 1] > cut)}
<1>1. N \in Nat /\ at[0] = 2 /\ \A i \in 0 .. N : at[i] \in Nat
    BY ListIs DEF ReportableLists, Layout
<1> HIDE DEF N
<1>2. N \in T /\ T \in SUBSET Nat
    BY <1>1
<1>3. PICK n \in T : \A m \in T : n <= m
    <2> HIDE DEF T
    <2>1. T # {}
        BY <1>2
    <2> QED
        BY <1>2, <2>1, Least
<1>4. n \in 0 .. N /\ (n = N \/ at[n + 1] > cut)
    BY <1>1, <1>3
<1>5. at[n] <= cut
    <2>1. CASE n = 0
        BY <1>1, <2>1
    <2>2. CASE n # 0
        <3>1. n - 1 \in Nat /\ n - 1 < N /\ ~(n <= n - 1) /\ (n - 1) + 1 = n
            BY <1>1, <1>4, <2>2
        <3>2. n - 1 \notin T
            BY <1>3, <3>1
        <3>3. ~(at[n] > cut)
            BY <3>1, <3>2
        <3>4. at[n] \in Nat
            BY <1>1, <1>4
        <3> QED
            BY <3>3, <3>4
    <2> QED
        BY <2>1, <2>2
<1> QED
    BY <1>4, <1>5 DEF N

\* What a client is offered, of whatever the unit has.
LEMMA OfferedIsAccepted ==
    ASSUME NEW caps
    PROVE  /\ \A m \in OperationalModes(caps) : Accepts([NoRequest EXCEPT !.mode = {m}])
           /\ \A s \in SwingModes(caps) : Accepts([NoRequest EXCEPT !.swing_mode = {s}])
           /\ \A v \in FanSpeedValues(caps) : Accepts([NoRequest EXCEPT !.fan_speed = {v}])
<1>1. ASSUME NEW f \in Askable, NEW x
      PROVE  LET request == [NoRequest EXCEPT ![f] = {x}] IN
             /\ request[f] = {x}
             /\ \A g \in Askable : g # f => request[g] = {}
    BY DEF NoRequest, Askable, None
<1>2. {"mode", "swing_mode", "fan_speed", "target_temperature"} \subseteq Askable
    BY DEF Askable
<1>3. ASSUME NEW m \in OperationalModes(caps) PROVE Accepts([NoRequest EXCEPT !.mode = {m}])
    <2> DEFINE request == [NoRequest EXCEPT !.mode = {m}]
    <2>1. /\ request.mode = {m} /\ request.swing_mode = {} /\ request.fan_speed = {}
          /\ request.target_temperature = {}
        BY <1>1, <1>2
    <2>2. m \in {"FAN_ONLY", "DRY", "COOL", "HEAT", "AUTO"}
        BY DEF OperationalModes
    <2>3. Upper(m) = m
        BY <2>2 DEF Upper, Spellings
    <2> HIDE DEF request
    <2>4. Accepts(request)
        BY <2>1, <2>2, <2>3 DEF Accepts
    <2> QED
        BY <2>4 DEF request
<1>4. ASSUME NEW s \in SwingModes(caps) PROVE Accepts([NoRequest EXCEPT !.swing_mode = {s}])
    <2> DEFINE request == [NoRequest EXCEPT !.swing_mode = {s}]
    <2>1. /\ request.swing_mode = {s} /\ request.mode = {} /\ request.fan_speed = {}
          /\ request.target_temperature = {}
        BY <1>1, <1>2
    <2>2. s \in {"OFF", "HORIZONTAL", "VERTICAL", "BOTH"}
        BY DEF SwingModes
    <2>3. Upper(s) = s
        BY <2>2 DEF Upper, Spellings
    <2> HIDE DEF request
    <2>4. Accepts(request)
        BY <2>1, <2>2, <2>3 DEF Accepts
    <2> QED
        BY <2>4 DEF request
<1>5. ASSUME NEW v \in FanSpeedValues(caps) PROVE Accepts([NoRequest EXCEPT !.fan_speed = {v}])
    <2> DEFINE request == [NoRequest EXCEPT !.fan_speed = {v}]
    <2>1. /\ request.fan_speed = {v} /\ request.mode = {} /\ request.swing_mode = {}
          /\ request.target_temperature = {}
        BY <1>1, <1>2
    <2>2. v \in AllowedFanSpeeds
        BY DEF FanSpeedValues, AllowedFanSpeeds
    <2> HIDE DEF request
    <2>3. Accepts(request)
        BY <2>1, <2>2 DEF Accepts
    <2> QED
        BY <2>3 DEF request
<1> QED
    BY <1>3, <1>4, <1>5

LEMMA ExtremeOfThree ==
    ASSUME NEW a \in Nat, NEW b \in Nat, NEW c \in Nat
    PROVE  Min({a, b, c}) \in {a, b, c} /\ Max({a, b, c}) \in {a, b, c}
<1>1. \E x \in {a, b, c} : \A y \in {a, b, c} : x <= y
    BY SMT
<1>2. \E x \in {a, b, c} : \A y \in {a, b, c} : x >= y
    BY SMT
<1> QED
    BY <1>1, <1>2 DEF Min, Max

\* The limits are what a unit said, or the API's own.
LEMMA LimitIs ==
    ASSUME NEW options, NEW default \in Nat, options \subseteq Nat
    PROVE  /\ Or(options, default) \in Nat
           /\ Or(options, default) = default \/ Or(options, default) \in options
BY DEF Or, None

\* What of the range a client is offered is refused, the unit told of.
LEMMA RangeIsTold ==
    ASSUME NEW caps, \A i \in 1 .. 6 : caps.limits[i] \subseteq Nat,
           NEW t \in MinTemperature(caps) .. MaxTemperature(caps)
    PROVE  Accepts([NoRequest EXCEPT !.target_temperature = {5 * t}]) \/ ToldOfMore(caps, t)
<1> DEFINE low(i) == Or(caps.limits[i], 32)
           high(i) == Or(caps.limits[i], 60)
<1>1. \A i \in 1 .. 6 : /\ low(i) \in Nat /\ (low(i) = 32 \/ low(i) \in caps.limits[i])
                        /\ high(i) \in Nat /\ (high(i) = 60 \/ high(i) \in caps.limits[i])
    BY LimitIs
<1> HIDE DEF low, high
<1>2. MinTemperature(caps) = Min({low(1), low(3), low(5)})
    <2>1. {low(i) : i \in {1, 3, 5}} = {low(1), low(3), low(5)}
        OBVIOUS
    <2> QED
        BY <2>1 DEF MinTemperature, low
<1>3. MaxTemperature(caps) = Max({high(2), high(4), high(6)})
    <2>1. {high(i) : i \in {2, 4, 6}} = {high(2), high(4), high(6)}
        OBVIOUS
    <2> QED
        BY <2>1 DEF MaxTemperature, high
<1>4. PICK i \in {1, 3, 5} : MinTemperature(caps) = low(i)
    <2>1. low(1) \in Nat /\ low(3) \in Nat /\ low(5) \in Nat
        BY <1>1
    <2>2. Min({low(1), low(3), low(5)}) \in {low(1), low(3), low(5)}
        BY <2>1, ExtremeOfThree
    <2> QED
        BY <1>2, <2>2
<1>5. PICK j \in {2, 4, 6} : MaxTemperature(caps) = high(j)
    <2>1. high(2) \in Nat /\ high(4) \in Nat /\ high(6) \in Nat
        BY <1>1
    <2>2. Max({high(2), high(4), high(6)}) \in {high(2), high(4), high(6)}
        BY <2>1, ExtremeOfThree
    <2> QED
        BY <1>3, <2>2
<1>6. t \in Int /\ low(i) <= t /\ t <= high(j)
    <2>1. low(i) \in Int /\ high(j) \in Int
        BY <1>1
    <2> QED
        BY <1>4, <1>5, <2>1
<1>7. CASE t < 32
    <2>1. low(i) # 32
        BY <1>1, <1>6, <1>7
    <2> QED
        BY <1>1, <1>6, <1>7, <2>1 DEF ToldOfMore
<1>8. CASE t > 60
    <2>1. high(j) # 60
        BY <1>1, <1>6, <1>8
    <2> QED
        BY <1>1, <1>6, <1>8, <2>1 DEF ToldOfMore
<1>9. CASE t \in 32 .. 60
    <2> DEFINE request == [NoRequest EXCEPT !.target_temperature = {5 * t}]
    <2>1. /\ request.target_temperature = {5 * t} /\ request.mode = {}
          /\ request.swing_mode = {} /\ request.fan_speed = {}
        BY DEF NoRequest, Askable, None
    <2>2. 5 * t \in 160 .. 300 /\ (5 * t) % 5 = 0
        BY <1>9
    <2> HIDE DEF request
    <2>3. Accepts(request)
        BY <2>1, <2>2 DEF Accepts, TempMin, TempMax
    <2> QED
        BY <2>3 DEF request
<1> QED
    BY <1>6, <1>7, <1>8, <1>9

\* What is shown of the flaps.
LEMMA FlapsAreOffered ==
    ASSUME NEW caps,
           NEW axis \in {<<"swing_horizontal", "HORIZONTAL">>, <<"swing_vertical", "VERTICAL">>}
    PROVE  SupportsSwing(caps, axis[1]) \in {None, {(axis[2] \in SwingModes(caps))}}
<1>1. (axis[1] \in caps.has \/ SwingBoth(caps)) <=> axis[1] \in caps.has
    BY DEF SwingBoth
<1>2. axis[2] \in SwingModes(caps) <=> axis[1] \in caps.has
    BY DEF SwingModes
<1>3. (axis[1] \in caps.has \/ SwingBoth(caps)) = (axis[2] \in SwingModes(caps))
    BY <1>1, <1>2
<1> QED
    BY <1>3 DEF SupportsSwing

\* What records say of the limits are bytes of theirs.
LEMMA LimitsAreBytes ==
    ASSUME NEW records \in ReportableLists, NEW more
    PROVE  \A i \in 1 .. 6 : Says(FirstOf(records, Len(records)), more).limits[i] \subseteq Nat
<1>1. FirstOf(records, Len(records)) \subseteq Reportable
    BY DEF ReportableLists, FirstOf
<1>2. ASSUME NEW r \in Reportable, Limiting(r), NEW i \in 1 .. 6 PROVE r[2][i] \in Nat
    <2>1. PICK v : v = r[2]
        OBVIOUS
    <2>2. v \in Seq(0 .. 255) /\ Len(v) >= 6
        BY <1>2, <2>1 DEF Reportable, RecordValues, Limiting
    <2>3. Len(v) \in Nat
        BY <2>2
    <2>4. i \in 1 .. Len(v)
        BY <2>2, <2>3
    <2>5. \A B : v \in Seq(B) => v[i] \in B
        BY <2>4
    <2>6. v[i] \in 0 .. 255
        BY <2>2, <2>5
    <2> QED
        BY <2>1, <2>6
<1> QED
    BY <1>1, <1>2 DEF Says, LimitsFrom

LEMMA SaidSays ==
    ASSUME NEW R, NEW more
    PROVE  Said(Says(R, more)) = Says(R, FALSE)
<1>1. PICK no : no = FALSE
    OBVIOUS
<1>2. PICK H, L, U : H = FeaturesFrom(R) /\ L = LimitsFrom(R) /\ U = UnknownFrom(R)
    OBVIOUS
<1>3. PICK caps : caps = Says(R, more)
    OBVIOUS
<1>4. caps = [has |-> H, limits |-> L, additional |-> more, unknown_ids |-> U]
    BY <1>2, <1>3 DEF Says
<1>5. [caps EXCEPT !.additional = no] = [has |-> H, limits |-> L, additional |-> no, unknown_ids |-> U]
    BY <1>4
<1>6. Said(caps) = [caps EXCEPT !.additional = no]
    BY <1>1 DEF Said
<1>7. Says(R, FALSE) = [has |-> H, limits |-> L, additional |-> no, unknown_ids |-> U]
    BY <1>1, <1>2 DEF Says
<1> QED
    BY <1>3, <1>5, <1>6, <1>7

\* merge and parse (capabilities.rs): for every list of records, of any ids, none twice, and
\* values that a payload has room for, wherever it is split in two and wherever it is cut off, what is known of
\* the unit is what the records say together or the whole ones do; and what is offered is accepted,
\* but for the temperatures that only the unit itself told of.
THEOREM AnyListAddsUp == \A records \in ReportableLists : AddsUp(records)
<1> SUFFICES ASSUME NEW records \in ReportableLists PROVE AddsUp(records)
    OBVIOUS
<1> DEFINE N == Len(records)
           Here(cut, n) == /\ Reach(records, n) <= cut
                           /\ n = N \/ Reach(records, n + 1) > cut
<1>1. N \in Nat /\ records \in Seq(Reportable)
    BY ListIs DEF ReportableLists
<1>2. PICK at : Layout(at, records) /\ PageOf(Page(records, FALSE), at, records, FALSE)
    BY <1>1, PageIs
<1>3. \A n \in 0 .. N : Reach(records, n) = at[n] /\ at[n] \in Nat
    BY <1>2, ReachIs DEF Layout
<1>4. ASSUME NEW cut \in 2 .. Reach(records, N)
      PROVE  LET n == CHOOSE n \in 0 .. N : Here(cut, n) IN
             Said(Parse(SubSeq(Page(records, FALSE), 1, cut))) = Said(Parse(Page(Start(records, n), FALSE)))
    <2> DEFINE n == CHOOSE n \in 0 .. N : Here(cut, n)
    <2>1. N \in 0 .. N
        BY <1>1
    <2>2. cut \in Nat /\ cut >= 2 /\ cut <= at[N]
        BY <1>3, <2>1
    <2>3. \A k \in 0 .. N : Here(cut, k) <=> (at[k] <= cut /\ (k = N \/ at[k + 1] > cut))
        <3> SUFFICES ASSUME NEW k \in 0 .. N
                     PROVE  Here(cut, k) <=> (at[k] <= cut /\ (k = N \/ at[k + 1] > cut))
            OBVIOUS
        <3>1. k = N \/ k + 1 \in 0 .. N
            BY <1>1
        <3> QED
            BY <1>3, <3>1
    <2>4. \E k \in 0 .. N : Here(cut, k)
        BY <1>2, <2>2, <2>3, CutIsAt
    <2>5. n \in 0 .. N /\ Here(cut, n)
        <3> HIDE DEF Here, N
        <3> QED
            BY <2>4
    <2>6. at[n] <= cut /\ (n = N \/ at[n + 1] > cut)
        BY <2>3, <2>5
    <2> HIDE DEF n
    <2>7. PICK more : Parse(SubSeq(Page(records, FALSE), 1, cut)) = Says(FirstOf(Start(records, n), n), more)
        BY <1>2, <2>2, <2>5, <2>6, CutPage
    <2>8. Start(records, n) \in ReportableLists /\ Len(Start(records, n)) = n
        BY <2>5, Parts
    <2>9. Parse(Page(Start(records, n), FALSE)) = Says(FirstOf(Start(records, n), n), FALSE)
        BY <2>8, WholePage
    <2>10. \A R, other : Said(Says(R, other)) = Says(R, FALSE)
        BY SaidSays
    <2>11. Said(Parse(SubSeq(Page(records, FALSE), 1, cut))) = Said(Parse(Page(Start(records, n), FALSE)))
        <3>1. Said(Says(FirstOf(Start(records, n), n), more)) = Says(FirstOf(Start(records, n), n), FALSE)
            BY <2>10
        <3>2. Said(Says(FirstOf(Start(records, n), n), FALSE)) = Says(FirstOf(Start(records, n), n), FALSE)
            BY <2>10
        <3> QED
            BY <2>7, <2>9, <3>1, <3>2
    <2> QED
        BY <2>11 DEF n
<1>5. \A i \in 1 .. 6 : Parse(Page(records, FALSE)).limits[i] \subseteq Nat
    BY WholePage, LimitsAreBytes
<1> QED
    BY <1>4, <1>5, TwoPages, OfferedIsAccepted, RangeIsTold, FlapsAreOffered DEF AddsUp

LEMMA ListsAreReportable == Lists \subseteq ReportableLists
<1>1. Records \subseteq Reportable
    <2> DEFINE B == 0 .. 255
    <2>1. /\ 0 \in B /\ 1 \in B /\ 2 \in B /\ 3 \in B /\ 9 \in B /\ 32 \in B /\ 34 \in B
          /\ 40 \in B /\ 60 \in B /\ 64 \in B
        OBVIOUS
    <2>2. /\ MODES \in RecordIds /\ SWING_MODES \in RecordIds /\ FAN_SPEED_CONTROL \in RecordIds
          /\ TEMPERATURES \in RecordIds /\ UNKNOWN_0040 \in RecordIds /\ 2457 \in RecordIds
        BY DEF RecordIds, MODES, SWING_MODES, FAN_SPEED_CONTROL, TEMPERATURES, UNKNOWN_0040
    <2>3. \A v \in Seq(B) : Len(v) <= 255 => v \in RecordValues
        BY DEF RecordValues
    <2> HIDE DEF B
    <2>4. ASSUME NEW v \in Seq(B), Len(v) \in {0, 1, 2, 6, 7} PROVE v \in RecordValues
        <3>1. Len(v) = 0 \/ Len(v) = 1 \/ Len(v) = 2 \/ Len(v) = 6 \/ Len(v) = 7
            BY <2>4
        <3>2. \A n : n = 0 \/ n = 1 \/ n = 2 \/ n = 6 \/ n = 7 => n <= 255
            OBVIOUS
        <3>3. Len(v) <= 255
            BY <3>1, <3>2
        <3> QED
            BY <2>3, <3>3
    <2>5. <<>> \in RecordValues
        <3>1. <<>> \in Seq(B) /\ Len(<<>>) = 0
            BY EmptySeq
        <3> QED
            BY <2>4, <3>1
    <2>6. \A a \in B : <<a>> \in RecordValues
        <3>1. \A a \in B : <<a>> \in Seq(B) /\ Len(<<a>>) = 1
            OBVIOUS
        <3> QED
            BY <2>4, <3>1
    <2>7. \A a, b \in B : <<a, b>> \in RecordValues
        <3>1. \A a, b \in B : <<a, b>> \in Seq(B) /\ Len(<<a, b>>) = 2
            OBVIOUS
        <3> QED
            BY <2>4, <3>1
    <2>8. \A a, b, c, d, e, f \in B : <<a, b, c, d, e, f>> \in RecordValues
        <3>1. \A a, b, c, d, e, f \in B : /\ <<a, b, c, d, e, f>> \in Seq(B)
                                         /\ Len(<<a, b, c, d, e, f>>) = 6
            OBVIOUS
        <3> QED
            BY <2>4, <3>1
    <2>9. \A a, b, c, d, e, f, g \in B : <<a, b, c, d, e, f, g>> \in RecordValues
        <3>1. \A a, b, c, d, e, f, g \in B : /\ <<a, b, c, d, e, f, g>> \in Seq(B)
                                            /\ Len(<<a, b, c, d, e, f, g>>) = 7
            OBVIOUS
        <3> QED
            BY <2>4, <3>1
    <2>10. \A id \in RecordIds, v \in RecordValues : <<id, v>> \in Reportable
        BY DEF Reportable
    <2>11. /\ <<1>> \in RecordValues /\ <<3>> \in RecordValues /\ <<0>> \in RecordValues
           /\ <<2>> \in RecordValues /\ <<1, 9>> \in RecordValues /\ <<34, 60>> \in RecordValues
        BY <2>1, <2>6, <2>7
    <2>12. /\ <<34, 60, 32, 60, 40, 64>> \in RecordValues
           /\ <<32, 60, 32, 60, 32, 60, 0>> \in RecordValues
        BY <2>1, <2>8, <2>9
    <2>13. <<MODES, <<1>>>> \in Reportable
        BY <2>2, <2>11, <2>10
    <2>14. <<MODES, <<>>>> \in Reportable
        BY <2>2, <2>5, <2>10
    <2>15. <<FAN_SPEED_CONTROL, <<1>>>> \in Reportable
        BY <2>2, <2>11, <2>10
    <2>16. <<FAN_SPEED_CONTROL, <<3>>>> \in Reportable
        BY <2>2, <2>11, <2>10
    <2>17. <<SWING_MODES, <<0>>>> \in Reportable
        BY <2>2, <2>11, <2>10
    <2>18. <<SWING_MODES, <<1, 9>>>> \in Reportable
        BY <2>2, <2>11, <2>10
    <2>19. <<TEMPERATURES, <<34, 60, 32, 60, 40, 64>>>> \in Reportable
        BY <2>2, <2>12, <2>10
    <2>20. <<TEMPERATURES, <<34, 60>>>> \in Reportable
        BY <2>2, <2>11, <2>10
    <2>21. <<TEMPERATURES, <<32, 60, 32, 60, 32, 60, 0>>>> \in Reportable
        BY <2>2, <2>12, <2>10
    <2>22. <<UNKNOWN_0040, <<2>>>> \in Reportable
        BY <2>2, <2>11, <2>10
    <2>23. <<2457, <<1>>>> \in Reportable
        BY <2>2, <2>11, <2>10
    <2> QED
        BY <2>13, <2>14, <2>15, <2>16, <2>17, <2>18, <2>19, <2>20, <2>21, <2>22, <2>23
           DEF Records
<1>2. ASSUME NEW l \in Lists PROVE l \in ReportableLists
    <2>1. CASE l = <<>>
        <3>1. l \in Seq(Reportable) /\ Len(l) = 0
            BY <2>1, EmptySeq
        <3> QED
            BY <3>1 DEF ReportableLists, Distinct
    <2>2. CASE l \in {<<r>> : r \in Records}
        <3>1. PICK r \in Records : l = <<r>>
            BY <2>2
        <3>2. r \in Reportable
            BY <1>1
        <3>3. l \in Seq(Reportable) /\ Len(l) = 1
            BY <3>1, <3>2
        <3>4. \A i, j \in 1 .. 1 : i = j
            OBVIOUS
        <3>5. Distinct(l)
            BY <3>3, <3>4 DEF Distinct
        <3> QED
            BY <3>3, <3>5 DEF ReportableLists
    <2>3. CASE l \in {k \in Records \X Records \X Records :
                        \A i, j \in DOMAIN k : i # j => k[i][1] # k[j][1]}
        <3>1. PICK a \in Records, b \in Records, c \in Records : l = <<a, b, c>>
            BY <2>3
        <3>2. a \in Reportable /\ b \in Reportable /\ c \in Reportable
            BY <1>1
        <3>3. l \in Seq(Reportable) /\ Len(l) = 3 /\ DOMAIN l = 1 .. Len(l)
            BY <3>1, <3>2
        <3>4. Distinct(l)
            BY <2>3, <3>3 DEF Distinct
        <3>5. Len(l) <= 255
            BY <3>3
        <3> HIDE DEF Distinct
        <3> QED
            BY <3>3, <3>4, <3>5, Zenon DEF ReportableLists
    <2> QED
        BY <2>1, <2>2, <2>3 DEF Lists
<1> QED
    BY <1>2

\* The ones a run checks.
THEOREM CapabilitiesAreTold == Spec => []CapabilitiesAddUp
<1>1. CapabilitiesAddUp
    BY AnyListAddsUp, ListsAreReportable DEF CapabilitiesAddUp, EveryAnswer
<1> QED
    BY <1>1, PTL
=============================================================================
