-------------------------- MODULE StateStreamProofs --------------------------
(***************************************************************************)
(* Proofs about StateStream, for any set of clients and units, any number   *)
(* of places and lanes, and any depth of the queues.                       *)
(***************************************************************************)
EXTENDS StateStream, FiniteSetTheorems, TLAPS

Event == [unit : Units, state : States]

\* Everything TypeOK says but what a walk is, which nothing here depends on.
Typed ==
    /\ known \subseteq Units
    /\ last \in [Units -> States \cup {Nothing}]
    /\ poller \in {"check", "alone", "locked", "waiting", "polling", "resting"}
    /\ stage \in [Units -> {"due", "read", "stored", "done"}]
    /\ got \in [Units -> States \cup {Nothing}]
    /\ subs \subseteq Clients /\ IsFiniteSet(subs)
    /\ queue \in [Clients -> Seq(Event)]
    /\ missed \in [Clients -> SUBSET Units]
    /\ pc \in [Clients -> {"away", "connected", "subscribed", "nudged", "streaming", "leaving"}]
    /\ order \in [Clients -> SUBSET Units]
    /\ here \in [Clients -> BOOLEAN]
    /\ shown \in [Clients -> [Units -> States \cup {Nothing}]]

\* A unit's lane is between read and broadcast only while a walk is under way;
\* read, it has a state, and stored, that is the one everybody can look up.
LanesBusy ==
    /\ poller # "polling" => \A u \in Units : stage[u] = "done"
    /\ \A u \in Units : stage[u] \in {"read", "stored"} => got[u] \in States
    /\ \A u \in Units : stage[u] = "stored" => got[u] = last[u]

\* Before its snapshot a client has seen nothing, before its subscription nothing
\* is queued for it.
Untouched ==
    \A c \in Clients :
        /\ pc[c] \in {"away", "connected", "subscribed", "nudged"} => shown[c] = Blank
        /\ pc[c] \in {"away", "connected"} => queue[c] = <<>> /\ missed[c] = {}

\* What is queued for a client about a unit ends with the state that is stored,
\* unless the event of it was dropped or is still to come.
LastQueued(c, u) ==
    \E i \in DOMAIN queue[c] :
        /\ queue[c][i].unit = u /\ queue[c][i].state = last[u]
        /\ \A j \in DOMAIN queue[c] : queue[c][j].unit = u => j <= i
NoneQueued(c, u) == \A i \in DOMAIN queue[c] : queue[c][i].unit # u

Current ==
    \A c \in Clients, u \in Units :
        c \in subs /\ u \notin missed[c] /\ stage[u] # "stored" =>
            \/ LastQueued(c, u)
            \/ /\ NoneQueued(c, u)
               /\ pc[c] = "streaming" /\ u \in order[c] => shown[c][u] = last[u]

StreamInvariant == Typed /\ PlacesHeld /\ NoMissedWake /\ LanesBusy /\ Untouched /\ Current
-----------------------------------------------------------------------------
LEMMA Beginning == Init => StreamInvariant
<1> SUFFICES ASSUME Init PROVE StreamInvariant
    OBVIOUS
<1>1. Cardinality(subs) = 0 /\ IsFiniteSet(subs)
    BY FS_EmptySet DEF Init
<1>2. Blank \in [Units -> States \cup {Nothing}]
    BY DEF Blank
<1> QED
    BY <1>1, <1>2, BoundAssumption
    DEF Init, StreamInvariant, Typed, PlacesHeld, NoMissedWake, LanesBusy, Untouched, Current

\* Current, when nothing is stored, and a client that listens listened before, with
\* the same queue and, if it is past its snapshot, the same picture.
LEMMA CurrentKept ==
    ASSUME Current, UNCHANGED <<last, stage>>,
           \A d \in Clients : d \in subs' =>
               /\ d \in subs /\ queue'[d] = queue[d] /\ missed'[d] = missed[d]
               /\ pc'[d] = "streaming" =>
                      pc[d] = "streaming" /\ order'[d] = order[d] /\ shown'[d] = shown[d]
    PROVE  Current'
<1> SUFFICES ASSUME NEW d \in Clients, NEW u \in Units, d \in subs', u \notin missed'[d], stage'[u] # "stored"
             PROVE  \/ LastQueued(d, u)'
                    \/ /\ NoneQueued(d, u)'
                       /\ pc'[d] = "streaming" /\ u \in order'[d] => shown'[d][u] = last'[u]
    BY DEF Current
<1>1. d \in subs /\ u \notin missed[d] /\ stage[u] # "stored" /\ queue'[d] = queue[d]
    OBVIOUS
<1>2. CASE LastQueued(d, u)
    BY <1>1, <1>2 DEF LastQueued
<1>3. CASE NoneQueued(d, u) /\ (pc[d] = "streaming" /\ u \in order[d] => shown[d][u] = last[u])
    BY <1>1, <1>3 DEF NoneQueued
<1> QED
    BY <1>1, <1>2, <1>3 DEF Current

\* Steps of the poller that neither read, store nor broadcast.
LEMMA WalkSteps ==
    ASSUME StreamInvariant,
           FindNobody \/ Lock \/ WaitOrNot \/ WakeSpuriously \/ StartRound \/ EndRound \/ Resume
    PROVE  StreamInvariant'
<1> USE DEF StreamInvariant, FindNobody, Lock, WaitOrNot, WakeSpuriously, StartRound, EndRound, Resume,
            unitVars, clientVars
<1>1. UNCHANGED <<unitVars, last, got, subs, queue, missed, clientVars>>
    OBVIOUS
<1>2. Typed'
    BY <1>1 DEF Typed
<1>3. PlacesHeld' /\ Untouched'
    BY <1>1 DEF PlacesHeld, Untouched
<1>4. NoMissedWake'
    BY <1>1 DEF NoMissedWake
<1>5. LanesBusy'
    BY <1>1 DEF LanesBusy, Typed
<1>6. \A u \in Units : stage'[u] # "stored" => stage[u] # "stored"
    BY DEF LanesBusy
<1>7. Current'
    BY <1>1, <1>6 DEF Current, LastQueued, NoneQueued
<1> QED
    BY <1>2, <1>3, <1>4, <1>5, <1>7

LEMMA OfflineType == ASSUME Typed, NEW u \in Units PROVE OfflineValue(u) \in States
<1>1. CASE last[u] = Nothing
    BY <1>1 DEF OfflineValue, Offline, States
<1>2. CASE last[u] # Nothing
    <2>1. last[u] \in States
        BY <1>2 DEF Typed
    <2>2. [last[u] EXCEPT !.online = FALSE] \in States
        BY <2>1 DEF States
    <2> QED
        BY <1>2, <2>2 DEF OfflineValue
<1> QED
    BY <1>1, <1>2

LEMMA ReadStep == ASSUME StreamInvariant, NEW u \in Units, Read(u) PROVE StreamInvariant'
<1> USE DEF StreamInvariant, Read, unitVars, clientVars
<1>1. \E s \in States : got' = [got EXCEPT ![u] = s]
    BY OfflineType DEF Online, States
<1>2. Typed'
    BY <1>1 DEF Typed
<1>3. PlacesHeld' /\ Untouched' /\ NoMissedWake'
    BY DEF PlacesHeld, Untouched, NoMissedWake
<1>4. LanesBusy'
    BY <1>1 DEF LanesBusy, Typed
<1>5. Current'
    BY DEF Current, LastQueued, NoneQueued, Typed
<1> QED
    BY <1>2, <1>3, <1>4, <1>5

LEMMA StoreStep == ASSUME StreamInvariant, NEW u \in Units, Store(u) PROVE StreamInvariant'
<1> USE DEF StreamInvariant, Store, unitVars, clientVars
<1>0. got[u] \in States
    BY DEF LanesBusy
<1>1. /\ \A v \in Units : v # u => last'[v] = last[v] /\ stage'[v] = stage[v] /\ got'[v] = got[v]
      /\ last'[u] = got[u]
      /\ \/ last'[u] = last[u] /\ stage'[u] = "done"
         \/ stage'[u] = "stored" /\ got'[u] = got[u]
    BY DEF Typed
<1>2. Typed'
    BY <1>0 DEF Typed
<1>3. PlacesHeld' /\ Untouched' /\ NoMissedWake'
    BY DEF PlacesHeld, Untouched, NoMissedWake
<1>4. LanesBusy'
    BY <1>0, <1>1 DEF LanesBusy
<1>5. \A v \in Units : stage'[v] # "stored" => last'[v] = last[v] /\ stage[v] # "stored"
    BY <1>1
<1>6. Current'
    BY <1>5 DEF Current, LastQueued, NoneQueued
<1> QED
    BY <1>2, <1>3, <1>4, <1>6

\* A sequence of events with one more at its end, and without its first.
LEMMA QueueFacts ==
    ASSUME NEW q \in Seq(Event)
    PROVE  /\ Len(q) \in Nat /\ DOMAIN q = 1 .. Len(q)
           /\ \A e \in Event :
                 /\ Append(q, e) \in Seq(Event) /\ DOMAIN Append(q, e) = 1 .. Len(q) + 1
                 /\ Append(q, e)[Len(q) + 1] = e
                 /\ \A i \in 1 .. Len(q) : Append(q, e)[i] = q[i]
           /\ q # <<>> =>
                 /\ Tail(q) \in Seq(Event) /\ DOMAIN Tail(q) = 1 .. Len(q) - 1
                 /\ Head(q) = q[1] /\ Head(q) \in Event /\ Len(q) > 0
                 /\ \A i \in 1 .. Len(q) - 1 : Tail(q)[i] = q[i + 1]
OBVIOUS

LEMMA BroadcastStep == ASSUME StreamInvariant, NEW u \in Units, Broadcast(u) PROVE StreamInvariant'
<1> USE DEF StreamInvariant, Broadcast, unitVars, clientVars
<1> DEFINE e == [unit |-> u, state |-> got[u]]
<1>0. e \in Event /\ got[u] = last[u]
    BY DEF LanesBusy, Event
<1>1. \A c \in Clients :
          \/ c \notin subs /\ queue'[c] = queue[c] /\ missed'[c] = missed[c]
          \/ c \in subs /\ queue'[c] = Append(queue[c], e) /\ missed'[c] = missed[c] \ {u}
          \/ c \in subs /\ queue'[c] = queue[c] /\ missed'[c] = missed[c] \cup {u}
    BY DEF Queued
<1> HIDE DEF e
<1>2. Typed'
    <2>1. \A c \in Clients : queue'[c] \in Seq(Event) /\ missed'[c] \in SUBSET Units
        <3> SUFFICES ASSUME NEW c \in Clients PROVE queue'[c] \in Seq(Event) /\ missed'[c] \in SUBSET Units
            OBVIOUS
        <3>1. queue[c] \in Seq(Event) /\ missed[c] \in SUBSET Units
            BY DEF Typed
        <3>2. Append(queue[c], e) \in Seq(Event)
            BY <1>0, <3>1, QueueFacts
        <3> QED
            BY <1>1, <3>1, <3>2
    <2>2. queue' \in [Clients -> Seq(Event)] /\ missed' \in [Clients -> SUBSET Units]
        BY <2>1
    <2> QED
        BY <2>2 DEF Typed
<1>3. PlacesHeld' /\ NoMissedWake'
    BY DEF PlacesHeld, NoMissedWake
<1>4. Untouched'
    BY <1>1 DEF Untouched, PlacesHeld
<1>5. LanesBusy'
    BY DEF LanesBusy, Typed
<1>6. Current'
    <2> SUFFICES ASSUME NEW c \in Clients, NEW v \in Units, c \in subs, v \notin missed'[c], stage'[v] # "stored"
                 PROVE  \/ LastQueued(c, v)'
                        \/ /\ NoneQueued(c, v)'
                           /\ pc[c] = "streaming" /\ v \in order[c] => shown[c][v] = last[v]
        BY DEF Current
    <2>0. queue[c] \in Seq(Event)
        BY DEF Typed
    <2>1. CASE v = u
        <3>1. queue'[c] = Append(queue[c], e)
            BY <1>1, <2>1
        <3>2. LastQueued(c, u)'
            <4>1. /\ Len(queue[c]) + 1 \in DOMAIN queue'[c]
                  /\ queue'[c][Len(queue[c]) + 1] = e
                  /\ \A j \in DOMAIN queue'[c] : j <= Len(queue[c]) + 1
                BY <1>0, <2>0, <3>1, QueueFacts
            <4> QED
                BY <1>0, <4>1 DEF LastQueued, e
        <3> QED
            BY <2>1, <3>2
    <2>2. CASE v # u
        <3>1. v \notin missed[c] /\ stage[v] # "stored"
            BY <1>1, <2>2 DEF Typed
        <3>2. CASE queue'[c] = queue[c]
            BY <3>1, <3>2 DEF Current, LastQueued, NoneQueued
        <3>3. CASE queue'[c] = Append(queue[c], e)
            <4>1. /\ Len(queue[c]) \in Nat /\ DOMAIN queue[c] = 1 .. Len(queue[c])
                  /\ DOMAIN queue'[c] = 1 .. Len(queue[c]) + 1
                  /\ queue'[c][Len(queue[c]) + 1].unit = u
                  /\ \A i \in DOMAIN queue[c] : queue'[c][i] = queue[c][i]
                BY <1>0, <2>0, <3>3, QueueFacts, SMTT(20) DEF e
            <4>2. LastQueued(c, v) => LastQueued(c, v)'
                <5> SUFFICES ASSUME NEW i \in DOMAIN queue[c], queue[c][i].unit = v, queue[c][i].state = last[v],
                                    \A j \in DOMAIN queue[c] : queue[c][j].unit = v => j <= i
                             PROVE  LastQueued(c, v)'
                    BY DEF LastQueued
                <5>1. i \in DOMAIN queue'[c] /\ queue'[c][i] = queue[c][i]
                    BY <4>1
                <5>2. \A j \in DOMAIN queue'[c] : queue'[c][j].unit = v => j <= i
                    <6> SUFFICES ASSUME NEW j \in DOMAIN queue'[c], queue'[c][j].unit = v PROVE j <= i
                        OBVIOUS
                    <6>1. j # Len(queue[c]) + 1
                        BY <2>2, <4>1
                    <6>2. j \in DOMAIN queue[c]
                        BY <4>1, <6>1
                    <6> QED
                        BY <4>1, <6>2
                <5> QED
                    BY <5>1, <5>2 DEF LastQueued
            <4>3. NoneQueued(c, v) => NoneQueued(c, v)'
                BY <2>2, <4>1 DEF NoneQueued
            <4> QED
                BY <3>1, <4>2, <4>3 DEF Current
        <3> QED
            BY <1>1, <3>2, <3>3
    <2> QED
        BY <2>1, <2>2
<1> QED
    BY <1>2, <1>3, <1>4, <1>5, <1>6

\* Steps of a stream that leave queues and places alone.
LEMMA ConnectSteps ==
    ASSUME StreamInvariant, NEW c \in Clients, Connect(c) \/ Nudge(c) \/ KeepAlive(c) \/ HangUp(c)
    PROVE  StreamInvariant'
<1> USE DEF StreamInvariant, Connect, Nudge, KeepAlive, HangUp, Fails, unitVars, pollVars
<1>1. UNCHANGED <<last, stage, got, subs, queue, missed, shown>>
    OBVIOUS
<1>2. Typed'
    BY DEF Typed
<1>3. PlacesHeld'
    BY DEF PlacesHeld, Typed
<1>4. NoMissedWake'
    BY DEF NoMissedWake, PlacesHeld, Typed
<1>5. LanesBusy'
    BY DEF LanesBusy
<1>6. Untouched'
    BY DEF Untouched, Typed
<1>7. Current'
    <2>1. \A d \in subs : d \in Clients /\ (pc'[d] = "streaming" => pc[d] = "streaming" /\ order'[d] = order[d])
        BY DEF Typed, PlacesHeld
    <2> QED
        BY <2>1, CurrentKept
<1> QED
    BY <1>2, <1>3, <1>4, <1>5, <1>6, <1>7

LEMMA SubscribeStep == ASSUME StreamInvariant, NEW c \in Clients, Subscribe(c) PROVE StreamInvariant'
<1> USE DEF StreamInvariant, Subscribe, Gone, unitVars, pollVars
<1>1. UNCHANGED <<unitVars, last, pollVars, queue, missed, shown>>
    OBVIOUS
<1>2. CASE PlaceLeft
    <2>1. /\ c \notin subs
          /\ subs' = subs \cup {c} /\ pc' = [pc EXCEPT ![c] = "subscribed"]
          /\ UNCHANGED <<order, here>>
        BY <1>2 DEF PlacesHeld, Typed
    <2>2. /\ IsFiniteSet(subs')
          /\ Cardinality(subs') = Cardinality(subs) + 1 /\ Cardinality(subs) \in Nat
        BY <2>1, FS_AddElement, FS_CardinalityType DEF Typed
    <2>3. Typed'
        BY <2>1, <2>2 DEF Typed
    <2>4. PlacesHeld'
        BY <1>2, <2>1, <2>2, BoundAssumption DEF PlacesHeld, PlaceLeft, Typed
    <2>5. NoMissedWake' /\ LanesBusy' /\ Untouched'
        BY <2>1 DEF NoMissedWake, LanesBusy, Untouched, Typed
    <2>6. Current'
        BY <2>1 DEF Current, LastQueued, NoneQueued, Typed, Untouched
    <2> QED
        BY <2>3, <2>4, <2>5, <2>6
<1>3. CASE ~PlaceLeft
    <2>1. Typed'
        BY <1>3 DEF Typed
    <2>2. c \notin subs /\ UNCHANGED subs
          /\ pc' = [pc EXCEPT ![c] = "away"] /\ order' = [order EXCEPT ![c] = {}]
        BY <1>3 DEF PlacesHeld
    <2>3. PlacesHeld'
        BY <2>2 DEF PlacesHeld, Typed
    <2>4. NoMissedWake'
        BY <2>2 DEF NoMissedWake, Typed
    <2>5. LanesBusy' /\ Untouched'
        BY <2>2 DEF LanesBusy, Untouched, Typed
    <2>6. Current'
        <3>1. \A d \in subs : d # c /\ pc'[d] = pc[d] /\ order'[d] = order[d]
            BY <2>2 DEF Typed
        <3> QED
            BY <2>2, <3>1, CurrentKept
    <2> QED
        BY <2>1, <2>3, <2>4, <2>5, <2>6
<1> QED
    BY <1>2, <1>3

\* The snapshot: a unit of which nothing is queued is shown as it is stored.
LEMMA SnapshotStep == ASSUME StreamInvariant, NEW c \in Clients, Snapshot(c) PROVE StreamInvariant'
<1> USE DEF StreamInvariant, Snapshot, Fails, unitVars, pollVars
<1>1. Typed'
    <2>1. WithSnapshot(c) \in [Units -> States \cup {Nothing}]
        BY DEF Typed, WithSnapshot
    <2>2. pc' \in [Clients -> {"away", "connected", "subscribed", "nudged", "streaming", "leaving"}]
        BY DEF Typed
    <2>3. shown' \in [Clients -> [Units -> States \cup {Nothing}]]
        BY <2>1 DEF Typed
    <2> QED
        BY <2>2, <2>3 DEF Typed
<1>2. PlacesHeld' /\ NoMissedWake'
    BY DEF PlacesHeld, NoMissedWake, Typed
<1>3. LanesBusy' /\ Untouched'
    BY DEF LanesBusy, Untouched, Typed
<1>4. Current'
    <2>1. \A u \in Units : pc'[c] = "streaming" /\ u \in order[c] => shown'[c][u] = last[u]
        <3>1. shown[c] = Blank
            BY DEF Untouched
        <3> QED
            BY <3>1 DEF WithSnapshot, Typed, Blank
    <2> QED
        <3> SUFFICES ASSUME NEW d \in Clients, NEW u \in Units, d \in subs, u \notin missed[d], stage[u] # "stored"
                     PROVE  \/ LastQueued(d, u)'
                            \/ /\ NoneQueued(d, u)'
                               /\ pc'[d] = "streaming" /\ u \in order[d] => shown'[d][u] = last[u]
            BY DEF Current
        <3>1. LastQueued(d, u) => LastQueued(d, u)'
            BY DEF LastQueued
        <3>2. NoneQueued(d, u) => NoneQueued(d, u)'
            BY DEF NoneQueued
        <3>3. CASE d = c
            BY <2>1, <3>1, <3>2, <3>3 DEF Current
        <3>4. CASE d # c
            BY <3>1, <3>2, <3>4 DEF Current, Typed
        <3> QED
            BY <3>3, <3>4
<1> QED
    BY <1>1, <1>2, <1>3, <1>4

\* A write takes the first event from the queue; the last about a unit stays the
\* last, or has become what is shown.
LEMMA WriteStep == ASSUME StreamInvariant, NEW c \in Clients, Write(c) PROVE StreamInvariant'
<1> USE DEF StreamInvariant, Write, Fails, unitVars, pollVars
<1> DEFINE e == Head(queue[c])
<1>0. /\ queue[c] \in Seq(Event) /\ queue[c] # <<>> /\ c \in subs /\ pc[c] = "streaming"
      /\ queue'[c] = Tail(queue[c])
      /\ \A d \in Clients : d # c => queue'[d] = queue[d] /\ shown'[d] = shown[d] /\ pc'[d] = pc[d]
      /\ \/ shown'[c] = [shown[c] EXCEPT ![e.unit] = e.state] /\ pc' = pc
         \/ pc' = [pc EXCEPT ![c] = "leaving"] /\ shown' = shown
    BY DEF PlacesHeld, Typed
<1> DEFINE n == Len(queue[c])
<1>1. /\ queue'[c] \in Seq(Event) /\ DOMAIN queue'[c] = 1 .. n - 1
      /\ DOMAIN queue[c] = 1 .. n /\ n \in Nat \ {0}
      /\ e = queue[c][1] /\ e \in Event /\ e.unit \in Units /\ e.state \in States
      /\ \A i \in 1 .. n - 1 : queue'[c][i] = queue[c][i + 1]
    <2>1. /\ queue'[c] \in Seq(Event) /\ DOMAIN queue'[c] = 1 .. n - 1
          /\ DOMAIN queue[c] = 1 .. n /\ n \in Nat \ {0}
          /\ e = queue[c][1] /\ e \in Event
          /\ \A i \in 1 .. n - 1 : queue'[c][i] = queue[c][i + 1]
        <3>1. queue[c] \in Seq(Event) /\ queue[c] # <<>>
            BY <1>0
        <3>2. /\ Tail(queue[c]) \in Seq(Event) /\ DOMAIN Tail(queue[c]) = 1 .. Len(queue[c]) - 1
              /\ Head(queue[c]) = queue[c][1] /\ Head(queue[c]) \in Event
              /\ Len(queue[c]) \in Nat /\ Len(queue[c]) > 0 /\ DOMAIN queue[c] = 1 .. Len(queue[c])
              /\ \A i \in 1 .. Len(queue[c]) - 1 : Tail(queue[c])[i] = queue[c][i + 1]
            BY <3>1, QueueFacts
        <3>3. Len(queue[c]) \in Nat \ {0}
            BY <3>2
        <3> QED
            BY <1>0, <3>2, <3>3 DEF e, n
    <2>2. e.unit \in Units /\ e.state \in States
        BY <2>1 DEF Event
    <2> QED
        BY <2>1, <2>2
<1> HIDE DEF e, n
<1>2. Typed'
    <2>1. queue' \in [Clients -> Seq(Event)]
        BY <1>0, <1>1 DEF Typed
    <2>2. shown' \in [Clients -> [Units -> States \cup {Nothing}]]
        <3>1. shown' = shown \/ shown' = [shown EXCEPT ![c] = [shown[c] EXCEPT ![e.unit] = e.state]]
            BY DEF e
        <3>2. [shown[c] EXCEPT ![e.unit] = e.state] \in [Units -> States \cup {Nothing}]
            BY <1>1 DEF Typed
        <3> QED
            BY <3>1, <3>2 DEF Typed
    <2>3. pc' \in [Clients -> {"away", "connected", "subscribed", "nudged", "streaming", "leaving"}]
        BY DEF Typed
    <2> QED
        BY <2>1, <2>2, <2>3 DEF Typed
<1>3. PlacesHeld' /\ NoMissedWake'
    BY DEF PlacesHeld, NoMissedWake, Typed
<1>4. LanesBusy' /\ Untouched'
    <2>1. pc'[c] \in {"streaming", "leaving"} /\ missed' = missed
        BY <1>0 DEF Typed
    <2> QED
        BY <1>0, <2>1 DEF LanesBusy, Untouched
<1>5. Current'
    <2> SUFFICES ASSUME NEW d \in Clients, NEW u \in Units, d \in subs, u \notin missed[d], stage[u] # "stored"
                 PROVE  \/ LastQueued(d, u)'
                        \/ /\ NoneQueued(d, u)'
                           /\ pc'[d] = "streaming" /\ u \in order[d] => shown'[d][u] = last[u]
        BY DEF Current
    <2>1. \/ LastQueued(d, u)
          \/ NoneQueued(d, u) /\ (pc[d] = "streaming" /\ u \in order[d] => shown[d][u] = last[u])
        BY DEF Current
    <2>2. CASE d # c
        <3>1. LastQueued(d, u) => LastQueued(d, u)'
            BY <1>0, <2>2 DEF LastQueued
        <3>2. NoneQueued(d, u) => NoneQueued(d, u)'
            BY <1>0, <2>2 DEF NoneQueued
        <3> QED
            BY <1>0, <2>1, <2>2, <3>1, <3>2
    <2>3. CASE d = c /\ NoneQueued(c, u) /\ (pc[c] = "streaming" /\ u \in order[c] => shown[c][u] = last[u])
        <3>1. NoneQueued(c, u)'
            <4> SUFFICES ASSUME NEW j \in DOMAIN queue'[c] PROVE queue'[c][j].unit # u
                BY DEF NoneQueued
            <4>1. j \in 1 .. n - 1 /\ j + 1 \in DOMAIN queue[c]
                BY <1>1
            <4> QED
                BY <1>1, <2>3, <4>1 DEF NoneQueued
        <3>2. e.unit # u
            BY <1>1, <2>3 DEF NoneQueued
        <3>3. pc'[c] = "streaming" => shown'[c][u] = shown[c][u]
            BY <1>0, <3>2 DEF Typed
        <3> QED
            BY <1>0, <2>3, <3>1, <3>3
    <2>4. CASE d = c /\ LastQueued(c, u)
        <3>1. PICK i \in DOMAIN queue[c] : /\ queue[c][i].unit = u /\ queue[c][i].state = last[u]
                                          /\ \A j \in DOMAIN queue[c] : queue[c][j].unit = u => j <= i
            BY <2>4 DEF LastQueued
        <3>2. \A j \in DOMAIN queue'[c] : j + 1 \in DOMAIN queue[c] /\ queue'[c][j] = queue[c][j + 1]
            BY <1>0, <1>1
        <3>3. CASE i = 1
            <4>1. e.unit = u /\ e.state = last[u]
                BY <1>1, <3>1, <3>3
            <4>2. NoneQueued(c, u)'
                <5> SUFFICES ASSUME NEW j \in DOMAIN queue'[c], queue'[c][j].unit = u PROVE FALSE
                    BY DEF NoneQueued
                <5>1. j \in Nat /\ j >= 1
                    BY <1>0, <1>1
                <5>2. j + 1 <= i
                    BY <3>1, <3>2
                <5> QED
                    BY <3>3, <5>1, <5>2
            <4>3. pc'[c] = "streaming" => shown'[c][u] = last[u]
                BY <1>0, <4>1 DEF Typed
            <4> QED
                BY <2>4, <4>2, <4>3
        <3>4. CASE i # 1
            <4>1. i - 1 \in DOMAIN queue'[c] /\ queue'[c][i - 1] = queue[c][i]
                BY <1>0, <1>1, <3>1, <3>4
            <4>2. ASSUME NEW j \in DOMAIN queue'[c], queue'[c][j].unit = u PROVE j <= i - 1
                <5>1. j + 1 <= i
                    BY <3>1, <3>2, <4>2
                <5> QED
                    BY <1>0, <1>1, <5>1
            <4> QED
                BY <2>4, <3>1, <4>1, <4>2 DEF LastQueued
        <3> QED
            BY <3>3, <3>4
    <2> QED
        BY <2>1, <2>2, <2>3, <2>4
<1> QED
    BY <1>2, <1>3, <1>4, <1>5

LEMMA LeaveStep == ASSUME StreamInvariant, NEW c \in Clients, Leave(c) PROVE StreamInvariant'
<1> USE DEF StreamInvariant, Leave, GivenUp, Gone, unitVars, pollVars
<1>1. c \in subs /\ IsFiniteSet(subs') /\ Cardinality(subs') <= Cardinality(subs) /\ Cardinality(subs') \in Nat
      /\ Cardinality(subs) \in Nat
    BY FS_Subset, FS_CardinalityType DEF PlacesHeld, Typed
<1>2. Typed'
    <2>1. Blank \in [Units -> States \cup {Nothing}]
        BY DEF Blank
    <2>2. <<>> \in Seq(Event)
        OBVIOUS
    <2>3. queue' \in [Clients -> Seq(Event)] /\ shown' \in [Clients -> [Units -> States \cup {Nothing}]]
        BY <2>1, <2>2 DEF Typed
    <2>4. /\ missed' \in [Clients -> SUBSET Units] /\ order' \in [Clients -> SUBSET Units]
          /\ here' \in [Clients -> BOOLEAN]
          /\ pc' \in [Clients -> {"away", "connected", "subscribed", "nudged", "streaming", "leaving"}]
        BY DEF Typed
    <2> QED
        BY <1>1, <2>3, <2>4 DEF Typed
<1>3. PlacesHeld'
    <2>1. subs' = {d \in Clients : pc'[d] \in {"subscribed", "nudged", "streaming", "leaving"}}
        BY DEF PlacesHeld, Typed
    <2> QED
        BY <1>1, <2>1, BoundAssumption DEF PlacesHeld
<1>4. NoMissedWake' /\ LanesBusy'
    BY DEF NoMissedWake, LanesBusy, Typed
<1>5. Untouched'
    BY DEF Untouched, Typed
<1>6. Current'
    <2>1. \A d \in subs' : d \in Clients /\ d # c
        BY DEF Typed
    <2> QED
        BY <2>1, CurrentKept DEF Typed
<1> QED
    BY <1>2, <1>3, <1>4, <1>5, <1>6

LEMMA QuietSteps == ASSUME StreamInvariant, Reconfigure \/ UNCHANGED vars PROVE StreamInvariant'
<1> USE DEF StreamInvariant, Reconfigure, vars, unitVars, pollVars, clientVars
<1>1. Typed'
    BY DEF Typed
<1>2. Current'
    BY CurrentKept DEF Typed
<1> QED
    BY <1>1, <1>2 DEF PlacesHeld, NoMissedWake, LanesBusy, Untouched
-----------------------------------------------------------------------------
THEOREM Invariance == Spec => []StreamInvariant
<1>1. ASSUME StreamInvariant, [Next]_vars PROVE StreamInvariant'
    <2>1. CASE Poller \/ WakeSpuriously
        BY <1>1, <2>1, WalkSteps, ReadStep, StoreStep, BroadcastStep DEF Poller
    <2>2. ASSUME NEW c \in Clients, Connect(c) \/ Thread(c) \/ HangUp(c) PROVE StreamInvariant'
        BY <1>1, <2>2, ConnectSteps, SubscribeStep, SnapshotStep, WriteStep, LeaveStep DEF Thread
    <2>3. CASE Reconfigure \/ UNCHANGED vars
        BY <1>1, <2>3, QuietSteps
    <2> QED
        BY <1>1, <2>1, <2>2, <2>3 DEF Next
<1> QED
    BY <1>1, Beginning, PTL DEF Spec

\* No more than MAX_STREAMS places are taken, and by exactly the threads that are
\* between subscribe and unsubscribe, however streams end.
THEOREM PlacesAreHeld == Spec => []PlacesHeld
<1>1. StreamInvariant => PlacesHeld
    BY DEF StreamInvariant
<1> QED
    BY <1>1, Invariance, PTL

\* The poller never waits on the condition variable while there is a listener that
\* is not about to nudge it.
THEOREM NoWakeMissed == Spec => []NoMissedWake
<1>1. StreamInvariant => NoMissedWake
    BY DEF StreamInvariant
<1> QED
    BY <1>1, Invariance, PTL

\* Written out, a client's queue leaves it with the stored state of each unit it
\* knows of, unless the last event about it found the queue full.
THEOREM StreamsConverge == Spec => []Converges
<1>1. ASSUME StreamInvariant PROVE Converges
    <2> USE DEF StreamInvariant
    <2> SUFFICES ASSUME NEW c \in Clients, NEW u \in Units, pc[c] = "streaming",
                        u \in order[c] \ missed[c], stage[u] # "stored"
                 PROVE  EndsWith(c, u, last[u])
        BY <1>1 DEF Converges
    <2>1. c \in subs
        BY <1>1 DEF PlacesHeld
    <2>2. CASE LastQueued(c, u)
        BY <2>2 DEF LastQueued, EndsWith
    <2>3. CASE NoneQueued(c, u) /\ shown[c][u] = last[u]
        BY <2>3 DEF NoneQueued, EndsWith
    <2> QED
        BY <1>1, <2>1, <2>2, <2>3 DEF Current
<1> QED
    BY <1>1, Invariance, PTL
=============================================================================
