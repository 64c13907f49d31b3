-------------------------- MODULE UnitManagerProofs --------------------------
(***************************************************************************)
(* Proofs about UnitManager, for any set of threads, fields, values and     *)
(* bounds, and (at the end) that it implements UnitControl on one slot.     *)
(***************************************************************************)
EXTENDS UnitManagerContract, FiniteSetTheorems, TLAPS

Typed == TypeOK /\ Grounded

\* A change folded into another is a change; written over settings, settings.
LEMMA MergeType ==
    /\ \A e, l \in Change : Merge(e, l) \in Change
    /\ \A ch \in Change, st \in Settings : ApplyTo(ch, st) \in Settings
    /\ NoChange \in Change
BY DEF Merge, ApplyTo, Change, Settings, NoChange

\* The replies are what the calls can return.
LEMMA ReplyType ==
    /\ NoReply \in Replies /\ Failed \in Replies /\ Lost \in Replies
    /\ \A st \in Settings : StateOf(st) \in Replies
    /\ \A st \in Settings, n \in Nat : Ok(st, n) \in Replies
    /\ \A r \in Replies : r.kind = "ok" => [r EXCEPT !.own = FALSE] \in Replies
<1>1. \A r \in Replies : r.kind = "ok" => r \in [kind : {"ok"}, sent : Settings, merged : Nat, own : BOOLEAN]
    BY DEF Replies, NoReply, Failed, Lost
<1> QED
    BY <1>1 DEF Replies, NoReply, Failed, Lost, StateOf, Ok

LEMMA PlaceNames ==
    /\ "idle" \in Places /\ "join" \in Places /\ "lock" \in Places /\ "warm" \in Places
    /\ "answer" \in Places /\ "collect" \in Places /\ "take" \in Places
    /\ "share" \in Places /\ "base" \in Places /\ "ask" \in Places
    /\ "apply" \in Places /\ "finish" \in Places
BY DEF Places, InLock

LEMMA InitType == Init => Typed
<1> SUFFICES ASSUME Init PROVE Typed
    OBVIOUS
<1> USE BoundAssumption, MergeType, ReplyType, PlaceNames
<1>1. 1 \in Slots /\ Slots \subseteq Nat
    BY DEF Slots
<1>2. NoWork \in Work
    BY DEF NoWork, Work
<1> QED
    BY <1>1, <1>2 DEF Init, Typed, TypeOK, Grounded, Status

\* A table of outcomes keyed by batch stays one.
Outcomes(table) == DOMAIN table \subseteq Nat /\ table \in [DOMAIN table -> Finished]

LEMMA TableType ==
    ASSUME NEW table, Outcomes(table), NEW b \in Nat
    PROVE  /\ b \in DOMAIN table => Outcomes(OneCollected(table, b))
           /\ \A result \in Replies, n \in Nat \ {0} : Outcomes(WithOutcome(table, b, result, n))
<1>1. ASSUME b \in DOMAIN table PROVE Outcomes(OneCollected(table, b))
    <2>1. table[b] \in Finished
        BY <1>1 DEF Outcomes
    <2>2. CASE table[b].uncollected = 1
        BY <2>2 DEF Outcomes, OneCollected
    <2>3. CASE table[b].uncollected # 1
        <3>1. [outcome |-> table[b].outcome, uncollected |-> table[b].uncollected - 1] \in Finished
            BY <2>1, <2>3 DEF Finished
        <3> QED
            BY <2>3, <3>1 DEF Outcomes, OneCollected
    <2> QED
        BY <2>2, <2>3
<1>2. ASSUME NEW result \in Replies, NEW n \in Nat \ {0}
      PROVE  Outcomes(WithOutcome(table, b, result, n))
    BY DEF Outcomes, WithOutcome, Finished
<1> QED
    BY <1>1, <1>2

LEMMA TypeStep == Typed /\ [Next]_vars => Typed'
<1> SUFFICES ASSUME Typed, [Next]_vars PROVE Typed'
    OBVIOUS
<1> USE PlaceNames
<1> USE DEF Typed, TypeOK, Grounded, unitVars, mapVars, lockVars, queueVars, deviceVars, callVars
<1>1. ASSUME NEW c \in Callers, CallControl(c) PROVE Typed'
    BY <1>1, DataAssumption, ReplyType DEF CallControl, Enter
<1>2. ASSUME NEW c \in Callers, CallRead(c) PROVE Typed'
    <2>1. OnItsWay(current) \subseteq Settings
        BY DEF OnItsWay
    <2> QED
        BY <1>2, <2>1, ReplyType DEF CallRead, Enter
<1>3. ASSUME NEW c \in Callers, CallOther(c) PROVE Typed'
    BY <1>3, ReplyType DEF CallOther, Enter
<1>4. ASSUME NEW c \in Callers, CallWarm(c) PROVE Typed'
    BY <1>4, ReplyType DEF CallWarm, Enter
<1>5. ASSUME NEW c \in Callers, Join(c) PROVE Typed'
    BY <1>5, MergeType DEF Join
<1>6. ASSUME NEW c \in Callers, Acquire(c) PROVE Typed'
    BY <1>6 DEF Acquire, Free
<1>7. ASSUME NEW c \in Callers, TryWarm(c) PROVE Typed'
    <2>1. /\ pc' \in [Callers -> Places]
          /\ holder' \in [Slots -> Callers \cup {Nobody}]
          /\ \A d \in Callers : pc'[d] = "apply" => pc[d] = "apply"
          /\ \A d \in Callers : pc'[d] = "idle" => pc[d] = "idle" \/ pc[d] = "warm"
        <3>1. CASE pc' = [pc EXCEPT ![c] = "ask"] /\ holder' = [holder EXCEPT ![slot[c]] = c]
            BY <1>7, <3>1 DEF TryWarm, Free
        <3>2. CASE pc' = [pc EXCEPT ![c] = "idle"] /\ holder' = holder
            BY <1>7, <3>2 DEF TryWarm, Free
        <3> QED
            BY <1>7, <3>1, <3>2 DEF TryWarm, Free
    <2> QED
        BY <1>7, <2>1 DEF TryWarm, Free
<1>8. ASSUME NEW c \in Callers, ShareReport(c) PROVE Typed'
    BY <1>8, ReplyType DEF ShareReport, Release, StateOf, Failed, Replies
<1>9. ASSUME NEW c \in Callers, ReadAfresh(c) PROVE Typed'
    BY <1>9 DEF ReadAfresh
<1>10. ASSUME NEW c \in Callers, Collect(c) PROVE Typed'
    <2>1. slot[c] \in Slots /\ batch[c] \in DOMAIN done[slot[c]]
          /\ done[slot[c]][batch[c]] \in Finished
        BY <1>10 DEF Collect
    <2>2. reply' \in [Callers -> Replies]
        BY <1>10, <2>1, ReplyType DEF Collect, Finished
    <2>3. ASSUME NEW s \in Slots
          PROVE  DOMAIN done'[s] \subseteq Nat /\ done'[s] \in [DOMAIN done'[s] -> Finished]
        <3>1. done'[s] = done[s] \/ (s = slot[c] /\ done'[s] = OneCollected(done[s], batch[c]))
            BY <1>10 DEF Collect
        <3>2. Outcomes(done[s]) /\ batch[c] \in Nat
            BY DEF Outcomes
        <3> QED
            <4>1. Outcomes(done'[s])
                BY <2>1, <3>1, <3>2, TableType
            <4> QED
                BY <4>1 DEF Outcomes
    <2>4. DOMAIN done' = Slots
        BY <1>10 DEF Collect
    <2> QED
        BY <1>10, <2>2, <2>3, <2>4 DEF Collect, Release
<1>11. ASSUME NEW c \in Callers, NotCollected(c) PROVE Typed'
    BY <1>11 DEF NotCollected
<1>12. ASSUME NEW c \in Callers, Take(c) PROVE Typed'
    BY <1>12, MergeType DEF Take, Work
<1>13. ASSUME NEW c \in Callers, TakeLost(c) PROVE Typed'
    BY <1>13, ReplyType DEF TakeLost, Release, Replies, Lost
<1>14. ASSUME NEW c \in Callers, ChooseBase(c) PROVE Typed'
    <2>1. CASE fresh[slot[c]]
        <3>1. report[slot[c]] \in Settings /\ report[slot[c]] # NoState
            BY <2>1
        <3>2. /\ base' = [base EXCEPT ![c] = report[slot[c]]]
              /\ pc' = [pc EXCEPT ![c] = "apply"]
            BY <1>14, <2>1 DEF ChooseBase
        <3> QED
            BY <1>14, <3>1, <3>2 DEF ChooseBase
    <2>2. CASE ~fresh[slot[c]]
        <3>1. base' = base /\ pc' = [pc EXCEPT ![c] = "ask"]
            BY <1>14, <2>2 DEF ChooseBase
        <3> QED
            BY <1>14, <3>1 DEF ChooseBase
    <2> QED
        BY <2>1, <2>2
<1>15. ASSUME NEW c \in Callers, ReplyArrives(c) PROVE Typed'
    <2>1. /\ slot[c] \in Slots /\ seen[c] \in Settings /\ pc[c] \in {"ask", "apply"}
        BY <1>15 DEF ReplyArrives
    <2>2. /\ online' \in [Slots -> BOOLEAN] /\ connected' \in [Slots -> BOOLEAN]
          /\ failing' \in [Slots -> BOOLEAN] /\ idle' \in [Slots -> BOOLEAN]
          /\ fresh' \in [Slots -> BOOLEAN]
          /\ report' \in [Slots -> Settings \cup {NoState}]
          /\ heard' \in [Callers -> SUBSET {"report", "failure"}]
          /\ seen' \in [Callers -> Settings \cup {NoState}]
        BY <1>15, <2>1 DEF ReplyArrives, Answered, Renewed
    <2>3. \A s \in Slots : fresh'[s] => report'[s] # NoState
        BY <1>15, <2>1 DEF ReplyArrives, Answered, Renewed
    <2>0. \A s \in Slots : report[s] # NoState => report'[s] # NoState
        BY <1>15, <2>1, DataAssumption DEF ReplyArrives, Answered, Renewed
    <2>4. \A d \in Callers : "report" \in heard'[d] =>
              report'[slot[d]] # NoState /\ op'[d] = "read" /\ pc'[d] \notin {"idle", "warm"}
        BY <1>15, <2>0, <2>1, DataAssumption DEF ReplyArrives, Answered, Renewed, Readers
    <2>5. pc[c] = "apply" => Sent(c) \in Settings /\ work[c].merged \in Nat
        BY MergeType DEF Sent, Work
    <2>6. /\ pc' \in [Callers -> Places]
          /\ op' \in [Callers -> {"none", "control", "read", "probe", "more", "forget", "warm"}]
          /\ known' \in [Slots -> BOOLEAN]
          /\ reply' \in [Callers -> Replies]
          /\ base' \in [Callers -> Settings \cup {NoState}]
          /\ \A d \in Callers : pc'[d] = "apply" => base'[d] # NoState
        <3>1. CASE op[c] = "control" /\ pc[c] = "ask"
            <4>1. /\ base' = [base EXCEPT ![c] = seen[c]]
                  /\ pc' = [pc EXCEPT ![c] = "apply"]
                  /\ known' = known /\ op' = op /\ reply' = reply
                BY <1>15, <3>1 DEF ReplyArrives
            <4> QED
                BY <2>1, <4>1, DataAssumption
        <3>2. CASE op[c] = "control" /\ pc[c] = "apply"
            <4>1. /\ reply' = [reply EXCEPT ![c] = Ok(Sent(c), work[c].merged)]
                  /\ pc' = [pc EXCEPT ![c] = "finish"]
                  /\ known' = known /\ op' = op /\ base' = base
                BY <1>15, <3>2 DEF ReplyArrives
            <4> QED
                BY <2>5, <3>2, <4>1, ReplyType
        <3>3. CASE op[c] \in {"read", "warm"}
            <4>1. /\ reply' = [reply EXCEPT ![c] = StateOf(seen[c])]
                  /\ pc' = [pc EXCEPT ![c] = "finish"]
                  /\ known' = known /\ op' = op /\ base' = base
                BY <1>15, <3>3 DEF ReplyArrives
            <4> QED
                BY <2>1, <4>1, ReplyType
        <3>4. CASE op[c] \in {"probe", "more"}
            <4>1. /\ pc' = pc \/ pc' = [pc EXCEPT ![c] = "finish"]
                  /\ op' = op \/ op' = [op EXCEPT ![c] = "more"]
                  /\ known' = known \/ known' = [known EXCEPT ![slot[c]] = TRUE]
                  /\ reply' = reply /\ base' = base
                BY <1>15, <3>4 DEF ReplyArrives
            <4>2. pc' \in [Callers -> Places]
                <5>1. CASE pc' = pc
                    BY <5>1
                <5>2. CASE pc' = [pc EXCEPT ![c] = "finish"]
                    BY <5>2
                <5> QED
                    BY <4>1, <5>1, <5>2
            <4>4. known \in [Slots -> BOOLEAN] => known' \in [Slots -> BOOLEAN]
                BY ONLY <4>1
            <4>3. \A d \in Callers : pc'[d] = "apply" => pc[d] = "apply"
                BY <4>1
            <4> QED
                BY <4>1, <4>2, <4>3, <4>4
        <3> QED
            BY <1>15, <2>1, <3>1, <3>2, <3>3, <3>4 DEF ReplyArrives
    <2>7. UNCHANGED <<unitVars, mapVars, lockVars, queueVars, status, slot, mine, batch, work, since>>
        BY <1>15 DEF ReplyArrives
    <2>8. TypeOK'
        BY <2>2, <2>6, <2>7
    <2>9. Grounded'
        <3>1. slot' = slot
            BY <2>7
        <3> QED
            <4>1. \A s \in Slots : fresh'[s] => report'[s] # NoState
                BY <2>3
            <4>2. \A d \in Callers : pc'[d] = "apply" => base'[d] # NoState
                BY <2>6
            <4>3. \A d \in Callers : "report" \in heard'[d] =>
                    report'[slot'[d]] # NoState /\ op'[d] = "read" /\ pc'[d] \notin {"idle", "warm"}
                BY <2>4, <3>1
            <4> QED
                BY <4>1, <4>2, <4>3 DEF Grounded
    <2> QED
        BY <2>8, <2>9
<1>16. ASSUME NEW c \in Callers, ExchangeFails(c) PROVE Typed'
    BY <1>16, ReplyType DEF ExchangeFails, Readers, Replies, Failed, NoReply
<1>17. ASSUME NEW c \in Callers, Finish(c) PROVE Typed'
    <2>1. /\ connected' \in [Slots -> BOOLEAN] /\ online' \in [Slots -> BOOLEAN]
          /\ status' \in [Slots -> Status]
        BY <1>17 DEF Finish, Publish, Status
    <2>2. ASSUME NEW s \in Slots
          PROVE  DOMAIN done'[s] \subseteq Nat /\ done'[s] \in [DOMAIN done'[s] -> Finished]
        <3>1. \/ done'[s] = done[s]
              \/ /\ work[c].merged > 1
                 /\ done'[s] = WithOutcome(done[s], batch[c], reply[c], work[c].merged - 1)
            BY <1>17 DEF Finish
        <3>2. Outcomes(done[s]) /\ batch[c] \in Nat /\ reply[c] \in Replies /\ work[c].merged \in Nat
            BY DEF Outcomes, Work
        <3> QED
            <4>1. Outcomes(done'[s])
                BY <3>1, <3>2, TableType
            <4> QED
                BY <4>1 DEF Outcomes
    <2>3. DOMAIN done' = Slots
        BY <1>17 DEF Finish
    <2> QED
        <3>1. /\ pc' = [pc EXCEPT ![c] = "answer"]
              /\ holder' = [holder EXCEPT ![slot[c]] = Nobody]
            BY <1>17 DEF Finish, Release
        <3> QED
            BY <1>17, <2>1, <2>2, <2>3, <3>1 DEF Finish
<1>18. ASSUME NEW c \in Callers, Return(c) PROVE Typed'
    BY <1>18, MergeType, ReplyType DEF Return, NoWork, Work, NoReply, Replies
<1>19. ASSUME NEW c \in Callers, UnitAnswers(c) PROVE Typed'
    BY <1>19, DataAssumption DEF UnitAnswers
<1>20. ASSUME NEW c \in Callers, UnitApplies(c) PROVE Typed'
    BY <1>20, MergeType DEF UnitApplies, Witness, Sent, Work
<1>21. ASSUME NEW c \in Callers, Panic(c) PROVE Typed'
    BY <1>21, ReplyType DEF Panic, Release, Replies, Failed
<1>22. CASE Upsert
    <2>1. created' \in Slots /\ current' \in {0} \cup Slots
        BY <1>22, BoundAssumption DEF Upsert, Slots
    <2> QED
        BY <1>22, <2>1 DEF Upsert
<1>23. CASE Remove
    BY <1>23 DEF Remove
<1>24. CASE Remote
    BY <1>24 DEF Remote, Witness
<1>25. CASE Rest
    BY <1>25 DEF Rest, vars
<1>26. ASSUME NEW s \in Slots, Age(s) PROVE Typed'
    BY <1>26 DEF Age
<1>27. ASSUME NEW s \in Slots, Backoff(s) PROVE Typed'
    BY <1>27 DEF Backoff
<1>28. CASE UNCHANGED vars
    BY <1>28 DEF vars
<1> QED
    BY <1>1, <1>2, <1>3, <1>4, <1>5, <1>6, <1>7, <1>8, <1>9, <1>10, <1>11, <1>12, <1>13, <1>14, <1>15, <1>16, <1>17, <1>18, <1>19, <1>20, <1>21, <1>22, <1>23, <1>24, <1>25, <1>26, <1>27, <1>28 DEF Next, Step

-----------------------------------------------------------------------------
\* The threads are finitely many, and so are those waiting for a batch.
LEMMA WaitingCount ==
    ASSUME NEW s, NEW b
    PROVE  /\ IsFiniteSet(Waiting(s, b)) /\ Cardinality(Waiting(s, b)) \in Nat
           /\ Cardinality(Waiting(s, b)) = 0 <=> Waiting(s, b) = {}
<1>1. Waiting(s, b) \subseteq Callers
    BY DEF Waiting
<1>2. IsFiniteSet(Waiting(s, b))
    BY <1>1, CallersAssumption, FS_Subset
<1> QED
    BY <1>2, FS_CardinalityType, FS_EmptySet

\* A step that moves nobody into or out of a batch, and leaves the queue alone.
Undisturbed ==
    /\ pendingCount' = pendingCount /\ nextBatch' = nextBatch /\ done' = done
    /\ \A c \in Callers : /\ Joined(c)' <=> Joined(c)
                          /\ Sending(c)' <=> Sending(c)
                          /\ Joined(c) \/ Sending(c) =>
                                slot'[c] = slot[c] /\ batch'[c] = batch[c]
                          /\ Sending(c) => work'[c].merged = work[c].merged
    /\ \A s \in Slots : poisoned[s] => poisoned'[s]

LEMMA SameWaiting ==
    ASSUME Undisturbed
    PROVE  \A s, b : Waiting(s, b)' = Waiting(s, b)
BY DEF Undisturbed, Waiting

LEMMA UndisturbedStep ==
    ASSUME Typed, BatchWhereabouts, BatchesAccounted, Undisturbed,
           \A c \in Callers : pc'[c] = "take" =>
                slot'[c] = slot[c] /\ batch'[c] = batch[c] /\ batch[c] \notin DOMAIN done[slot[c]]
    PROVE  BatchWhereabouts' /\ BatchesAccounted'
<1> USE DEF Typed, TypeOK
<1>1. \A s, b : Waiting(s, b)' = Waiting(s, b)
    BY SameWaiting
<1>2. BatchesAccounted'
    BY <1>1 DEF BatchesAccounted, Undisturbed
<1>3. \A s \in Slots : \A b \in DOMAIN done'[s] : b < nextBatch'[s] /\ done'[s][b].outcome # Lost
    BY DEF BatchWhereabouts, Undisturbed
<1>4. ASSUME NEW c \in Callers, Joined(c)'
      PROVE  \/ batch'[c] = nextBatch'[slot'[c]]
             \/ /\ batch'[c] < nextBatch'[slot'[c]]
                /\ \/ batch'[c] \in DOMAIN done'[slot'[c]]
                   \/ \E d \in Callers : Sending(d)' /\ slot'[d] = slot'[c] /\ batch'[d] = batch'[c]
                   \/ poisoned'[slot'[c]]
    <2>1. Joined(c) /\ slot'[c] = slot[c] /\ batch'[c] = batch[c] /\ slot[c] \in Slots
        BY <1>4 DEF Undisturbed
    <2>2. CASE \E d \in Callers : Sending(d) /\ slot[d] = slot[c] /\ batch[d] = batch[c]
        BY <2>1, <2>2 DEF Undisturbed, BatchWhereabouts
    <2>3. CASE ~ \E d \in Callers : Sending(d) /\ slot[d] = slot[c] /\ batch[d] = batch[c]
        BY <2>1, <2>3 DEF Undisturbed, BatchWhereabouts
    <2> QED
        BY <2>2, <2>3
<1>5. ASSUME NEW c \in Callers, Sending(c)'
      PROVE  /\ batch'[c] < nextBatch'[slot'[c]]
             /\ batch'[c] \notin DOMAIN done'[slot'[c]]
             /\ work'[c].merged = 1 + Cardinality(Waiting(slot[c], batch[c])')
             /\ slot'[c] = slot[c] /\ batch'[c] = batch[c]
    BY <1>1, <1>5 DEF Undisturbed, BatchWhereabouts
<1>6. \A c \in Callers : pc'[c] = "take" => batch'[c] \notin DOMAIN done'[slot'[c]]
    BY DEF Undisturbed
<1> QED
    BY <1>1, <1>2, <1>3, <1>4, <1>5, <1>6 DEF BatchWhereabouts

-----------------------------------------------------------------------------
\* Entering, waiting for and holding the unit, exchanging and returning leave
\* every batch as it is.
LEMMA QuietSteps ==
    ASSUME Typed, BatchInvariant, NEW c \in Callers,
           \/ CallControl(c) \/ CallRead(c) \/ CallOther(c) \/ CallWarm(c)
           \/ Acquire(c) \/ TryWarm(c) \/ ShareReport(c) \/ ReadAfresh(c)
           \/ NotCollected(c) \/ ChooseBase(c) \/ ReplyArrives(c) \/ ExchangeFails(c)
           \/ Return(c) \/ UnitAnswers(c) \/ UnitApplies(c)
    PROVE  BatchInvariant'
<1> DEFINE Kept == /\ Undisturbed /\ ControlPath' /\ LockHeld' /\ NeverLost'
                  /\ \A d \in Callers : pc'[d] = "take" =>
                        slot'[d] = slot[d] /\ batch'[d] = batch[d] /\ batch[d] \notin DOMAIN done[slot[d]]
<1> USE DEF Typed, TypeOK, unitVars, mapVars, lockVars, queueVars, deviceVars, callVars
<1> USE DEF BatchInvariant
<1>1. ASSUME CallControl(c) PROVE Kept
    <2>1. Undisturbed
        BY <1>1 DEF CallControl, Undisturbed, Joined, Sending, Enter
    <2>2. ControlPath'
        BY <1>1 DEF CallControl, ControlPath, Lost, Failed, NoReply, Ok, StateOf, Enter
    <2>3. LockHeld'
        BY <1>1, CallersAssumption DEF CallControl, LockHeld, InLock, Enter
    <2>4. NeverLost' /\ \A d \in Callers : pc'[d] = "take" =>
              slot'[d] = slot[d] /\ batch'[d] = batch[d] /\ batch[d] \notin DOMAIN done[slot[d]]
        BY <1>1 DEF CallControl, NeverLost, BatchWhereabouts, Lost, Failed, NoReply, Ok, StateOf, ControlPath, Enter
    <2> QED
        BY <2>1, <2>2, <2>3, <2>4
<1>2. ASSUME CallRead(c) PROVE Kept
    <2>1. Undisturbed
        BY <1>2 DEF CallRead, Undisturbed, Joined, Sending, Enter
    <2>2. ControlPath'
        BY <1>2 DEF CallRead, ControlPath, Lost, Failed, NoReply, Ok, StateOf, Enter
    <2>3. LockHeld'
        BY <1>2, CallersAssumption DEF CallRead, LockHeld, InLock, Enter
    <2>4. NeverLost' /\ \A d \in Callers : pc'[d] = "take" =>
              slot'[d] = slot[d] /\ batch'[d] = batch[d] /\ batch[d] \notin DOMAIN done[slot[d]]
        BY <1>2 DEF CallRead, NeverLost, BatchWhereabouts, Lost, Failed, NoReply, Ok, StateOf, ControlPath, Enter
    <2> QED
        BY <2>1, <2>2, <2>3, <2>4
<1>3. ASSUME CallOther(c) PROVE Kept
    <2>1. Undisturbed
        BY <1>3 DEF CallOther, Undisturbed, Joined, Sending, Enter
    <2>2. ControlPath'
        BY <1>3 DEF CallOther, ControlPath, Lost, Failed, NoReply, Ok, StateOf, Enter
    <2>3. LockHeld'
        BY <1>3, CallersAssumption DEF CallOther, LockHeld, InLock, Enter
    <2>4. NeverLost' /\ \A d \in Callers : pc'[d] = "take" =>
              slot'[d] = slot[d] /\ batch'[d] = batch[d] /\ batch[d] \notin DOMAIN done[slot[d]]
        BY <1>3 DEF CallOther, NeverLost, BatchWhereabouts, Lost, Failed, NoReply, Ok, StateOf, ControlPath, Enter
    <2> QED
        BY <2>1, <2>2, <2>3, <2>4
<1>4. ASSUME CallWarm(c) PROVE Kept
    <2>1. Undisturbed
        BY <1>4 DEF CallWarm, Undisturbed, Joined, Sending, Enter
    <2>2. ControlPath'
        BY <1>4 DEF CallWarm, ControlPath, Lost, Failed, NoReply, Ok, StateOf, Enter
    <2>3. LockHeld'
        BY <1>4, CallersAssumption DEF CallWarm, LockHeld, InLock, Enter
    <2>4. NeverLost' /\ \A d \in Callers : pc'[d] = "take" =>
              slot'[d] = slot[d] /\ batch'[d] = batch[d] /\ batch[d] \notin DOMAIN done[slot[d]]
        BY <1>4 DEF CallWarm, NeverLost, BatchWhereabouts, Lost, Failed, NoReply, Ok, StateOf, ControlPath, Enter
    <2> QED
        BY <2>1, <2>2, <2>3, <2>4
<1>5. ASSUME Acquire(c) PROVE Kept
    <2>1. Undisturbed
        BY <1>5 DEF Acquire, Free, Undisturbed, Joined, Sending
    <2>2. ControlPath'
        BY <1>5 DEF Acquire, Free, ControlPath, Lost, Failed, NoReply, Ok, StateOf
    <2>3. LockHeld'
        BY <1>5, CallersAssumption DEF Acquire, Free, LockHeld, InLock
    <2>4. NeverLost' /\ \A d \in Callers : pc'[d] = "take" =>
              slot'[d] = slot[d] /\ batch'[d] = batch[d] /\ batch[d] \notin DOMAIN done[slot[d]]
        BY <1>5 DEF Acquire, Free, NeverLost, BatchWhereabouts, Lost, Failed, NoReply, Ok, StateOf, ControlPath
    <2> QED
        BY <2>1, <2>2, <2>3, <2>4
<1>6. ASSUME TryWarm(c) PROVE Kept
    <2>0. \/ pc' = [pc EXCEPT ![c] = "ask"] /\ holder' = [holder EXCEPT ![slot[c]] = c]
             /\ holder[slot[c]] = Nobody
          \/ pc' = [pc EXCEPT ![c] = "idle"] /\ holder' = holder
        BY <1>6 DEF TryWarm, Free
    <2>1. Undisturbed
        <3>1. op[c] = "warm" /\ pc[c] = "warm"
            BY <1>6 DEF TryWarm, Free, ControlPath
        <3> QED
            BY <1>6, <2>0, <3>1 DEF TryWarm, Free, Undisturbed, Joined, Sending
    <2>2. ControlPath'
        BY <1>6 DEF TryWarm, Free, ControlPath, Lost, Failed, NoReply, Ok, StateOf
    <2>3. LockHeld'
        <3>1. /\ pc[c] = "warm" /\ slot' = slot
              /\ \A d \in Callers : d # c => pc'[d] = pc[d]
            BY <1>6, <2>0 DEF TryWarm, Free
        <3>2. CASE pc' = [pc EXCEPT ![c] = "ask"] /\ holder' = [holder EXCEPT ![slot[c]] = c]
                   /\ holder[slot[c]] = Nobody
            BY <3>1, <3>2, CallersAssumption DEF LockHeld, InLock
        <3>3. CASE pc' = [pc EXCEPT ![c] = "idle"] /\ holder' = holder
            BY <3>1, <3>3, CallersAssumption DEF LockHeld, InLock
        <3> QED
            BY <2>0, <3>2, <3>3
    <2>4. NeverLost' /\ \A d \in Callers : pc'[d] = "take" =>
              slot'[d] = slot[d] /\ batch'[d] = batch[d] /\ batch[d] \notin DOMAIN done[slot[d]]
        BY <1>6 DEF TryWarm, Free, NeverLost, BatchWhereabouts, Lost, Failed, NoReply, Ok, StateOf, ControlPath
    <2> QED
        BY <2>1, <2>2, <2>3, <2>4
<1>7. ASSUME ShareReport(c) PROVE Kept
    <2>1. Undisturbed
        BY <1>7 DEF ShareReport, Undisturbed, Joined, Sending, Release
    <2>2. ControlPath'
        BY <1>7 DEF ShareReport, ControlPath, Lost, Failed, NoReply, Ok, StateOf, Release
    <2>3. LockHeld'
        BY <1>7, CallersAssumption DEF ShareReport, LockHeld, InLock, Release
    <2>4. NeverLost' /\ \A d \in Callers : pc'[d] = "take" =>
              slot'[d] = slot[d] /\ batch'[d] = batch[d] /\ batch[d] \notin DOMAIN done[slot[d]]
        BY <1>7 DEF ShareReport, NeverLost, BatchWhereabouts, Lost, Failed, NoReply, Ok, StateOf, ControlPath, Release
    <2> QED
        BY <2>1, <2>2, <2>3, <2>4
<1>8. ASSUME ReadAfresh(c) PROVE Kept
    <2>1. Undisturbed
        <3>1. op[c] = "read"
            BY <1>8 DEF ReadAfresh, ControlPath
        <3> QED
            BY <1>8, <3>1 DEF ReadAfresh, Undisturbed, Joined, Sending
    <2>2. ControlPath'
        BY <1>8 DEF ReadAfresh, ControlPath, Lost, Failed, NoReply, Ok, StateOf
    <2>3. LockHeld'
        BY <1>8, CallersAssumption DEF ReadAfresh, LockHeld, InLock
    <2>4. NeverLost' /\ \A d \in Callers : pc'[d] = "take" =>
              slot'[d] = slot[d] /\ batch'[d] = batch[d] /\ batch[d] \notin DOMAIN done[slot[d]]
        BY <1>8 DEF ReadAfresh, NeverLost, BatchWhereabouts, Lost, Failed, NoReply, Ok, StateOf, ControlPath
    <2> QED
        BY <2>1, <2>2, <2>3, <2>4
<1>9. ASSUME NotCollected(c) PROVE Kept
    <2>1. Undisturbed
        BY <1>9 DEF NotCollected, Undisturbed, Joined, Sending
    <2>2. ControlPath'
        BY <1>9 DEF NotCollected, ControlPath, Lost, Failed, NoReply, Ok, StateOf
    <2>3. LockHeld'
        BY <1>9, CallersAssumption DEF NotCollected, LockHeld, InLock
    <2>4. NeverLost' /\ \A d \in Callers : pc'[d] = "take" =>
              slot'[d] = slot[d] /\ batch'[d] = batch[d] /\ batch[d] \notin DOMAIN done[slot[d]]
        BY <1>9 DEF NotCollected, NeverLost, BatchWhereabouts, Lost, Failed, NoReply, Ok, StateOf, ControlPath
    <2> QED
        BY <2>1, <2>2, <2>3, <2>4
<1>10. ASSUME ChooseBase(c) PROVE Kept
    <2>1. Undisturbed
        BY <1>10 DEF ChooseBase, Undisturbed, Joined, Sending
    <2>2. ControlPath'
        BY <1>10 DEF ChooseBase, ControlPath, Lost, Failed, NoReply, Ok, StateOf
    <2>3. LockHeld'
        <3>1. /\ pc[c] \in InLock /\ pc'[c] \in InLock
              /\ \A d \in Callers : d # c => pc'[d] = pc[d]
              /\ holder' = holder /\ slot' = slot
            BY <1>10 DEF ChooseBase, InLock
        <3>2. LockHeld /\ holder \in [Slots -> Callers \cup {Nobody}]
            OBVIOUS
        <3> QED
            BY ONLY <3>1, <3>2 DEF LockHeld
    <2>4. NeverLost' /\ \A d \in Callers : pc'[d] = "take" =>
              slot'[d] = slot[d] /\ batch'[d] = batch[d] /\ batch[d] \notin DOMAIN done[slot[d]]
        BY <1>10 DEF ChooseBase, NeverLost, BatchWhereabouts, Lost, Failed, NoReply, Ok, StateOf, ControlPath
    <2> QED
        BY <2>1, <2>2, <2>3, <2>4
<1>11. ASSUME ReplyArrives(c) PROVE Kept
    <2>1. Undisturbed
        BY <1>11 DEF ReplyArrives, Undisturbed, Joined, Sending, Answered
    <2>2. ControlPath'
        BY <1>11 DEF ReplyArrives, ControlPath, Lost, Failed, NoReply, Ok, StateOf, Answered
    <2>3. LockHeld'
        <3>1. /\ pc[c] \in InLock /\ pc'[c] \in InLock
              /\ \A d \in Callers : d # c => pc'[d] = pc[d]
              /\ holder' = holder /\ slot' = slot
            BY <1>11 DEF ReplyArrives, InLock
        <3>2. LockHeld /\ holder \in [Slots -> Callers \cup {Nobody}]
            OBVIOUS
        <3> QED
            BY ONLY <3>1, <3>2 DEF LockHeld
    <2>4. NeverLost' /\ \A d \in Callers : pc'[d] = "take" =>
              slot'[d] = slot[d] /\ batch'[d] = batch[d] /\ batch[d] \notin DOMAIN done[slot[d]]
        <3>1. /\ poisoned' = poisoned /\ slot' = slot /\ batch' = batch
              /\ reply' = reply \/ \E r : reply' = [reply EXCEPT ![c] = r] /\ r # Lost
            BY <1>11 DEF ReplyArrives, Ok, StateOf, Lost
        <3>2. NeverLost'
            BY <3>1 DEF NeverLost
        <3>3. \A d \in Callers : pc'[d] = "take" => pc[d] = "take"
            BY <1>11 DEF ReplyArrives
        <3> QED
            BY <3>1, <3>2, <3>3 DEF BatchWhereabouts
    <2> QED
        BY <2>1, <2>2, <2>3, <2>4
<1>12. ASSUME ExchangeFails(c) PROVE Kept
    <2>1. Undisturbed
        BY <1>12 DEF ExchangeFails, Undisturbed, Joined, Sending
    <2>2. ControlPath'
        BY <1>12 DEF ExchangeFails, ControlPath, Lost, Failed, NoReply, Ok, StateOf
    <2>3. LockHeld'
        BY <1>12, CallersAssumption DEF ExchangeFails, LockHeld, InLock
    <2>4. NeverLost' /\ \A d \in Callers : pc'[d] = "take" =>
              slot'[d] = slot[d] /\ batch'[d] = batch[d] /\ batch[d] \notin DOMAIN done[slot[d]]
        BY <1>12 DEF ExchangeFails, NeverLost, BatchWhereabouts, Lost, Failed, NoReply, Ok, StateOf, ControlPath
    <2> QED
        BY <2>1, <2>2, <2>3, <2>4
<1>13. ASSUME Return(c) PROVE Kept
    <2>1. Undisturbed
        BY <1>13 DEF Return, Undisturbed, Joined, Sending, NoReply
    <2>2. ControlPath'
        BY <1>13 DEF Return, ControlPath, Lost, Failed, NoReply, Ok, StateOf
    <2>3. LockHeld'
        BY <1>13, CallersAssumption DEF Return, LockHeld, InLock, NoReply
    <2>4. NeverLost' /\ \A d \in Callers : pc'[d] = "take" =>
              slot'[d] = slot[d] /\ batch'[d] = batch[d] /\ batch[d] \notin DOMAIN done[slot[d]]
        BY <1>13 DEF Return, NeverLost, BatchWhereabouts, Lost, Failed, NoReply, Ok, StateOf, ControlPath
    <2> QED
        BY <2>1, <2>2, <2>3, <2>4
<1>14. ASSUME UnitAnswers(c) PROVE Kept
    <2>1. Undisturbed
        BY <1>14 DEF UnitAnswers, Undisturbed, Joined, Sending
    <2>2. ControlPath'
        BY <1>14 DEF UnitAnswers, ControlPath, Lost, Failed, NoReply, Ok, StateOf
    <2>3. LockHeld'
        BY <1>14, CallersAssumption DEF UnitAnswers, LockHeld, InLock
    <2>4. NeverLost' /\ \A d \in Callers : pc'[d] = "take" =>
              slot'[d] = slot[d] /\ batch'[d] = batch[d] /\ batch[d] \notin DOMAIN done[slot[d]]
        BY <1>14 DEF UnitAnswers, NeverLost, BatchWhereabouts, Lost, Failed, NoReply, Ok, StateOf, ControlPath
    <2> QED
        BY <2>1, <2>2, <2>3, <2>4
<1>15. ASSUME UnitApplies(c) PROVE Kept
    <2>1. Undisturbed
        BY <1>15 DEF UnitApplies, Undisturbed, Joined, Sending
    <2>2. ControlPath'
        BY <1>15 DEF UnitApplies, ControlPath, Lost, Failed, NoReply, Ok, StateOf
    <2>3. LockHeld'
        BY <1>15, CallersAssumption DEF UnitApplies, LockHeld, InLock
    <2>4. NeverLost' /\ \A d \in Callers : pc'[d] = "take" =>
              slot'[d] = slot[d] /\ batch'[d] = batch[d] /\ batch[d] \notin DOMAIN done[slot[d]]
        BY <1>15 DEF UnitApplies, NeverLost, BatchWhereabouts, Lost, Failed, NoReply, Ok, StateOf, ControlPath
    <2> QED
        BY <2>1, <2>2, <2>3, <2>4
<1> QED
    <2>1. Kept
        BY <1>1, <1>2, <1>3, <1>4, <1>5, <1>6, <1>7, <1>8, <1>9, <1>10, <1>11, <1>12, <1>13, <1>14, <1>15
    <2> QED
        BY <2>1, UndisturbedStep

\* The rest of the world does not touch a queue at all.
LEMMA WorldSteps ==
    ASSUME Typed, BatchInvariant,
           \/ Upsert \/ Remove \/ Remote \/ Rest \/ UNCHANGED vars
           \/ \E s \in Slots : Age(s) \/ Backoff(s)
    PROVE  BatchInvariant'
<1> USE DEF Typed, TypeOK
<1>1. UNCHANGED <<lockVars, queueVars, pc, callVars, work, reply>>
    BY DEF Upsert, Remove, Remote, Rest, Age, Backoff, vars, unitVars, mapVars, deviceVars
<1>2. Undisturbed /\ LockHeld' /\ ControlPath' /\ NeverLost'
    BY <1>1 DEF lockVars, queueVars, callVars, BatchInvariant, Undisturbed, Joined, Sending,
                LockHeld, ControlPath, NeverLost
<1>3. \A d \in Callers : pc'[d] = "take" =>
        slot'[d] = slot[d] /\ batch'[d] = batch[d] /\ batch[d] \notin DOMAIN done[slot[d]]
    BY <1>1 DEF callVars, BatchInvariant, BatchWhereabouts
<1> QED
    BY <1>2, <1>3, UndisturbedStep DEF BatchInvariant

\* Only one thread is past lock_device on a slot.
LEMMA Exclusion ==
    ASSUME LockHeld, NEW c \in Callers, NEW d \in Callers,
           pc[c] \in InLock, pc[d] \in InLock, slot[c] = slot[d]
    PROVE  c = d
BY DEF LockHeld

\* Joining puts one more request into the batch that is next.
LEMMA JoinStep ==
    ASSUME Typed, BatchInvariant, NEW c \in Callers, Join(c)
    PROVE  BatchInvariant'
<1> USE DEF Typed, TypeOK, unitVars, mapVars, lockVars, queueVars, deviceVars, callVars
<1> DEFINE s == slot[c]
           n == nextBatch[s]
<1>1. /\ s \in Slots /\ n \in Nat /\ op[c] = "control" /\ pc[c] = "join"
      /\ pc' = [pc EXCEPT ![c] = "lock"] /\ batch' = [batch EXCEPT ![c] = n]
      /\ pendingCount' = [pendingCount EXCEPT ![s] = @ + 1]
      /\ UNCHANGED <<holder, poisoned, nextBatch, done, op, slot, work, reply>>
    BY DEF Join, BatchInvariant, ControlPath
<1>2. /\ ~Joined(c) /\ Joined(c)' /\ ~Sending(c) /\ ~Sending(c)'
      /\ \A d \in Callers :
            d # c => (Joined(d)' <=> Joined(d)) /\ (Sending(d)' <=> Sending(d)) /\ batch'[d] = batch[d]
    BY <1>1 DEF Joined, Sending
<1>3. ASSUME NEW t \in Slots, NEW b \in Nat, t # s \/ b # n
      PROVE  Waiting(t, b)' = Waiting(t, b)
    BY <1>1, <1>2, <1>3 DEF Waiting
<1>4. Waiting(s, n)' = Waiting(s, n) \cup {c} /\ c \notin Waiting(s, n)
    BY <1>1, <1>2 DEF Waiting
<1>5. Cardinality(Waiting(s, n)') = Cardinality(Waiting(s, n)) + 1
    <2>1. IsFiniteSet(Waiting(s, n))
        BY WaitingCount
    <2>2. Cardinality(Waiting(s, n) \cup {c}) = Cardinality(Waiting(s, n)) + 1
        BY ONLY <1>4, <2>1, FS_AddElement
    <2> QED
        BY <1>4, <2>2
<1>6. LockHeld' /\ ControlPath' /\ NeverLost'
    BY <1>1 DEF BatchInvariant, LockHeld, InLock, ControlPath, NeverLost
<1>7. BatchesAccounted'
    <2>1. ASSUME NEW t \in Slots
          PROVE  pendingCount'[t] = Cardinality(Waiting(t, nextBatch[t])')
        BY <1>1, <1>3, <1>5 DEF BatchInvariant, BatchesAccounted
    <2>2. ASSUME NEW t \in Slots, NEW b \in DOMAIN done[t]
          PROVE  /\ done[t][b].uncollected = Cardinality(Waiting(t, b)')
                 /\ Waiting(t, b)' # {}
        <3>1. b \in Nat /\ b < nextBatch[t]
            BY DEF BatchInvariant, BatchWhereabouts
        <3>2. Waiting(t, b)' = Waiting(t, b)
            BY <1>1, <1>3, <3>1
        <3> QED
            BY <3>2 DEF BatchInvariant, BatchesAccounted
    <2> QED
        BY <1>1, <2>1, <2>2 DEF BatchesAccounted
<1>8. BatchWhereabouts'
    <2>1. ASSUME NEW d \in Callers, Sending(d)'
          PROVE  /\ batch'[d] < nextBatch'[slot'[d]]
                 /\ batch'[d] \notin DOMAIN done'[slot'[d]]
                 /\ work'[d].merged = 1 + Cardinality(Waiting(slot[d], batch[d])')
                 /\ batch'[d] = batch[d]
        <3>1. /\ d # c /\ Sending(d) /\ batch'[d] = batch[d] /\ batch[d] < nextBatch[slot[d]]
              /\ batch[d] \notin DOMAIN done[slot[d]] /\ batch[d] \in Nat /\ slot[d] \in Slots
              /\ work[d].merged = 1 + Cardinality(Waiting(slot[d], batch[d]))
            BY <1>2, <2>1 DEF BatchInvariant, BatchWhereabouts
        <3>2. Waiting(slot[d], batch[d])' = Waiting(slot[d], batch[d])
            BY <1>1, <1>3, <3>1
        <3> QED
            BY <1>1, <3>1, <3>2
    <2>2. ASSUME NEW d \in Callers, Joined(d)'
          PROVE  \/ batch'[d] = nextBatch'[slot'[d]]
                 \/ /\ batch'[d] < nextBatch'[slot'[d]]
                    /\ \/ batch'[d] \in DOMAIN done'[slot'[d]]
                       \/ \E e \in Callers : Sending(e)' /\ slot'[e] = slot'[d] /\ batch'[e] = batch'[d]
                       \/ poisoned'[slot'[d]]
        <3>1. CASE d = c
            BY <1>1, <3>1
        <3>2. CASE d # c
            <4>1. Joined(d) /\ batch'[d] = batch[d]
                BY <1>2, <2>2, <3>2
            <4>2. CASE \E e \in Callers : Sending(e) /\ slot[e] = slot[d] /\ batch[e] = batch[d]
                BY <1>1, <1>2, <4>1, <4>2 DEF BatchInvariant, BatchWhereabouts
            <4>3. CASE ~ \E e \in Callers : Sending(e) /\ slot[e] = slot[d] /\ batch[e] = batch[d]
                BY <1>1, <4>1, <4>3 DEF BatchInvariant, BatchWhereabouts
            <4> QED
                BY <4>2, <4>3
        <3> QED
            BY <3>1, <3>2
    <2>3. \A d \in Callers : pc'[d] = "take" => batch'[d] \notin DOMAIN done'[slot'[d]]
        BY <1>1 DEF BatchInvariant, BatchWhereabouts
    <2>4. \A t \in Slots : \A b \in DOMAIN done'[t] : b < nextBatch'[t] /\ done'[t][b].outcome # Lost
        BY <1>1 DEF BatchInvariant, BatchWhereabouts
    <2>5. UNCHANGED slot
        BY <1>1
    <2> QED
        BY <2>1, <2>2, <2>3, <2>4, <2>5 DEF BatchWhereabouts
<1> QED
    BY <1>6, <1>7, <1>8 DEF BatchInvariant

\* Taking a batch makes its first request the sender and leaves the rest waiting.
LEMMA TakeStep ==
    ASSUME Typed, BatchInvariant, NEW c \in Callers, Take(c)
    PROVE  BatchInvariant'
<1> USE DEF Typed, TypeOK, unitVars, mapVars, lockVars, queueVars, deviceVars, callVars
<1> DEFINE s == slot[c]
           n == nextBatch[s]
<1>1. /\ s \in Slots /\ n \in Nat /\ op[c] = "control" /\ pc[c] = "take" /\ batch[c] = n
      /\ pc' = [pc EXCEPT ![c] = "base"] /\ work'[c].merged = pendingCount[s]
      /\ \A d \in Callers : d # c => work'[d] = work[d]
      /\ nextBatch' = [nextBatch EXCEPT ![s] = @ + 1]
      /\ pendingCount' = [pendingCount EXCEPT ![s] = 0]
      /\ UNCHANGED <<holder, poisoned, batch, done, op, slot, reply>>
    BY DEF Take, BatchInvariant, ControlPath
<1>2. /\ Joined(c) /\ ~Joined(c)' /\ ~Sending(c) /\ Sending(c)'
      /\ \A d \in Callers : d # c => (Joined(d)' <=> Joined(d)) /\ (Sending(d)' <=> Sending(d))
    BY <1>1 DEF Joined, Sending
<1>3. ASSUME NEW t \in Slots, NEW b \in Nat, t # s \/ b # n
      PROVE  Waiting(t, b)' = Waiting(t, b)
    BY <1>1, <1>2, <1>3 DEF Waiting
<1>4. /\ Waiting(s, batch[c])' = Waiting(s, n) \ {c}
      /\ c \in Waiting(s, n)
    BY <1>1, <1>2 DEF Waiting
<1>5. Cardinality(Waiting(s, n)) = 1 + Cardinality(Waiting(s, batch[c])')
    <2>1. IsFiniteSet(Waiting(s, n)) /\ Cardinality(Waiting(s, n)) \in Nat
        BY WaitingCount
    <2>2. Cardinality(Waiting(s, n) \ {c}) = Cardinality(Waiting(s, n)) - 1
        BY ONLY <1>4, <2>1, FS_RemoveElement
    <2> QED
        BY <1>4, <2>1, <2>2
<1>6. LockHeld' /\ ControlPath' /\ NeverLost'
    <2>1. LockHeld'
        BY <1>1 DEF BatchInvariant, LockHeld, InLock
    <2> QED
        BY <1>1, <2>1 DEF BatchInvariant, ControlPath, NeverLost
<1>7. ASSUME NEW d \in Callers, Joined(d), slot[d] = s
      PROVE  batch[d] \in Nat /\ batch[d] <= n
    BY <1>1, <1>7, SMTT(20) DEF BatchInvariant, BatchWhereabouts
<1>8. ASSUME NEW d \in Callers, Sending(d) PROVE slot[d] # s /\ d # c
    <2>1. pc[d] \in InLock /\ pc[c] \in InLock /\ d # c
        BY <1>1, <1>8 DEF Sending, InLock
    <2> QED
        BY <2>1, Exclusion DEF BatchInvariant
<1>9. BatchesAccounted'
    <2>1. ASSUME NEW t \in Slots
          PROVE  pendingCount'[t] = Cardinality(Waiting(t, nextBatch[t])')
        <3>1. CASE t = s
            <4>1. nextBatch'[t] = n + 1 /\ pendingCount'[t] = 0
                BY <1>1, <3>1
            <4>2. \A d \in Callers : ~(Joined(d)' /\ slot[d] = s /\ batch[d] = n + 1)
                <5>1. ASSUME NEW d \in Callers, Joined(d)', slot[d] = s PROVE batch[d] # n + 1
                    <6>1. Joined(d)
                        BY <1>2, <5>1
                    <6>2. batch[d] \in Nat /\ batch[d] <= n /\ n \in Nat
                        BY <1>1, <1>7, <5>1, <6>1
                    <6> QED
                        BY ONLY <6>2
                <5> QED
                    BY <5>1
            <4>3. Waiting(t, nextBatch[t])' = {}
                BY <1>1, <3>1, <4>1, <4>2 DEF Waiting
            <4> QED
                BY <4>1, <4>3, FS_EmptySet
        <3>2. CASE t # s
            <4>1. nextBatch'[t] = nextBatch[t] /\ pendingCount'[t] = pendingCount[t]
                BY <1>1, <3>2
            <4>2. Waiting(t, nextBatch[t])' = Waiting(t, nextBatch[t])
                BY <1>1, <1>2, <3>2, <4>1 DEF Waiting
            <4> QED
                BY <4>1, <4>2 DEF BatchInvariant, BatchesAccounted
        <3> QED
            BY <3>1, <3>2
    <2>2. ASSUME NEW t \in Slots, NEW b \in DOMAIN done[t]
          PROVE  /\ done[t][b].uncollected = Cardinality(Waiting(t, b)')
                 /\ Waiting(t, b)' # {}
        <3>1. b \in Nat /\ b < nextBatch[t]
            BY DEF BatchInvariant, BatchWhereabouts
        <3>2. Waiting(t, b)' = Waiting(t, b)
            BY <1>1, <1>3, <3>1
        <3> QED
            BY <3>2 DEF BatchInvariant, BatchesAccounted
    <2> QED
        BY <1>1, <2>1, <2>2 DEF BatchesAccounted
<1>10. BatchWhereabouts'
    <2>1. ASSUME NEW d \in Callers, Sending(d)'
          PROVE  /\ batch'[d] < nextBatch'[slot'[d]]
                 /\ batch'[d] \notin DOMAIN done'[slot'[d]]
                 /\ work'[d].merged = 1 + Cardinality(Waiting(slot[d], batch[d])')
        <3>1. CASE d = c
            <4>1. batch[c] \notin DOMAIN done[s]
                BY <1>1 DEF BatchInvariant, BatchWhereabouts
            <4>2. pendingCount[s] = Cardinality(Waiting(s, n))
                BY DEF BatchInvariant, BatchesAccounted
            <4> QED
                BY <1>1, <1>5, <3>1, <4>1, <4>2
        <3>2. CASE d # c
            <4>1. /\ Sending(d) /\ slot[d] # s /\ slot[d] \in Slots /\ batch[d] \in Nat
                  /\ batch[d] < nextBatch[slot[d]] /\ batch[d] \notin DOMAIN done[slot[d]]
                  /\ work[d].merged = 1 + Cardinality(Waiting(slot[d], batch[d]))
                BY <1>2, <1>8, <2>1, <3>2 DEF BatchInvariant, BatchWhereabouts
            <4>2. Waiting(slot[d], batch[d])' = Waiting(slot[d], batch[d])
                BY <1>1, <1>3, <4>1
            <4> QED
                BY <1>1, <3>2, <4>1, <4>2
        <3> QED
            BY <3>1, <3>2
    <2>2. ASSUME NEW d \in Callers, Joined(d)'
          PROVE  \/ batch'[d] = nextBatch'[slot'[d]]
                 \/ /\ batch'[d] < nextBatch'[slot'[d]]
                    /\ \/ batch'[d] \in DOMAIN done'[slot'[d]]
                       \/ \E e \in Callers : Sending(e)' /\ slot'[e] = slot'[d] /\ batch'[e] = batch'[d]
                       \/ poisoned'[slot'[d]]
        <3>1. d # c /\ Joined(d)
            BY <1>2, <2>2
        \* The batch that was next is c's now.
        <3>2. CASE slot[d] = s /\ batch[d] = n
            BY <1>1, <1>2, <3>2
        <3>3. CASE \E e \in Callers : Sending(e) /\ slot[e] = slot[d] /\ batch[e] = batch[d]
            BY <1>1, <1>2, <1>8, <3>1, <3>3 DEF BatchInvariant, BatchWhereabouts
        <3>4. CASE /\ ~(slot[d] = s /\ batch[d] = n)
                   /\ ~ \E e \in Callers : Sending(e) /\ slot[e] = slot[d] /\ batch[e] = batch[d]
            <4>1. \/ batch[d] = nextBatch[slot[d]] /\ slot[d] # s
                  \/ /\ batch[d] < nextBatch[slot[d]]
                     /\ batch[d] \in DOMAIN done[slot[d]] \/ poisoned[slot[d]]
                BY <3>1, <3>4 DEF BatchInvariant, BatchWhereabouts
            <4> QED
                BY <1>1, <4>1
        <3> QED
            BY <3>2, <3>3, <3>4
    <2>3. \A d \in Callers : pc'[d] = "take" => batch'[d] \notin DOMAIN done'[slot'[d]]
        BY <1>1 DEF BatchInvariant, BatchWhereabouts
    <2>4. \A t \in Slots : \A b \in DOMAIN done'[t] : b < nextBatch'[t] /\ done'[t][b].outcome # Lost
        <3>1. \A t \in Slots : nextBatch'[t] \in Nat /\ nextBatch[t] <= nextBatch'[t]
            BY <1>1
        <3> QED
            BY <1>1, <3>1 DEF BatchInvariant, BatchWhereabouts
    <2>5. UNCHANGED <<slot, batch>>
        BY <1>1
    <2> QED
        BY <2>1, <2>2, <2>3, <2>4, <2>5 DEF BatchWhereabouts
<1> QED
    BY <1>6, <1>9, <1>10 DEF BatchInvariant


\* Collecting takes one request out of a batch that is done; the outcome goes
\* with the last one.
LEMMA CollectStep ==
    ASSUME Typed, BatchInvariant, NEW c \in Callers, Collect(c)
    PROVE  BatchInvariant'
<1> USE DEF Typed, TypeOK, unitVars, mapVars, lockVars, queueVars, deviceVars, callVars
<1> DEFINE s == slot[c]
           n == batch[c]
<1>1. /\ s \in Slots /\ n \in Nat /\ op[c] = "control" /\ pc[c] = "collect" /\ n \in DOMAIN done[s]
      /\ pc' = [pc EXCEPT ![c] = "answer"] /\ holder' = [holder EXCEPT ![s] = Nobody]
      /\ done' = [done EXCEPT ![s] = OneCollected(@, n)]
      /\ UNCHANGED <<poisoned, pendingCount, nextBatch, batch, work, op, slot>>
    BY DEF Collect, Release, BatchInvariant, ControlPath
<1>2. /\ Joined(c) /\ ~Joined(c)' /\ ~Sending(c) /\ ~Sending(c)'
      /\ \A d \in Callers : d # c => (Joined(d)' <=> Joined(d)) /\ (Sending(d)' <=> Sending(d))
    BY <1>1 DEF Joined, Sending
<1>3. ASSUME NEW t \in Slots, NEW b \in Nat, t # s \/ b # n
      PROVE  Waiting(t, b)' = Waiting(t, b)
    BY <1>1, <1>2, <1>3 DEF Waiting
<1>4. c \in Waiting(s, n) /\ Waiting(s, n)' = Waiting(s, n) \ {c}
    BY <1>1, <1>2 DEF Waiting
<1>5. /\ Cardinality(Waiting(s, n)') = Cardinality(Waiting(s, n)) - 1
      /\ Cardinality(Waiting(s, n)) \in Nat
      /\ Cardinality(Waiting(s, n)') = 0 <=> Waiting(s, n)' = {}
    <2>1. IsFiniteSet(Waiting(s, n)) /\ Cardinality(Waiting(s, n)) \in Nat
        BY WaitingCount
    <2>2. /\ Cardinality(Waiting(s, n) \ {c}) = Cardinality(Waiting(s, n)) - 1
          /\ IsFiniteSet(Waiting(s, n) \ {c})
        BY ONLY <1>4, <2>1, FS_RemoveElement
    <2>3. Cardinality(Waiting(s, n)') = 0 <=> Waiting(s, n)' = {}
        BY ONLY <1>4, <2>2, FS_EmptySet
    <2> QED
        BY <1>4, <2>1, <2>2, <2>3
<1>6. /\ done[s][n].uncollected = Cardinality(Waiting(s, n))
      /\ DOMAIN done[s] \subseteq Nat /\ n < nextBatch[s]
    BY <1>1 DEF BatchInvariant, BatchesAccounted, BatchWhereabouts
<1>7. /\ \A t \in Slots : t # s => done'[t] = done[t]
      /\ done'[s] = OneCollected(done[s], n)
    BY <1>1
\* The outcome is gone only when its last request is.
<1>8. /\ \A b \in Nat : b # n => (b \in DOMAIN done'[s] <=> b \in DOMAIN done[s])
      /\ \A b \in DOMAIN done'[s] : b \in DOMAIN done[s]
      /\ \A b \in DOMAIN done'[s] : b # n => done'[s][b] = done[s][b]
      /\ n \in DOMAIN done'[s] <=> done[s][n].uncollected # 1
      /\ n \in DOMAIN done'[s] => done'[s][n].uncollected = done[s][n].uncollected - 1
    BY <1>1, <1>7 DEF OneCollected
<1>9. LockHeld' /\ ControlPath' /\ NeverLost'
    <2>1. done[s][n].outcome # Lost
        BY <1>1 DEF BatchInvariant, BatchWhereabouts
    <2>2. reply'[c] # Lost /\ \A d \in Callers : d # c => reply'[d] = reply[d]
        BY <1>1, <2>1 DEF Collect, Lost
    <2>3. LockHeld'
        BY <1>1, CallersAssumption DEF BatchInvariant, LockHeld, InLock
    <2>4. ControlPath' /\ NeverLost'
        BY <1>1, <2>2 DEF BatchInvariant, ControlPath, NeverLost
    <2> QED
        BY <2>3, <2>4
<1>10. BatchesAccounted'
    <2>1. ASSUME NEW t \in Slots
          PROVE  pendingCount'[t] = Cardinality(Waiting(t, nextBatch[t])')
        <3>1. nextBatch'[t] = nextBatch[t] /\ nextBatch[t] \in Nat /\ (t # s \/ nextBatch[t] # n)
            BY <1>1, <1>6
        <3>2. Waiting(t, nextBatch[t])' = Waiting(t, nextBatch[t])
            BY <1>1, <1>2, <3>1 DEF Waiting
        <3> QED
            BY <1>1, <3>2 DEF BatchInvariant, BatchesAccounted
    <2>2. ASSUME NEW t \in Slots, NEW b \in DOMAIN done'[t], t # s \/ b # n
          PROVE  done'[t][b].uncollected = Cardinality(Waiting(t, b)') /\ Waiting(t, b)' # {}
        <3>1. b \in DOMAIN done[t] /\ b \in Nat /\ done'[t][b] = done[t][b]
            BY <1>7, <1>8, <2>2
        <3>2. Waiting(t, b)' = Waiting(t, b)
            BY <1>3, <2>2, <3>1
        <3> QED
            BY <3>1, <3>2 DEF BatchInvariant, BatchesAccounted
    <2>3. n \in DOMAIN done'[s] =>
              done'[s][n].uncollected = Cardinality(Waiting(s, n)') /\ Waiting(s, n)' # {}
        BY <1>5, <1>6, <1>8
    <2> QED
        BY <1>1, <2>1, <2>2, <2>3 DEF BatchesAccounted
<1>11. BatchWhereabouts'
    <2>1. ASSUME NEW d \in Callers, Sending(d)'
          PROVE  /\ batch'[d] < nextBatch'[slot'[d]]
                 /\ batch'[d] \notin DOMAIN done'[slot'[d]]
                 /\ work'[d].merged = 1 + Cardinality(Waiting(slot[d], batch[d])')
        <3>1. /\ Sending(d) /\ d # c /\ batch[d] < nextBatch[slot[d]] /\ slot[d] \in Slots /\ batch[d] \in Nat
              /\ batch[d] \notin DOMAIN done[slot[d]]
              /\ work[d].merged = 1 + Cardinality(Waiting(slot[d], batch[d]))
            BY <1>2, <2>1 DEF BatchInvariant, BatchWhereabouts
        <3>2. slot[d] # s \/ batch[d] # n
            BY <1>1, <3>1
        <3>3. Waiting(slot[d], batch[d])' = Waiting(slot[d], batch[d])
            BY <1>1, <1>3, <3>1, <3>2
        <3>4. batch[d] \notin DOMAIN done'[slot[d]]
            BY <1>7, <1>8, <3>1
        <3> QED
            BY <1>1, <3>1, <3>3, <3>4
    <2>2. ASSUME NEW d \in Callers, Joined(d)'
          PROVE  \/ batch'[d] = nextBatch'[slot'[d]]
                 \/ /\ batch'[d] < nextBatch'[slot'[d]]
                    /\ \/ batch'[d] \in DOMAIN done'[slot'[d]]
                       \/ \E e \in Callers : Sending(e)' /\ slot'[e] = slot'[d] /\ batch'[e] = batch'[d]
                       \/ poisoned'[slot'[d]]
        <3>1. Joined(d) /\ d # c /\ slot[d] \in Slots /\ batch[d] \in Nat
            BY <1>2, <2>2
        <3>2. batch[d] \in DOMAIN done[slot[d]] => batch[d] \in DOMAIN done'[slot[d]]
            <4>1. CASE slot[d] = s /\ batch[d] = n
                <5>1. d \in Waiting(s, n)'
                    BY <1>1, <2>2, <4>1 DEF Waiting
                <5>2. Cardinality(Waiting(s, n)') # 0
                    BY <1>5, <5>1
                <5> QED
                    BY <1>5, <1>6, <1>8, <4>1, <5>2
            <4>2. CASE ~(slot[d] = s /\ batch[d] = n)
                BY <1>7, <1>8, <3>1, <4>2
            <4> QED
                BY <4>1, <4>2
        <3>3. CASE \E e \in Callers : Sending(e) /\ slot[e] = slot[d] /\ batch[e] = batch[d]
            BY <1>1, <1>2, <3>1, <3>3 DEF BatchInvariant, BatchWhereabouts
        <3>4. CASE ~ \E e \in Callers : Sending(e) /\ slot[e] = slot[d] /\ batch[e] = batch[d]
            <4>1. \/ batch[d] = nextBatch[slot[d]]
                  \/ /\ batch[d] < nextBatch[slot[d]]
                     /\ batch[d] \in DOMAIN done[slot[d]] \/ poisoned[slot[d]]
                BY <3>1, <3>4 DEF BatchInvariant, BatchWhereabouts
            <4> QED
                BY <1>1, <3>2, <4>1
        <3> QED
            BY <3>3, <3>4
    <2>3. \A d \in Callers : pc'[d] = "take" => batch'[d] \notin DOMAIN done'[slot'[d]]
        <3>1. ASSUME NEW d \in Callers, pc'[d] = "take" PROVE batch[d] \notin DOMAIN done'[slot[d]]
            <4>1. pc[d] = "take" /\ batch[d] \notin DOMAIN done[slot[d]] /\ slot[d] \in Slots /\ batch[d] \in Nat
                BY <1>1, <3>1 DEF BatchInvariant, BatchWhereabouts
            <4> QED
                BY <1>7, <1>8, <4>1
        <3> QED
            BY <1>1, <3>1
    <2>4. \A t \in Slots : \A b \in DOMAIN done'[t] : b < nextBatch'[t] /\ done'[t][b].outcome # Lost
        <3>1. ASSUME NEW t \in Slots, NEW b \in DOMAIN done'[t]
              PROVE  b \in DOMAIN done[t] /\ done'[t][b].outcome = done[t][b].outcome
            BY <1>1, <1>7, <1>8 DEF OneCollected
        <3> QED
            BY <1>1, <3>1 DEF BatchInvariant, BatchWhereabouts
    <2>5. UNCHANGED <<slot, batch>>
        BY <1>1
    <2> QED
        BY <2>1, <2>2, <2>3, <2>4, <2>5 DEF BatchWhereabouts
<1> QED
    BY <1>9, <1>10, <1>11 DEF BatchInvariant

\* Finishing hands the outcome to the rest of the batch.
LEMMA FinishStep ==
    ASSUME Typed, BatchInvariant, NEW c \in Callers, Finish(c)
    PROVE  BatchInvariant'
<1> USE DEF Typed, TypeOK, unitVars, mapVars, lockVars, queueVars, deviceVars, callVars
<1> DEFINE s == slot[c]
           n == batch[c]
<1>1. /\ s \in Slots /\ n \in Nat /\ pc[c] = "finish"
      /\ pc' = [pc EXCEPT ![c] = "answer"] /\ holder' = [holder EXCEPT ![s] = Nobody]
      /\ UNCHANGED <<poisoned, pendingCount, nextBatch, batch, work, op, slot, reply>>
    BY DEF Finish, Release
<1>2. /\ \A d \in Callers : Joined(d)' <=> Joined(d)
      /\ \A d \in Callers : Sending(d)' <=> (Sending(d) /\ d # c)
      /\ Sending(c) <=> op[c] = "control"
    BY <1>1 DEF Joined, Sending
<1>3. \A t, b : Waiting(t, b)' = Waiting(t, b)
    BY <1>1, <1>2 DEF Waiting
<1>4. LockHeld' /\ ControlPath' /\ NeverLost'
    <2>1. LockHeld'
        BY <1>1, CallersAssumption DEF BatchInvariant, LockHeld, InLock
    <2> QED
        BY <1>1, <2>1 DEF BatchInvariant, ControlPath, NeverLost
<1>5. ASSUME NEW d \in Callers, Sending(d), d # c PROVE slot[d] # s
    <2>1. pc[d] \in InLock /\ pc[c] \in InLock
        BY <1>1, <1>5 DEF Sending, InLock
    <2> QED
        BY <1>5, <2>1, Exclusion DEF BatchInvariant
<1>6. ASSUME NEW t \in Slots, NEW b \in DOMAIN done[t]
      PROVE  /\ b < nextBatch[t] /\ done[t][b].outcome # Lost
             /\ done[t][b].uncollected = Cardinality(Waiting(t, b)) /\ Waiting(t, b) # {}
    BY DEF BatchInvariant, BatchWhereabouts, BatchesAccounted
<1>7. reply[c] # Lost /\ work[c].merged \in Nat
    BY <1>1 DEF BatchInvariant, ControlPath, Work
\* What the outcomes are now, and that they cover exactly those waiting.
<1>8. /\ DOMAIN done' = Slots
      /\ \A t \in Slots : DOMAIN done[t] \subseteq DOMAIN done'[t]
      /\ \A t \in Slots : \A b \in DOMAIN done'[t] :
            /\ b < nextBatch[t] /\ done'[t][b].outcome # Lost
            /\ done'[t][b].uncollected = Cardinality(Waiting(t, b)) /\ Waiting(t, b) # {}
            /\ b \in DOMAIN done[t] \/ (t = s /\ b = n /\ Sending(c))
      /\ Sending(c) /\ Waiting(s, n) # {} => n \in DOMAIN done'[s]
    <2>1. CASE op[c] = "control" /\ work[c].merged > 1
        <3>1. done' = [done EXCEPT ![s] = WithOutcome(@, n, reply[c], work[c].merged - 1)]
            BY <2>1 DEF Finish
        <3>2. /\ Sending(c) /\ n < nextBatch[s]
              /\ work[c].merged = 1 + Cardinality(Waiting(s, n))
            BY <1>2, <2>1 DEF BatchInvariant, BatchWhereabouts
        <3>3. work[c].merged - 1 = Cardinality(Waiting(s, n)) /\ Waiting(s, n) # {}
            <4>1. /\ Cardinality(Waiting(s, n)) \in Nat
                  /\ Cardinality(Waiting(s, n)) = 0 <=> Waiting(s, n) = {}
                BY WaitingCount
            <4> QED
                BY ONLY <1>7, <2>1, <3>2, <4>1
        <3>4. /\ DOMAIN done' = Slots
              /\ \A t \in Slots : t # s => done'[t] = done[t]
              /\ DOMAIN done'[s] = DOMAIN done[s] \cup {n}
              /\ done'[s][n] = [outcome |-> reply[c], uncollected |-> work[c].merged - 1]
              /\ \A b \in DOMAIN done[s] : b # n => done'[s][b] = done[s][b]
            BY <1>1, <3>1 DEF WithOutcome
        <3>5. ASSUME NEW t \in Slots, NEW b \in DOMAIN done'[t]
              PROVE  /\ b < nextBatch[t] /\ done'[t][b].outcome # Lost
                     /\ done'[t][b].uncollected = Cardinality(Waiting(t, b)) /\ Waiting(t, b) # {}
                     /\ b \in DOMAIN done[t] \/ (t = s /\ b = n /\ Sending(c))
            <4>1. CASE t = s /\ b = n
                BY <1>7, <3>2, <3>3, <3>4, <4>1
            <4>2. CASE ~(t = s /\ b = n)
                <5>1. b \in DOMAIN done[t] /\ done'[t][b] = done[t][b]
                    BY <3>4, <3>5, <4>2
                <5> QED
                    BY <1>6, <5>1
            <4> QED
                BY <4>1, <4>2
        <3> QED
            BY <3>4, <3>5
    <2>2. CASE ~(op[c] = "control" /\ work[c].merged > 1)
        <3>1. done' = done
            BY <2>2 DEF Finish
        <3>2. ~(Sending(c) /\ Waiting(s, n) # {})
            <4>1. SUFFICES ASSUME Sending(c), Waiting(s, n) # {} PROVE FALSE
                OBVIOUS
            <4>2. work[c].merged = 1 + Cardinality(Waiting(s, n))
                BY <4>1 DEF BatchInvariant, BatchWhereabouts
            <4>3. Cardinality(Waiting(s, n)) \in Nat \ {0}
                BY <4>1, WaitingCount
            <4> QED
                BY <1>2, <2>2, <4>1, <4>2, <4>3
        <3> QED
            BY <1>6, <3>1, <3>2
    <2> QED
        BY <2>1, <2>2
<1>9. BatchesAccounted'
    <2>1. ASSUME NEW t \in Slots PROVE pendingCount'[t] = Cardinality(Waiting(t, nextBatch[t])')
        BY <1>1, <1>3 DEF BatchInvariant, BatchesAccounted
    <2> QED
        BY <1>1, <1>3, <1>8, <2>1 DEF BatchesAccounted
<1>10. BatchWhereabouts'
    <2>1. ASSUME NEW d \in Callers, Sending(d)'
          PROVE  /\ batch'[d] < nextBatch'[slot'[d]]
                 /\ batch'[d] \notin DOMAIN done'[slot'[d]]
                 /\ work'[d].merged = 1 + Cardinality(Waiting(slot[d], batch[d])')
        <3>1. /\ Sending(d) /\ slot[d] # s /\ slot[d] \in Slots
              /\ batch[d] < nextBatch[slot[d]] /\ batch[d] \notin DOMAIN done[slot[d]]
              /\ work[d].merged = 1 + Cardinality(Waiting(slot[d], batch[d]))
            BY <1>2, <1>5, <2>1 DEF BatchInvariant, BatchWhereabouts
        <3>2. batch[d] \notin DOMAIN done'[slot[d]]
            BY <1>8, <3>1
        <3> QED
            BY <1>1, <1>3, <3>1, <3>2
    <2>2. ASSUME NEW d \in Callers, Joined(d)'
          PROVE  \/ batch'[d] = nextBatch'[slot'[d]]
                 \/ /\ batch'[d] < nextBatch'[slot'[d]]
                    /\ \/ batch'[d] \in DOMAIN done'[slot'[d]]
                       \/ \E e \in Callers : Sending(e)' /\ slot'[e] = slot'[d] /\ batch'[e] = batch'[d]
                       \/ poisoned'[slot'[d]]
        <3>1. Joined(d) /\ slot[d] \in Slots
            BY <1>2, <2>2
        \* Whoever waited for c's batch finds it done.
        <3>2. CASE Sending(c) /\ slot[d] = s /\ batch[d] = n
            <4>1. d \in Waiting(s, n)
                BY <3>1, <3>2 DEF Waiting
            <4>2. n \in DOMAIN done'[s] /\ n < nextBatch[s]
                BY <1>1, <1>8, <3>2, <4>1
            <4> QED
                BY <1>1, <3>2, <4>2
        <3>3. CASE \E e \in Callers : e # c /\ Sending(e) /\ slot[e] = slot[d] /\ batch[e] = batch[d]
            BY <1>1, <1>2, <3>1, <3>3 DEF BatchInvariant, BatchWhereabouts
        <3>4. CASE /\ ~(Sending(c) /\ slot[d] = s /\ batch[d] = n)
                   /\ ~ \E e \in Callers : e # c /\ Sending(e) /\ slot[e] = slot[d] /\ batch[e] = batch[d]
            <4>1. \/ batch[d] = nextBatch[slot[d]]
                  \/ /\ batch[d] < nextBatch[slot[d]]
                     /\ batch[d] \in DOMAIN done[slot[d]] \/ poisoned[slot[d]]
                BY <3>1, <3>4 DEF BatchInvariant, BatchWhereabouts
            <4> QED
                BY <1>1, <1>8, <3>1, <4>1
        <3> QED
            BY <3>2, <3>3, <3>4
    <2>3. ASSUME NEW d \in Callers, pc'[d] = "take" PROVE batch'[d] \notin DOMAIN done'[slot'[d]]
        <3>1. pc[d] = "take" /\ batch[d] \notin DOMAIN done[slot[d]] /\ slot[d] \in Slots /\ d # c
            BY <1>1, <2>3 DEF BatchInvariant, BatchWhereabouts
        <3>2. slot[d] # s
            BY <1>1, <3>1, Exclusion DEF BatchInvariant, InLock
        <3> QED
            BY <1>1, <1>8, <3>1, <3>2
    <2>4. \A t \in Slots : \A b \in DOMAIN done'[t] : b < nextBatch'[t] /\ done'[t][b].outcome # Lost
        BY <1>1, <1>8
    <2>5. UNCHANGED <<slot, batch>>
        BY <1>1
    <2> QED
        BY <2>1, <2>2, <2>3, <2>4, <2>5 DEF BatchWhereabouts
<1> QED
    BY <1>4, <1>9, <1>10 DEF BatchInvariant

\* Only a panic loses a batch, and the caller that finds it lost waits no more.
LEMMA LossSteps ==
    ASSUME Typed, BatchInvariant, NEW c \in Callers, TakeLost(c) \/ Panic(c)
    PROVE  BatchInvariant'
<1> USE DEF Typed, TypeOK, unitVars, mapVars, lockVars, queueVars, deviceVars, callVars
<1> DEFINE s == slot[c]
           n == batch[c]
<1>1. /\ s \in Slots /\ n \in Nat /\ pc[c] \in InLock /\ pc' = [pc EXCEPT ![c] = "answer"]
      /\ holder' = [holder EXCEPT ![s] = Nobody]
      /\ \A d \in Callers : d # c => reply'[d] = reply[d]
      /\ \A t \in Slots : poisoned[t] => poisoned'[t]
      /\ UNCHANGED <<pendingCount, nextBatch, done, batch, work, op, slot>>
    BY SMTT(20) DEF TakeLost, Panic, Release, InLock
<1>2. /\ \A d \in Callers : Joined(d)' => Joined(d) /\ d # c
      /\ \A d \in Callers : d # c => (Joined(d)' <=> Joined(d))
      /\ \A d \in Callers : Sending(d)' <=> Sending(d) /\ d # c
    BY <1>1 DEF Joined, Sending
\* The sender of a slot is the one in its lock.
<1>3. ASSUME NEW d \in Callers, Sending(d), d # c PROVE slot[d] # s
    <2>1. pc[d] \in InLock
        BY <1>3 DEF Sending, InLock
    <2> QED
        BY <1>1, <1>3, <2>1, Exclusion DEF BatchInvariant
\* c waits for no batch that is next, and for none that is done.
<1>4. /\ poisoned'[s] \/ Sending(c) => poisoned'[s]
      /\ Joined(c) => n < nextBatch[s] /\ n \notin DOMAIN done[s]
      /\ Joined(c) => poisoned[s]
      /\ reply'[c] = Lost => poisoned'[s]
    <2>1. CASE TakeLost(c)
        <3>1. /\ op[c] = "control" /\ pc[c] = "take" /\ n # nextBatch[s] /\ Joined(c) /\ ~Sending(c)
              /\ poisoned' = poisoned
            BY <2>1 DEF TakeLost, Joined, Sending, BatchInvariant, ControlPath
        <3>2. n < nextBatch[s] /\ n \notin DOMAIN done[s]
            BY <3>1 DEF BatchInvariant, BatchWhereabouts
        <3>3. poisoned[s]
            <4>1. ~ \E d \in Callers : Sending(d) /\ slot[d] = s /\ batch[d] = n
                BY <1>3, <3>1
            <4> QED
                BY <3>1, <3>2, <4>1 DEF BatchInvariant, BatchWhereabouts
        <3> QED
            BY <3>1, <3>2, <3>3
    <2>2. CASE Panic(c)
        <3>1. poisoned'[s] /\ ~Joined(c)
            BY <1>1, <2>2 DEF Panic, Joined
        <3> QED
            BY <3>1
    <2> QED
        BY <2>1, <2>2
<1>5. ASSUME NEW t \in Slots, NEW b \in Nat, ~(Joined(c) /\ t = s /\ b = n)
      PROVE  Waiting(t, b)' = Waiting(t, b)
    BY <1>1, <1>2, <1>5 DEF Waiting
<1>6. LockHeld' /\ ControlPath' /\ NeverLost'
    <2>1. LockHeld'
        BY <1>1, CallersAssumption DEF BatchInvariant, LockHeld, InLock
    <2>2. ControlPath'
        BY <1>1 DEF BatchInvariant, ControlPath
    <2>3. NeverLost'
        BY <1>1, <1>4 DEF BatchInvariant, NeverLost
    <2> QED
        BY <2>1, <2>2, <2>3
<1>7. BatchesAccounted'
    <2>1. ASSUME NEW t \in Slots PROVE pendingCount'[t] = Cardinality(Waiting(t, nextBatch[t])')
        <3>1. nextBatch'[t] = nextBatch[t] /\ nextBatch[t] \in Nat
              /\ ~(Joined(c) /\ t = s /\ nextBatch[t] = n)
            BY <1>1, <1>4
        <3>2. Waiting(t, nextBatch[t])' = Waiting(t, nextBatch[t])
            BY <1>1, <1>5, <3>1
        <3> QED
            BY <1>1, <3>2 DEF BatchInvariant, BatchesAccounted
    <2>2. ASSUME NEW t \in Slots, NEW b \in DOMAIN done[t]
          PROVE  done[t][b].uncollected = Cardinality(Waiting(t, b)') /\ Waiting(t, b)' # {}
        <3>1. b \in Nat /\ ~(Joined(c) /\ t = s /\ b = n)
            BY <1>4, <2>2
        <3>2. Waiting(t, b)' = Waiting(t, b)
            BY <1>5, <3>1
        <3> QED
            BY <3>2 DEF BatchInvariant, BatchesAccounted
    <2> QED
        BY <1>1, <2>1, <2>2 DEF BatchesAccounted
<1>8. BatchWhereabouts'
    <2>1. ASSUME NEW d \in Callers, Sending(d)'
          PROVE  /\ batch'[d] < nextBatch'[slot'[d]]
                 /\ batch'[d] \notin DOMAIN done'[slot'[d]]
                 /\ work'[d].merged = 1 + Cardinality(Waiting(slot[d], batch[d])')
        <3>1. /\ Sending(d) /\ slot[d] # s /\ slot[d] \in Slots /\ batch[d] \in Nat
              /\ batch[d] < nextBatch[slot[d]] /\ batch[d] \notin DOMAIN done[slot[d]]
              /\ work[d].merged = 1 + Cardinality(Waiting(slot[d], batch[d]))
            BY <1>2, <1>3, <2>1 DEF BatchInvariant, BatchWhereabouts
        <3>2. Waiting(slot[d], batch[d])' = Waiting(slot[d], batch[d])
            BY <1>1, <1>5, <3>1
        <3> QED
            BY <1>1, <3>1, <3>2
    <2>2. ASSUME NEW d \in Callers, Joined(d)'
          PROVE  \/ batch'[d] = nextBatch'[slot'[d]]
                 \/ /\ batch'[d] < nextBatch'[slot'[d]]
                    /\ \/ batch'[d] \in DOMAIN done'[slot'[d]]
                       \/ \E e \in Callers : Sending(e)' /\ slot'[e] = slot'[d] /\ batch'[e] = batch'[d]
                       \/ poisoned'[slot'[d]]
        <3>1. Joined(d) /\ d # c /\ slot[d] \in Slots
            BY <1>2, <2>2
        \* c was sending it: the lock is poisoned now.
        <3>2. CASE Sending(c) /\ slot[d] = s
            <4>1. poisoned'[s]
                <5>1. Panic(c)
                    BY <3>2 DEF TakeLost, Sending
                <5> QED
                    BY <1>1, <5>1 DEF Panic
            <4> QED
                BY <1>1, <3>1, <3>2, <4>1 DEF BatchInvariant, BatchWhereabouts
        <3>3. CASE \E e \in Callers : e # c /\ Sending(e) /\ slot[e] = slot[d] /\ batch[e] = batch[d]
            BY <1>1, <1>2, <3>1, <3>3 DEF BatchInvariant, BatchWhereabouts
        <3>4. CASE /\ ~(Sending(c) /\ slot[d] = s)
                   /\ ~ \E e \in Callers : e # c /\ Sending(e) /\ slot[e] = slot[d] /\ batch[e] = batch[d]
            <4>1. \/ batch[d] = nextBatch[slot[d]]
                  \/ /\ batch[d] < nextBatch[slot[d]]
                     /\ batch[d] \in DOMAIN done[slot[d]] \/ poisoned[slot[d]]
                BY <3>1, <3>4 DEF BatchInvariant, BatchWhereabouts
            <4> QED
                BY <1>1, <3>1, <4>1
        <3> QED
            BY <3>2, <3>3, <3>4
    <2>3. \A d \in Callers : pc'[d] = "take" => batch'[d] \notin DOMAIN done'[slot'[d]]
        BY <1>1 DEF BatchInvariant, BatchWhereabouts
    <2>4. \A t \in Slots : \A b \in DOMAIN done'[t] : b < nextBatch'[t] /\ done'[t][b].outcome # Lost
        BY <1>1 DEF BatchInvariant, BatchWhereabouts
    <2>5. UNCHANGED <<slot, batch>>
        BY <1>1
    <2> QED
        BY <2>1, <2>2, <2>3, <2>4, <2>5 DEF BatchWhereabouts
<1> QED
    BY <1>6, <1>7, <1>8 DEF BatchInvariant

LEMMA InitBatch == Init => BatchInvariant
<1> SUFFICES ASSUME Init PROVE BatchInvariant
    OBVIOUS
<1>1. \A c \in Callers : pc[c] = "idle" /\ op[c] = "none" /\ reply[c] = NoReply
    BY DEF Init
<1>2. \A s, b : Waiting(s, b) = {}
    BY <1>1 DEF Waiting, Joined
<1>3. \A s \in Slots : pendingCount[s] = 0 /\ DOMAIN done[s] = {} /\ holder[s] = Nobody
    BY DEF Init
<1>4. LockHeld /\ ControlPath /\ NeverLost
    BY <1>1, <1>3 DEF LockHeld, InLock, ControlPath, NeverLost, NoReply, Lost
<1>5. BatchWhereabouts
    BY <1>1, <1>3 DEF BatchWhereabouts, Joined, Sending
<1>6. BatchesAccounted
    BY <1>2, <1>3, FS_EmptySet DEF BatchesAccounted
<1> QED
    BY <1>4, <1>5, <1>6 DEF BatchInvariant

LEMMA BatchStep == Typed /\ BatchInvariant /\ [Next]_vars => BatchInvariant'
<1> SUFFICES ASSUME Typed, BatchInvariant, [Next]_vars PROVE BatchInvariant'
    OBVIOUS
<1>1. ASSUME NEW c \in Callers, Step(c) PROVE BatchInvariant'
    BY <1>1, QuietSteps, JoinStep, TakeStep, CollectStep, FinishStep, LossSteps DEF Step
<1>2. ASSUME NEW c \in Callers,
             \/ CallControl(c) \/ CallRead(c) \/ CallOther(c) \/ CallWarm(c)
             \/ UnitAnswers(c) \/ UnitApplies(c)
      PROVE  BatchInvariant'
    BY <1>2, QuietSteps
<1>3. ASSUME NEW c \in Callers, Panic(c) PROVE BatchInvariant'
    BY <1>3, LossSteps
<1>4. CASE \/ Upsert \/ Remove \/ Remote \/ Rest \/ UNCHANGED vars
           \/ \E s \in Slots : Age(s) \/ Backoff(s)
    BY <1>4, WorldSteps
<1> QED
    BY <1>1, <1>2, <1>3, <1>4 DEF Next
-----------------------------------------------------------------------------
\* Every variable of the unit's record keeps its type, and a command is only
\* ever built on, and a waiting read only ever answered with, a report that
\* exists (send_change, read_state).
THEOREM TypeCorrect == Spec => [](TypeOK /\ Grounded)
<1>1. Init => Typed
    BY InitType
<1>2. Typed /\ [Next]_vars => Typed'
    BY TypeStep
<1>3. Typed => TypeOK /\ Grounded
    BY DEF Typed
<1> QED
    BY <1>1, <1>2, <1>3, PTL DEF Spec

\* control: the queue's counts are right in every reachable state, so an
\* outcome is kept until the last request of its batch has collected it, and
\* no longer; and a request finds its batch gone only after a panic
\* (manager.rs, "the command was lost before it was sent").
THEOREM BatchesCorrect == Spec => [](BatchesAccounted /\ NeverLost)
<1>1. Init => Typed /\ BatchInvariant
    BY InitType, InitBatch
<1>2. Typed /\ BatchInvariant /\ [Next]_vars => (Typed /\ BatchInvariant)'
    BY TypeStep, BatchStep
<1>3. BatchInvariant => BatchesAccounted /\ NeverLost
    BY DEF BatchInvariant
<1> QED
    BY <1>1, <1>2, <1>3, PTL DEF Spec

\* Module comment, "two requests to the same air conditioner serialise": they
\* do as long as the unit keeps the slot it has.
THEOREM Serialised == ASSUME MaxSlots = 1 PROVE Spec => []RequestsSerialise
<1>1. Init => Typed /\ BatchInvariant
    BY InitType, InitBatch
<1>2. Typed /\ BatchInvariant /\ [Next]_vars => (Typed /\ BatchInvariant)'
    BY TypeStep, BatchStep
<1>3. Typed /\ BatchInvariant => RequestsSerialise
    <2> SUFFICES ASSUME Typed, BatchInvariant PROVE RequestsSerialise
        OBVIOUS
    <2>1. ASSUME NEW c \in OnTheWire, NEW d \in OnTheWire PROVE c = d
        <3>1. pc[c] \in InLock /\ pc[d] \in InLock /\ c \in Callers /\ d \in Callers
            BY DEF OnTheWire, InLock
        <3>2. slot[c] = slot[d]
            BY <3>1, BoundAssumption DEF Typed, TypeOK, Slots
        <3> QED
            BY <3>1, <3>2, Exclusion DEF BatchInvariant
    <2>2. CASE OnTheWire = {}
        BY <2>2, FS_EmptySet DEF RequestsSerialise
    <2>3. CASE OnTheWire # {}
        <3>1. PICK c \in OnTheWire : OnTheWire = {c}
            BY <2>1, <2>3
        <3>2. Cardinality({c}) = 1
            BY FS_Singleton
        <3> QED
            BY <3>1, <3>2 DEF RequestsSerialise
    <2> QED
        BY <2>2, <2>3
<1> QED
    BY <1>1, <1>2, <1>3, PTL DEF Spec
-----------------------------------------------------------------------------
(* What a read returns.                                                    *)

\* An answer is on its way only to a thread that asked for one.
OnlyToAskers == \A c \in Callers : seen[c] # NoState => pc[c] \in {"ask", "apply"}

\* Everything a read may yet return is something the unit held since it
\* arrived: what the unit holds, what it answered the read, what it answered
\* the threads the read waits behind, and the report it is about to share.
Evidence ==
    \A c \in Callers : op[c] = "read" =>
        /\ unit \in since[c]
        /\ seen[c] # NoState => seen[c] \in since[c]
        /\ pc[c] = "lock" =>
            \A d \in Callers : slot[d] = slot[c] /\ seen[d] # NoState => seen[d] \in since[c]
        /\ "report" \in heard[c] /\ pc[c] \in {"lock", "share"} => report[slot[c]] \in since[c]

\* The inductive invariant behind ReadsAreCurrent.
ReadInvariant == OnlyToAskers /\ Evidence /\ ReadsAreCurrent

\* A step that tells nobody anything new, and starts no read.
LEMMA NothingHeard ==
    ASSUME ReadInvariant,
           UNCHANGED <<unit, slot, seen, heard, since, report>>,
           \A c \in Callers : seen[c] # NoState => pc'[c] \in {"ask", "apply"},
           \A c \in Callers : op'[c] = "read" =>
                /\ op[c] = "read"
                /\ pc'[c] = "lock" => pc[c] = "lock"
                /\ pc'[c] = "share" => pc[c] \in {"lock", "share"}
                /\ reply'[c].kind = "state" => reply'[c] = reply[c]
    PROVE  ReadInvariant'
<1>1. OnlyToAskers'
    BY DEF ReadInvariant, OnlyToAskers
<1>2. Evidence'
    BY DEF ReadInvariant, Evidence
<1>3. ReadsAreCurrent'
    BY DEF ReadInvariant, ReadsAreCurrent
<1> QED
    BY <1>1, <1>2, <1>3 DEF ReadInvariant

LEMMA ReplyKinds ==
    /\ NoReply.kind = "none" /\ Failed.kind = "failed" /\ Lost.kind = "lost"
    /\ \A st : StateOf(st).kind = "state" /\ StateOf(st).state = st
    /\ \A st, n : Ok(st, n).kind = "ok"
BY DEF NoReply, Failed, Lost, StateOf, Ok

LEMMA ReadStep ==
    ASSUME Typed, BatchInvariant, ReadInvariant, [Next]_vars
    PROVE  ReadInvariant'
<1> USE ReplyKinds DEF Typed, TypeOK, unitVars, mapVars, lockVars, queueVars, deviceVars, callVars
<1>1. ASSUME NEW c \in Callers,
             \/ CallControl(c) \/ CallOther(c) \/ CallWarm(c)
      PROVE  ReadInvariant'
    <2>1. /\ pc[c] = "idle" /\ op' = [op EXCEPT ![c] = op'[c]] /\ op'[c] # "read"
          /\ \A d \in Callers : d # c => pc'[d] = pc[d] /\ reply'[d] = reply[d] /\ slot'[d] = slot[d]
          /\ UNCHANGED <<unit, seen, heard, since, report>>
        BY <1>1 DEF CallControl, CallOther, CallWarm, Enter
    <2>2. seen[c] = NoState
        BY <2>1 DEF ReadInvariant, OnlyToAskers
    <2>3. OnlyToAskers'
        BY <2>1, <2>2 DEF ReadInvariant, OnlyToAskers
    <2>4. Evidence'
        BY <2>1, <2>2 DEF ReadInvariant, Evidence
    <2>5. ReadsAreCurrent'
        BY <2>1, SMTT(20) DEF ReadInvariant, ReadsAreCurrent
    <2> QED
        BY <2>3, <2>4, <2>5 DEF ReadInvariant
<1>2. ASSUME NEW c \in Callers, CallRead(c) PROVE ReadInvariant'
    <2>1. /\ pc[c] = "idle" /\ op' = [op EXCEPT ![c] = "read"] /\ pc' = [pc EXCEPT ![c] = "lock"]
          /\ \A d \in Callers : d # c => pc'[d] = pc[d]
          /\ reply' = [reply EXCEPT ![c] = NoReply] /\ slot' = [slot EXCEPT ![c] = current]
          /\ heard' = [heard EXCEPT ![c] = {}]
          /\ since' = [since EXCEPT ![c] = {unit} \cup OnItsWay(current)]
          /\ UNCHANGED <<unit, seen, report>>
        BY <1>2 DEF CallRead, Enter
    <2>2. seen[c] = NoState
        BY <2>1 DEF ReadInvariant, OnlyToAskers
    <2>3. OnlyToAskers'
        <3> SUFFICES ASSUME NEW d \in Callers, seen'[d] # NoState PROVE pc'[d] \in {"ask", "apply"}
            BY DEF OnlyToAskers
        <3>1. d # c /\ pc'[d] = pc[d] /\ seen[d] # NoState
            BY <2>1, <2>2
        <3> QED
            BY <3>1 DEF ReadInvariant, OnlyToAskers
    <2>4. \A d \in Callers : slot'[d] = current /\ seen[d] # NoState => seen[d] \in OnItsWay(current)
        BY <2>1, <2>2 DEF OnItsWay
    <2>5. Evidence'
        <3>1. ASSUME NEW d \in Callers, d # c, op'[d] = "read"
              PROVE  /\ unit' \in since'[d]
                     /\ seen'[d] # NoState => seen'[d] \in since'[d]
                     /\ pc'[d] = "lock" =>
                         \A e \in Callers : slot'[e] = slot'[d] /\ seen'[e] # NoState => seen'[e] \in since'[d]
                     /\ "report" \in heard'[d] /\ pc'[d] \in {"lock", "share"}
                            => report'[slot'[d]] \in since'[d]
            BY <2>1, <2>2, <3>1 DEF ReadInvariant, Evidence
        <3>2. /\ unit' \in since'[c] /\ seen'[c] = NoState /\ heard'[c] = {}
              /\ \A e \in Callers : slot'[e] = slot'[c] /\ seen'[e] # NoState => seen'[e] \in since'[c]
            BY <2>1, <2>2, <2>4
        <3> QED
            BY <3>1, <3>2 DEF Evidence
    <2>6. ReadsAreCurrent'
        BY <2>1 DEF ReadInvariant, ReadsAreCurrent
    <2> QED
        BY <2>3, <2>5, <2>6 DEF ReadInvariant
\* Joining a batch, taking the lock or giving up on it, and choosing what to do with it.
<1>3. ASSUME NEW c \in Callers, Join(c) PROVE ReadInvariant'
    BY <1>3, NothingHeard DEF Join, BatchInvariant, ControlPath, ReadInvariant, OnlyToAskers
<1>4. ASSUME NEW c \in Callers, Acquire(c) PROVE ReadInvariant'
    BY <1>4, NothingHeard DEF Acquire, ReadInvariant, OnlyToAskers
<1>5. ASSUME NEW c \in Callers, TryWarm(c) PROVE ReadInvariant'
    <2>1. pc[c] = "warm" /\ op[c] = "warm" /\ seen[c] = NoState
        BY <1>5 DEF TryWarm, BatchInvariant, ControlPath, ReadInvariant, OnlyToAskers
    <2>2. \A d \in Callers : d # c => pc'[d] = pc[d]
        BY <1>5 DEF TryWarm
    <2> QED
        BY <1>5, <2>1, <2>2, NothingHeard DEF TryWarm, ReadInvariant, OnlyToAskers
<1>6. ASSUME NEW c \in Callers, ReadAfresh(c) \/ NotCollected(c) PROVE ReadInvariant'
    BY <1>6, NothingHeard, ZenonT(30) DEF ReadAfresh, NotCollected, ReadInvariant, OnlyToAskers
<1>7. ASSUME NEW c \in Callers, Take(c) PROVE ReadInvariant'
    BY <1>7, NothingHeard DEF Take, ReadInvariant, OnlyToAskers
<1>8. ASSUME NEW c \in Callers, ChooseBase(c) PROVE ReadInvariant'
    <2>0. seen[c] = NoState
        BY <1>8 DEF ChooseBase, ReadInvariant, OnlyToAskers
    <2>1. pc[c] = "base" /\ seen[c] = NoState /\ pc' = [pc EXCEPT ![c] = pc'[c]] /\ pc'[c] \in {"ask", "apply"}
        <3>1. CASE fresh[slot[c]]
            BY <1>8, <2>0, <3>1 DEF ChooseBase
        <3>2. CASE ~fresh[slot[c]]
            BY <1>8, <2>0, <3>2 DEF ChooseBase
        <3> QED
            BY <3>1, <3>2
    <2>2. /\ UNCHANGED <<unit, slot, seen, heard, since, report, op, reply>>
          /\ \A d \in Callers : d # c => pc'[d] = pc[d]
        BY <1>8, <2>1 DEF ChooseBase
    <2>3. \A d \in Callers : seen[d] # NoState => pc'[d] \in {"ask", "apply"}
        BY <2>1, <2>2 DEF ReadInvariant, OnlyToAskers
    <2>4. \A d \in Callers : op'[d] = "read" =>
              /\ op[d] = "read"
              /\ pc'[d] = "lock" => pc[d] = "lock"
              /\ pc'[d] = "share" => pc[d] \in {"lock", "share"}
              /\ reply'[d].kind = "state" => reply'[d] = reply[d]
        BY <2>1, <2>2
    <2> QED
        BY ONLY <2>2, <2>3, <2>4, ReadInvariant, NothingHeard
\* A shared report is evidence; the others answer with no state, or no read.
<1>9. ASSUME NEW c \in Callers, ShareReport(c) PROVE ReadInvariant'
    <2>1. /\ pc[c] = "share" /\ pc' = [pc EXCEPT ![c] = "answer"] /\ seen[c] = NoState
          /\ reply' = [reply EXCEPT ![c] = IF "report" \in heard[c] THEN StateOf(report[slot[c]])
                                                                    ELSE Failed]
          /\ UNCHANGED <<unit, slot, op, seen, heard, since, report>>
        BY <1>9 DEF ShareReport, ReadInvariant, OnlyToAskers
    <2>2. OnlyToAskers'
        BY <2>1 DEF ReadInvariant, OnlyToAskers
    <2>3. Evidence'
        BY <2>1 DEF ReadInvariant, Evidence
    <2>4. ReadsAreCurrent'
        <3>1. op[c] = "read" /\ reply'[c].kind = "state" => reply'[c].state \in since[c]
            <4>1. reply[c] \in Replies /\ reply' = [reply EXCEPT ![c] = reply'[c]]
                BY <2>1
            <4>2. CASE "report" \in heard[c]
                <5>1. reply'[c] = StateOf(report[slot[c]])
                    BY <2>1, <4>2
                <5> QED
                    BY <2>1, <4>2, <5>1 DEF ReadInvariant, Evidence
            <4>3. CASE "report" \notin heard[c]
                <5>1. reply'[c] = Failed
                    BY <2>1, <4>3
                <5> QED
                    BY <5>1
            <4> QED
                BY <4>2, <4>3
        <3>2. \A d \in Callers : d # c => reply'[d] = reply[d]
            BY <2>1
        <3> QED
            BY <2>1, <3>1, <3>2 DEF ReadInvariant, ReadsAreCurrent
    <2> QED
        BY <2>2, <2>3, <2>4 DEF ReadInvariant
<1>10. ASSUME NEW c \in Callers, Collect(c) PROVE ReadInvariant'
    <2>1. op[c] = "control" /\ pc[c] = "collect" /\ seen[c] = NoState
        BY <1>10 DEF Collect, BatchInvariant, ControlPath, ReadInvariant, OnlyToAskers
    <2> QED
        BY <1>10, <2>1, NothingHeard DEF Collect, ReadInvariant, OnlyToAskers
<1>11. ASSUME NEW c \in Callers, TakeLost(c) PROVE ReadInvariant'
    <2>1. op[c] = "control" /\ pc[c] = "take" /\ seen[c] = NoState
        BY <1>11 DEF TakeLost, BatchInvariant, ControlPath, ReadInvariant, OnlyToAskers
    <2>2. /\ pc' = [pc EXCEPT ![c] = "answer"]
          /\ \A d \in Callers : d # c => reply'[d] = reply[d]
          /\ UNCHANGED <<unit, slot, seen, heard, since, report, op>>
        BY <1>11 DEF TakeLost
    <2> QED
        BY <2>1, <2>2, NothingHeard DEF ReadInvariant, OnlyToAskers
\* The unit answers, or takes a command; and somebody uses the remote.
<1>12. ASSUME NEW c \in Callers, UnitAnswers(c) \/ UnitApplies(c) PROVE ReadInvariant'
    <2>1. /\ pc[c] \in {"ask", "apply"} /\ seen' = [seen EXCEPT ![c] = unit']
          /\ UNCHANGED <<slot, op, pc, heard, report, reply>>
        BY <1>12 DEF UnitAnswers, UnitApplies
    <2>2. \A d \in Callers : op[d] = "read" => since[d] \subseteq since'[d] /\ unit' \in since'[d]
        <3>1. CASE UnitAnswers(c)
            BY <3>1 DEF UnitAnswers, ReadInvariant, Evidence
        <3>2. CASE UnitApplies(c)
            BY <3>2 DEF UnitApplies, Witness, ReadInvariant, Evidence
        <3> QED
            BY <1>12, <3>1, <3>2
    <2>3. OnlyToAskers'
        BY <2>1 DEF ReadInvariant, OnlyToAskers
    <2>4. Evidence'
        BY <2>1, <2>2 DEF ReadInvariant, Evidence
    <2>5. ReadsAreCurrent'
        BY <2>1, <2>2 DEF ReadInvariant, ReadsAreCurrent
    <2> QED
        BY <2>3, <2>4, <2>5 DEF ReadInvariant
<1>13. CASE Remote
    <2>1. since' = Witness /\ UNCHANGED <<slot, op, pc, seen, heard, report, reply>>
        BY <1>13 DEF Remote
    <2>2. \A d \in Callers : op[d] = "read" => since[d] \subseteq since'[d] /\ unit' \in since'[d]
        BY <2>1 DEF Witness, ReadInvariant, Evidence
    <2>3. OnlyToAskers'
        BY <2>1 DEF ReadInvariant, OnlyToAskers
    <2>4. Evidence'
        BY <2>1, <2>2 DEF ReadInvariant, Evidence
    <2>5. ReadsAreCurrent'
        BY <2>1, <2>2 DEF ReadInvariant, ReadsAreCurrent
    <2> QED
        BY <2>3, <2>4, <2>5 DEF ReadInvariant
\* The answer arrives: it is kept as the report, and those who wait hear of it.
<1>14. ASSUME NEW c \in Callers, ReplyArrives(c) PROVE ReadInvariant'
    <2>1. /\ pc[c] \in {"ask", "apply"} /\ seen[c] \in Settings /\ seen[c] # NoState
          /\ seen' = [seen EXCEPT ![c] = NoState]
          /\ UNCHANGED <<unit, slot, since>>
          /\ \A d \in Callers : d # c => pc'[d] = pc[d] /\ op'[d] = op[d] /\ reply'[d] = reply[d]
          /\ pc'[c] \in {"ask", "apply", "finish"}
          /\ op'[c] = "read" => op[c] = "read"
        BY <1>14 DEF ReplyArrives
    <2>2. \A s \in Slots : \/ report'[s] = report[s]
                           \/ s = slot[c] /\ report'[s] = seen[c]
        BY <1>14 DEF ReplyArrives, Answered
    <2>3. \A d \in Callers : "report" \in heard'[d] =>
              \/ "report" \in heard[d]
              \/ d \in Readers(slot[c]) /\ report'[slot[c]] = seen[c]
        BY <1>14 DEF ReplyArrives, Answered
    <2>4. \A d \in Callers : pc[d] = "share" => slot[d] # slot[c]
        BY <2>1 DEF BatchInvariant, LockHeld, InLock
    <2>5. OnlyToAskers'
        BY <2>1 DEF ReadInvariant, OnlyToAskers
    <2>6. Evidence'
        <3>1. ASSUME NEW d \in Callers, op'[d] = "read", "report" \in heard'[d],
                     pc'[d] \in {"lock", "share"}
              PROVE  report'[slot[d]] \in since[d]
            <4>1. d # c /\ pc[d] = pc'[d] /\ op[d] = "read"
                BY <2>1, <3>1
            <4>2. CASE pc[d] = "share"
                BY <2>2, <2>3, <2>4, <3>1, <4>1, <4>2 DEF ReadInvariant, Evidence, Readers
            <4>3. CASE pc[d] = "lock" /\ slot[d] = slot[c]
                BY <2>1, <2>2, <2>3, <3>1, <4>1, <4>3 DEF ReadInvariant, Evidence, Readers
            <4>4. CASE pc[d] = "lock" /\ slot[d] # slot[c]
                BY <2>2, <2>3, <3>1, <4>1, <4>4 DEF ReadInvariant, Evidence, Readers
            <4> QED
                BY <3>1, <4>1, <4>2, <4>3, <4>4
        <3> QED
            BY <2>1, <3>1 DEF ReadInvariant, Evidence
    <2>7. ReadsAreCurrent'
        <3>1. op'[c] = "read" /\ reply'[c].kind = "state" => reply'[c].state \in since[c]
            <4>1. SUFFICES ASSUME op'[c] = "read" PROVE reply'[c].state \in since[c]
                OBVIOUS
            <4>2. op[c] = "read"
                BY <2>1, <4>1
            <4>3. reply' = [reply EXCEPT ![c] = StateOf(seen[c])]
                BY <1>14, <4>2 DEF ReplyArrives
            <4> QED
                BY <2>1, <4>2, <4>3 DEF ReadInvariant, Evidence
        <3> QED
            BY <2>1, <3>1 DEF ReadInvariant, ReadsAreCurrent
    <2> QED
        BY <2>5, <2>6, <2>7 DEF ReadInvariant
<1>15. ASSUME NEW c \in Callers, ExchangeFails(c) \/ Panic(c) PROVE ReadInvariant'
    <2>1. /\ seen' = [seen EXCEPT ![c] = NoState]
          /\ pc' = [pc EXCEPT ![c] = pc'[c]] /\ pc'[c] \in {"finish", "answer"}
          /\ \A d \in Callers : "report" \in heard'[d] => "report" \in heard[d]
          /\ reply' = [reply EXCEPT ![c] = reply'[c]] /\ reply'[c] \in {NoReply, Failed}
          /\ UNCHANGED <<unit, slot, op, since, report>>
        <3>1. CASE ExchangeFails(c)
            <4>1. \A d \in Callers : heard'[d] = heard[d] \/ heard'[d] = heard[d] \cup {"failure"}
                BY <3>1 DEF ExchangeFails
            <4>2. reply' = [reply EXCEPT ![c] = reply'[c]] /\ reply'[c] \in {NoReply, Failed}
                BY <3>1 DEF ExchangeFails
            <4> QED
                BY <3>1, <4>1, <4>2 DEF ExchangeFails
        <3>2. CASE Panic(c)
            BY <3>2 DEF Panic
        <3> QED
            BY <1>15, <3>1, <3>2
    <2>2. OnlyToAskers'
        BY <2>1 DEF ReadInvariant, OnlyToAskers
    <2>3. Evidence'
        BY <2>1 DEF ReadInvariant, Evidence
    <2>4. ReadsAreCurrent'
        BY <2>1, SMTT(20) DEF ReadInvariant, ReadsAreCurrent
    <2> QED
        BY <2>2, <2>3, <2>4 DEF ReadInvariant
<1>16. ASSUME NEW c \in Callers, Finish(c) PROVE ReadInvariant'
    <2>1. seen[c] = NoState
        BY <1>16 DEF Finish, ReadInvariant, OnlyToAskers
    <2>2. pc' = [pc EXCEPT ![c] = "answer"]
          /\ UNCHANGED <<unit, slot, op, seen, heard, since, report, reply>>
        BY <1>16 DEF Finish
    <2> QED
        BY <2>1, <2>2, NothingHeard DEF ReadInvariant, OnlyToAskers
<1>17. ASSUME NEW c \in Callers, Return(c) PROVE ReadInvariant'
    <2>1. /\ seen[c] = NoState /\ pc' = [pc EXCEPT ![c] = "idle"] /\ op' = [op EXCEPT ![c] = "none"]
          /\ heard' = [heard EXCEPT ![c] = {}] /\ since' = [since EXCEPT ![c] = {}]
          /\ reply' = [reply EXCEPT ![c] = NoReply]
          /\ UNCHANGED <<unit, slot, seen, report>>
        BY <1>17 DEF Return, ReadInvariant, OnlyToAskers
    <2>2. OnlyToAskers'
        BY <2>1 DEF ReadInvariant, OnlyToAskers
    <2>3. Evidence'
        BY <2>1 DEF ReadInvariant, Evidence
    <2>4. ReadsAreCurrent'
        BY <2>1 DEF ReadInvariant, ReadsAreCurrent
    <2> QED
        BY <2>2, <2>3, <2>4 DEF ReadInvariant
<1>18. CASE Upsert \/ Remove \/ Rest \/ (\E s \in Slots : Age(s) \/ Backoff(s)) \/ UNCHANGED vars
    <2>1. UNCHANGED <<unit, slot, op, pc, seen, heard, since, report, reply>>
        BY <1>18 DEF Upsert, Remove, Rest, Age, Backoff, vars
    <2> QED
        BY <2>1, NothingHeard DEF ReadInvariant, OnlyToAskers
<1> QED
    BY <1>1, <1>2, <1>3, <1>4, <1>5, <1>6, <1>7, <1>8, <1>9, <1>10, <1>11, <1>12, <1>13, <1>14, <1>15, <1>16, <1>17, <1>18 DEF Next, Step

LEMMA InitReads == Init => ReadInvariant
<1> SUFFICES ASSUME Init PROVE ReadInvariant
    OBVIOUS
<1>1. \A c \in Callers : op[c] = "none" /\ reply[c] = NoReply /\ seen[c] = NoState
    BY DEF Init
<1> QED
    BY <1>1 DEF ReadInvariant, OnlyToAskers, Evidence, ReadsAreCurrent

\* read_state, "as current as a fresh read": whatever a read returns, its own
\* answer or a report another thread got while it waited, the unit held it
\* after the read arrived or had just answered it when it did.
THEOREM ReadsCurrent == Spec => []ReadsAreCurrent
<1>1. Init => Typed /\ BatchInvariant /\ ReadInvariant
    BY InitType, InitBatch, InitReads
<1>2. Typed /\ BatchInvariant /\ ReadInvariant /\ [Next]_vars
        => (Typed /\ BatchInvariant /\ ReadInvariant)'
    BY TypeStep, BatchStep, ReadStep
<1>3. ReadInvariant => ReadsAreCurrent
    BY DEF ReadInvariant
<1> QED
    BY <1>1, <1>2, <1>3, PTL DEF Spec
-----------------------------------------------------------------------------
(* What is published, and what a command is built on.                      *)

StatusOf(s) == [online |-> online[s], connected |-> connected[s], known |-> known[s]]

\* The published copy is right unless the thread that holds the unit may have
\* touched the record: of the others that leave the unit, none publishes.
Published ==
    \A s \in Slots :
        ~poisoned[s] /\ (holder[s] = Nobody \/ pc[holder[s]] \in {"collect", "take", "share"})
            => status[s] = StatusOf(s)

\* A command waits for nothing between choosing its base and going out, so its
\* base is still the last report.
BuiltOnReport == \A c \in Callers : pc[c] = "apply" => base[c] = report[slot[c]]

\* The inductive invariant behind StatusCurrent and OnlyAskedFieldsChange.
RecordInvariant == Published /\ BuiltOnReport

\* A thread holds the unit it is in, and no other.
LEMMA HoldsOnlyItsOwn ==
    ASSUME BatchInvariant, NEW c \in Callers
    PROVE  /\ pc[c] \notin InLock => \A s \in Slots : holder[s] # c
           /\ \A s \in Slots : s # slot[c] => holder[s] # c
BY CallersAssumption DEF BatchInvariant, LockHeld

\* A step that leaves the record of every unit alone, and moves nobody to a
\* place where it should have been published.
LEMMA RecordUntouched ==
    ASSUME Typed, BatchInvariant, RecordInvariant,
           UNCHANGED <<holder, poisoned, online, connected, known, status, report, base, slot>>,
           \A c \in Callers :
                /\ pc'[c] \in {"collect", "take", "share"} => pc[c] \in {"collect", "take", "share"}
                /\ pc'[c] = "apply" => pc[c] = "apply"
    PROVE  RecordInvariant'
<1> USE DEF Typed, TypeOK
<1>1. Published'
    BY DEF RecordInvariant, Published, StatusOf
<1>2. BuiltOnReport'
    BY DEF RecordInvariant, BuiltOnReport
<1> QED
    BY <1>1, <1>2 DEF RecordInvariant

\* A thread that leaves the unit with the record as it found it.
LEMMA RecordLeft ==
    ASSUME Typed, BatchInvariant, RecordInvariant, NEW c \in Callers,
           pc[c] \in {"collect", "take", "share"}, pc' = [pc EXCEPT ![c] = "answer"], Release(c),
           UNCHANGED <<poisoned, online, connected, known, status, report, base, slot>>
    PROVE  RecordInvariant'
<1> USE DEF Typed, TypeOK
<1>1. holder[slot[c]] = c /\ slot[c] \in Slots
    BY DEF BatchInvariant, LockHeld, InLock
<1>2. \A s \in Slots : s # slot[c] => holder'[s] = holder[s] /\ holder[s] # c
    BY CallersAssumption DEF Release, BatchInvariant, LockHeld
<1>3. Published'
    BY <1>1, <1>2 DEF RecordInvariant, Published, StatusOf, Release
<1>4. BuiltOnReport'
    BY DEF RecordInvariant, BuiltOnReport
<1> QED
    BY <1>3, <1>4 DEF RecordInvariant

LEMMA RecordStep ==
    ASSUME Typed, BatchInvariant, RecordInvariant, [Next]_vars
    PROVE  RecordInvariant'
<1> USE DEF Typed, TypeOK, unitVars, mapVars, lockVars, queueVars, deviceVars, callVars
<1>1. ASSUME NEW c \in Callers,
             CallControl(c) \/ CallRead(c) \/ CallOther(c) \/ CallWarm(c)
      PROVE  RecordInvariant'
    <2>1. /\ pc[c] = "idle" /\ pc'[c] \in {"join", "lock", "warm"}
          /\ \A d \in Callers : d # c => pc'[d] = pc[d] /\ slot'[d] = slot[d]
          /\ UNCHANGED <<holder, poisoned, online, connected, known, status, report, base>>
        BY <1>1 DEF CallControl, CallRead, CallOther, CallWarm, Enter
    <2>2. \A s \in Slots : holder[s] # c
        BY <2>1, HoldsOnlyItsOwn DEF InLock
    <2>3. Published'
        BY <2>1, <2>2 DEF RecordInvariant, Published, StatusOf
    <2>4. BuiltOnReport'
        BY <2>1 DEF RecordInvariant, BuiltOnReport
    <2> QED
        BY <2>3, <2>4 DEF RecordInvariant
<1>2. ASSUME NEW c \in Callers, Join(c) PROVE RecordInvariant'
    BY <1>2, RecordUntouched DEF Join
\* Taking the lock changes the record only after a panic.
<1>3. ASSUME NEW c \in Callers, Acquire(c) PROVE RecordInvariant'
    <2>1. /\ pc[c] = "lock" /\ slot[c] \in Slots /\ holder[slot[c]] = Nobody
          /\ holder' = [holder EXCEPT ![slot[c]] = c]
          /\ \A d \in Callers : d # c => pc'[d] = pc[d]
          /\ pc'[c] # "apply"
          /\ UNCHANGED <<poisoned, known, status, report, base, slot>>
        BY <1>3 DEF Acquire, Free
    <2>2. /\ \A s \in Slots : s # slot[c] => online'[s] = online[s] /\ connected'[s] = connected[s]
          /\ ~poisoned[slot[c]] =>
                online'[slot[c]] = online[slot[c]] /\ connected'[slot[c]] = connected[slot[c]]
        BY <1>3 DEF Acquire
    <2>3. \A s \in Slots : s # slot[c] => holder'[s] = holder[s] /\ holder[s] # c
        BY <2>1, HoldsOnlyItsOwn
    <2>4. Published'
        <3>1. ASSUME NEW s \in Slots, ~poisoned[s],
                     holder'[s] = Nobody \/ pc'[holder'[s]] \in {"collect", "take", "share"}
              PROVE  status[s] = StatusOf(s) /\ online'[s] = online[s] /\ connected'[s] = connected[s]
            BY <2>1, <2>2, <2>3, <3>1 DEF RecordInvariant, Published
        <3> QED
            BY <2>1, <3>1 DEF Published, StatusOf
    <2>5. BuiltOnReport'
        BY <2>1 DEF RecordInvariant, BuiltOnReport
    <2> QED
        BY <2>4, <2>5 DEF RecordInvariant
<1>4. ASSUME NEW c \in Callers, TryWarm(c) PROVE RecordInvariant'
    <2>1. /\ pc[c] = "warm" /\ slot[c] \in Slots
          /\ pc' = [pc EXCEPT ![c] = pc'[c]] /\ pc'[c] \in {"ask", "idle"}
          /\ \A s \in Slots : \/ holder'[s] = holder[s]
                              \/ s = slot[c] /\ holder'[s] = c /\ pc'[c] = "ask"
          /\ UNCHANGED <<poisoned, online, connected, known, status, report, base, slot>>
        BY <1>4 DEF TryWarm
    <2>2. \A s \in Slots : holder[s] # c
        BY <2>1, HoldsOnlyItsOwn DEF InLock
    <2>3. Published'
        BY <2>1, <2>2, CallersAssumption DEF RecordInvariant, Published, StatusOf
    <2>4. BuiltOnReport'
        BY <2>1 DEF RecordInvariant, BuiltOnReport
    <2> QED
        BY <2>3, <2>4 DEF RecordInvariant
<1>5. ASSUME NEW c \in Callers, ShareReport(c) PROVE RecordInvariant'
    BY <1>5, RecordLeft DEF ShareReport
<1>6. ASSUME NEW c \in Callers, Collect(c) PROVE RecordInvariant'
    BY <1>6, RecordLeft DEF Collect
<1>7. ASSUME NEW c \in Callers, TakeLost(c) PROVE RecordInvariant'
    BY <1>7, RecordLeft DEF TakeLost
<1>8. ASSUME NEW c \in Callers, ReadAfresh(c) \/ NotCollected(c) PROVE RecordInvariant'
    BY <1>8, RecordUntouched DEF ReadAfresh, NotCollected
<1>9. ASSUME NEW c \in Callers, Take(c) PROVE RecordInvariant'
    BY <1>9, RecordUntouched DEF Take
\* A report taken as the base, or read to be the base.
<1>10. ASSUME NEW c \in Callers, ChooseBase(c) PROVE RecordInvariant'
    <2>1. /\ pc[c] = "base" /\ slot[c] \in Slots
          /\ \A d \in Callers : d # c => pc'[d] = pc[d] /\ base'[d] = base[d]
          /\ pc'[c] \in {"apply", "ask"}
          /\ pc'[c] = "apply" => base'[c] = report[slot[c]]
          /\ UNCHANGED <<holder, poisoned, online, connected, known, status, report, slot>>
        BY <1>10 DEF ChooseBase
    <2>2. Published'
        BY <2>1 DEF RecordInvariant, Published, StatusOf
    <2>3. BuiltOnReport'
        BY <2>1 DEF RecordInvariant, BuiltOnReport
    <2> QED
        BY <2>2, <2>3 DEF RecordInvariant
<1>11. ASSUME NEW c \in Callers, ReplyArrives(c) \/ ExchangeFails(c) PROVE RecordInvariant'
    <2>1. /\ pc[c] \in {"ask", "apply"} /\ slot[c] \in Slots
          /\ \A d \in Callers : d # c => pc'[d] = pc[d] /\ base'[d] = base[d]
          /\ pc'[c] \in {"ask", "apply", "finish"}
          /\ UNCHANGED <<holder, poisoned, status, slot>>
        BY <1>11 DEF ReplyArrives, ExchangeFails
    <2>2. \A s \in Slots : s # slot[c] =>
              online'[s] = online[s] /\ connected'[s] = connected[s] /\ known'[s] = known[s]
                /\ report'[s] = report[s]
        BY <1>11 DEF ReplyArrives, Answered, ExchangeFails
    <2>3. holder[slot[c]] = c /\ c # Nobody
        BY <2>1, CallersAssumption DEF BatchInvariant, LockHeld, InLock
    <2>4. \A d \in Callers : pc[d] = "apply" /\ d # c => slot[d] # slot[c]
        BY <2>3 DEF BatchInvariant, LockHeld, InLock
    <2>5. Published'
        <3>1. ASSUME NEW s \in Slots, ~poisoned[s],
                     holder[s] = Nobody \/ pc'[holder[s]] \in {"collect", "take", "share"}
              PROVE  s # slot[c] /\ status[s] = StatusOf(s)
            BY <2>1, <2>3, <3>1 DEF RecordInvariant, Published
        <3> QED
            BY <2>1, <2>2, <3>1 DEF Published, StatusOf
    <2>6. pc'[c] = "apply" => base'[c] = report'[slot[c]]
        <3>1. CASE ExchangeFails(c)
            BY <3>1 DEF ExchangeFails
        <3>2. CASE ReplyArrives(c)
            <4>1. pc'[c] = "apply" => op[c] = "control" /\ pc[c] = "ask"
                BY <3>2 DEF ReplyArrives, BatchInvariant, ControlPath
            <4>2. op[c] = "control" /\ pc[c] = "ask" => base'[c] = seen[c] /\ report'[slot[c]] = seen[c]
                BY <3>2 DEF ReplyArrives, Answered
            <4> QED
                BY <4>1, <4>2
        <3> QED
            BY <1>11, <3>1, <3>2
    <2>7. BuiltOnReport'
        BY <2>1, <2>2, <2>4, <2>6, SMTT(20) DEF RecordInvariant, BuiltOnReport
    <2> QED
        BY <2>5, <2>7 DEF RecordInvariant
<1>12. ASSUME NEW c \in Callers, Finish(c) PROVE RecordInvariant'
    <2>1. /\ pc[c] = "finish" /\ slot[c] \in Slots /\ pc' = [pc EXCEPT ![c] = "answer"]
          /\ holder' = [holder EXCEPT ![slot[c]] = Nobody]
          /\ UNCHANGED <<poisoned, known, report, base, slot>>
          /\ \A s \in Slots : s # slot[c] =>
                online'[s] = online[s] /\ connected'[s] = connected[s] /\ status'[s] = status[s]
          /\ status'[slot[c]] = [online |-> online'[slot[c]], connected |-> connected'[slot[c]],
                                 known |-> known[slot[c]]]
        BY <1>12 DEF Finish, Publish, Release
    <2>2. \A s \in Slots : s # slot[c] => holder'[s] = holder[s] /\ holder[s] # c
        BY <2>1, HoldsOnlyItsOwn
    <2>3. Published'
        <3>1. ASSUME NEW s \in Slots, s # slot[c], ~poisoned[s],
                     holder'[s] = Nobody \/ pc'[holder'[s]] \in {"collect", "take", "share"}
              PROVE  status[s] = StatusOf(s)
            <4>1. holder[s] = Nobody \/ pc[holder[s]] \in {"collect", "take", "share"}
                BY <2>1, <2>2, <3>1
            <4> QED
                BY <3>1, <4>1 DEF RecordInvariant, Published
        <3> QED
            BY <2>1, <3>1, ZenonT(30) DEF Published, StatusOf
    <2>4. BuiltOnReport'
        BY <2>1 DEF RecordInvariant, BuiltOnReport
    <2> QED
        BY <2>3, <2>4 DEF RecordInvariant
<1>13. ASSUME NEW c \in Callers, Panic(c) PROVE RecordInvariant'
    <2>1. /\ pc' = [pc EXCEPT ![c] = "answer"] /\ slot[c] \in Slots
          /\ holder[slot[c]] = c
          /\ holder' = [holder EXCEPT ![slot[c]] = Nobody]
          /\ poisoned' = [poisoned EXCEPT ![slot[c]] = TRUE]
          /\ UNCHANGED <<online, connected, known, status, report, base, slot>>
        BY <1>13 DEF Panic, Release, BatchInvariant, LockHeld, InLock
    <2>2. \A s \in Slots : s # slot[c] => holder'[s] = holder[s] /\ holder[s] # c
        BY <2>1, HoldsOnlyItsOwn
    <2>3. Published'
        <3>1. ASSUME NEW s \in Slots, ~poisoned'[s],
                     holder'[s] = Nobody \/ pc'[holder'[s]] \in {"collect", "take", "share"}
              PROVE  status[s] = StatusOf(s)
            <4>1. s # slot[c] /\ ~poisoned[s] /\ holder[s] # c /\ holder'[s] = holder[s]
                BY <2>1, <2>2, <3>1
            <4>2. holder[s] = Nobody \/ pc[holder[s]] \in {"collect", "take", "share"}
                BY <2>1, <3>1, <4>1
            <4> QED
                BY <4>1, <4>2 DEF RecordInvariant, Published
        <3> QED
            BY <2>1, <3>1 DEF Published, StatusOf
    <2>4. BuiltOnReport'
        BY <2>1 DEF RecordInvariant, BuiltOnReport
    <2> QED
        BY <2>3, <2>4 DEF RecordInvariant
<1>14. ASSUME NEW c \in Callers, Return(c) PROVE RecordInvariant'
    <2>1. /\ pc[c] = "answer" /\ pc' = [pc EXCEPT ![c] = "idle"]
          /\ \A d \in Callers : d # c => base'[d] = base[d]
          /\ UNCHANGED <<holder, poisoned, online, connected, known, status, report, slot>>
        BY <1>14 DEF Return
    <2>2. Published'
        BY <2>1 DEF RecordInvariant, Published, StatusOf
    <2>3. BuiltOnReport'
        BY <2>1 DEF RecordInvariant, BuiltOnReport
    <2> QED
        BY <2>2, <2>3 DEF RecordInvariant
<1>15. ASSUME NEW c \in Callers, UnitAnswers(c) \/ UnitApplies(c) PROVE RecordInvariant'
    BY <1>15, RecordUntouched DEF UnitAnswers, UnitApplies
<1>16. CASE Upsert \/ Remove \/ Remote \/ Rest \/ (\E s \in Slots : Age(s) \/ Backoff(s)) \/ UNCHANGED vars
    BY <1>16, RecordUntouched DEF Upsert, Remove, Remote, Rest, Age, Backoff, vars
<1> QED
    BY <1>1, <1>2, <1>3, <1>4, <1>5, <1>6, <1>7, <1>8, <1>9, <1>10, <1>11, <1>12, <1>13, <1>14, <1>15, <1>16 DEF Next, Step

LEMMA InitRecord == Init => RecordInvariant
<1> SUFFICES ASSUME Init PROVE RecordInvariant
    OBVIOUS
<1>1. \A s \in Slots : status[s] = StatusOf(s)
    BY DEF Init, StatusOf
<1>2. \A c \in Callers : pc[c] = "idle"
    BY DEF Init
<1> QED
    BY <1>1, <1>2 DEF RecordInvariant, Published, BuiltOnReport

\* publish: what clients read without the unit's lock is what the record says
\* whenever nobody has the unit, whatever was done with it before, panics aside.
THEOREM StatusPublished == Spec => []StatusCurrent
<1>1. Init => Typed /\ BatchInvariant /\ RecordInvariant
    BY InitType, InitBatch, InitRecord
<1>2. Typed /\ BatchInvariant /\ RecordInvariant /\ [Next]_vars
        => (Typed /\ BatchInvariant /\ RecordInvariant)'
    BY TypeStep, BatchStep, RecordStep
<1>3. RecordInvariant => StatusCurrent
    BY DEF RecordInvariant, Published, StatusOf, StatusCurrent
<1> QED
    BY <1>1, <1>2, <1>3, PTL DEF Spec

\* send_change: a command changes a field nobody asked for only when somebody
\* else changed it since the report it is built on.
THEOREM CommandsChangeWhatIsAsked == Spec => OnlyAskedFieldsChange
<1> DEFINE Asked == \A c \in Callers : UnitApplies(c) =>
                        \A f \in Fields : unit'[f] # unit[f]
                            => work[c].change[f] # Absent \/ report[slot[c]] # unit
<1>1. Init => Typed /\ BatchInvariant /\ RecordInvariant
    BY InitType, InitBatch, InitRecord
<1>2. Typed /\ BatchInvariant /\ RecordInvariant /\ [Next]_vars
        => (Typed /\ BatchInvariant /\ RecordInvariant)'
    BY TypeStep, BatchStep, RecordStep
<1>3. RecordInvariant /\ [Next]_vars => [Asked]_vars
    <2> SUFFICES ASSUME RecordInvariant, NEW c \in Callers, UnitApplies(c),
                        NEW f \in Fields, unit'[f] # unit[f], work[c].change[f] = Absent
                 PROVE  report[slot[c]] # unit
        OBVIOUS
    <2>1. pc[c] = "apply" /\ unit' = ApplyTo(work[c].change, base[c])
        BY DEF UnitApplies, Sent
    <2>2. unit'[f] = base[c][f]
        BY <2>1 DEF ApplyTo
    <2>3. base[c] = report[slot[c]]
        BY <2>1 DEF RecordInvariant, BuiltOnReport
    <2> QED
        BY <2>2, <2>3
<1> QED
    BY <1>1, <1>2, <1>3, PTL DEF Spec, OnlyAskedFieldsChange

-----------------------------------------------------------------------------
(* UnitManagerContract: the queue, the batches and the device mutex         *)
(* implement UnitControl, where a unit keeps its slot and nothing unwinds.  *)

OneSlot == MaxSlots = 1 /\ PanicUnwinds = FALSE

NeverPoisoned == \A s \in Slots : ~poisoned[s]

\* Where a control may be and what it has by then: an outcome once it is done,
\* and the unit's consent when that outcome is success.
Progress(c) ==
    op[c] = "control" =>
        /\ pc[c] \in {"join", "lock", "collect", "take", "base", "ask", "apply", "finish", "answer"}
        /\ pc[c] = "join" => mine[c] \in Changes
        /\ pc[c] \in {"finish", "answer"} => reply[c].kind \in {"ok", "failed"}
        /\ pc[c] = "apply" /\ seen[c] # NoState => taken
        /\ pc[c] = "finish" /\ reply[c].kind = "ok" => taken
ControlProgress == \A c \in Callers : Progress(c)

OutcomesKnown == \A b \in DOMAIN done[1] : done[1][b].outcome.kind \in {"ok", "failed"}

\* The requests of a line that set field f.
Setters(requests, f) == {i \in DOMAIN requests : requests[i].change[f] # Absent}

\* The line is the next batch, in the order its requests joined; the change
\* merged so far is the combination of theirs.
LineIsPending ==
    /\ line \in Seq([caller : Callers, change : Change])
    /\ Contract!Asking(line) = Waiting(1, nextBatch[1])
    /\ Contract!Combined(line) = pending[1]
    /\ \A f \in Fields : Setters(line, f) # {} =>
            \E i \in Setters(line, f) : \A j \in Setters(line, f) : j <= i

\* Whatever is known of the unit was its state at some time.
PastStates ==
    /\ unit \in past
    /\ report[1] \in past \cup {NoState}
    /\ \A c \in Callers : {seen[c], base[c]} \subseteq past \cup {NoState}

\* The invariant of the code's side of the refinement.
CodeInvariant == Typed /\ BatchInvariant /\ ReadInvariant

\* ... and of what the history variables add to it.
ContractInvariant ==
    taken \in BOOLEAN /\ NeverPoisoned /\ ControlProgress /\ OutcomesKnown /\ LineIsPending /\ PastStates

-----------------------------------------------------------------------------
(* Lines.                                                                   *)

LEMMA EmptyLine ==
    /\ Contract!Asking(<<>>) = {}
    /\ Contract!Combined(<<>>) = NoChange
    /\ \A f \in Fields : Setters(<<>>, f) = {}
BY DEF Contract!Asking, Contract!Combined, NoChange, Setters

\* One more request in the line: it asks too, and its values win.
LEMMA LongerLine ==
    ASSUME NEW requests \in Seq([caller : Callers, change : Change]),
           NEW r \in [caller : Callers, change : Change],
           \A f \in Fields : Setters(requests, f) # {} =>
                \E i \in Setters(requests, f) : \A j \in Setters(requests, f) : j <= i
    PROVE  /\ Contract!Asking(Append(requests, r)) = Contract!Asking(requests) \cup {r.caller}
           /\ Contract!Combined(Append(requests, r)) = Merge(Contract!Combined(requests), r.change)
           /\ \A f \in Fields : Setters(Append(requests, r), f) # {} =>
                \E i \in Setters(Append(requests, r), f) :
                    \A j \in Setters(Append(requests, r), f) : j <= i
<1> DEFINE longer == Append(requests, r)
           n == Len(requests)
<1>1. /\ n \in Nat /\ DOMAIN requests = 1 .. n /\ DOMAIN longer = 1 .. n + 1
      /\ \A i \in 1 .. n : longer[i] = requests[i]
      /\ longer[n + 1] = r
    OBVIOUS
<1>2. Contract!Asking(longer) = Contract!Asking(requests) \cup {r.caller}
    <2>1. \A x : (\E i \in 1 .. n + 1 : longer[i].caller = x)
                    <=> (\E i \in 1 .. n : requests[i].caller = x) \/ r.caller = x
        <3>1. 1 .. n + 1 = (1 .. n) \cup {n + 1} /\ n + 1 \in 1 .. n + 1
            BY <1>1
        <3> QED
            BY <1>1, <3>1
    <2> QED
        BY <1>1, <2>1 DEF Contract!Asking
<1>3. ASSUME NEW f \in Fields
      PROVE  Setters(longer, f) = Setters(requests, f) \cup (IF r.change[f] = Absent THEN {} ELSE {n + 1})
    <2>1. \A i : i \in Setters(longer, f) <=>
              i \in Setters(requests, f) \/ (i = n + 1 /\ r.change[f] # Absent)
        BY <1>1 DEF Setters
    <2> QED
        BY <2>1
<1>4. ASSUME NEW f \in Fields, r.change[f] # Absent
      PROVE  /\ n + 1 \in Setters(longer, f) /\ \A j \in Setters(longer, f) : j <= n + 1
             /\ \A i \in Setters(longer, f) : (\A j \in Setters(longer, f) : j <= i) => i = n + 1
    <2>1. Setters(requests, f) \subseteq 1 .. n
        BY <1>1 DEF Setters
    <2> QED
        BY <1>1, <1>3, <1>4, <2>1
<1>5. ASSUME NEW f \in Fields
      PROVE  Contract!Combined(longer)[f] = Merge(Contract!Combined(requests), r.change)[f]
    <2> DEFINE lastOf(s) == CHOOSE i \in s : \A j \in s : j <= i
    <2>1. /\ Contract!Combined(longer)[f] =
                IF Setters(longer, f) = {} THEN Absent ELSE longer[lastOf(Setters(longer, f))].change[f]
          /\ Contract!Combined(requests)[f] =
                IF Setters(requests, f) = {} THEN Absent
                ELSE requests[lastOf(Setters(requests, f))].change[f]
        BY DEF Contract!Combined, Setters
    <2>2. CASE r.change[f] # Absent
        <3>1. lastOf(Setters(longer, f)) = n + 1
            BY <1>4, <2>2
        <3> HIDE DEF lastOf
        <3>2. Contract!Combined(longer)[f] = r.change[f]
            BY <1>1, <1>4, <2>1, <2>2, <3>1
        <3> QED
            BY <2>2, <3>2 DEF Merge
    <2>3. CASE r.change[f] = Absent
        <3>1. Setters(longer, f) = Setters(requests, f)
            BY <1>3, <2>3
        <3>2. Setters(requests, f) # {} => lastOf(Setters(requests, f)) \in 1 .. n
            <4>1. Setters(requests, f) \subseteq 1 .. n
                BY <1>1 DEF Setters
            <4> QED
                BY <4>1
        <3> HIDE DEF lastOf
        <3>3. Contract!Combined(longer)[f] = Contract!Combined(requests)[f]
            BY <1>1, <2>1, <3>1, <3>2
        <3> QED
            BY <2>3, <3>3 DEF Merge
    <2> QED
        BY <2>2, <2>3
<1>6. Contract!Combined(longer) = Merge(Contract!Combined(requests), r.change)
    BY <1>5 DEF Contract!Combined, Merge
<1>7. ASSUME NEW f \in Fields, Setters(longer, f) # {}
      PROVE  \E i \in Setters(longer, f) : \A j \in Setters(longer, f) : j <= i
    <2>1. CASE r.change[f] # Absent
        BY <1>4, <2>1
    <2>2. CASE r.change[f] = Absent
        BY <1>3, <1>7, <2>2
    <2> QED
        BY <2>1, <2>2
<1> QED
    BY <1>2, <1>6, <1>7
-----------------------------------------------------------------------------
(* What the mapping says of a state.                                        *)

\* Not a control, or one that has yet to join; one that has its result.
Outside(c)   == op[c] # "control" \/ pc[c] = "join"
Answering(c) == op[c] = "control" /\ pc[c] = "answer"

NoFlight == [carries |-> {}, change |-> NoChange, taken |-> FALSE]
FlightOf(c) == [carries |-> {c} \cup Waiting(1, batch[c]), change |-> work[c].change, taken |-> taken]

\* One slot: every call is on it.
LEMMA TheSlot ==
    ASSUME OneSlot, slot \in [Callers -> Slots]
    PROVE  Slots = {1} /\ \A c \in Callers : slot[c] = 1
BY DEF OneSlot, Slots

\* One sender: its command is the flight.
LEMMA FlightIs ==
    ASSUME OneSlot, slot \in [Callers -> Slots], LockHeld
    PROVE  /\ \A c, d \in Callers : Sending(c) /\ pc[d] \in InLock => d = c
           /\ \A c \in Callers : Sending(c) => Flight = FlightOf(c)
           /\ (\A c \in Callers : ~Sending(c)) => Flight = NoFlight
<1>1. \A c, d \in Callers : Sending(c) /\ pc[d] \in InLock => d = c
    BY TheSlot, Exclusion DEF Sending, InLock
<1>2. ASSUME NEW c \in Callers, Sending(c) PROVE Flight = FlightOf(c)
    <2>1. Senders = {c}
        BY <1>1, <1>2 DEF Senders, Sending, InLock
    <2>2. (CHOOSE d \in Senders : TRUE) = c
        BY <2>1
    <2> QED
        BY <2>1, <2>2 DEF Flight, FlightOf
<1>3. (\A c \in Callers : ~Sending(c)) => Senders = {}
    BY DEF Senders, Sending
<1> QED
    BY <1>1, <1>2, <1>3 DEF Flight, NoFlight

LEMMA FlightIsNext ==
    ASSUME OneSlot, slot' \in [Callers -> Slots], LockHeld'
    PROVE  /\ \A c \in Callers : Sending(c)' => Flight' = FlightOf(c)'
           /\ (\A c \in Callers : ~Sending(c)') => Flight' = NoFlight
<1>1. \A c \in Callers : slot'[c] = 1
    BY DEF OneSlot, Slots
<1>2. \A c, d \in Callers : Sending(c)' /\ Sending(d)' => d = c
    BY <1>1 DEF Sending, InLock, LockHeld
<1>3. ASSUME NEW c \in Callers, Sending(c)' PROVE Flight' = FlightOf(c)'
    <2>1. Senders' = {c}
        BY <1>2, <1>3 DEF Senders, Sending
    <2>2. (CHOOSE d \in Senders' : TRUE) = c
        BY <2>1
    <2> QED
        BY <2>1, <2>2 DEF Flight, FlightOf
<1>4. (\A c \in Callers : ~Sending(c)') => Senders' = {}
    BY DEF Senders, Sending
<1> QED
    BY <1>3, <1>4 DEF Flight, NoFlight

\* A control is outside, joined, sending or answering, and its verdict follows.
LEMMA VerdictIs ==
    ASSUME ControlProgress, NEW c \in Callers
    PROVE  /\ Outside(c) \/ Joined(c) \/ Sending(c) \/ Answering(c)
           /\ Outside(c) => Verdict(c) = "none"
           /\ Answering(c) => Verdict(c) = reply[c].kind
           /\ Sending(c) => Verdict(c) = "waiting"
           /\ Joined(c) => Verdict(c) = IF batch[c] \in DOMAIN done[1]
                                        THEN done[1][batch[c]].outcome.kind ELSE "waiting"
<1>1. Outside(c) \/ Joined(c) \/ Sending(c) \/ Answering(c)
    BY DEF ControlProgress, Progress, Outside, Joined, Sending, Answering
<1>2. Outside(c) => Verdict(c) = "none"
    BY DEF Outside, Joined, Verdict
<1>3. Answering(c) => Verdict(c) = reply[c].kind
    BY DEF Answering, Joined, Verdict
<1>4. Sending(c) => Verdict(c) = "waiting"
    BY DEF Sending, Joined, Verdict
<1>5. Joined(c) => Verdict(c) = IF batch[c] \in DOMAIN done[1]
                                THEN done[1][batch[c]].outcome.kind ELSE "waiting"
    BY DEF Joined, Verdict
<1> QED
    BY <1>1, <1>2, <1>3, <1>4, <1>5

LEMMA VerdictIsNext ==
    ASSUME NEW c \in Callers
    PROVE  /\ Outside(c)' => Verdict(c)' = "none"
           /\ Answering(c)' => Verdict(c)' = reply'[c].kind
           /\ Sending(c)' => Verdict(c)' = "waiting"
           /\ Joined(c)' => Verdict(c)' = IF batch'[c] \in DOMAIN done'[1]
                                          THEN done'[1][batch'[c]].outcome.kind ELSE "waiting"
<1>1. Outside(c)' => Verdict(c)' = "none"
    BY DEF Outside, Joined, Verdict
<1>2. Answering(c)' => Verdict(c)' = reply'[c].kind
    BY DEF Answering, Joined, Verdict
<1>3. Sending(c)' => Verdict(c)' = "waiting"
    BY DEF Sending, Joined, Verdict
<1>4. Joined(c)' => Verdict(c)' = IF batch'[c] \in DOMAIN done'[1]
                                  THEN done'[1][batch'[c]].outcome.kind ELSE "waiting"
    BY DEF Joined, Verdict
<1> QED
    BY <1>1, <1>2, <1>3, <1>4

\* Nobody sets off for a batch that has yet to open.
LEMMA NobodyAhead ==
    ASSUME OneSlot, Typed, BatchInvariant
    PROVE  Waiting(1, nextBatch[1] + 1) = {}
<1> USE DEF Typed, TypeOK
<1>1. \A c \in Callers : slot[c] = 1 /\ batch[c] \in Nat /\ nextBatch[1] \in Nat
    BY TheSlot
<1>2. \A c \in Callers : Joined(c) => batch[c] <= nextBatch[1]
    BY <1>1 DEF BatchInvariant, BatchWhereabouts
<1> QED
    BY <1>1, <1>2 DEF Waiting

-----------------------------------------------------------------------------
(* Steps the contract does not see.                                         *)

AbstractSame == UNCHANGED <<unit, past, line, Flight, Verdicts>>

Still ==
    /\ UNCHANGED <<unit, pending, nextBatch, done, batch>>
    /\ \A c \in Callers :
        /\ pc[c] = "join" => pc'[c] # "lock"
        /\ pc[c] = "apply" /\ seen'[c] # NoState => seen[c] # NoState
        /\ \/ Joined(c) /\ Joined(c)'
           \/ Sending(c) /\ Sending(c)' /\ work'[c] = work[c]
           \/ Outside(c) /\ Outside(c)'
           \/ Answering(c) /\ Answering(c)' /\ reply'[c] = reply[c]

LEMMA StillStep ==
    ASSUME OneSlot, CodeInvariant, CodeInvariant', ContractInvariant, Record, Still
    PROVE  /\ AbstractSame /\ taken' = taken
           /\ OutcomesKnown' /\ LineIsPending'
<1> USE DEF CodeInvariant, Typed, TypeOK
<1>1. Joining = {}
    BY DEF Joining, Still
<1>2. line' = line /\ past' = past
    BY <1>1 DEF Record, Still, ContractInvariant, PastStates
<1>3. taken' = taken
    <2>1. Applying # {} => taken
        BY DEF Applying, Still, ContractInvariant, ControlProgress, Progress, BatchInvariant, ControlPath
    <2>2. taken' = (taken \/ Applying # {})
        BY DEF Record, Still
    <2>3. taken \in BOOLEAN
        BY DEF ContractInvariant
    <2> QED
        BY <2>1, <2>2, <2>3
<1>4. \A c \in Callers : slot[c] = 1 /\ slot'[c] = 1
    BY TheSlot DEF OneSlot, Slots
<1>5. \A b : Waiting(1, b)' = Waiting(1, b)
    <2>1. \A c \in Callers : Joined(c)' <=> Joined(c)
        BY DEF Still, Joined, Sending, Outside, Answering
    <2> QED
        BY <1>4, <2>1 DEF Waiting, Still
<1>6. Flight' = Flight
    <2>1. CASE \E c \in Callers : Sending(c)
        <3>1. PICK c \in Callers : Sending(c)
            BY <2>1
        <3>2. Sending(c)' /\ work'[c] = work[c] /\ batch' = batch
            BY <3>1 DEF Still, Joined, Sending, Outside, Answering
        <3>3. Flight = FlightOf(c)
            BY <3>1, FlightIs DEF BatchInvariant
        <3>4. Flight' = FlightOf(c)'
            BY <3>2, FlightIsNext DEF BatchInvariant
        <3> QED
            BY <1>3, <1>5, <3>2, <3>3, <3>4 DEF FlightOf
    <2>2. CASE \A c \in Callers : ~Sending(c)
        <3>1. \A c \in Callers : ~Sending(c)'
            BY <2>2 DEF Still, Joined, Sending, Outside, Answering
        <3> QED
            BY <2>2, <3>1, FlightIs, FlightIsNext DEF BatchInvariant
    <2> QED
        BY <2>1, <2>2
<1>7. \A c \in Callers : Verdict(c)' = Verdict(c)
    <2> SUFFICES ASSUME NEW c \in Callers PROVE Verdict(c)' = Verdict(c)
        OBVIOUS
    <2>1. ControlProgress
        BY DEF ContractInvariant
    <2>2. /\ UNCHANGED <<done, batch>>
          /\ \/ Joined(c) /\ Joined(c)'
             \/ Sending(c) /\ Sending(c)'
             \/ Outside(c) /\ Outside(c)'
             \/ Answering(c) /\ Answering(c)' /\ reply'[c] = reply[c]
        BY DEF Still
    <2>3. CASE Joined(c) /\ Joined(c)'
        BY ONLY <2>1, <2>2, <2>3, c \in Callers, VerdictIs, VerdictIsNext
    <2>4. CASE Sending(c) /\ Sending(c)'
        BY ONLY <2>1, <2>4, c \in Callers, VerdictIs, VerdictIsNext
    <2>5. CASE Outside(c) /\ Outside(c)'
        BY ONLY <2>1, <2>5, c \in Callers, VerdictIs, VerdictIsNext
    <2>6. CASE Answering(c) /\ Answering(c)' /\ reply'[c] = reply[c]
        BY ONLY <2>1, <2>6, c \in Callers, VerdictIs, VerdictIsNext
    <2> QED
        BY ONLY <2>2, <2>3, <2>4, <2>5, <2>6
<1>8. Verdicts' = Verdicts
    BY <1>7 DEF Verdicts
<1>9. OutcomesKnown' /\ LineIsPending'
    <2>1. pending' = pending /\ nextBatch' = nextBatch /\ done' = done
        BY DEF Still
    <2>2. Contract!Asking(line)' = Contract!Asking(line) /\ Contract!Combined(line)' = Contract!Combined(line)
          /\ \A f \in Fields : Setters(line, f)' = Setters(line, f)
        BY <1>2 DEF Contract!Asking, Contract!Combined, Setters
    <2>3. Waiting(1, nextBatch[1])' = Waiting(1, nextBatch[1])
        BY <1>5, <2>1
    <2> QED
        BY <1>2, <2>1, <2>2, <2>3 DEF ContractInvariant, OutcomesKnown, LineIsPending
<1> QED
    BY <1>2, <1>3, <1>6, <1>8, <1>9 DEF AbstractSame, Still

\* Which steps those are.
LEMMA StillActions ==
    ASSUME OneSlot, CodeInvariant, CodeInvariant', ContractInvariant, NEW c \in Callers,
           \/ CallControl(c) \/ CallRead(c) \/ CallOther(c) \/ CallWarm(c)
           \/ Acquire(c) \/ TryWarm(c) \/ ShareReport(c) \/ ReadAfresh(c)
           \/ NotCollected(c) \/ ChooseBase(c) \/ ReplyArrives(c) \/ ExchangeFails(c)
           \/ UnitAnswers(c)
           \/ op[c] # "control" /\ (Finish(c) \/ Return(c))
    PROVE  Still
<1> USE DEF CodeInvariant, Typed, TypeOK, unitVars, mapVars, lockVars, queueVars, deviceVars, callVars
<1> DEFINE Same(d) == /\ pc'[d] = pc[d] /\ op'[d] = op[d] /\ reply'[d] = reply[d]
                      /\ work'[d] = work[d] /\ seen'[d] = seen[d]
\* The other threads stay where they are.
<1>1. ASSUME \A d \in Callers : d # c => Same(d),
             UNCHANGED <<unit, pending, nextBatch, done, batch>>,
             pc[c] = "join" => pc'[c] # "lock",
             pc[c] = "apply" /\ seen'[c] # NoState => seen[c] # NoState,
             \/ Joined(c) /\ Joined(c)'
             \/ Sending(c) /\ Sending(c)' /\ work'[c] = work[c]
             \/ Outside(c) /\ Outside(c)'
             \/ Answering(c) /\ Answering(c)' /\ reply'[c] = reply[c]
      PROVE  Still
    <2>1. \A d \in Callers : d # c =>
            /\ Joined(d)' <=> Joined(d)
            /\ Sending(d)' <=> Sending(d)
            /\ Outside(d)' <=> Outside(d)
            /\ Answering(d)' <=> Answering(d)
        BY <1>1 DEF Joined, Sending, Outside, Answering
    <2>2. \A d \in Callers : Outside(d) \/ Joined(d) \/ Sending(d) \/ Answering(d)
        BY VerdictIs DEF ContractInvariant
    <2>3. ASSUME NEW d \in Callers
          PROVE  /\ pc[d] = "join" => pc'[d] # "lock"
                 /\ pc[d] = "apply" /\ seen'[d] # NoState => seen[d] # NoState
                 /\ \/ Joined(d) /\ Joined(d)'
                    \/ Sending(d) /\ Sending(d)' /\ work'[d] = work[d]
                    \/ Outside(d) /\ Outside(d)'
                    \/ Answering(d) /\ Answering(d)' /\ reply'[d] = reply[d]
        <3>1. CASE d = c
            BY <1>1, <3>1
        <3>2. CASE d # c
            BY <1>1, <2>1, <2>2, <3>2
        <3> QED
            BY <3>1, <3>2
    <2> QED
        BY <1>1, <2>3 DEF Still
<1> USE DEF Joined, Sending, Outside, Answering
<1>2. CASE CallControl(c) \/ CallRead(c) \/ CallOther(c) \/ CallWarm(c)
    <2>1. /\ pc[c] = "idle" /\ pc'[c] # "answer" /\ (op'[c] = "control" => pc'[c] = "join")
          /\ op[c] # "control"
          /\ \A d \in Callers : d # c => Same(d)
          /\ UNCHANGED <<unit, pending, nextBatch, done, batch, seen, work>>
        <3>1. pc[c] = "idle" /\ op[c] # "control"
            BY <1>2 DEF CallControl, CallRead, CallOther, CallWarm, Enter, ContractInvariant, ControlProgress, Progress
        <3>2. pc'[c] # "answer" /\ (op'[c] = "control" => pc'[c] = "join")
            BY <1>2 DEF CallControl, CallRead, CallOther, CallWarm, Enter
        <3>3. UNCHANGED <<unit, pending, nextBatch, done, batch, seen, work>>
            BY <1>2 DEF CallControl, CallRead, CallOther, CallWarm, Enter
        <3>4. \A d \in Callers : d # c => Same(d)
            BY <1>2 DEF CallControl, CallRead, CallOther, CallWarm, Enter
        <3> QED
            BY <3>1, <3>2, <3>3, <3>4
    <2> QED
        BY <1>1, <2>1
<1>3. CASE Acquire(c)
    <2>1. /\ pc[c] = "lock" /\ (pc'[c] = "collect" \/ op[c] # "control")
          /\ pc[c] # "apply" /\ pc[c] # "join" /\ op' = op
          /\ \A d \in Callers : d # c => Same(d)
          /\ UNCHANGED <<unit, pending, nextBatch, done, batch, seen, work>>
        BY <1>3 DEF Acquire
    <2> QED
        BY <1>1, <2>1
<1>4. CASE TryWarm(c)
    <2>1. /\ pc[c] = "warm" /\ op[c] = "warm" /\ op' = op
          /\ \A d \in Callers : d # c => Same(d)
          /\ UNCHANGED <<unit, pending, nextBatch, done, batch, seen, work>>
        BY <1>4 DEF TryWarm, BatchInvariant, ControlPath
    <2> QED
        BY <1>1, <2>1
<1>5. CASE ShareReport(c) \/ ReadAfresh(c)
    <2>1. /\ pc[c] = "share" /\ op[c] = "read" /\ op' = op
          /\ \A d \in Callers : d # c => Same(d)
          /\ UNCHANGED <<unit, pending, nextBatch, done, batch, seen, work>>
        BY <1>5 DEF ShareReport, ReadAfresh, BatchInvariant, ControlPath
    <2> QED
        BY <1>1, <2>1
<1>6. CASE NotCollected(c)
    <2>1. /\ pc[c] = "collect" /\ pc'[c] = "take" /\ op[c] = "control" /\ op' = op
          /\ \A d \in Callers : d # c => Same(d)
          /\ UNCHANGED <<unit, pending, nextBatch, done, batch, seen, work>>
        BY <1>6 DEF NotCollected, BatchInvariant, ControlPath
    <2> QED
        BY <1>1, <2>1
<1>7. CASE ChooseBase(c)
    <2>1. /\ pc[c] = "base" /\ pc'[c] \in {"ask", "apply"} /\ op[c] = "control" /\ op' = op
          /\ \A d \in Callers : d # c => Same(d)
          /\ UNCHANGED <<unit, pending, nextBatch, done, batch, seen, work>>
        BY <1>7 DEF ChooseBase, BatchInvariant, ControlPath
    <2> QED
        BY <1>1, <2>1
<1>8. CASE ReplyArrives(c) \/ ExchangeFails(c)
    <2>1. /\ pc[c] \in {"ask", "apply"} /\ pc'[c] \in {"ask", "apply", "finish"}
          /\ op'[c] = "control" <=> op[c] = "control"
          /\ seen'[c] = NoState
          /\ \A d \in Callers : d # c => Same(d)
          /\ UNCHANGED <<unit, pending, nextBatch, done, batch, work>>
        BY <1>8 DEF ReplyArrives, ExchangeFails
    <2> QED
        BY <1>1, <2>1
<1>9. CASE UnitAnswers(c)
    <2>1. /\ pc[c] = "ask" /\ pc' = pc /\ op' = op
          /\ \A d \in Callers : d # c => Same(d)
          /\ UNCHANGED <<unit, pending, nextBatch, done, batch, work>>
        BY <1>9 DEF UnitAnswers
    <2> QED
        BY <1>1, <2>1
<1>10. CASE op[c] # "control" /\ (Finish(c) \/ Return(c))
    <2>1. /\ pc[c] \in {"finish", "answer"} /\ op'[c] # "control"
          /\ \A d \in Callers : d # c => Same(d)
          /\ UNCHANGED <<unit, pending, nextBatch, done, batch, seen>>
        BY <1>10 DEF Finish, Return
    <2> QED
        BY <1>1, <1>10, <2>1
<1> QED
    BY <1>2, <1>3, <1>4, <1>5, <1>6, <1>7, <1>8, <1>9, <1>10
-----------------------------------------------------------------------------
(* Steps the contract sees.                                                 *)

LEMMA TakenKept ==
    ASSUME Record, BatchInvariant, ContractInvariant, nextBatch' = nextBatch,
           \A d \in Callers : pc[d] = "apply" /\ seen'[d] # NoState => seen[d] # NoState
    PROVE  taken' = taken
<1>1. Applying # {} => taken
    BY DEF Applying, ContractInvariant, ControlProgress, Progress, BatchInvariant, ControlPath
<1>2. taken' = (taken \/ Applying # {}) /\ taken \in BOOLEAN
    BY DEF Record, ContractInvariant
<1> QED
    BY <1>1, <1>2

LEMMA FlightKept ==
    ASSUME OneSlot, CodeInvariant, CodeInvariant', taken' = taken,
           \A d \in Callers : Sending(d)' <=> Sending(d),
           \A d \in Callers : Sending(d) =>
                /\ work'[d] = work[d] /\ batch'[d] = batch[d]
                /\ Waiting(1, batch[d])' = Waiting(1, batch[d])
    PROVE  Flight' = Flight
<1> USE DEF CodeInvariant, Typed, TypeOK
<1>1. CASE \E c \in Callers : Sending(c)
    <2>1. PICK c \in Callers : Sending(c)
        BY <1>1
    <2>2. Flight = FlightOf(c)
        BY <2>1, FlightIs DEF BatchInvariant
    <2>3. Flight' = FlightOf(c)'
        BY <2>1, FlightIsNext DEF BatchInvariant
    <2>4. Waiting(1, batch[c])' = Waiting(1, batch[c])
        BY <2>1
    <2> QED
        BY <2>1, <2>2, <2>3, <2>4 DEF FlightOf
<1>2. CASE \A c \in Callers : ~Sending(c)
    BY <1>2, FlightIs, FlightIsNext DEF BatchInvariant
<1> QED
    BY <1>1, <1>2

\* A thread that stays where it is, and whose batch does too.
LEMMA VerdictKept ==
    ASSUME ControlProgress, NEW d \in Callers,
           pc'[d] = pc[d], op'[d] = op[d], reply'[d] = reply[d],
           Joined(d) =>
                /\ batch'[d] = batch[d]
                /\ batch[d] \in DOMAIN done'[1] <=> batch[d] \in DOMAIN done[1]
                /\ batch[d] \in DOMAIN done[1] =>
                        done'[1][batch[d]].outcome = done[1][batch[d]].outcome
    PROVE  Verdict(d)' = Verdict(d)
<1>1. /\ Outside(d)' <=> Outside(d)
      /\ Answering(d)' <=> Answering(d)
      /\ Sending(d)' <=> Sending(d)
      /\ Joined(d)' <=> Joined(d)
    BY DEF Outside, Answering, Sending, Joined
<1>2. CASE Joined(d)
    <2>1. Verdict(d) = IF batch[d] \in DOMAIN done[1] THEN done[1][batch[d]].outcome.kind ELSE "waiting"
        BY <1>2, VerdictIs
    <2>2. Verdict(d)' = IF batch'[d] \in DOMAIN done'[1] THEN done'[1][batch'[d]].outcome.kind ELSE "waiting"
        BY <1>1, <1>2, VerdictIsNext
    <2> QED
        BY <1>2, <2>1, <2>2
<1>3. CASE ~Joined(d)
    BY <1>1, <1>3, VerdictIs, VerdictIsNext
<1> QED
    BY <1>2, <1>3

\* Join: the request takes its place at the end of the line.
LEMMA JoinAsks ==
    ASSUME OneSlot, CodeInvariant, CodeInvariant', ContractInvariant, Record,
           NEW c \in Callers, Join(c)
    PROVE  /\ Contract!Ask(c, mine[c]) /\ mine[c] \in Changes /\ taken' = taken
           /\ OutcomesKnown' /\ LineIsPending'
<1> USE DEF CodeInvariant, Typed, TypeOK, unitVars, mapVars, lockVars, queueVars, deviceVars, callVars
<1> DEFINE n == nextBatch[1]
           r == [caller |-> c, change |-> mine[c]]
<1>0. \A d \in Callers : slot[d] = 1 /\ slot'[d] = 1
    BY TheSlot DEF OneSlot, Slots
<1>1. /\ pc[c] = "join" /\ op[c] = "control" /\ pc' = [pc EXCEPT ![c] = "lock"]
      /\ batch' = [batch EXCEPT ![c] = n] /\ pending'[1] = Merge(pending[1], mine[c])
      /\ UNCHANGED <<unit, nextBatch, done, op, slot, mine, work, seen, reply>>
    BY <1>0, TheSlot DEF Join, BatchInvariant, ControlPath
<1>2. mine[c] \in Changes /\ n \in Nat /\ r \in [caller : Callers, change : Change]
    BY <1>1, TheSlot DEF ContractInvariant, ControlProgress, Progress
<1>3. Joining = {c}
    BY <1>1 DEF Joining
<1>4. line' = Append(line, r) /\ past' = past
    <2>1. (CHOOSE d \in Joining : TRUE) = c
        BY <1>3
    <2>2. line' = Append(line, r)
        BY <1>0, <1>1, <1>3, <2>1 DEF Record
    <2>3. past' = past
        <3>1. past' = past \cup {unit'}
            BY ONLY Record DEF Record
        <3>2. unit' = unit
            BY <1>1
        <3>3. unit \in past
            BY ONLY ContractInvariant DEF ContractInvariant, PastStates
        <3> QED
            BY ONLY <3>1, <3>2, <3>3
    <2> QED
        BY <2>2, <2>3
<1>5. taken' = taken
    BY <1>1, TakenKept
<1>6. \A d \in Callers : d # c => (Joined(d)' <=> Joined(d)) /\ (Sending(d)' <=> Sending(d)) /\ batch'[d] = batch[d]
    BY <1>1 DEF Joined, Sending
<1>7. ~Joined(c) /\ Joined(c)' /\ ~Sending(c) /\ ~Sending(c)' /\ Outside(c)
    BY <1>1 DEF Joined, Sending, Outside
<1>8. \A b : b # n => Waiting(1, b)' = Waiting(1, b)
    BY <1>0, <1>1, <1>6, <1>7 DEF Waiting
<1>9. Waiting(1, n)' = Waiting(1, n) \cup {c}
    BY <1>0, <1>1, <1>6, <1>7 DEF Waiting
<1>10. Flight' = Flight
    <2>1. \A d \in Callers : Sending(d) => batch[d] # n
        BY <1>0, <1>2 DEF BatchInvariant, BatchWhereabouts
    <2> QED
        BY <1>1, <1>5, <1>6, <1>7, <1>8, <2>1, FlightKept
<1>11. Verdicts[c] = "none" /\ Verdicts' = [Verdicts EXCEPT ![c] = "waiting"]
    <2>1. n \notin DOMAIN done[1]
        BY <1>2, TheSlot DEF BatchInvariant, BatchWhereabouts
    <2>2. Verdict(c)' = "waiting"
        BY <1>1, <1>7, <2>1, VerdictIsNext
    <2>3. Verdict(c) = "none"
        BY <1>7, VerdictIs DEF ContractInvariant
    <2>4. \A d \in Callers : d # c => Verdict(d)' = Verdict(d)
        BY <1>1, <1>6, VerdictKept DEF ContractInvariant
    <2> QED
        BY <2>2, <2>3, <2>4, ZenonT(30) DEF Verdicts
<1>12. Contract!Ask(c, mine[c])
    BY <1>1, <1>4, <1>10, <1>11 DEF Contract!Ask
<1>13. LineIsPending'
    <2> DEFINE longer == Append(line, r)
    <2>1. /\ Contract!Asking(longer) = Contract!Asking(line) \cup {c}
          /\ Contract!Combined(longer) = Merge(Contract!Combined(line), mine[c])
          /\ \A f \in Fields : Setters(longer, f) # {} =>
                \E i \in Setters(longer, f) : \A j \in Setters(longer, f) : j <= i
        <3>1. r.caller = c /\ r.change = mine[c]
            OBVIOUS
        <3>2. /\ line \in Seq([caller : Callers, change : Change])
              /\ \A f \in Fields : Setters(line, f) # {} =>
                    \E i \in Setters(line, f) : \A j \in Setters(line, f) : j <= i
            BY DEF ContractInvariant, LineIsPending
        <3> HIDE DEF r
        <3> QED
            BY <1>2, <3>1, <3>2, LongerLine
    <2>2. longer \in Seq([caller : Callers, change : Change])
        BY <1>2 DEF ContractInvariant, LineIsPending
    <2> HIDE DEF longer
    <2>3. line' = longer
        BY <1>4 DEF longer
    <2>4. Contract!Asking(line)' = Contract!Asking(longer) /\ Contract!Combined(line)' = Contract!Combined(longer)
          /\ \A f \in Fields : Setters(line, f)' = Setters(longer, f)
        BY <2>3 DEF Contract!Asking, Contract!Combined, Setters
    <2>5. Waiting(1, nextBatch[1])' = Waiting(1, n)'
        BY <1>1
    <2> QED
        BY <1>1, <1>9, <2>1, <2>2, <2>3, <2>4, <2>5 DEF ContractInvariant, LineIsPending
<1> QED
    BY <1>1, <1>2, <1>5, <1>12, <1>13 DEF ContractInvariant, OutcomesKnown
\* Take: the whole line leaves as one command.
LEMMA TakeDeparts ==
    ASSUME OneSlot, CodeInvariant, CodeInvariant', ContractInvariant, Record,
           NEW c \in Callers, Take(c)
    PROVE  Contract!Depart /\ taken' = FALSE /\ OutcomesKnown' /\ LineIsPending'
<1> USE DEF CodeInvariant, Typed, TypeOK, unitVars, mapVars, lockVars, queueVars, deviceVars, callVars
<1> DEFINE n == nextBatch[1]
<1>0. \A d \in Callers : slot[d] = 1 /\ slot'[d] = 1
    BY TheSlot DEF OneSlot, Slots
<1>1. /\ pc[c] = "take" /\ op[c] = "control" /\ pc' = [pc EXCEPT ![c] = "base"]
      /\ n \in Nat /\ batch[c] = n /\ nextBatch'[1] = n + 1 /\ pending'[1] = NoChange
      /\ work' = [work EXCEPT ![c] = [change |-> pending[1], merged |-> pendingCount[1]]]
      /\ UNCHANGED <<unit, done, op, slot, batch, seen, reply>>
    BY <1>0, TheSlot DEF Take, BatchInvariant, ControlPath
<1>2. Joined(c) /\ ~Joined(c)' /\ Sending(c)' /\ ~Sending(c)
    BY <1>1 DEF Joined, Sending
<1>3. \A d \in Callers : ~Sending(d)
    BY <1>1, <1>2, FlightIs DEF BatchInvariant, InLock
<1>4. \A d \in Callers : d # c => (Joined(d)' <=> Joined(d)) /\ ~Sending(d)'
    BY <1>1, <1>3 DEF Joined, Sending
<1>5. line' = <<>> /\ taken' = FALSE /\ past' = past
    <2>1. nextBatch'[1] # nextBatch[1] /\ unit' = unit
        BY <1>1
    <2>2. unit \in past
        BY DEF ContractInvariant, PastStates
    <2> QED
        BY ONLY <2>1, <2>2, Record DEF Record
<1>6. Waiting(1, n) = {c} \cup Waiting(1, batch[c])'
    <2>1. \A d \in Callers : d \in Waiting(1, n) <=> Joined(d) /\ batch[d] = n
        BY <1>0 DEF Waiting
    <2>2. \A d \in Callers : d \in Waiting(1, batch[c])' <=> Joined(d)' /\ batch[d] = n
        BY <1>0, <1>1 DEF Waiting
    <2>3. Waiting(1, n) \subseteq Callers /\ Waiting(1, batch[c])' \subseteq Callers
        BY DEF Waiting
    <2>4. batch[c] = n
        BY <1>1
    <2> QED
        BY ONLY <1>2, <1>4, <2>1, <2>2, <2>3, <2>4, c \in Callers
<1>7. Flight = NoFlight
    BY <1>3, FlightIs DEF BatchInvariant
<1>8. Flight' = [carries |-> Contract!Asking(line), change |-> Contract!Combined(line), taken |-> FALSE]
    <2>1. Flight' = FlightOf(c)'
        BY <1>2, FlightIsNext DEF BatchInvariant
    <2>3. work'[c].change = pending[1]
        BY ONLY <1>1, c \in Callers, work \in [Callers -> Work]
    <2> QED
        BY <1>5, <1>6, <2>1, <2>3 DEF FlightOf, ContractInvariant, LineIsPending
<1>9. line # <<>>
    <2>1. Contract!Asking(line) # {}
        BY ONLY <1>6, ContractInvariant DEF ContractInvariant, LineIsPending
    <2> QED
        BY ONLY <2>1, EmptyLine
<1>10. Verdicts' = Verdicts
    <2>1. n \notin DOMAIN done[1]
        BY <1>1, TheSlot DEF BatchInvariant, BatchWhereabouts
    <2>2. Verdict(c) = "waiting" /\ Verdict(c)' = "waiting"
        BY <1>1, <1>2, <2>1, VerdictIs, VerdictIsNext DEF ContractInvariant
    <2>3. \A d \in Callers : d # c => Verdict(d)' = Verdict(d)
        BY <1>1, VerdictKept DEF ContractInvariant
    <2> QED
        BY <2>2, <2>3 DEF Verdicts
<1>11. Contract!Depart
    BY <1>1, <1>5, <1>7, <1>8, <1>9, <1>10 DEF Contract!Depart, NoFlight
<1>12. LineIsPending'
    <2>1. Waiting(1, nextBatch[1])' = {}
        <3>1. Waiting(1, n + 1) = {}
            BY NobodyAhead
        <3>2. \A d \in Callers : Joined(d)' => Joined(d) /\ batch'[d] = batch[d] /\ slot'[d] = slot[d]
            BY <1>1, <1>2, <1>4
        <3> QED
            BY <1>1, <3>1, <3>2 DEF Waiting
    <2>2. /\ Contract!Asking(line)' = {} /\ Contract!Combined(line)' = NoChange
          /\ \A f \in Fields : Setters(line, f)' = {}
        BY <1>5, EmptyLine DEF Contract!Asking, Contract!Combined, Setters
    <2> QED
        <3>1. line' \in Seq([caller : Callers, change : Change])
            BY ONLY <1>5
        <3> QED
            BY ONLY <1>1, <2>1, <2>2, <3>1 DEF LineIsPending
<1> QED
    BY <1>1, <1>5, <1>11, <1>12 DEF ContractInvariant, OutcomesKnown

\* The others of the batch hear what became of it as they were told already.
LEMMA CollectStutters ==
    ASSUME OneSlot, CodeInvariant, CodeInvariant', ContractInvariant, Record,
           NEW c \in Callers, Collect(c)
    PROVE  /\ AbstractSame /\ taken' = taken
           /\ OutcomesKnown' /\ LineIsPending' /\ reply'[c].kind \in {"ok", "failed"}
<1> USE DEF CodeInvariant, Typed, TypeOK, unitVars, mapVars, lockVars, queueVars, deviceVars, callVars
<1> DEFINE b == batch[c]
           outcome == done[1][b].outcome
<1>0. \A d \in Callers : slot[d] = 1 /\ slot'[d] = 1
    BY TheSlot DEF OneSlot, Slots
<1>1. /\ pc[c] = "collect" /\ op[c] = "control" /\ pc' = [pc EXCEPT ![c] = "answer"]
      /\ b \in DOMAIN done[1] /\ done'[1] = OneCollected(done[1], b)
      /\ \A d \in Callers : d # c => reply'[d] = reply[d]
      /\ reply'[c] = IF outcome.kind = "ok" THEN [outcome EXCEPT !.own = FALSE] ELSE outcome
      /\ UNCHANGED <<unit, pending, nextBatch, op, slot, batch, work, seen>>
    <2>1. slot[c] = 1 /\ 1 \in Slots
        BY <1>0, TheSlot
    <2>2. done' = [done EXCEPT ![1] = OneCollected(@, b)] /\ b \in DOMAIN done[1]
        BY <2>1 DEF Collect
    <2>3. reply' = [reply EXCEPT ![c] = IF outcome.kind = "ok" THEN [outcome EXCEPT !.own = FALSE]
                                                                ELSE outcome]
        BY <2>1 DEF Collect
    <2>4. pc[c] = "collect" /\ op[c] = "control" /\ pc' = [pc EXCEPT ![c] = "answer"]
          /\ UNCHANGED <<unit, pending, nextBatch, op, slot, batch, work, seen>>
        BY DEF Collect, BatchInvariant, ControlPath
    <2>5. DOMAIN done = Slots /\ reply \in [Callers -> Replies]
        OBVIOUS
    <2> HIDE DEF outcome
    <2> QED
        BY ONLY <2>1, <2>2, <2>3, <2>4, <2>5, c \in Callers
<1>2. Joined(c) /\ ~Joined(c)' /\ Answering(c)'
    BY <1>1 DEF Joined, Answering
<1>3. \A d \in Callers : ~Sending(d) /\ ~Sending(d)'
    <2>1. \A d \in Callers : ~Sending(d)
        BY <1>1, FlightIs DEF BatchInvariant, InLock, Sending
    <2> QED
        BY <1>1, <2>1 DEF Sending
<1>4. \A d \in Callers : d # c => (Joined(d)' <=> Joined(d))
    BY <1>1 DEF Joined
<1>5. outcome.kind \in {"ok", "failed"} /\ reply'[c].kind = outcome.kind
    <2>1. outcome.kind \in {"ok", "failed"}
        BY <1>1 DEF ContractInvariant, OutcomesKnown
    <2>2. outcome \in Replies
        BY <1>1, TheSlot DEF Finished
    <2>3. outcome.kind = "ok" => outcome \in [kind : {"ok"}, sent : Settings, merged : Nat, own : BOOLEAN]
        BY <2>2 DEF Replies, NoReply, Failed, Lost
    <2> QED
        BY <1>1, <2>1, <2>3
\* An outcome goes only with the last request that has yet to collect it.
<1>6. \A d \in Callers : Joined(d) /\ d # c /\ batch[d] = b => done[1][b].uncollected # 1
    <2> SUFFICES ASSUME NEW d \in Callers, Joined(d), d # c, batch[d] = b, done[1][b].uncollected = 1
                 PROVE  FALSE
        OBVIOUS
    <2>1. c \in Waiting(1, b) /\ d \in Waiting(1, b)
        BY <1>0, <1>2 DEF Waiting
    <2>2. Cardinality(Waiting(1, b)) = 1
        BY <1>1, TheSlot DEF BatchInvariant, BatchesAccounted
    <2>3. IsFiniteSet(Waiting(1, b))
        BY WaitingCount
    <2> HIDE DEF b
    <2>4. Cardinality(Waiting(1, b) \ {c}) = 0 /\ IsFiniteSet(Waiting(1, b) \ {c})
        BY ONLY <2>1, <2>2, <2>3, FS_RemoveElement
    <2>5. Waiting(1, b) \ {c} = {}
        BY ONLY <2>4, FS_EmptySet
    <2> QED
        BY <2>1, <2>5
<1>7. /\ DOMAIN done'[1] \subseteq DOMAIN done[1]
      /\ \A x \in DOMAIN done'[1] : done'[1][x].outcome = done[1][x].outcome
      /\ \A x \in DOMAIN done[1] : x \in DOMAIN done'[1] \/ (x = b /\ done[1][b].uncollected = 1)
    BY <1>1 DEF OneCollected
<1>8. line' = line /\ past' = past /\ taken' = taken
    <2>1. Joining = {}
        BY <1>1 DEF Joining
    <2>2. taken' = taken
        BY <1>1, TakenKept
    <2> QED
        BY <1>1, <2>1, <2>2 DEF Record, ContractInvariant, PastStates
<1>9. Flight' = Flight
    BY <1>3, FlightIs, FlightIsNext DEF BatchInvariant
<1>10. Verdicts' = Verdicts
    <2>1. Verdict(c) = outcome.kind
        BY <1>1, <1>2, VerdictIs DEF ContractInvariant
    <2>2. Verdict(c)' = outcome.kind
        BY <1>2, <1>5, VerdictIsNext
    <2>3. ASSUME NEW d \in Callers, d # c PROVE Verdict(d)' = Verdict(d)
        BY <1>1, <1>6, <1>7, <2>3, VerdictKept DEF ContractInvariant
    <2> QED
        BY <2>1, <2>2, <2>3 DEF Verdicts
<1>11. OutcomesKnown'
    BY <1>7 DEF ContractInvariant, OutcomesKnown
<1>12. LineIsPending'
    <2>1. nextBatch[1] # b
        BY <1>1, TheSlot DEF BatchInvariant, BatchWhereabouts
    <2>2. Waiting(1, nextBatch[1])' = Waiting(1, nextBatch[1])
        BY <1>0, <1>1, <1>2, <1>4, <2>1 DEF Waiting
    <2>3. /\ Contract!Asking(line)' = Contract!Asking(line)
          /\ Contract!Combined(line)' = Contract!Combined(line)
          /\ \A f \in Fields : Setters(line, f)' = Setters(line, f)
        BY <1>8 DEF Contract!Asking, Contract!Combined, Setters
    <2> QED
        BY <1>1, <1>8, <2>2, <2>3 DEF ContractInvariant, LineIsPending
<1> QED
    BY <1>1, <1>5, <1>8, <1>9, <1>10, <1>11, <1>12 DEF AbstractSame
\* Finish: one result for all the command carries.
LEMMA FinishConcludes ==
    ASSUME OneSlot, CodeInvariant, CodeInvariant', ContractInvariant, Record,
           NEW c \in Callers, Finish(c), op[c] = "control"
    PROVE  Contract!Conclude /\ taken' = taken /\ OutcomesKnown' /\ LineIsPending'
<1> USE DEF CodeInvariant, Typed, TypeOK, unitVars, mapVars, lockVars, queueVars, deviceVars, callVars
<1> DEFINE b == batch[c]
           m == work[c].merged
           result == reply[c].kind
<1>0. slot[c] = 1 /\ 1 \in Slots /\ \A d \in Callers : slot[d] = 1 /\ slot'[d] = 1
    BY TheSlot DEF OneSlot, Slots
<1>1. /\ pc[c] = "finish" /\ pc' = [pc EXCEPT ![c] = "answer"]
      /\ done'[1] = IF m > 1 THEN WithOutcome(done[1], b, reply[c], m - 1) ELSE done[1]
      /\ UNCHANGED <<unit, pending, nextBatch, op, slot, batch, work, seen, reply>>
    <2>1. DOMAIN done = Slots
        OBVIOUS
    <2>2. done' = IF m > 1 THEN [done EXCEPT ![1] = WithOutcome(@, b, reply[c], m - 1)] ELSE done
        BY <1>0 DEF Finish
    <2> QED
        BY <1>0, <2>1, <2>2 DEF Finish
<1>2. Sending(c) /\ ~Sending(c)' /\ Answering(c)'
    BY <1>1 DEF Sending, Answering
<1>3. /\ \A d \in Callers : d # c => ~Sending(d)
      /\ \A d \in Callers : ~Sending(d)'
    <2>1. \A d \in Callers : d # c => ~Sending(d)
        BY <1>2, FlightIs DEF BatchInvariant, Sending, InLock
    <2> QED
        BY <1>1, <1>2, <2>1 DEF Sending
<1>4. \A d \in Callers : Joined(d)' <=> Joined(d)
    BY <1>1 DEF Joined
<1>5. result \in {"ok", "failed"} /\ (result = "ok" => taken)
    BY <1>1 DEF ContractInvariant, ControlProgress, Progress
<1>6. Flight = FlightOf(c) /\ Flight' = NoFlight
    BY <1>2, <1>3, FlightIs, FlightIsNext DEF BatchInvariant
<1>7. line' = line /\ past' = past /\ taken' = taken
    <2>1. Joining = {}
        BY <1>1 DEF Joining
    <2>2. taken' = taken
        BY <1>1, TakenKept
    <2> QED
        BY <1>1, <2>1, <2>2 DEF Record, ContractInvariant, PastStates
<1>8. \A d \in Callers : d \in Waiting(1, b) <=> Joined(d) /\ batch[d] = b
    BY <1>0 DEF Waiting
<1>9. b \in Nat /\ b \notin DOMAIN done[1] /\ m = 1 + Cardinality(Waiting(1, b))
    BY <1>0, <1>2 DEF BatchInvariant, BatchWhereabouts
<1>10. ASSUME NEW d \in Callers, Joined(d), batch[d] = b
       PROVE  b \in DOMAIN done'[1] /\ done'[1][b].outcome = reply[c]
    <2>1. Waiting(1, b) # {}
        BY <1>8, <1>10
    <2>2. Cardinality(Waiting(1, b)) \in Nat /\ Cardinality(Waiting(1, b)) # 0
        BY <2>1, WaitingCount
    <2>3. m > 1
        BY <1>9, <2>2
    <2> QED
        BY <1>1, <2>3 DEF WithOutcome
<1>11. ASSUME NEW x, x # b
       PROVE  /\ x \in DOMAIN done'[1] <=> x \in DOMAIN done[1]
              /\ x \in DOMAIN done[1] => done'[1][x] = done[1][x]
    BY <1>1, <1>11 DEF WithOutcome
<1>12. \A d \in Callers : Verdict(d)' = IF d \in {c} \cup Waiting(1, b) THEN result ELSE Verdict(d)
    <2> SUFFICES ASSUME NEW d \in Callers
                 PROVE  Verdict(d)' = IF d \in {c} \cup Waiting(1, b) THEN result ELSE Verdict(d)
        OBVIOUS
    <2>1. CASE d = c
        BY <1>1, <1>2, <2>1, VerdictIsNext
    <2>2. CASE d # c /\ d \in Waiting(1, b)
        <3>1. Joined(d)' /\ batch'[d] = b
            BY <1>1, <1>4, <1>8, <2>2
        <3>2. b \in DOMAIN done'[1] /\ done'[1][b].outcome = reply[c]
            BY <1>8, <1>10, <2>2
        <3> QED
            BY <2>2, <3>1, <3>2, VerdictIsNext
    <2>3. CASE d # c /\ d \notin Waiting(1, b)
        <3>1. Joined(d) => batch[d] # b
            BY <1>8, <2>3
        <3>2. Verdict(d)' = Verdict(d)
            BY <1>1, <1>11, <2>3, <3>1, VerdictKept DEF ContractInvariant
        <3> QED
            BY <2>3, <3>2
    <2> QED
        BY <2>1, <2>2, <2>3
<1>13. Contract!Conclude
    <2>1. Verdicts' = [d \in Callers |-> IF d \in Flight.carries THEN result ELSE Verdicts[d]]
        BY <1>6, <1>12 DEF Verdicts, FlightOf
    <2>2. Flight.carries # {} /\ (result = "ok" => Flight.taken) /\ Flight' = Contract!Grounded
        BY <1>5, <1>6 DEF FlightOf, NoFlight, Contract!Grounded, NoChange, Contract!NoChange
    <2> QED
        BY <1>1, <1>5, <1>7, <2>1, <2>2 DEF Contract!Conclude
<1>14. OutcomesKnown'
    <2> SUFFICES ASSUME NEW x \in DOMAIN done'[1] PROVE done'[1][x].outcome.kind \in {"ok", "failed"}
        BY DEF OutcomesKnown
    <2>1. CASE x = b
        <3>1. done'[1][b].outcome = reply[c]
            BY <1>1, <1>9, <2>1 DEF WithOutcome
        <3> QED
            BY <1>5, <2>1, <3>1
    <2>2. CASE x # b
        BY <1>11, <2>2 DEF ContractInvariant, OutcomesKnown
    <2> QED
        BY <2>1, <2>2
<1>15. LineIsPending'
    <2>1. Waiting(1, nextBatch[1])' = Waiting(1, nextBatch[1])
        BY <1>0, <1>1, <1>4 DEF Waiting
    <2>2. /\ Contract!Asking(line)' = Contract!Asking(line)
          /\ Contract!Combined(line)' = Contract!Combined(line)
          /\ \A f \in Fields : Setters(line, f)' = Setters(line, f)
        BY <1>7 DEF Contract!Asking, Contract!Combined, Setters
    <2> QED
        BY <1>1, <1>7, <2>1, <2>2 DEF ContractInvariant, LineIsPending
<1> QED
    BY <1>7, <1>13, <1>14, <1>15
\* A step that leaves the queue and everybody's place in it alone.
QueueAlone ==
    /\ UNCHANGED <<pending, nextBatch, done, batch, work>>
    /\ \A d \in Callers : /\ pc[d] = "join" => pc'[d] # "lock"
                          /\ Joined(d)' <=> Joined(d)
                          /\ Sending(d)' <=> Sending(d)

LEMMA LineKept ==
    ASSUME OneSlot, CodeInvariant, CodeInvariant', ContractInvariant, Record, QueueAlone
    PROVE  /\ line' = line /\ \A b : Waiting(1, b)' = Waiting(1, b)
           /\ OutcomesKnown' /\ LineIsPending'
<1> USE DEF CodeInvariant, Typed, TypeOK
<1>1. Joining = {}
    BY DEF Joining, QueueAlone
<1>2. line' = line
    BY <1>1 DEF Record, QueueAlone
<1>3. \A b : Waiting(1, b)' = Waiting(1, b)
    <2>1. \A c \in Callers : slot[c] = 1 /\ slot'[c] = 1
        BY TheSlot DEF OneSlot, Slots
    <2> QED
        BY <2>1 DEF Waiting, QueueAlone
<1>4. /\ Contract!Asking(line)' = Contract!Asking(line)
      /\ Contract!Combined(line)' = Contract!Combined(line)
      /\ \A f \in Fields : Setters(line, f)' = Setters(line, f)
    BY <1>2 DEF Contract!Asking, Contract!Combined, Setters
<1>5. Waiting(1, nextBatch[1])' = Waiting(1, nextBatch[1])
    BY <1>3 DEF QueueAlone
<1>6. LineIsPending'
    BY <1>2, <1>4, <1>5 DEF ContractInvariant, LineIsPending, QueueAlone
<1> QED
    BY <1>2, <1>3, <1>6 DEF ContractInvariant, OutcomesKnown, QueueAlone

\* The unit takes the command.
LEMMA AppliesLands ==
    ASSUME OneSlot, CodeInvariant, CodeInvariant', ContractInvariant, Record,
           NEW c \in Callers, UnitApplies(c)
    PROVE  Contract!Land /\ taken' = TRUE /\ OutcomesKnown' /\ LineIsPending'
<1> USE DEF CodeInvariant, Typed, TypeOK, unitVars, mapVars, lockVars, queueVars, deviceVars, callVars
<1>1. /\ pc[c] = "apply" /\ op[c] = "control" /\ unit' = Sent(c)
      /\ seen' = [seen EXCEPT ![c] = Sent(c)]
      /\ UNCHANGED <<pending, nextBatch, done, batch, work, pc, op, slot, reply>>
    BY DEF UnitApplies, BatchInvariant, ControlPath
<1>2. Sending(c)
    BY <1>1 DEF Sending
<1>3. QueueAlone
    BY <1>1 DEF QueueAlone, Joined, Sending
<1>4. line' = line /\ (\A b : Waiting(1, b)' = Waiting(1, b)) /\ OutcomesKnown' /\ LineIsPending'
    BY <1>3, LineKept
<1>5. Sent(c) \in Settings /\ Sent(c) # NoState
    BY <1>1, MergeType, DataAssumption DEF Sent, Work, Grounded
<1>6. taken' = TRUE
    <2>1. c \in Applying
        BY <1>1, <1>5 DEF Applying
    <2> QED
        BY <1>1, <2>1 DEF Record
<1>7. base[c] \in past
    BY <1>1 DEF Grounded, ContractInvariant, PastStates
<1>8. Flight = FlightOf(c) /\ Flight' = FlightOf(c)'
    <2>1. Sending(c)'
        BY <1>1, <1>2 DEF Sending
    <2> QED
        BY <1>2, <2>1, FlightIs, FlightIsNext DEF BatchInvariant
<1>9. Flight' = [Flight EXCEPT !.taken = TRUE]
    <2>1. Waiting(1, batch[c])' = Waiting(1, batch[c])
        BY <1>1, <1>4
    <2>2. work'[c].change = work[c].change
        BY <1>1
    <2> DEFINE set == {c} \cup Waiting(1, batch[c])
               change == work[c].change
    <2>3. Flight = [carries |-> set, change |-> change, taken |-> taken]
        BY <1>8 DEF FlightOf
    <2>4. Flight' = [carries |-> set, change |-> change, taken |-> taken']
        BY ONLY <1>8, <2>1, <2>2 DEF FlightOf
    <2> HIDE DEF set, change
    <2>5. Flight' = [Flight EXCEPT !.taken = taken']
        BY ONLY <2>3, <2>4
    <2> QED
        BY ONLY <1>6, <2>5, Zenon
<1>10. Verdicts' = Verdicts
    <2>1. \A d \in Callers : Verdict(d)' = Verdict(d)
        BY <1>1, VerdictKept DEF ContractInvariant
    <2> QED
        BY <2>1 DEF Verdicts
<1>11. Contract!Land
    <2>1. Flight.carries # {} /\ Flight.change = work[c].change
        BY <1>8 DEF FlightOf
    <2>2. unit' = Contract!Override(Flight.change, base[c])
        BY <1>1, <2>1 DEF Sent, ApplyTo, Contract!Override
    <2>3. past' = past \cup {unit'}
        BY DEF Record
    <2> QED
        BY <1>4, <1>7, <1>9, <1>10, <2>1, <2>2, <2>3 DEF Contract!Land
<1> QED
    BY <1>4, <1>6, <1>11

LEMMA RemoteIsRemote ==
    ASSUME OneSlot, CodeInvariant, CodeInvariant', ContractInvariant, Record, Remote
    PROVE  Contract!Remote /\ taken' = taken /\ OutcomesKnown' /\ LineIsPending'
<1> USE DEF CodeInvariant, Typed, TypeOK, unitVars, mapVars, lockVars, queueVars, deviceVars, callVars
<1>1. UNCHANGED <<pending, nextBatch, done, batch, work, pc, op, slot, seen, reply>>
    BY DEF Remote
<1>2. QueueAlone
    BY <1>1 DEF QueueAlone, Joined, Sending
<1>3. line' = line /\ (\A b : Waiting(1, b)' = Waiting(1, b)) /\ OutcomesKnown' /\ LineIsPending'
    BY <1>2, LineKept
<1>4. taken' = taken
    BY <1>1, TakenKept
<1>5. Flight' = Flight
    BY <1>1, <1>2, <1>3, <1>4, FlightKept DEF QueueAlone
<1>6. Verdicts' = Verdicts
    <2>1. \A d \in Callers : Verdict(d)' = Verdict(d)
        BY <1>1, VerdictKept DEF ContractInvariant
    <2> QED
        BY <2>1 DEF Verdicts
<1>7. unit' \in Contract!Settings /\ past' = past \cup {unit'}
    BY DEF Record, Settings, Contract!Settings
<1> QED
    BY <1>3, <1>4, <1>5, <1>6, <1>7 DEF Contract!Remote

\* A control that returns has heard its result.
LEMMA ReturnHears ==
    ASSUME OneSlot, CodeInvariant, CodeInvariant', ContractInvariant, Record,
           NEW c \in Callers, Return(c), op[c] = "control"
    PROVE  Contract!Hear(c) /\ taken' = taken /\ OutcomesKnown' /\ LineIsPending'
<1> USE DEF CodeInvariant, Typed, TypeOK, unitVars, mapVars, lockVars, queueVars, deviceVars, callVars
<1>1. /\ pc[c] = "answer" /\ pc' = [pc EXCEPT ![c] = "idle"] /\ op' = [op EXCEPT ![c] = "none"]
      /\ \A d \in Callers : d # c => reply'[d] = reply[d] /\ work'[d] = work[d]
      /\ UNCHANGED <<unit, pending, nextBatch, done, batch, slot, seen>>
    BY DEF Return
<1>2. Answering(c) /\ ~Sending(c) /\ ~Sending(c)' /\ ~Joined(c) /\ ~Joined(c)' /\ Outside(c)'
    BY <1>1 DEF Answering, Sending, Joined, Outside
<1>3. \A d \in Callers : d # c => (Joined(d)' <=> Joined(d)) /\ (Sending(d)' <=> Sending(d))
    BY <1>1 DEF Joined, Sending
<1>4. \A b : Waiting(1, b)' = Waiting(1, b)
    BY <1>1, <1>2, <1>3 DEF Waiting
<1>5. taken' = taken
    BY <1>1, TakenKept
<1>6. Flight' = Flight
    BY <1>1, <1>2, <1>3, <1>4, <1>5, FlightKept
<1>7. line' = line /\ past' = past
    <2>1. Joining = {}
        BY <1>1 DEF Joining
    <2> QED
        BY <1>1, <2>1 DEF Record, ContractInvariant, PastStates
<1>8. Verdicts[c] \in {"ok", "failed"} /\ Verdicts' = [Verdicts EXCEPT ![c] = "none"]
    <2>1. Verdict(c) = reply[c].kind /\ reply[c].kind \in {"ok", "failed"}
        BY <1>1, <1>2, VerdictIs DEF ContractInvariant, ControlProgress, Progress
    <2>2. Verdict(c)' = "none"
        BY <1>2, VerdictIsNext
    <2>3. \A d \in Callers : d # c => Verdict(d)' = Verdict(d)
        BY <1>1, VerdictKept DEF ContractInvariant
    <2> QED
        BY ONLY <2>1, <2>2, <2>3, c \in Callers DEF Verdicts
<1>9. Contract!Hear(c)
    BY <1>1, <1>6, <1>7, <1>8 DEF Contract!Hear
<1>10. LineIsPending'
    <2>1. /\ Contract!Asking(line)' = Contract!Asking(line)
          /\ Contract!Combined(line)' = Contract!Combined(line)
          /\ \A f \in Fields : Setters(line, f)' = Setters(line, f)
        BY <1>7 DEF Contract!Asking, Contract!Combined, Setters
    <2>2. Waiting(1, nextBatch[1])' = Waiting(1, nextBatch[1])
        BY <1>1, <1>4
    <2> QED
        BY <1>1, <1>7, <2>1, <2>2 DEF ContractInvariant, LineIsPending
<1> QED
    BY <1>1, <1>5, <1>9, <1>10 DEF ContractInvariant, OutcomesKnown

\* Nobody panics, so nobody finds a batch gone; and there is no second slot.
LEMMA CannotHappen ==
    ASSUME OneSlot, CodeInvariant, ContractInvariant
    PROVE  /\ \A c \in Callers : ~TakeLost(c) /\ ~Panic(c)
           /\ ~Upsert
<1> USE DEF CodeInvariant, Typed, TypeOK
<1>1. ASSUME NEW c \in Callers, TakeLost(c) PROVE FALSE
    <2>1. pc[c] = "take" /\ op[c] = "control" /\ nextBatch[slot[c]] # batch[c] /\ Joined(c)
        BY <1>1 DEF TakeLost, BatchInvariant, ControlPath, Joined
    <2>2. batch[c] \notin DOMAIN done[slot[c]] /\ ~poisoned[slot[c]]
        BY <2>1 DEF BatchInvariant, BatchWhereabouts, ContractInvariant, NeverPoisoned
    <2>3. PICK d \in Callers : Sending(d)
        BY <2>1, <2>2 DEF BatchInvariant, BatchWhereabouts
    <2>4. d = c
        BY <2>1, <2>3, FlightIs DEF BatchInvariant, InLock
    <2> QED
        BY <2>1, <2>3, <2>4 DEF Sending
<1>2. \A c \in Callers : ~Panic(c)
    BY DEF Panic, OneSlot
<1>3. ~Upsert
    BY TheSlot DEF Upsert, OneSlot, Slots
<1> QED
    BY <1>1, <1>2, <1>3
-----------------------------------------------------------------------------
(* The contract invariant is kept.                                          *)

\* What is known of the unit comes from what it said, and that from what it was.
LEMMA PastStep ==
    ASSUME OneSlot, CodeInvariant, ContractInvariant, [Next]_vars, past' = past \cup {unit'}
    PROVE  PastStates'
<1> USE DEF CodeInvariant, Typed, TypeOK, unitVars, mapVars, lockVars, queueVars, deviceVars, callVars
<1> DEFINE Known == past \cup {NoState}
           Heard == /\ report'[1] \in Known
                    /\ \A c \in Callers : base'[c] \in Known /\ seen'[c] \in Known \cup {unit'}
<1>0. /\ Slots = {1} /\ \A c \in Callers : slot[c] = 1 /\ seen[c] \in Known /\ base[c] \in Known
      /\ report[1] \in Known /\ unit \in past
    BY TheSlot DEF ContractInvariant, PastStates
<1>1. ASSUME NEW c \in Callers, UnitAnswers(c) \/ UnitApplies(c) PROVE Heard
    <2>1. /\ \A d \in Callers : seen'[d] = seen[d] \/ seen'[d] \in {unit, unit'}
          /\ report' = report /\ base' = base
        BY <1>1 DEF UnitAnswers, UnitApplies
    <2> QED
        BY <1>0, <2>1
<1>2. ASSUME NEW c \in Callers, ChooseBase(c) PROVE Heard
    <2>1. /\ \A d \in Callers : base'[d] \in {base[d], report[1]}
          /\ report' = report /\ seen' = seen
        BY <1>0, <1>2 DEF ChooseBase
    <2> QED
        BY <1>0, <2>1
<1>3. ASSUME NEW c \in Callers, ReplyArrives(c) PROVE Heard
    <2>1. /\ \A d \in Callers : seen'[d] \in {seen[d], NoState}
          /\ \A d \in Callers : base'[d] \in {base[d], seen[c]}
        BY <1>3 DEF ReplyArrives
    <2>2. report'[1] \in {report[1], seen[c]}
        BY <1>0, <1>3 DEF ReplyArrives, Answered
    <2> QED
        BY <1>0, <2>1, <2>2
<1>4. ASSUME NEW c \in Callers, ExchangeFails(c) \/ Panic(c) \/ Return(c) PROVE Heard
    <2>1. /\ \A d \in Callers : seen'[d] \in {seen[d], NoState} /\ base'[d] \in {base[d], NoState}
          /\ report' = report
        BY <1>4 DEF ExchangeFails, Panic, Return
    <2> QED
        BY <1>0, <2>1
<1>5. ASSUME NEW c \in Callers,
             \/ CallControl(c) \/ CallRead(c) \/ CallOther(c) \/ CallWarm(c)
             \/ Join(c) \/ Acquire(c) \/ TryWarm(c) \/ ShareReport(c) \/ ReadAfresh(c)
             \/ Collect(c) \/ NotCollected(c) \/ Take(c) \/ TakeLost(c) \/ Finish(c)
      PROVE  Heard
    <2>1. UNCHANGED <<report, base, seen>>
        BY <1>5 DEF CallControl, CallRead, CallOther, CallWarm, Enter, Join, Acquire, TryWarm,
                    ShareReport, ReadAfresh, Collect, NotCollected, Take, TakeLost, Finish
    <2> QED
        BY <1>0, <2>1
<1>6. ASSUME \/ Upsert \/ Remove \/ Remote \/ Rest \/ UNCHANGED vars
             \/ \E s \in Slots : Age(s) \/ Backoff(s)
      PROVE  Heard
    <2>1. UNCHANGED <<report, base, seen>>
        BY <1>6 DEF Upsert, Remove, Remote, Rest, Age, Backoff, vars
    <2> QED
        BY <1>0, <2>1
<1> HIDE DEF Heard
<1>7. Heard
    BY <1>1, <1>2, <1>3, <1>4, <1>5, <1>6 DEF Next, Step
<1> QED
    BY <1>7 DEF PastStates, Heard

\* A thread that stays where it is, with what it has.
Unmoved(d) == /\ pc'[d] = pc[d] /\ op'[d] = op[d] /\ reply'[d] = reply[d]
              /\ mine'[d] = mine[d] /\ seen'[d] = seen[d]

\* The unit's consent to the command that is out is not forgotten.
TakenStays == taken => taken'

\* What one thread does leaves the progress of the others, as long as
\* that is so.
LEMMA OthersProgress ==
    ASSUME ControlProgress, NEW c \in Callers,
           \A d \in Callers : d # c => Unmoved(d) /\ (pc[d] \in InLock => TakenStays),
           Progress(c)'
    PROVE  ControlProgress'
<1>1. ASSUME NEW d \in Callers, d # c PROVE Progress(d)'
    <2>1. Unmoved(d) /\ (pc[d] \in InLock => TakenStays) /\ Progress(d)
        BY <1>1 DEF ControlProgress
    <2> QED
        BY <2>1 DEF Progress, Unmoved, InLock, TakenStays
<1> QED
    BY <1>1 DEF ControlProgress
\* A step of a thread that takes no batch is nobody's Take.
LEMMA NoTake ==
    ASSUME NEW c \in Callers, pc[c] # "take", pc \in [Callers -> Places],
           \A d \in Callers : d # c => Unmoved(d)
    PROVE  \A d \in Callers : ~Take(d)
BY DEF Take, Unmoved

LEMMA ProgressStep ==
    ASSUME OneSlot, CodeInvariant, ContractInvariant, [Next]_vars,
           (\A c \in Callers : ~Take(c)) => TakenStays,
           \A c \in Callers : UnitApplies(c) => taken',
           \A c \in Callers : Collect(c) => reply'[c].kind \in {"ok", "failed"}
    PROVE  ControlProgress'
<1> USE ReplyKinds
<1> USE DEF CodeInvariant, Typed, TypeOK, unitVars, mapVars, lockVars, queueVars, deviceVars, callVars
<1>0. /\ ControlProgress
      /\ \A d \in Callers : seen[d] # NoState => pc[d] \in {"ask", "apply"}
    BY DEF ContractInvariant, ReadInvariant, OnlyToAskers
\* Nobody sends a command when another one leaves.
<1>1. ASSUME NEW c \in Callers, Take(c) PROVE ControlProgress'
    <2>1. /\ pc[c] = "take" /\ pc'[c] = "base"
          /\ \A d \in Callers : d # c => Unmoved(d)
        BY <1>1 DEF Take, Unmoved
    <2>2. \A d \in Callers : pc[d] \in InLock => d = c
        BY <2>1, TheSlot, Exclusion DEF BatchInvariant, InLock
    <2>3. Progress(c)'
        BY <2>1 DEF Progress
    <2> QED
        BY <1>0, <2>1, <2>2, <2>3, OthersProgress
<1>2. ASSUME NEW c \in Callers, \A d \in Callers : d # c => Unmoved(d), Progress(c)', TakenStays
      PROVE  ControlProgress'
    BY <1>0, <1>2, OthersProgress
<1>3. ASSUME NEW c \in Callers,
             CallControl(c) \/ CallRead(c) \/ CallOther(c) \/ CallWarm(c)
      PROVE  ControlProgress'
    <2>1. /\ pc[c] = "idle" /\ pc'[c] # "take"
          /\ op'[c] = "control" => pc'[c] = "join" /\ mine'[c] \in Changes
          /\ \A d \in Callers : d # c => Unmoved(d)
        <3>1. CASE CallControl(c)
            BY <3>1 DEF CallControl, Enter, Unmoved
        <3>2. CASE CallRead(c) \/ CallOther(c) \/ CallWarm(c)
            BY <3>2 DEF CallRead, CallOther, CallWarm, Enter, Unmoved
        <3> QED
            BY <1>3, <3>1, <3>2
    <2>2. \A d \in Callers : ~Take(d)
        BY <2>1, NoTake
    <2>3. Progress(c)'
        BY <2>1 DEF Progress
    <2>4. TakenStays
        BY <2>2
    <2>5. \A d \in Callers : d # c => Unmoved(d)
        BY <2>1
    <2> QED
        BY ONLY <1>2, <2>3, <2>4, <2>5, c \in Callers
\* Where the step of a control takes it; the steps of the others are no matter.
<1>4. ASSUME NEW c \in Callers,
             \/ Join(c) \/ Acquire(c) \/ NotCollected(c) \/ ChooseBase(c)
             \/ TryWarm(c) \/ ShareReport(c) \/ ReadAfresh(c)
      PROVE  ControlProgress'
    <2>1. /\ pc[c] \notin {"take", "ask", "apply"} /\ seen' = seen
          /\ op' = op
          /\ op[c] = "control" => pc'[c] \in {"lock", "collect", "take", "ask", "apply"}
          /\ \A d \in Callers : d # c => Unmoved(d)
        BY <1>4 DEF Join, Acquire, NotCollected, ChooseBase, TryWarm, ShareReport, ReadAfresh,
                    Unmoved, BatchInvariant, ControlPath
    <2>2. \A d \in Callers : ~Take(d)
        BY <2>1, NoTake
    <2>3. Progress(c)'
        BY <1>0, <2>1 DEF Progress
    <2>4. TakenStays
        BY <2>2
    <2>5. \A d \in Callers : d # c => Unmoved(d)
        BY <2>1
    <2> QED
        BY ONLY <1>2, <2>3, <2>4, <2>5, c \in Callers
<1>5. ASSUME NEW c \in Callers, ReplyArrives(c) PROVE ControlProgress'
    <2>1. /\ pc[c] \in {"ask", "apply"} /\ seen[c] # NoState /\ seen'[c] = NoState
          /\ pc'[c] \in {"ask", "apply", "finish"}
          /\ \A d \in Callers : d # c => Unmoved(d)
        BY <1>5 DEF ReplyArrives, Unmoved
    <2>2. \A d \in Callers : ~Take(d)
        BY <2>1, NoTake
    <2>3. op'[c] = "control" =>
            \/ pc'[c] = "apply"
            \/ pc'[c] = "finish" /\ reply'[c].kind = "ok" /\ op[c] = "control" /\ pc[c] = "apply"
        <3>1. CASE op[c] = "control" /\ pc[c] = "apply"
            BY <1>5, <3>1 DEF ReplyArrives
        <3>2. CASE ~(op[c] = "control" /\ pc[c] = "apply")
            BY <1>5, <2>1, <3>2 DEF ReplyArrives
        <3> QED
            BY <3>1, <3>2
    <2>4. TakenStays
        BY <2>2
    <2>5. op[c] = "control" /\ pc[c] = "apply" => taken
        BY <1>0, <2>1 DEF ControlProgress, Progress
    <2>6. Progress(c)'
        BY <2>1, <2>3, <2>4, <2>5 DEF Progress, TakenStays
    <2>7. \A d \in Callers : d # c => Unmoved(d)
        BY <2>1
    <2> QED
        BY ONLY <1>2, <2>4, <2>6, <2>7, c \in Callers
<1>6. ASSUME NEW c \in Callers, ExchangeFails(c) PROVE ControlProgress'
    <2>1. /\ pc[c] \in {"ask", "apply"} /\ pc'[c] = "finish" /\ op' = op
          /\ op[c] = "control" => reply'[c].kind = "failed"
          /\ \A d \in Callers : d # c => Unmoved(d)
        BY <1>6 DEF ExchangeFails, Unmoved
    <2>2. \A d \in Callers : ~Take(d)
        BY <2>1, NoTake
    <2>3. Progress(c)'
        BY <2>1 DEF Progress
    <2>4. TakenStays
        BY <2>2
    <2>5. \A d \in Callers : d # c => Unmoved(d)
        BY <2>1
    <2> QED
        BY ONLY <1>2, <2>3, <2>4, <2>5, c \in Callers
<1>7. ASSUME NEW c \in Callers, UnitAnswers(c) \/ UnitApplies(c) PROVE ControlProgress'
    <2>1. /\ UNCHANGED <<pc, op, reply, mine>>
          /\ pc[c] \in {"ask", "apply"} /\ (pc[c] = "apply" => UnitApplies(c))
          /\ \A d \in Callers : d # c => Unmoved(d)
        BY <1>7 DEF UnitAnswers, UnitApplies, Unmoved
    <2>2. \A d \in Callers : ~Take(d)
        BY <2>1 DEF Take
    <2>3. pc[c] = "apply" => taken'
        BY <2>1
    <2>4. Progress(c)'
        BY <1>0, <2>1, <2>3 DEF Progress, ControlProgress
    <2>5. TakenStays
        BY <2>2
    <2>6. \A d \in Callers : d # c => Unmoved(d)
        BY <2>1
    <2> QED
        BY ONLY <1>2, <2>4, <2>5, <2>6, c \in Callers
<1>8. ASSUME NEW c \in Callers, Collect(c) \/ Finish(c) \/ Return(c) PROVE ControlProgress'
    <2>1. /\ pc[c] \in {"collect", "finish", "answer"} /\ pc'[c] \in {"answer", "idle"}
          /\ op'[c] = "control" => op[c] = "control" /\ pc'[c] = "answer"
          /\ \A d \in Callers : d # c => Unmoved(d)
        BY <1>8, ZenonT(30) DEF Collect, Finish, Return, Unmoved
    <2>2. \A d \in Callers : ~Take(d)
        BY <2>1, NoTake
    <2>3. op'[c] = "control" => reply'[c].kind \in {"ok", "failed"}
        <3>1. CASE Collect(c)
            BY <3>1
        <3>2. CASE Finish(c)
            BY <1>0, <2>1, <3>2 DEF Finish, ControlProgress, Progress
        <3>3. CASE Return(c)
            BY <3>3 DEF Return
        <3> QED
            BY <1>8, <3>1, <3>2, <3>3
    <2>4. Progress(c)'
        BY <2>1, <2>3 DEF Progress
    <2>5. TakenStays
        BY <2>2
    <2>6. \A d \in Callers : d # c => Unmoved(d)
        BY <2>1
    <2> QED
        BY ONLY <1>2, <2>4, <2>5, <2>6, c \in Callers
<1>9. ASSUME NEW c \in Callers, TakeLost(c) \/ Panic(c) PROVE ControlProgress'
    BY <1>9, CannotHappen
<1>10. CASE \/ Upsert \/ Remove \/ Remote \/ Rest \/ UNCHANGED vars
            \/ \E s \in Slots : Age(s) \/ Backoff(s)
    <2>1. UNCHANGED <<pc, op, reply, mine, seen>>
        BY <1>10 DEF Upsert, Remove, Remote, Rest, Age, Backoff, vars
    <2>2. TakenStays
        <3>1. \A d \in Callers : ~Take(d)
            BY <2>1 DEF Take
        <3> QED
            BY <3>1
    <2>3. \A d \in Callers : Progress(d)'
        BY <1>0, <2>1, <2>2 DEF ControlProgress, Progress, TakenStays
    <2> QED
        BY <2>3 DEF ControlProgress
<1> QED
    BY <1>1, <1>3, <1>4, <1>5, <1>6, <1>7, <1>8, <1>9, <1>10 DEF Next, Step

\* What one step of the code is in the contract, and that the invariant is kept.
LEMMA StepRefines ==
    ASSUME OneSlot, CodeInvariant, CodeInvariant', ContractInvariant, [Next /\ Record]_<<vars, historyVars>>
    PROVE  /\ [Contract!Next]_(Contract!vars)
           /\ ContractInvariant'
<1> USE DEF CodeInvariant
<1>1. CASE UNCHANGED <<vars, historyVars>>
    <2>1. UNCHANGED <<unit, pending, pendingCount, nextBatch, done, poisoned, report, pc, op, slot, mine, batch,
                      work, base, seen, reply, line, taken, past>>
        BY <1>1 DEF vars, historyVars, unitVars, lockVars, queueVars, deviceVars, callVars
    <2>2. Flight' = Flight /\ Verdicts' = Verdicts
        BY <2>1 DEF Flight, Senders, Waiting, Joined, Verdicts, Verdict
    <2>3. OutcomesKnown' /\ NeverPoisoned' /\ PastStates' /\ ControlProgress'
        BY <2>1 DEF ContractInvariant, OutcomesKnown, NeverPoisoned, PastStates, ControlProgress, Progress
    <2>4. LineIsPending'
        <3>1. /\ Contract!Asking(line)' = Contract!Asking(line)
              /\ Contract!Combined(line)' = Contract!Combined(line)
              /\ \A f \in Fields : Setters(line, f)' = Setters(line, f)
            BY <2>1 DEF Contract!Asking, Contract!Combined, Setters
        <3>2. Waiting(1, nextBatch[1])' = Waiting(1, nextBatch[1])
            BY <2>1 DEF Waiting, Joined
        <3> QED
            BY <2>1, <3>1, <3>2 DEF ContractInvariant, LineIsPending
    <2> QED
        BY <2>1, <2>2, <2>3, <2>4 DEF Contract!vars, ContractInvariant
<1>2. CASE Next /\ Record
    \* The step in the contract, or none.
    \* The step is one of the contract, or none.
    <2> DEFINE Shown == /\ AbstractSame \/ Contract!Next
                        /\ OutcomesKnown' /\ LineIsPending' /\ taken' \in BOOLEAN
                        /\ TakenStays \/ \E c \in Callers : Take(c)
    <2>0. taken \in BOOLEAN
        BY DEF ContractInvariant
    <2>1. ASSUME Still PROVE Shown
        <3>1. AbstractSame /\ taken' = taken /\ OutcomesKnown' /\ LineIsPending'
            BY <1>2, <2>1, StillStep
        <3> QED
            BY <2>0, <3>1 DEF TakenStays
    <2>2. ASSUME NEW c \in Callers,
                 \/ CallControl(c) \/ CallRead(c) \/ CallOther(c) \/ CallWarm(c)
                 \/ Acquire(c) \/ TryWarm(c) \/ ShareReport(c) \/ ReadAfresh(c)
                 \/ NotCollected(c) \/ ChooseBase(c) \/ ReplyArrives(c) \/ ExchangeFails(c)
                 \/ UnitAnswers(c)
          PROVE  Shown
        BY <2>1, <2>2, StillActions
    <2>3. ASSUME NEW c \in Callers, Finish(c) PROVE Shown
        <3>1. CASE op[c] # "control"
            BY <2>1, <2>3, <3>1, StillActions
        <3>2. CASE op[c] = "control"
            <4>1. Contract!Conclude /\ taken' = taken /\ OutcomesKnown' /\ LineIsPending'
                BY <1>2, <2>3, <3>2, FinishConcludes
            <4> QED
                BY <2>0, <4>1 DEF Contract!Next, TakenStays
        <3> QED
            BY <3>1, <3>2
    <2>4. ASSUME NEW c \in Callers, Return(c) PROVE Shown
        <3>1. CASE op[c] # "control"
            BY <2>1, <2>4, <3>1, StillActions
        <3>2. CASE op[c] = "control"
            <4>1. Contract!Hear(c) /\ taken' = taken /\ OutcomesKnown' /\ LineIsPending'
                BY <1>2, <2>4, <3>2, ReturnHears
            <4> QED
                BY <2>0, <4>1 DEF Contract!Next, TakenStays
        <3> QED
            BY <3>1, <3>2
    <2>5. ASSUME NEW c \in Callers, Join(c) PROVE Shown
        <3>1. /\ Contract!Ask(c, mine[c]) /\ mine[c] \in Changes /\ taken' = taken
              /\ OutcomesKnown' /\ LineIsPending'
            BY <1>2, <2>5, JoinAsks
        <3> QED
            BY <2>0, <3>1 DEF Contract!Next, TakenStays
    <2>6. ASSUME NEW c \in Callers, Take(c) PROVE Shown
        <3>1. Contract!Depart /\ taken' = FALSE /\ OutcomesKnown' /\ LineIsPending'
            BY <1>2, <2>6, TakeDeparts
        <3> QED
            BY <2>6, <3>1 DEF Contract!Next
    <2>7. ASSUME NEW c \in Callers, Collect(c) PROVE Shown
        <3>1. AbstractSame /\ taken' = taken /\ OutcomesKnown' /\ LineIsPending'
            BY <1>2, <2>7, CollectStutters
        <3> QED
            BY <2>0, <3>1 DEF TakenStays
    <2>8. ASSUME NEW c \in Callers, UnitApplies(c) PROVE Shown
        <3>1. Contract!Land /\ taken' = TRUE /\ OutcomesKnown' /\ LineIsPending'
            BY <1>2, <2>8, AppliesLands
        <3> QED
            BY <3>1 DEF Contract!Next, TakenStays
    <2>9. ASSUME Remote PROVE Shown
        <3>1. Contract!Remote /\ taken' = taken /\ OutcomesKnown' /\ LineIsPending'
            BY <1>2, <2>9, RemoteIsRemote
        <3> QED
            BY <2>0, <3>1 DEF Contract!Next, TakenStays
    <2>10. ASSUME Remove \/ Rest \/ \E s \in Slots : Age(s) \/ Backoff(s) PROVE Shown
        <3>1. UNCHANGED <<unit, pending, nextBatch, done, batch, pc, op, slot, work, seen, reply>>
            BY <2>10 DEF Remove, Rest, Age, Backoff, vars, unitVars, queueVars, callVars
        <3>2. \A c \in Callers : Outside(c) \/ Joined(c) \/ Sending(c) \/ Answering(c)
            BY VerdictIs DEF ContractInvariant
        <3>3. Still
            BY <3>1, <3>2 DEF Still, Outside, Joined, Sending, Answering
        <3> QED
            BY <2>1, <3>3
    <2>11. Shown
        <3>1. \A c \in Callers : ~TakeLost(c) /\ ~Panic(c)
            BY CannotHappen
        <3>2. ~Upsert
            BY CannotHappen
        <3> HIDE DEF Shown
        <3> QED
            BY <1>2, <2>2, <2>3, <2>4, <2>5, <2>6, <2>7, <2>8, <2>9, <2>10, <3>1, <3>2 DEF Next, Step
    <2>12. ControlProgress'
        <3>1. \A c \in Callers : UnitApplies(c) => taken'
            BY <1>2, AppliesLands
        <3>2. \A c \in Callers : Collect(c) => reply'[c].kind \in {"ok", "failed"}
            BY <1>2, CollectStutters
        <3>3. (\A c \in Callers : ~Take(c)) => TakenStays
            BY <2>11
        <3> QED
            BY <1>2, <3>1, <3>2, <3>3, ProgressStep
    <2>13. PastStates'
        BY <1>2, PastStep DEF Record
    <2>14. NeverPoisoned'
        <3>1. ASSUME NEW c \in Callers,
                     CallControl(c) \/ CallRead(c) \/ CallOther(c) \/ CallWarm(c) \/ Join(c)
              PROVE  poisoned' = poisoned
            BY <3>1 DEF CallControl, CallRead, CallOther, CallWarm, Enter, Join, lockVars
        <3>2. ASSUME NEW c \in Callers,
                     \/ Acquire(c) \/ TryWarm(c) \/ ShareReport(c) \/ ReadAfresh(c)
                     \/ Collect(c) \/ NotCollected(c) \/ Take(c) \/ ChooseBase(c)
              PROVE  poisoned' = poisoned
            BY <3>2 DEF Acquire, TryWarm, ShareReport, ReadAfresh, Collect, NotCollected, Take,
                        ChooseBase, lockVars
        <3>3. ASSUME NEW c \in Callers,
                     ReplyArrives(c) \/ ExchangeFails(c) \/ Finish(c) \/ Return(c)
              PROVE  poisoned' = poisoned
            BY <3>3 DEF ReplyArrives, ExchangeFails, Finish, Return, lockVars
        <3>4. ASSUME NEW c \in Callers, UnitAnswers(c) \/ UnitApplies(c)
              PROVE  poisoned' = poisoned
            BY <3>4 DEF UnitAnswers, UnitApplies, lockVars
        <3>5. ASSUME Remove \/ Remote \/ Rest \/ \E s \in Slots : Age(s) \/ Backoff(s)
              PROVE  poisoned' = poisoned
            BY <3>5 DEF Remove, Remote, Rest, Age, Backoff, vars, lockVars
        <3>6. (\A c \in Callers : ~TakeLost(c) /\ ~Panic(c)) /\ ~Upsert
            BY CannotHappen
        <3>7. poisoned' = poisoned
            BY <1>2, <3>1, <3>2, <3>3, <3>4, <3>5, <3>6 DEF Next, Step
        <3> QED
            BY <3>7 DEF ContractInvariant, NeverPoisoned
    <2> QED
        BY <2>11, <2>12, <2>13, <2>14 DEF AbstractSame, Contract!vars, ContractInvariant
<1> QED
    BY <1>1, <1>2

LEMMA ContractInitial ==
    ASSUME OneSlot, ContractInit
    PROVE  Contract!Init /\ ContractInvariant
<1> USE DEF ContractInit
<1>1. Typed /\ BatchInvariant
    BY InitType, InitBatch
<1>2. 1 \in Slots /\ \A c \in Callers : pc[c] = "idle" /\ op[c] = "none" /\ seen[c] = NoState /\ base[c] = NoState
    BY DEF Init, OneSlot, Slots
<1>3. Flight = Contract!Grounded
    <2>1. Senders = {}
        BY <1>2 DEF Senders
    <2> QED
        BY <2>1 DEF Flight, Contract!Grounded, NoChange, Contract!NoChange
<1>4. Verdicts = [c \in Callers |-> "none"]
    BY <1>2 DEF Verdicts, Verdict, Joined
<1>5. Contract!Init
    BY <1>3, <1>4 DEF Init, Contract!Init, Settings, Contract!Settings
<1>6. NeverPoisoned /\ ControlProgress /\ PastStates
    BY <1>2 DEF Init, NeverPoisoned, ControlProgress, Progress, PastStates
<1>7. OutcomesKnown
    BY <1>2 DEF Init, OutcomesKnown
<1>8. LineIsPending
    <2>1. Waiting(1, nextBatch[1]) = {}
        BY <1>2 DEF Waiting, Joined
    <2>2. pending[1] = NoChange
        BY <1>2 DEF Init
    <2>3. line = <<>> /\ <<>> \in Seq([caller : Callers, change : Change])
        OBVIOUS
    <2>4. /\ Contract!Asking(line) = {} /\ Contract!Combined(line) = NoChange
          /\ \A f \in Fields : Setters(line, f) = {}
        BY ONLY <2>3, EmptyLine
    <2>5. line \in Seq([caller : Callers, change : Change])
        BY ONLY <2>3
    <2> QED
        BY ONLY <2>1, <2>2, <2>4, <2>5 DEF LineIsPending
<1> QED
    BY <1>5, <1>6, <1>7, <1>8 DEF ContractInvariant

\* control, as its comment has it: "the next command carries all of them, and
\* every request it covers gets its result", for any number of threads, fields and
\* values, while the unit keeps the slot it has and in a build that does not unwind.
THEOREM ControlImplementsContract ==
    ASSUME MaxSlots = 1, PanicUnwinds = FALSE
    PROVE  ContractSpec => ImplementsContract
<1>0. OneSlot
    BY DEF OneSlot
<1>1. ContractInit => Contract!Init /\ CodeInvariant /\ ContractInvariant
    BY <1>0, ContractInitial, InitType, InitBatch, InitReads DEF ContractInit, CodeInvariant
<1>2. [Next /\ Record]_<<vars, historyVars>> => [Next]_vars
    OBVIOUS
<1>3. CodeInvariant /\ [Next]_vars => CodeInvariant'
    BY TypeStep, BatchStep, ReadStep DEF CodeInvariant
<1>4. /\ CodeInvariant /\ CodeInvariant' /\ ContractInvariant
      /\ [Next /\ Record]_<<vars, historyVars>>
      => [Contract!Next]_(Contract!vars) /\ ContractInvariant'
    BY <1>0, StepRefines
<1> QED
    BY <1>1, <1>2, <1>3, <1>4, PTL DEF ContractSpec, ImplementsContract, Contract!Spec
=============================================================================
