---------------------------- MODULE PairingProofs ----------------------------
(***************************************************************************)
(* Proofs about Pairing, for any set of devices, any lifetime of codes and  *)
(* any bounds.                                                             *)
(***************************************************************************)
EXTENDS Pairing, TLAPS

\* One record is minted for a session, and a device is in one place at a time:
\* waiting for its approval, between mint and store, in the store, or out of it.
Separate ==
    /\ \A r, s \in minted : r.device = s.device => r = s
    /\ Minting \cap (DOMAIN mem \cup revoked \cup cut \cup lost) = {}
    /\ \A d \in DOMAIN sessions : ~sessions[d].approved =>
           d \notin DOMAIN mem \cup Minting \cup revoked \cup cut \cup lost
    /\ cut \cap DOMAIN mem = {}
    /\ RevokedStaysOut

\* A client with a session has no credential yet; with a credential it starts no
\* other session.
OneCode ==
    /\ \A d \in DOMAIN sessions : holds[d] = Nobody /\ sessions[d].expires = started[d] + CodeTTL
    /\ \A d \in Devices : holds[d] = Nobody => collected[d] = 0
    /\ \A d \in upgrading : holds[d] # Nobody
    /\ CollectedOnce

\* The credential a client has, or will have when it polls.
HasCredit(d) == holds[d] # Nobody \/ (d \in DOMAIN sessions /\ sessions[d].approved)
Credit(d) == IF holds[d] # Nobody THEN holds[d] ELSE First(sessions[d].version)

\* Client, record, memory and file agree on it.  A device whose revocation was not
\* saved is still on the file, if at all, with what its client has.
Agreed ==
    /\ \A r \in minted : HasCredit(r.device) => Credit(r.device) = First(r.version)
    /\ \A d \in Devices : HasCredit(d) /\ d \notin Minting \cup revoked \cup lost =>
           /\ d \notin cut => d \in DOMAIN mem /\ mem[d] = Credit(d)
           /\ d \notin unsaved /\ (d \in cut => d \in DOMAIN disk) =>
                  d \in DOMAIN disk /\ disk[d] = Credit(d)

PairingInvariant == TypeOK /\ Separate /\ OneCode /\ Agreed

storeVars == <<mem, disk, revoked, cut, unsaved, lost>>
-----------------------------------------------------------------------------
LEMMA Beginning == Init => PairingInvariant
BY PairingAssumption
DEF Init, PairingInvariant, TypeOK, Separate, RevokedStaysOut, OneCode, CollectedOnce, Agreed, HasCredit,
    Empty, Minting, Reasons, Credential, Session

LEMMA SweptFacts ==
    ASSUME TypeOK
    PROVE  /\ DOMAIN Swept \subseteq DOMAIN sessions
           /\ \A d \in DOMAIN Swept : Swept[d] = sessions[d] /\ Swept[d] \in Session
                                       /\ ~(Swept[d].expires < clock)
BY DEF Swept, Without, TypeOK

\* Agreed, when the store is left alone and nobody gets another credential.
LEMMA AgreedKept ==
    ASSUME Agreed, UNCHANGED storeVars, minted' = minted, TypeOK,
           \A d \in Devices : HasCredit(d)' => HasCredit(d) /\ Credit(d)' = Credit(d)
    PROVE  Agreed'
<1>1. \A r \in minted : r.device \in Devices
    BY DEF TypeOK
<1> QED
    BY <1>1 DEF Agreed, storeVars, Minting

LEMMA StartStep ==
    ASSUME PairingInvariant, NEW d \in Devices, NEW version \in {1, 2}, Start(d, version)
    PROVE  PairingInvariant'
<1> USE SweptFacts DEF PairingInvariant, Start
<1>1. /\ DOMAIN sessions' = DOMAIN Swept \cup {d}
      /\ sessions'[d] = [expires |-> clock + CodeTTL, version |-> version, approved |-> FALSE]
      /\ \A x \in DOMAIN Swept : x # d => sessions'[x] = sessions[x] /\ sessions'[x] \in Session
      /\ sessions'[d] \in Session
    BY PairingAssumption DEF With, Expiry, Session, TypeOK
<1>2. TypeOK'
    <2>1. DOMAIN sessions' \subseteq Devices /\ \A x \in DOMAIN sessions' : sessions'[x] \in Session
        BY <1>1 DEF TypeOK
    <2>2. started' \in [Devices -> Nat]
        BY DEF TypeOK
    <2> QED
        BY <2>1, <2>2, ZenonT(30) DEF TypeOK, bounds
<1>3. Separate'
    BY <1>1 DEF Separate, RevokedStaysOut, Minting
<1>4. OneCode'
    <2>1. \A x \in DOMAIN sessions' : holds[x] = Nobody /\ sessions'[x].expires = started'[x] + CodeTTL
        <3> SUFFICES ASSUME NEW x \in DOMAIN sessions'
                     PROVE  holds[x] = Nobody /\ sessions'[x].expires = started'[x] + CodeTTL
            OBVIOUS
        <3>1. CASE x = d
            BY <1>1, <3>1 DEF TypeOK
        <3>2. CASE x # d
            <4>1. started'[x] = started[x]
                BY <3>2 DEF TypeOK
            <4> QED
                BY <1>1, <3>2, <4>1 DEF OneCode
        <3> QED
            BY <3>1, <3>2
    <2>2. \A x \in Devices : /\ collected[x] <= 1
                             /\ collected[x] = 1 => collectedAt[x] <= started'[x] + CodeTTL
        <3>1. collected[d] = 0
            BY DEF OneCode
        <3>2. \A x \in Devices : x # d => started'[x] = started[x]
            BY DEF TypeOK
        <3> QED
            BY <3>1, <3>2 DEF OneCode, CollectedOnce
    <2> QED
        BY <2>1, <2>2 DEF OneCode, CollectedOnce
<1>5. Agreed'
    <2>1. \A x \in Devices : HasCredit(x)' => HasCredit(x) /\ Credit(x)' = Credit(x)
        <3>1. ~HasCredit(d)'
            BY <1>1 DEF HasCredit
        <3>2. ASSUME NEW x \in Devices, x # d, HasCredit(x)' PROVE HasCredit(x) /\ Credit(x)' = Credit(x)
            BY <1>1, <3>2 DEF HasCredit, Credit, First
        <3> QED
            BY <3>1, <3>2
    <2> QED
        BY <2>1, AgreedKept DEF storeVars
<1> QED
    BY <1>2, <1>3, <1>4, <1>5

LEMMA ApproveStep == ASSUME PairingInvariant, NEW d \in Devices, Approve(d) PROVE PairingInvariant'
<1> USE SweptFacts DEF PairingInvariant, Approve
<1>1. /\ DOMAIN sessions' = DOMAIN Swept
      /\ d \in DOMAIN sessions /\ ~sessions[d].approved
      /\ \A x \in DOMAIN Swept : /\ sessions'[x] \in Session
                                 /\ sessions'[x].expires = sessions[x].expires
                                 /\ sessions'[x].version = sessions[x].version
                                 /\ x # d => sessions'[x] = sessions[x]
      /\ sessions'[d].approved
    BY DEF Session
<1>2. minted' = minted \cup {[device |-> d, version |-> sessions[d].version]}
    OBVIOUS
<1>3. Minting' = Minting \cup {d}
    <2> DEFINE record == [device |-> d, version |-> sessions[d].version]
    <2>1. record.device = d /\ minted' = minted \cup {record}
        BY <1>2
    <2> HIDE DEF record
    <2>2. \A x : x \in Minting' <=> \E r \in minted' : x = r.device
        BY DEF Minting
    <2>3. \A x : x \in Minting <=> \E r \in minted : x = r.device
        BY DEF Minting
    <2> QED
        BY <2>1, <2>2, <2>3
<1>4. TypeOK'
    <2>1. minted' \subseteq [device : Devices, version : {1, 2}]
        BY <1>1, <1>2 DEF TypeOK, Session
    <2> QED
        BY <1>1, <2>1 DEF TypeOK, hist, bounds
<1>5. Separate'
    <2>1. d \notin DOMAIN mem \cup Minting \cup revoked \cup cut \cup lost
        BY <1>1 DEF Separate
    <2>2. \A r, s \in minted' : r.device = s.device => r = s
        <3>1. \A r \in minted : r.device # d
            BY <2>1 DEF Minting
        <3> QED
            BY <1>2, <3>1 DEF Separate
    <2> QED
        BY <1>1, <1>3, <2>1, <2>2 DEF Separate, RevokedStaysOut, hist
<1>6. OneCode'
    BY <1>1 DEF OneCode, CollectedOnce, hist
<1>7. Agreed'
    <2>1. \A x \in Devices \ {d} : HasCredit(x)' => HasCredit(x) /\ Credit(x)' = Credit(x)
        BY <1>1 DEF HasCredit, Credit, First
    <2>2. Credit(d)' = First(sessions[d].version)
        BY <1>1 DEF Credit, OneCode, First
    <2>3. \A r \in minted : r.device \in Devices /\ r.device # d
        BY <1>1 DEF TypeOK, Minting, Separate
    <2>4. \A r \in minted' : HasCredit(r.device)' => Credit(r.device)' = First(r.version)'
        BY <1>2, <2>1, <2>2, <2>3 DEF Agreed, First
    <2> QED
        BY <1>3, <2>1, <2>4 DEF Agreed, hist
<1> QED
    BY <1>4, <1>5, <1>6, <1>7

LEMMA PollSteps ==
    ASSUME PairingInvariant, ApproveNothing \/ \E d \in Devices : Poll(d)
    PROVE  PairingInvariant'
<1>1. CASE ApproveNothing
    <2> USE <1>1, SweptFacts DEF PairingInvariant, ApproveNothing
    <2>1. TypeOK'
        BY DEF TypeOK, hist, bounds
    <2>2. Separate' /\ OneCode'
        BY DEF Separate, RevokedStaysOut, Minting, OneCode, CollectedOnce, hist
    <2>3. \A x \in Devices : HasCredit(x)' => HasCredit(x) /\ Credit(x)' = Credit(x)
        BY DEF HasCredit, Credit, First
    <2> QED
        BY <2>1, <2>2, <2>3, AgreedKept DEF storeVars, hist
<1>2. ASSUME NEW d \in Devices, Poll(d) PROVE PairingInvariant'
    <2> USE <1>2, SweptFacts DEF PairingInvariant, Poll
    <2>1. /\ DOMAIN sessions' = DOMAIN Swept \ {d}
          /\ \A x \in DOMAIN sessions' : sessions'[x] = sessions[x] /\ sessions[x] \in Session
          /\ d \in DOMAIN sessions /\ sessions[d].approved /\ sessions[d].version \in {1, 2}
          /\ holds' = [holds EXCEPT ![d] = First(sessions[d].version)]
          /\ sessions[d].expires \in Nat /\ clock <= sessions[d].expires
        <3>1. /\ DOMAIN sessions' = DOMAIN Swept \ {d}
              /\ \A x \in DOMAIN sessions' : sessions'[x] = Swept[x]
            BY DEF Consumed, Without
        <3>2. sessions[d] \in Session /\ Swept[d] = sessions[d] /\ d \in DOMAIN sessions
            BY DEF TypeOK
        <3>3. sessions[d].expires \in Nat /\ sessions[d].version \in {1, 2}
            BY <3>2 DEF Session
        <3>4. clock <= sessions[d].expires
            BY <3>2, <3>3 DEF TypeOK
        <3> QED
            BY <3>1, <3>2, <3>3, <3>4
    <2>2. First(sessions[d].version) \in Credential /\ First(sessions[d].version) # Nobody
        BY <2>1, PairingAssumption DEF First, Credential
    <2>3. TypeOK'
        <3>1. holds' \in [Devices -> Credential \cup {Nobody}]
            BY <2>1, <2>2 DEF TypeOK
        <3>2. collected' \in [Devices -> Nat] /\ collectedAt' \in [Devices -> Nat]
            BY DEF TypeOK
        <3> QED
            BY <2>1, <3>1, <3>2 DEF TypeOK, bounds
    <2>4. Separate'
        BY <2>1 DEF Separate, RevokedStaysOut, Minting
    <2>5. OneCode'
        BY <2>1, <2>2 DEF OneCode, CollectedOnce, TypeOK
    <2>6. \A x \in Devices : HasCredit(x)' => HasCredit(x) /\ Credit(x)' = Credit(x)
        BY <2>1, <2>2 DEF HasCredit, Credit, First, OneCode, TypeOK
    <2> QED
        BY <2>3, <2>4, <2>5, <2>6, AgreedKept DEF storeVars
<1> QED
    BY <1>1, <1>2

\* The record is stored: it is what the client has, or will be given.
LEMMA PersistStep == ASSUME PairingInvariant, Persist PROVE PairingInvariant'
<1> USE DEF PairingInvariant
<1>1. PICK record \in minted :
          /\ minted' = minted \ {record}
          /\ mem' = With(mem, record.device, First(record.version))
          /\ \/ Saved
             \/ /\ SaveFails(mem')
                /\ unsaved' = IF disk' = mem' THEN {} ELSE unsaved \cup {record.device}
          /\ UNCHANGED <<clock, sessions, upgrading, spent, holds, answers, upgrades, restarts,
                         started, collected, collectedAt, revoked, cut, lost>>
    BY DEF Persist
<1> DEFINE d == record.device
           key == First(record.version)
<1>2. /\ record \in [device : Devices, version : {1, 2}] /\ d \in Devices /\ key \in Credential
      /\ d \in Minting
    BY DEF TypeOK, Minting, First, Credential
<1> HIDE DEF d
<1>3. /\ DOMAIN mem' = DOMAIN mem \cup {d} /\ mem'[d] = key
      /\ \A x \in DOMAIN mem : x # d => mem'[x] = mem[x]
    BY <1>1 DEF With, d
<1> HIDE DEF key
<1>4. \/ disk' = mem' /\ unsaved' = {} /\ failures' \in Nat
      \/ disk' = disk /\ unsaved' = unsaved \cup {d} /\ failures' \in Nat
    BY <1>1 DEF Saved, SaveFails, TypeOK, d
<1>5. Minting' = Minting \ {d}
    <2>1. \A x : x \in Minting' <=> \E r \in minted' : x = r.device
        BY DEF Minting
    <2>2. \A x : x \in Minting <=> \E r \in minted : x = r.device
        BY DEF Minting
    <2>3. \A r \in minted : r.device = d => r = record
        BY DEF Separate, d
    <2> QED
        BY <1>1, <2>1, <2>2, <2>3 DEF d
<1>6. TypeOK'
    <2>1. DOMAIN mem' \subseteq Devices /\ \A x \in DOMAIN mem' : mem'[x] \in Credential
        BY <1>2, <1>3 DEF TypeOK
    <2>2. DOMAIN disk' \subseteq Devices /\ \A x \in DOMAIN disk' : disk'[x] \in Credential
        BY <1>4, <2>1 DEF TypeOK
    <2>3. unsaved' \in SUBSET Devices /\ minted' \subseteq [device : Devices, version : {1, 2}]
        BY <1>1, <1>2, <1>4 DEF TypeOK
    <2> QED
        BY <1>1, <1>4, <2>1, <2>2, <2>3 DEF TypeOK
<1>7. Separate'
    <2>1. d \notin DOMAIN mem \cup revoked \cup cut \cup lost
        BY <1>2 DEF Separate
    <2>2. \A x \in DOMAIN sessions : ~sessions[x].approved => x # d
        BY <1>2 DEF Separate
    <2>3. RevokedStaysOut'
        BY <1>1, <1>3, <1>4, <2>1 DEF Separate, RevokedStaysOut
    <2> QED
        BY <1>1, <1>3, <1>5, <2>1, <2>2, <2>3 DEF Separate
<1>8. OneCode'
    BY <1>1 DEF OneCode, CollectedOnce
<1>9. Agreed'
    <2>1. \A x \in Devices : HasCredit(x)' = HasCredit(x) /\ Credit(x)' = Credit(x)
        BY <1>1 DEF HasCredit, Credit, First
    <2>2. \A r \in minted : r.device \in Devices
        BY DEF TypeOK
    <2>3. HasCredit(d) => Credit(d) = key
        BY DEF Agreed, d, key
    <2>4. \A r \in minted' : HasCredit(r.device)' => Credit(r.device)' = First(r.version)'
        BY <1>1, <2>1, <2>2 DEF Agreed, First
    <2>5. ASSUME NEW x \in Devices, HasCredit(x)', x \notin Minting' \cup revoked' \cup lost'
          PROVE  /\ x \notin cut' => x \in DOMAIN mem' /\ mem'[x] = Credit(x)'
                 /\ x \notin unsaved' /\ (x \in cut' => x \in DOMAIN disk') =>
                        x \in DOMAIN disk' /\ disk'[x] = Credit(x)'
        <3>1. CASE x = d
            <4>1. x \notin cut
                BY <1>2, <3>1 DEF Separate
            <4> QED
                BY <1>1, <1>3, <1>4, <2>1, <2>3, <2>5, <3>1, <4>1
        <3>2. CASE x # d
            <4>1. x \notin Minting \cup revoked \cup lost /\ HasCredit(x)
                BY <1>1, <1>5, <2>1, <2>5, <3>2
            <4>2. x \in cut => x \notin DOMAIN mem'
                BY <1>3, <3>2 DEF Separate
            <4> QED
                BY <1>1, <1>3, <1>4, <2>1, <3>2, <4>1, <4>2 DEF Agreed
        <3> QED
            BY <3>1, <3>2
    <2> QED
        BY <2>4, <2>5 DEF Agreed
<1> QED
    BY <1>6, <1>7, <1>8, <1>9

LEMMA RevokeStep == ASSUME PairingInvariant, NEW d \in Devices, Revoke(d) PROVE PairingInvariant'
<1> USE DEF PairingInvariant
<1>1. /\ d \in DOMAIN mem /\ DOMAIN mem' = DOMAIN mem \ {d}
      /\ \A x \in DOMAIN mem' : mem'[x] = mem[x]
      /\ UNCHANGED <<clock, doorVars, spent, holds, answers, upgrades, restarts,
                     started, collected, collectedAt, lost>>
    BY DEF Revoke, Without
<1>2. \/ /\ disk' = mem' /\ unsaved' = {} /\ failures' \in Nat
         /\ revoked' = revoked \cup {d} /\ cut' = cut
      \/ /\ disk' = mem' /\ unsaved' = {} /\ failures' \in Nat
         /\ revoked' = revoked /\ cut' = cut \cup {d}
      \/ /\ disk' = disk /\ unsaved' = unsaved /\ failures' \in Nat
         /\ revoked' = revoked /\ cut' = cut \cup {d}
    BY DEF Revoke, Saved, SaveFails, TypeOK
<1>3. d \notin Minting \cup revoked \cup cut
      /\ \A x \in DOMAIN sessions : ~sessions[x].approved => x # d
    BY <1>1 DEF Separate, RevokedStaysOut
<1>4. TypeOK'
    <2>1. DOMAIN mem' \subseteq Devices /\ \A x \in DOMAIN mem' : mem'[x] \in Credential
        BY <1>1 DEF TypeOK
    <2>2. DOMAIN disk' \subseteq Devices /\ \A x \in DOMAIN disk' : disk'[x] \in Credential
        BY <1>2, <2>1 DEF TypeOK
    <2>3. {revoked', cut', unsaved'} \subseteq SUBSET Devices /\ failures' \in Nat
        BY <1>2 DEF TypeOK
    <2> QED
        BY <1>1, <2>1, <2>2, <2>3 DEF TypeOK, doorVars
<1>5. Separate' /\ Minting' = Minting
    <2>1. RevokedStaysOut'
        BY <1>1, <1>2 DEF Separate, RevokedStaysOut
    <2> QED
        BY <1>1, <1>2, <1>3, <2>1 DEF Separate, Minting, doorVars
<1>6. OneCode'
    BY <1>1 DEF OneCode, CollectedOnce, doorVars
<1>7. Agreed'
    <2>1. \A x \in Devices : HasCredit(x)' = HasCredit(x) /\ Credit(x)' = Credit(x)
        BY <1>1 DEF HasCredit, Credit, First, doorVars
    <2>2. \A r \in minted' : HasCredit(r.device)' => Credit(r.device)' = First(r.version)'
        BY <1>1, <2>1 DEF Agreed, First, doorVars, TypeOK
    <2>3. ASSUME NEW x \in Devices, HasCredit(x), x \notin Minting \cup revoked' \cup lost
          PROVE  /\ x \notin cut' => x \in DOMAIN mem' /\ mem'[x] = Credit(x)
                 /\ x \notin unsaved' /\ (x \in cut' => x \in DOMAIN disk') =>
                        x \in DOMAIN disk' /\ disk'[x] = Credit(x)
        <3>1. x \notin revoked
            BY <1>2, <2>3
        <3>2. x = d => x \in cut'
            BY <1>2, <2>3
        <3>3. x \in cut' => x \notin DOMAIN mem'
            BY <1>1, <1>2 DEF Separate
        <3> QED
            BY <1>1, <1>2, <1>3, <2>3, <3>1, <3>2, <3>3 DEF Agreed
    <2> QED
        BY <1>1, <1>5, <2>1, <2>2, <2>3 DEF Agreed
<1> QED
    BY <1>4, <1>5, <1>6, <1>7

\* A re-keyed record is saved before the client is told, or put back.
LEMMA UpgradeStep == ASSUME PairingInvariant, NEW d \in Devices, Upgrade(d) PROVE PairingInvariant'
<1> USE DEF PairingInvariant
<1> DEFINE key == [version |-> 2, serial |-> holds[d].serial + 1]
<1>1. /\ d \in upgrading /\ upgrading' = upgrading \ {d}
      /\ holds[d] # Nobody
      /\ UNCHANGED <<clock, sessions, minted, spent, answers, upgrades, restarts,
                     started, collected, collectedAt, revoked, cut, lost>>
    BY DEF Upgrade, OneCode
<1>2. key \in Credential /\ key # Nobody
    <2>1. holds[d] \in Credential
        BY <1>1 DEF TypeOK
    <2> QED
        BY <2>1, PairingAssumption DEF Credential
<1>3. \/ /\ d \in DOMAIN mem /\ mem' = With(mem, d, key) /\ disk' = mem' /\ unsaved' = {}
         /\ holds' = [holds EXCEPT ![d] = key] /\ failures' \in Nat
      \/ /\ d \in DOMAIN mem /\ mem' = mem /\ holds' = holds /\ failures' \in Nat
         /\ disk' = With(mem, d, key) /\ unsaved' = {d}
      \/ mem' = mem /\ disk' = disk /\ unsaved' = unsaved /\ holds' = holds /\ failures' \in Nat
    BY DEF Upgrade, Found, Saved, SaveFails, RolledBack, TypeOK
<1> HIDE DEF key
<1>4. d \in DOMAIN mem =>
          /\ DOMAIN With(mem, d, key) = DOMAIN mem /\ With(mem, d, key)[d] = key
          /\ \A x \in DOMAIN mem : x # d => With(mem, d, key)[x] = mem[x]
    BY DEF With
<1>5. Minting' = Minting /\ DOMAIN mem' = DOMAIN mem
      /\ (DOMAIN disk' = DOMAIN disk \/ DOMAIN disk' = DOMAIN mem)
    BY <1>1, <1>3, <1>4 DEF Minting
<1>6. TypeOK'
    <2>1. d \in DOMAIN mem =>
              /\ DOMAIN With(mem, d, key) \subseteq Devices
              /\ \A x \in DOMAIN With(mem, d, key) : With(mem, d, key)[x] \in Credential
        BY <1>2, <1>4 DEF TypeOK
    <2>2. /\ DOMAIN mem' \subseteq Devices /\ \A x \in DOMAIN mem' : mem'[x] \in Credential
          /\ DOMAIN disk' \subseteq Devices /\ \A x \in DOMAIN disk' : disk'[x] \in Credential
        <3>1. CASE mem' = mem
            BY <1>3, <2>1, <3>1 DEF TypeOK
        <3>2. CASE d \in DOMAIN mem /\ mem' = With(mem, d, key) /\ disk' = mem'
            BY <2>1, <3>2
        <3> QED
            BY <1>3, <3>1, <3>2
    <2>3. /\ holds' \in [Devices -> Credential \cup {Nobody}] /\ failures' \in Nat
          /\ unsaved' \in SUBSET Devices /\ upgrading' \in SUBSET Devices
        BY <1>1, <1>2, <1>3 DEF TypeOK
    <2> QED
        BY <1>1, <2>2, <2>3 DEF TypeOK
<1>7. Separate'
    <2>1. RevokedStaysOut'
        BY <1>1, <1>5 DEF Separate, RevokedStaysOut
    <2> QED
        BY <1>1, <1>5, <2>1 DEF Separate
<1>8. \A x \in Devices : (holds'[x] = Nobody <=> holds[x] = Nobody) /\ (x # d => holds'[x] = holds[x])
    BY <1>1, <1>2, <1>3 DEF TypeOK
<1>9. OneCode'
    <2>1. DOMAIN sessions \subseteq Devices /\ upgrading \subseteq Devices
        BY DEF TypeOK
    <2> QED
        BY <1>1, <1>8, <2>1 DEF OneCode, CollectedOnce
<1>10. Agreed'
    <2>1. \A x \in Devices : HasCredit(x)' = HasCredit(x) /\ (x # d => Credit(x)' = Credit(x))
        BY <1>1, <1>8 DEF HasCredit, Credit, First
    <2>2. d \in DOMAIN mem => \A r \in minted : r.device # d
        BY DEF Separate, Minting
    <2>3. d \notin DOMAIN mem => Credit(d)' = Credit(d)
        BY <1>1, <1>3 DEF Credit, First
    <2>4. \A r \in minted' : HasCredit(r.device)' => Credit(r.device)' = First(r.version)'
        <3>1. \A r \in minted : r.device \in Devices
            BY DEF TypeOK
        <3> QED
            BY <1>1, <2>1, <2>2, <2>3, <3>1 DEF Agreed, First
    <2>5. ASSUME NEW x \in Devices, HasCredit(x), x \notin Minting \cup revoked \cup lost
          PROVE  /\ x \notin cut => x \in DOMAIN mem' /\ mem'[x] = Credit(x)'
                 /\ x \notin unsaved' /\ (x \in cut => x \in DOMAIN disk') =>
                        x \in DOMAIN disk' /\ disk'[x] = Credit(x)'
        <3>1. x \in cut => x \notin DOMAIN mem
            BY DEF Separate
        <3>2. /\ x \notin cut => x \in DOMAIN mem /\ mem[x] = Credit(x)
              /\ x \notin unsaved /\ (x \in cut => x \in DOMAIN disk) =>
                     x \in DOMAIN disk /\ disk[x] = Credit(x)
            BY <2>5 DEF Agreed
        <3>3. CASE mem' = mem /\ disk' = disk /\ unsaved' = unsaved /\ holds' = holds
            <4>1. Credit(x)' = Credit(x)
                BY <1>1, <3>3 DEF Credit, First
            <4> QED
                BY <3>2, <3>3, <4>1
        <3>4. CASE d \in DOMAIN mem /\ mem' = mem /\ holds' = holds /\ disk' = With(mem, d, key) /\ unsaved' = {d}
            <4>1. Credit(x)' = Credit(x)
                BY <1>1, <3>4 DEF Credit, First
            <4> QED
                BY <1>4, <3>1, <3>2, <3>4, <4>1
        <3>5. CASE /\ d \in DOMAIN mem /\ mem' = With(mem, d, key) /\ disk' = mem' /\ unsaved' = {}
                   /\ holds' = [holds EXCEPT ![d] = key]
            <4>1. CASE x = d
                <5>1. Credit(x)' = key
                    BY <1>2, <3>5, <4>1 DEF Credit, TypeOK
                <5> QED
                    BY <1>4, <3>5, <4>1, <5>1
            <4>2. CASE x # d
                BY <1>4, <2>1, <3>1, <3>2, <3>5, <4>2
            <4> QED
                BY <4>1, <4>2
        <3> QED
            BY <1>3, <3>3, <3>4, <3>5
    <2> QED
        BY <1>1, <1>5, <2>1, <2>4, <2>5 DEF Agreed
<1> QED
    BY <1>6, <1>7, <1>9, <1>10

LEMMA RequestSteps ==
    ASSUME PairingInvariant, NEW d \in Devices, Request(d) \/ AskUpgrade(d)
    PROVE  PairingInvariant'
<1> USE DEF PairingInvariant
<1>1. /\ UNCHANGED <<clock, sessions, minted, mem, disk, holds, failures, restarts, hist>>
      /\ holds[d] # Nobody /\ upgrading' \in {upgrading, upgrading \cup {d}}
    BY DEF Request, AskUpgrade, doorVars, bounds
<1>2. TypeOK'
    <2>1. \A adrift, again \in BOOLEAN : Refusal(d, adrift, again) \in Reasons
        BY DEF Refusal, Reasons
    <2>2. answers' \in [Devices -> Reasons]
        <3>1. CASE Request(d)
            <4>1. PICK refusal \in Reasons : answers' = [answers EXCEPT ![d] = refusal]
                BY <2>1, <3>1 DEF Request
            <4> QED
                BY <4>1 DEF TypeOK
        <3>2. CASE AskUpgrade(d)
            BY <3>2 DEF AskUpgrade, TypeOK, Reasons
        <3> QED
            BY <3>1, <3>2
    <2>3. spent' \in SUBSET Devices /\ upgrades' \in Nat
        <3>1. spent' \in {spent, spent \cup {d}}
            BY DEF Request, AskUpgrade
        <3>2. upgrades' \in {upgrades, upgrades + 1}
            BY DEF Request, AskUpgrade, bounds
        <3> QED
            BY <3>1, <3>2 DEF TypeOK
    <2> QED
        BY <1>1, <2>2, <2>3 DEF TypeOK, hist
<1>3. Separate' /\ OneCode'
    BY <1>1 DEF Separate, RevokedStaysOut, Minting, OneCode, CollectedOnce, hist
<1>4. \A x \in Devices : HasCredit(x)' => HasCredit(x) /\ Credit(x)' = Credit(x)
    BY <1>1 DEF HasCredit, Credit, First
<1> QED
    BY <1>1, <1>2, <1>3, <1>4, AgreedKept DEF storeVars, hist

\* What was not saved, and what was minted and not stored, is lost; a device whose
\* revocation was not saved is back, with what its client has.
LEMMA RestartStep == ASSUME PairingInvariant, Restart PROVE PairingInvariant'
<1> USE DEF PairingInvariant, Restart
<1>1. DOMAIN sessions' = {} /\ Minting' = {} /\ upgrading' = {}
    BY DEF Empty, Minting
<1>2. TypeOK'
    <2>1. Minting \in SUBSET Devices
        BY DEF TypeOK, Minting
    <2> QED
        BY <1>1, <2>1 DEF TypeOK
<1>3. Separate'
    BY <1>1 DEF Separate, RevokedStaysOut
<1>4. OneCode'
    BY <1>1 DEF OneCode, CollectedOnce
<1>5. Agreed'
    <2>1. \A x \in Devices : HasCredit(x)' => HasCredit(x) /\ Credit(x)' = Credit(x)
        BY <1>1 DEF HasCredit, Credit
    <2>2. ASSUME NEW x \in Devices, HasCredit(x)', x \notin Minting' \cup revoked' \cup lost'
          PROVE  /\ x \notin cut' => x \in DOMAIN mem' /\ mem'[x] = Credit(x)'
                 /\ x \notin unsaved' /\ (x \in cut' => x \in DOMAIN disk') =>
                        x \in DOMAIN disk' /\ disk'[x] = Credit(x)'
        <3>1. x \notin Minting \cup revoked \cup lost /\ x \notin unsaved
            BY <2>2
        <3> QED
            BY <2>1, <2>2, <3>1 DEF Agreed
    <2> QED
        BY <1>1, <2>2 DEF Agreed
<1> QED
    BY <1>2, <1>3, <1>4, <1>5

LEMMA QuietSteps == ASSUME PairingInvariant, Tick \/ UNCHANGED vars PROVE PairingInvariant'
<1> USE DEF PairingInvariant
<1>1. /\ UNCHANGED <<doorVars, mem, disk, holds, answers, bounds, hist>>
      /\ clock' \in Nat /\ spent' \in SUBSET Devices
    BY DEF Tick, vars, TypeOK
<1>2. TypeOK'
    BY <1>1 DEF TypeOK, doorVars, bounds, hist
<1>3. Separate' /\ OneCode'
    BY <1>1 DEF Separate, RevokedStaysOut, Minting, OneCode, CollectedOnce, hist, doorVars
<1>4. \A x \in Devices : HasCredit(x)' => HasCredit(x) /\ Credit(x)' = Credit(x)
    BY <1>1 DEF HasCredit, Credit, First, doorVars
<1> QED
    BY <1>1, <1>2, <1>3, <1>4, AgreedKept DEF storeVars, hist, doorVars
-----------------------------------------------------------------------------
THEOREM Invariance == Spec => []PairingInvariant
<1>1. ASSUME PairingInvariant, [Next]_vars PROVE PairingInvariant'
    <2>1. ASSUME NEW d \in Devices, NEW version \in {1, 2}, Start(d, version) PROVE PairingInvariant'
        BY <1>1, <2>1, StartStep
    <2>2. ASSUME NEW d \in Devices,
                 Approve(d) \/ Poll(d) \/ Revoke(d) \/ Upgrade(d) \/ Request(d) \/ AskUpgrade(d)
          PROVE  PairingInvariant'
        BY <1>1, <2>2, ApproveStep, PollSteps, RevokeStep, UpgradeStep, RequestSteps
    <2>3. CASE ApproveNothing \/ Persist \/ Restart \/ Tick \/ Rest \/ UNCHANGED vars
        BY <1>1, <2>3, PollSteps, PersistStep, RestartStep, QuietSteps DEF Rest
    <2> QED
        BY <1>1, <2>1, <2>2, <2>3 DEF Next
<1> QED
    BY <1>1, Beginning, PTL DEF Spec

\* Client, server and file agree on a credential from its approval to its revocation,
\* but for what a failed write or a crash lost, which is named.
THEOREM CredentialAgreed == Spec => []HeldIsKnown
<1>1. PairingInvariant => HeldIsKnown
    BY DEF PairingInvariant, Agreed, HasCredit, Credit, HeldIsKnown
<1> QED
    BY <1>1, Invariance, PTL

\* A confirmed revocation is for good, whatever upgrade was under way, whichever write
\* fails later and however often the server restarts.
THEOREM RevokedForGood == Spec => []RevokedStaysOut
<1>1. PairingInvariant => RevokedStaysOut
    BY DEF PairingInvariant, Separate
<1> QED
    BY <1>1, Invariance, PTL

\* A credential is handed over once, before its code would have expired.
THEOREM HandedOverOnce == Spec => []CollectedOnce
<1>1. PairingInvariant => CollectedOnce
    BY DEF PairingInvariant, OneCode
<1> QED
    BY <1>1, Invariance, PTL

\* A client with a credential in force is never told that it is unknown or wrongly signed.
THEOREM NeverDiscouraged == Spec => NeverToldDead
<1>1. PairingInvariant => HeldIsKnown
    BY DEF PairingInvariant, Agreed, HasCredit, Credit, HeldIsKnown
<1>2. ASSUME PairingInvariant, NEW d \in Devices, Request(d), answers'[d] \in {"unknown_key", "bad_signature"}
      PROVE  d \in Minting \cup revoked \cup cut \cup lost
    <2>1. PICK adrift \in BOOLEAN, again \in BOOLEAN : answers'[d] = Refusal(d, adrift, again)
        BY <1>2, ZenonT(30) DEF Request, PairingInvariant, TypeOK
    <2>2. holds[d] # Nobody
        BY <1>2 DEF Request
    <2>3. CASE d \in DOMAIN mem /\ mem[d] = holds[d]
        <3>1. Refusal(d, adrift, again) \notin {"unknown_key", "bad_signature"}
            BY <2>3 DEF Refusal, Known
        <3> QED
            BY <1>2, <2>1, <3>1
    <2> QED
        BY <1>1, <1>2, <2>2, <2>3 DEF HeldIsKnown
<1>3. PairingInvariant /\ [Next]_vars =>
          [\A d \in Devices : Request(d) /\ answers'[d] \in {"unknown_key", "bad_signature"} =>
               d \in Minting \cup revoked \cup cut \cup lost]_vars
    BY <1>2
<1> QED
    BY <1>3, Invariance, PTL DEF Spec, NeverToldDead

\* Every variable keeps its type.
THEOREM TypeCorrect == Spec => []TypeOK
<1>1. PairingInvariant => TypeOK
    BY DEF PairingInvariant
<1> QED
    BY <1>1, Invariance, PTL
=============================================================================
