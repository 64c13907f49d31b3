---------------------------- MODULE CommandProofs ----------------------------
(***************************************************************************)
(* Proofs about the two commands that converse and then change something.   *)
(*                                                                         *)
(* Proxy, for any number of runs and of undos: an undo or a rollback leaves *)
(* what was there before, no file of the person's is lost, and no broken    *)
(* configuration is loaded.                                                *)
(*                                                                         *)
(* Fetch, with Scan and Clouds, for any units, homes and lost requests: who *)
(* answers a scan is reported, passwords and tokens go where they belong,   *)
(* and what is said, the exit code included, is true.                       *)
(***************************************************************************)
EXTENDS Proxy, Fetch, WellFoundedInduction, TLAPS

In(x, s) == \E i \in DOMAIN s : s[i] = x

Entering    == {"choose", "name", "configure"}
Configuring == {"put_conf", "enable", "validate", "reload"}
Finishing   == {"certificate", "behind", "put_env", "save"}
Wizard      == Entering \cup Configuring \cup Finishing
Undoing     == {"undo", "reload_back", "forget"}

\* The steps that are ever recorded.
Taken == {s \in Step : s.kind # "drop" /\ s # Replaced("le_ssl") /\ s # Ran("env")}

Site  == [conf : Contents, le_ssl : Contents, enabled : SUBSET Sites]
Image == [files : [Files -> Contents], enabled : SUBSET Sites, live : Site]

Typed ==
    /\ TypeOK
    /\ live \in Site /\ before \in Image /\ first \in [Files -> Contents]
    /\ again \in BOOLEAN
    /\ pc \in {"idle", "rollback"} \cup Wizard \cup Undoing

\* Which journal there is at which place, and what can be in it by then.
Places ==
    /\ pc \notin Configuring \cup Finishing => steps = <<>>
    /\ pc \notin {"undo", "rollback"} => todo = <<>>
    /\ pc \in Wizard \cup {"rollback"} => record = <<>>
    /\ pc \in Undoing => record \notin {<<>>, Unreadable}
    /\ pc = "rollback" => ~dry
    /\ pc \in Wizard \cup {"rollback"} => dry \/ ~unrecorded
Recorded ==
    /\ record = Unreadable => unrecorded
    /\ record \notin {<<>>, Unreadable} => ~unrecorded /\ \A s \in Step : In(s, record) => s \in Taken
    /\ \A s \in Step : In(s, steps) =>
          /\ s \in Taken
          /\ dry => s.kind = "ran"
          /\ pc \in Configuring \cup {"certificate"} => s.what = "conf"
          /\ pc = "behind" => s.what # "env"
    /\ pc \in Configuring \cup Finishing =>
          dry \/ In(Created("conf"), steps) \/ In(Replaced("conf"), steps)
    /\ pc = "put_env" => dry \/ In(Created("env"), steps) \/ In(Replaced("env"), steps)
    /\ \A s \in Step : In(s, todo) =>
          \/ ~dry /\ s.kind = "drop" /\ s.what # "le_ssl"
          \/ pc = "undo" /\ In(s, record)
          \/ pc = "rollback" /\ s \in Taken /\ s.what = "conf"

\* The journal of what has been done, and what is left of it to reverse.
Owed  == IF record # <<>> THEN record ELSE IF pc = "rollback" THEN todo
         ELSE IF dry THEN <<>> ELSE steps
Ahead == IF pc \in Undoing /\ ~dry THEN todo ELSE Owed

\* A file is as it was, or a step says how it becomes so.
FilesReversible ==
    ~unrecorded => \A f \in Files :
        /\ files[f] = before.files[f]
              \/ In(Created(f), Ahead) \/ In(Replaced(f), Ahead) \/ In(Dropping(f), Ahead)
        /\ In(Created(f), Owed) => before.files[f] = "none"
        /\ In(Replaced(f), Owed) =>
              /\ before.files[f] # "none"
              /\ backups[f] = before.files[f] \/ (backups[f] = "none" /\ files[f] = before.files[f])
        /\ In(Replaced(f), steps) => backups[f] = before.files[f]
        /\ In(Dropping(f), todo) => files[f] = before.files[f] /\ before.files[f] # "none"

SitesReversible ==
    /\ ~unrecorded => \A s \in enabled : s \in before.enabled \/ In(Ran(s), Ahead)
    /\ ~unrecorded /\ In(Ran("le_ssl"), Owed) => before.files["le_ssl"] = "none"
    /\ files["le_ssl"] = "none" \/ In(Ran("le_ssl"), record) \/ "le_ssl" \in enabled
    /\ files["le_ssl"] \in {"none", "tls"}

\* The web server is reloaded only after what it loads has been checked, and a
\* rollback comes before any reload.
LiveReversible ==
    /\ ~dry /\ pc \in Entering \cup Configuring \cup {"rollback"} => live = before.live
    /\ record = <<>> /\ ~unrecorded /\ (pc = "idle" \/ dry) /\ Passes(files["conf"]) =>
          live \in {Loadable, before.live}
    /\ pc = "forget" /\ ~dry /\ Passes(files["conf"]) => live = Loadable
Sound ==
    /\ BrokenNeverLive
    /\ pc \in {"reload", "certificate", "reload_back"} => dry \/ Passes(files["conf"])

Originals ==
    /\ again \/ before.files = first
    /\ \A f \in Files : before.files[f] = "own" => files[f] = "own" \/ backups[f] = "own"

ProxyInvariant ==
    /\ Typed /\ Places /\ Recorded /\ FilesReversible /\ SitesReversible
    /\ LiveReversible /\ Sound /\ Originals
-----------------------------------------------------------------------------
(* What is in a sequence.                                                  *)

LEMMA InNone == \A x : ~In(x, <<>>)
BY DEF In

LEMMA InOne == \A x, y : In(x, <<y>>) <=> x = y
BY DEF In

LEMMA InTwo == \A x, y, z : In(x, <<y, z>>) <=> x = y \/ x = z
<1> TAKE x, y, z
<1>1. DOMAIN <<y, z>> = {1, 2} /\ <<y, z>>[1] = y /\ <<y, z>>[2] = z
    OBVIOUS
<1> QED
    BY <1>1 DEF In

LEMMA InBoth ==
    ASSUME NEW S, NEW s \in Seq(S), NEW t \in Seq(S)
    PROVE  s \o t \in Seq(S) /\ \A x : In(x, s \o t) <=> In(x, s) \/ In(x, t)
<1>1. s \o t \in Seq(S) /\ Len(s \o t) = Len(s) + Len(t)
    OBVIOUS
<1> SUFFICES ASSUME NEW x PROVE In(x, s \o t) <=> In(x, s) \/ In(x, t)
    BY <1>1
<1>2. ASSUME NEW i \in DOMAIN (s \o t), (s \o t)[i] = x PROVE In(x, s) \/ In(x, t)
    <2>1. CASE i <= Len(s)
        BY <1>2, <2>1 DEF In
    <2>2. CASE i > Len(s)
        <3>1. i - Len(s) \in DOMAIN t /\ t[i - Len(s)] = x
            BY <1>1, <1>2, <2>2
        <3> QED
            BY <3>1 DEF In
    <2> QED
        BY <2>1, <2>2
<1>3. ASSUME NEW i \in DOMAIN s, s[i] = x PROVE In(x, s \o t)
    <2>1. i \in DOMAIN (s \o t) /\ (s \o t)[i] = x
        BY <1>1, <1>3
    <2> QED
        BY <2>1 DEF In
<1>4. ASSUME NEW i \in DOMAIN t, t[i] = x PROVE In(x, s \o t)
    <2>1. i + Len(s) \in DOMAIN (s \o t) /\ (s \o t)[i + Len(s)] = x
        BY <1>1, <1>4
    <2> QED
        BY <2>1 DEF In
<1> QED
    BY <1>2, <1>3, <1>4 DEF In

LEMMA NotUnreadable == Unreadable # <<>>
BY DEF Unreadable

LEMMA InReverse ==
    ASSUME NEW S, NEW s \in Seq(S)
    PROVE  Reverse(s) \in Seq(S) /\ \A x : In(x, Reverse(s)) <=> In(x, s)
<1>1. /\ Reverse(s) \in Seq(S) /\ DOMAIN Reverse(s) = 1..Len(s) /\ DOMAIN s = 1..Len(s)
      /\ \A i \in 1..Len(s) : Reverse(s)[i] = s[(Len(s) - i) + 1]
    BY DEF Reverse
<1> SUFFICES ASSUME NEW x PROVE In(x, Reverse(s)) <=> In(x, s)
    BY <1>1
<1>2. ASSUME NEW i \in 1..Len(s), Reverse(s)[i] = x PROVE In(x, s)
    <2>1. (Len(s) - i) + 1 \in 1..Len(s)
        OBVIOUS
    <2> QED
        BY <1>1, <1>2, <2>1 DEF In
<1>3. ASSUME NEW i \in 1..Len(s), s[i] = x PROVE In(x, Reverse(s))
    <2>1. /\ (Len(s) - i) + 1 \in 1..Len(s)
          /\ (Len(s) - ((Len(s) - i) + 1)) + 1 = i
        OBVIOUS
    <2>2. Reverse(s)[(Len(s) - i) + 1] = x
        BY <1>1, <1>3, <2>1
    <2> QED
        BY <1>1, <2>1, <2>2 DEF In
<1> QED
    BY <1>1, <1>2, <1>3 DEF In

LEMMA InTail ==
    ASSUME NEW S, NEW s \in Seq(S), s # <<>>
    PROVE  /\ Head(s) \in S /\ Tail(s) \in Seq(S)
           /\ \A x : In(x, s) <=> x = Head(s) \/ In(x, Tail(s))
<1>1. /\ Head(s) \in S /\ Tail(s) \in Seq(S) /\ Len(s) \in Nat \ {0} /\ Len(Tail(s)) = Len(s) - 1
      /\ s[1] = Head(s) /\ \A i \in 1..(Len(s) - 1) : Tail(s)[i] = s[i + 1]
    OBVIOUS
<1> SUFFICES ASSUME NEW x PROVE In(x, s) <=> x = Head(s) \/ In(x, Tail(s))
    BY <1>1
<1>2. ASSUME NEW i \in DOMAIN s, s[i] = x PROVE x = Head(s) \/ In(x, Tail(s))
    <2>1. CASE i = 1
        BY <1>1, <1>2, <2>1
    <2>2. CASE i # 1
        <3>1. i - 1 \in DOMAIN Tail(s) /\ Tail(s)[i - 1] = x
            BY <1>1, <1>2, <2>2
        <3> QED
            BY <3>1 DEF In
    <2> QED
        BY <2>1, <2>2
<1>3. ASSUME NEW i \in DOMAIN Tail(s), Tail(s)[i] = x PROVE In(x, s)
    <2>1. i + 1 \in DOMAIN s /\ s[i + 1] = x
        BY <1>1, <1>3
    <2> QED
        BY <2>1 DEF In
<1> QED
    BY <1>1, <1>2, <1>3 DEF In
-----------------------------------------------------------------------------
LEMMA Beginning == Init => ProxyInvariant
<1> SUFFICES ASSUME Init PROVE ProxyInvariant
    OBVIOUS
<1> USE DEF Init
<1>1. Typed
    <2>1. runs \in 0..MaxRuns /\ undos \in 0..MaxUndos
        BY ProxyAssumption
    <2>2. files \in [Files -> Contents] /\ backups \in [Files -> Contents] /\ enabled \in SUBSET Sites
        BY DEF Files, Contents, Sites
    <2>3. live \in Site
        BY <2>2 DEF Loadable, Site, Files
    <2>4. before \in Image
        BY <2>2, <2>3 DEF Image, AsItIs
    <2>5. record \in Seq(Step) /\ steps \in Seq(Step) /\ todo \in Seq(Step)
        OBVIOUS
    <2>6. unrecorded \in BOOLEAN /\ again \in BOOLEAN /\ dry \in BOOLEAN
        OBVIOUS
    <2>7. TypeOK
        BY <2>1, <2>2, <2>5, <2>6, Zenon DEF TypeOK, Init
    <2> QED
        BY <2>2, <2>3, <2>4, <2>6, <2>7 DEF Typed
<1>2. Places /\ Recorded
    BY InNone DEF Places, Recorded, Entering, Configuring, Finishing, Wizard, Undoing, Unreadable
<1>3. FilesReversible /\ SitesReversible
    BY InNone DEF FilesReversible, SitesReversible, AsItIs, Owed, Ahead, Files, Undoing
<1>4. LiveReversible /\ Sound
    BY DEF LiveReversible, Sound, BrokenNeverLive, Loadable, Passes, Entering, Configuring, Files
<1>5. Originals
    BY DEF Originals, AsItIs
<1> QED
    BY <1>1, <1>2, <1>3, <1>4, <1>5 DEF ProxyInvariant

\* Nothing but the place changes.
LEMMA Moves ==
    ASSUME ProxyInvariant,
           \/ ChooseServer \/ AskName \/ DeclineConfiguration \/ NoCertificate
           \/ StayInFront \/ RolledBack \/ ValidateBack
    PROVE  ProxyInvariant'
<1> USE DEF ChooseServer, AskName, DeclineConfiguration, NoCertificate, StayInFront, RolledBack,
            ValidateBack, Goto, machine, history, fixed, ProxyInvariant, Entering, Configuring,
            Finishing, Wizard, Undoing
<1>1. /\ UNCHANGED <<files, backups, enabled, live, record, steps, todo, first, before, unrecorded,
                     again, kind, suits, dry, runs, undos>>
      /\ pc \in {"choose", "name", "configure", "certificate", "behind", "rollback", "undo"}
      /\ pc \in {"rollback", "undo"} => todo = <<>>
      /\ pc' \in {"idle", "name", "configure", "behind", "save", "reload_back", "forget"}
    OBVIOUS
<1>2. Typed'
    BY <1>1 DEF Typed, TypeOK, Image, Site, AsItIs, Loadable
<1>3. Places'
    BY DEF Places
<1>4. Recorded'
    BY InNone DEF Recorded, Places
<1>5. Owed' = Owed /\ Ahead' = Ahead
    BY DEF Owed, Ahead, Places
<1>6. FilesReversible' /\ SitesReversible'
    BY <1>1, <1>5 DEF FilesReversible, SitesReversible
<1>7. LiveReversible'
    BY <1>1 DEF LiveReversible, Loadable, Places, Passes
<1>8. Sound' /\ Originals'
    BY DEF Sound, BrokenNeverLive, Passes, Originals
<1> QED
    BY <1>2, <1>3, <1>4, <1>6, <1>7, <1>8

LEMMA StartStep ==
    ASSUME ProxyInvariant, Start
    PROVE  ProxyInvariant'
<1> USE DEF Start, machine, ProxyInvariant, Entering, Configuring, Finishing, Wizard, Undoing
<1>1. /\ UNCHANGED <<files, backups, enabled, live, record, steps, todo, first, kind, suits, undos>>
      /\ pc = "idle" /\ pc' = "choose" /\ record = <<>> /\ steps = <<>> /\ todo = <<>>
    BY DEF Places
<1>2. before' \in Image /\ (dry' \/ before' = AsItIs)
    BY DEF Typed, TypeOK, Image, AsItIs
<1>3. Typed'
    BY <1>1, <1>2, ProxyAssumption DEF Typed, TypeOK, Image, Site, AsItIs, Loadable
<1>4. Places' /\ Recorded'
    BY <1>1, InNone, NotUnreadable DEF Places, Recorded
<1>5. /\ Owed = <<>> /\ Owed' = <<>> /\ Ahead = <<>> /\ Ahead' = <<>>
      /\ \A x : ~In(x, Owed) /\ ~In(x, steps) /\ ~In(x, todo)
    BY <1>1, InNone DEF Owed, Ahead
<1>6. FilesReversible'
    BY <1>1, <1>5 DEF FilesReversible, AsItIs
<1>7. SitesReversible'
    BY <1>1, <1>5 DEF SitesReversible, AsItIs
<1>8. LiveReversible'
    BY <1>1 DEF LiveReversible, Loadable, Passes, AsItIs
<1>9. Sound'
    BY <1>1 DEF Sound, BrokenNeverLive, Passes
<1>10. Originals'
    <2>1. CASE dry'
        BY <1>1, <2>1, Zenon DEF Originals
    <2>2. CASE ~dry'
        <3>1. ~unrecorded => files = before.files
            <4>1. ASSUME ~unrecorded PROVE \A f \in Files : files[f] = before.files[f]
                BY <1>5, <4>1 DEF FilesReversible
            <4>2. files \in [Files -> Contents] /\ before.files \in [Files -> Contents]
                BY DEF Typed, TypeOK, Image
            <4> QED
                BY <4>1, <4>2
        <3>2. again' \/ files = first
            BY <2>2, <3>1 DEF Originals, Typed, TypeOK
        <3> QED
            BY <1>1, <1>2, <2>2, <3>2 DEF Originals, AsItIs
    <2> QED
        BY <2>1, <2>2
<1> QED
    BY <1>3, <1>4, <1>6, <1>7, <1>8, <1>9, <1>10

\* A file is backed up once in a run, while it is what it was.
LEMMA BackUpStep ==
    ASSUME ProxyInvariant, Configure \/ Behind
    PROVE  ProxyInvariant'
<1> USE DEF machine, history, fixed, Goto, ProxyInvariant, Entering, Configuring, Finishing, Wizard, Undoing
<1> PICK f \in {"conf", "env"} :
        /\ f = "conf" => BackUp("conf", "configure", "put_conf")
        /\ f = "env" => BackUp("env", "behind", "put_env")
    BY DEF Configure, Behind
<1>1. /\ UNCHANGED <<files, enabled, live, record, todo, first, before, unrecorded, again, kind, suits,
                     dry, runs, undos>>
      /\ pc = (IF f = "conf" THEN "configure" ELSE "behind")
      /\ pc' = (IF f = "conf" THEN "put_conf" ELSE "put_env")
      /\ f = "conf" => steps = <<>>
      /\ todo = <<>> /\ record = <<>> /\ f \in Files
    BY DEF BackUp, Places, Files
<1>2. CASE dry
    <2>1. UNCHANGED <<backups, steps>>
        BY <1>2 DEF BackUp
    <2>2. Typed'
        BY <1>1, <2>1 DEF Typed, TypeOK, Image, Site, AsItIs, Loadable
    <2>3. Places' /\ Recorded'
        BY <1>1, <1>2, <2>1, InNone DEF Places, Recorded
    <2>4. Owed' = Owed /\ Ahead' = Ahead
        BY <1>1, <2>1 DEF Owed, Ahead
    <2>5. FilesReversible' /\ SitesReversible'
        BY <1>1, <2>1, <2>4 DEF FilesReversible, SitesReversible
    <2>6. LiveReversible' /\ Sound' /\ Originals'
        BY <1>1, <1>2, <2>1 DEF LiveReversible, Loadable, Passes, Sound, BrokenNeverLive, Originals
    <2> QED
        BY <2>2, <2>3, <2>5, <2>6
<1>3. CASE ~dry
    <2> DEFINE new == IF files[f] = "none" THEN Created(f) ELSE Replaced(f)
    <2>1. /\ steps' = steps \o << new >> /\ ~unrecorded
          /\ backups' = IF files[f] = "none" THEN backups ELSE [backups EXCEPT ![f] = files[f]]
        BY <1>1, <1>3 DEF BackUp, Add, Places
    <2>2. new \in Taken /\ new \in Step /\ new.what = f
        BY DEF Taken, Step, Created, Replaced, Ran, Files
    <2>3. steps \in Seq(Step) /\ << new >> \in Seq(Step)
        BY <2>2 DEF Typed, TypeOK
    <2> HIDE DEF new
    <2>4. steps' \in Seq(Step) /\ \A x : In(x, steps') <=> In(x, steps) \/ x = new
        BY <2>1, <2>3, InBoth, InOne
    <2>5. Typed'
        BY <1>1, <2>1, <2>4 DEF Typed, TypeOK, Image, Site, AsItIs, Loadable
    <2>6. Places'
        BY <1>1, <2>1 DEF Places
    <2>7. Recorded'
        BY <1>1, <1>3, <2>2, <2>4, InNone DEF Recorded, new
    <2>8. Owed = steps /\ Owed' = steps' /\ Ahead = steps /\ Ahead' = steps'
        BY <1>1, <1>3 DEF Owed, Ahead
    <2>9. ~In(Created(f), steps) /\ ~In(Replaced(f), steps) /\ \A g \in Files : ~In(Dropping(g), steps)
        BY <1>1, InNone DEF Recorded, Taken, Created, Replaced, Dropping, Step, Files
    <2>10. /\ files[f] = before.files[f]
           /\ \A x : ~In(x, todo)
        BY <1>1, <2>1, <2>8, <2>9, InNone DEF FilesReversible
    <2>11. FilesReversible'
        <3> SUFFICES ASSUME NEW g \in Files
                     PROVE  /\ files[g] = before.files[g]
                                  \/ In(Created(g), steps') \/ In(Replaced(g), steps')
                            /\ In(Created(g), steps') => before.files[g] = "none"
                            /\ In(Replaced(g), steps') => before.files[g] # "none" /\ backups'[g] = before.files[g]
            BY <1>1, <2>1, <2>8, <2>10 DEF FilesReversible
        <3>1. backups \in [Files -> Contents]
            BY DEF Typed, TypeOK
        <3>2. CASE g = f
            BY <2>1, <2>4, <2>9, <2>10, <3>1, <3>2 DEF new, Created, Replaced
        <3>3. CASE g # f
            <4>1. Created(g) # new /\ Replaced(g) # new /\ backups'[g] = backups[g]
                BY <2>1, <3>1, <3>3 DEF new, Created, Replaced
            <4> QED
                BY <2>1, <2>4, <2>8, <2>9, <2>10, <4>1 DEF FilesReversible
        <3> QED
            BY <3>2, <3>3
    <2>12. SitesReversible'
        <3>1. \A s : Ran(s) # new
            BY DEF Ran, new, Created, Replaced
        <3> QED
            BY <1>1, <2>4, <2>8, <3>1 DEF SitesReversible
    <2>13. LiveReversible' /\ Sound'
        BY <1>1, <1>3 DEF LiveReversible, Loadable, Passes, Sound, BrokenNeverLive
    <2>14. Originals'
        <3>1. backups \in [Files -> Contents]
            BY DEF Typed, TypeOK
        <3> QED
            BY <1>1, <2>1, <2>10, <3>1 DEF Originals
    <2> QED
        BY <2>5, <2>6, <2>7, <2>11, <2>12, <2>13, <2>14
<1> QED
    BY <1>2, <1>3

\* What is overwritten is in a backup, or was not there.
LEMMA PutStep ==
    ASSUME ProxyInvariant, PutConf \/ Put("env", "put_env", "save")
    PROVE  ProxyInvariant'
<1> USE DEF Goto, fixed, ProxyInvariant, Entering, Configuring, Finishing, Wizard, Undoing
<1> PICK f \in {"conf", "env"} :
        /\ f = "conf" => Put("conf", "put_conf", "enable")
        /\ f = "env" => Put("env", "put_env", "save")
    BY DEF PutConf
<1> DEFINE new == files'[f]
<1>1. /\ UNCHANGED <<backups, enabled, live, record, todo, first, before, again, kind, suits,
                     dry, runs, undos>>
      /\ pc = (IF f = "conf" THEN "put_conf" ELSE "put_env")
      /\ pc' \in {IF f = "conf" THEN "enable" ELSE "save", "idle"}
      /\ todo = <<>> /\ record = <<>> /\ f \in Files
      /\ pc' = "idle" => ~dry /\ steps' = <<>> /\ unrecorded' = TRUE
      /\ pc' # "idle" => UNCHANGED <<steps, unrecorded>>
      /\ dry => files' = files
      /\ ~dry => files' \in {[files EXCEPT ![f] = "ours"], [files EXCEPT ![f] = "torn"]}
    BY DEF Put, Places, Files
<1>2. files \in [Files -> Contents] /\ files' \in [Files -> Contents]
    BY <1>1 DEF Typed, TypeOK, Contents
<1>3. \A g \in Files : g # f => files'[g] = files[g]
    BY <1>1, <1>2
<1>4. Typed'
    <2>1. steps' \in Seq(Step) /\ unrecorded' \in BOOLEAN
        BY <1>1 DEF Typed, TypeOK
    <2> QED
        BY <1>1, <1>2, <2>1 DEF Typed, TypeOK, Image, Site
<1>5. Places' /\ Recorded'
    BY <1>1, InNone, NotUnreadable DEF Places, Recorded
<1>6. /\ pc' # "idle" => Owed' = Owed /\ Ahead' = Ahead
      /\ ~dry => Owed = steps /\ Ahead = steps
      /\ \A x : ~In(x, todo)
    BY <1>1, InNone DEF Owed, Ahead
<1>7. dry \/ (~unrecorded /\ (In(Created(f), steps) \/ In(Replaced(f), steps)))
    BY <1>1 DEF Recorded, Places
<1>8. FilesReversible'
    <2>1. CASE pc' = "idle"
        BY <1>1, <2>1 DEF FilesReversible
    <2>2. CASE pc' # "idle"
        <3>1. \A g \in Files : In(Replaced(g), steps) /\ ~dry /\ ~unrecorded =>
                 backups[g] = before.files[g] /\ before.files[g] # "none"
            BY <1>6 DEF FilesReversible
        <3>2. CASE dry
            BY <1>1, <1>6, <2>2, <3>2 DEF FilesReversible
        <3>3. CASE ~dry
            <4>1. UNCHANGED <<backups, before, todo, steps, unrecorded>>
                BY <1>1, <2>2
            <4> QED
                BY <1>3, <1>6, <1>7, <2>2, <3>1, <3>3, <4>1 DEF FilesReversible
        <3> QED
            BY <3>2, <3>3
    <2> QED
        BY <2>1, <2>2
<1>9. SitesReversible'
    <2>1. files'["le_ssl"] = files["le_ssl"]
        BY <1>3 DEF Files
    <2> QED
        BY <1>1, <1>6, <2>1 DEF SitesReversible
<1>10. LiveReversible' /\ Sound'
    BY <1>1 DEF LiveReversible, Loadable, Passes, Sound, BrokenNeverLive
<1>11. Originals'
    <2>1. ~dry /\ before.files[f] = "own" => backups[f] = "own"
        BY <1>1, <1>6, <1>7 DEF FilesReversible
    <2> QED
        BY <1>1, <1>3, <2>1 DEF Originals
<1> QED
    BY <1>4, <1>5, <1>8, <1>9, <1>10, <1>11

LEMMA EnableStep ==
    ASSUME ProxyInvariant, Enable
    PROVE  ProxyInvariant'
<1> USE DEF Goto, history, fixed, ProxyInvariant, Entering, Configuring, Finishing, Wizard, Undoing
<1>1. /\ UNCHANGED <<files, backups, live, record, todo, first, before, unrecorded, again, kind, suits,
                     dry, runs, undos>>
      /\ pc = "enable" /\ pc' = "validate" /\ todo = <<>> /\ record = <<>>
      /\ UNCHANGED <<steps, enabled>> \/ steps' = steps \o << Ran("conf") >>
      /\ enabled' = enabled \/ (enabled' = enabled \cup {"conf"} /\ steps' = steps \o << Ran("conf") >>)
      /\ dry => enabled' = enabled
    BY DEF Enable, Add, Places
<1>2. /\ Ran("conf") \in Step /\ Ran("conf") \in Taken /\ Ran("conf").kind = "ran"
      /\ Ran("conf").what = "conf"
    BY DEF Taken, Step, Ran, Replaced, Files
<1>3. /\ steps' \in Seq(Step)
      /\ \A x : In(x, steps') => In(x, steps) \/ x = Ran("conf")
      /\ \A x : In(x, steps) => In(x, steps')
      /\ enabled' = enabled \/ (enabled' = enabled \cup {"conf"} /\ In(Ran("conf"), steps'))
    <2>1. steps \in Seq(Step) /\ << Ran("conf") >> \in Seq(Step)
        BY <1>2 DEF Typed, TypeOK
    <2>2. /\ steps \o << Ran("conf") >> \in Seq(Step)
          /\ \A x : In(x, steps \o << Ran("conf") >>) <=> In(x, steps) \/ x = Ran("conf")
        BY <2>1, InBoth, InOne
    <2> HIDE DEF Ran
    <2> QED
        BY <1>1, <2>1, <2>2
<1>4. Typed'
    BY <1>1, <1>3 DEF Typed, TypeOK, Image, Site, Sites
<1>5. Places' /\ Recorded'
    BY <1>1, <1>2, <1>3, InNone, NotUnreadable DEF Places, Recorded
<1>6. IF dry THEN Owed' = Owed /\ Ahead' = Ahead
             ELSE Owed' = steps' /\ Ahead' = steps' /\ Owed = steps /\ Ahead = steps
    BY <1>1 DEF Owed, Ahead
<1>7. FilesReversible'
    <2>1. \A g \in Files : Created(g) # Ran("conf") /\ Replaced(g) # Ran("conf")
        BY DEF Created, Replaced, Ran
    <2>2. \A g \in Files : In(Dropping(g), steps) => In(Dropping(g), steps')
        BY <1>3
    <2> QED
        BY <1>1, <1>3, <1>6, <2>1, <2>2 DEF FilesReversible
<1>8. SitesReversible'
    <2>1. Ran("le_ssl") # Ran("conf")
        BY DEF Ran
    <2> QED
        BY <1>1, <1>3, <1>6, <2>1 DEF SitesReversible
<1>9. LiveReversible' /\ Sound' /\ Originals'
    BY <1>1 DEF LiveReversible, Loadable, Passes, Sound, BrokenNeverLive, Originals
<1> QED
    BY <1>4, <1>5, <1>7, <1>8, <1>9

LEMMA ValidateStep ==
    ASSUME ProxyInvariant, Validate
    PROVE  ProxyInvariant'
<1> USE DEF Goto, machine, history, fixed, ProxyInvariant, Entering, Configuring, Finishing, Wizard, Undoing
<1>1. /\ UNCHANGED <<files, backups, enabled, live, record, first, before, unrecorded, again, kind, suits,
                     dry, runs, undos>>
      /\ pc = "validate" /\ todo = <<>> /\ record = <<>>
    BY DEF Validate, Places
<1>2. CASE dry \/ Passes(files["conf"])
    <2>1. pc' = "reload" /\ UNCHANGED <<steps, todo>>
        BY <1>2 DEF Validate
    <2>2. Typed' /\ Places' /\ Recorded'
        BY <1>1, <2>1, InNone, NotUnreadable DEF Typed, TypeOK, Image, Site, Places, Recorded
    <2>3. Owed' = Owed /\ Ahead' = Ahead
        BY <1>1, <2>1 DEF Owed, Ahead
    <2>4. FilesReversible' /\ SitesReversible'
        BY <1>1, <2>1, <2>3 DEF FilesReversible, SitesReversible
    <2>5. LiveReversible' /\ Sound' /\ Originals'
        BY <1>1, <1>2, <2>1 DEF LiveReversible, Loadable, Passes, Sound, BrokenNeverLive, Originals
    <2> QED
        BY <2>2, <2>4, <2>5
<1>3. CASE ~(dry \/ Passes(files["conf"]))
    <2>1. pc' = "rollback" /\ todo' = Reverse(steps) /\ steps' = <<>>
        BY <1>3 DEF Validate
    <2>2. todo' \in Seq(Step) /\ \A x : In(x, todo') <=> In(x, steps)
        BY <2>1, InReverse DEF Typed, TypeOK
    <2>3. Typed'
        BY <1>1, <2>1, <2>2 DEF Typed, TypeOK, Image, Site
    <2>4. Places' /\ Recorded'
        BY <1>1, <1>3, <2>1, <2>2, InNone, NotUnreadable DEF Places, Recorded
    <2>5. Owed = steps /\ Ahead = steps /\ Owed' = todo' /\ Ahead' = todo' /\ \A x : ~In(x, steps')
        BY <1>1, <1>3, <2>1, InNone DEF Owed, Ahead
    <2>6. \A f \in Files : ~In(Dropping(f), steps)
        BY DEF Recorded, Taken, Dropping, Step
    <2>7. FilesReversible' /\ SitesReversible'
        BY <1>1, <2>2, <2>5, <2>6 DEF FilesReversible, SitesReversible
    <2>8. LiveReversible' /\ Sound' /\ Originals'
        BY <1>1, <1>3, <2>1 DEF LiveReversible, Loadable, Passes, Sound, BrokenNeverLive, Originals
    <2> QED
        BY <2>3, <2>4, <2>7, <2>8
<1> QED
    BY <1>2, <1>3

\* Reload, ReloadBack: what is loaded has been checked.
LEMMA LoadSteps ==
    ASSUME ProxyInvariant, Reload \/ ReloadBack
    PROVE  ProxyInvariant'
<1> USE DEF Goto, history, fixed, ProxyInvariant, Entering, Configuring, Finishing, Wizard, Undoing
<1>1. /\ UNCHANGED <<files, backups, enabled, record, steps, todo, first, before, unrecorded, again, kind,
                     suits, dry, runs, undos>>
      /\ (pc = "reload" /\ pc' = "certificate") \/ (pc = "reload_back" /\ pc' = "forget")
      /\ live' = (IF dry THEN live ELSE Loadable) /\ todo = <<>>
    BY DEF Reload, ReloadBack, LoadedAt, Places
<1>2. Loadable \in Site
    BY DEF Loadable, Site, Typed, TypeOK, Files
<1>3. Typed'
    BY <1>1, <1>2 DEF Typed, TypeOK
<1>4. Places' /\ Recorded'
    BY <1>1, InNone DEF Places, Recorded
<1>5. Owed' = Owed /\ Ahead' = Ahead
    BY <1>1 DEF Owed, Ahead
<1>6. FilesReversible' /\ SitesReversible' /\ Originals'
    BY <1>1, <1>5 DEF FilesReversible, SitesReversible, Originals
<1>7. LiveReversible' /\ Sound'
    BY <1>1 DEF LiveReversible, Loadable, Passes, Sound, BrokenNeverLive
<1> QED
    BY <1>3, <1>4, <1>6, <1>7

LEMMA CertbotNginxStep ==
    ASSUME ProxyInvariant, CertbotNginx
    PROVE  ProxyInvariant'
<1> USE DEF Goto, history, fixed, ProxyInvariant, Entering, Configuring, Finishing, Wizard, Undoing
<1>1. /\ UNCHANGED <<backups, enabled, record, steps, todo, first, before, unrecorded, again, kind,
                     suits, dry, runs, undos>>
      /\ pc = "certificate" /\ pc' = "behind" /\ ~dry /\ todo = <<>> /\ record = <<>> /\ ~unrecorded
      /\ files' = [files EXCEPT !["conf"] = "tls"] /\ live' = [live EXCEPT !.conf = "tls"]
    BY DEF CertbotNginx, Places
<1>2. /\ files' \in [Files -> Contents] /\ files'["conf"] = "tls"
      /\ \A f \in Files : f # "conf" => files'[f] = files[f]
    BY <1>1 DEF Typed, TypeOK, Contents, Files
<1>3. live' \in Site /\ live'.conf = "tls"
    BY <1>1 DEF Typed, Site, Contents
<1>4. Typed'
    BY <1>1, <1>2, <1>3 DEF Typed, TypeOK
<1>5. Places' /\ Recorded'
    BY <1>1, InNone, NotUnreadable DEF Places, Recorded
<1>6. Owed = steps /\ Owed' = steps /\ Ahead = steps /\ Ahead' = steps /\ \A x : ~In(x, todo)
    BY <1>1, InNone DEF Owed, Ahead
<1>7. In(Created("conf"), steps) \/ In(Replaced("conf"), steps)
    BY <1>1 DEF Recorded
<1>8. FilesReversible'
    BY <1>1, <1>2, <1>6, <1>7 DEF FilesReversible
<1>9. SitesReversible'
    BY <1>1, <1>2, <1>6 DEF SitesReversible, Files
<1>10. LiveReversible' /\ Sound'
    BY <1>1, <1>2, <1>3 DEF LiveReversible, Passes, Sound, BrokenNeverLive
<1>11. Originals'
    <2>1. before.files["conf"] = "own" => backups["conf"] = "own"
        BY <1>1, <1>6, <1>7 DEF FilesReversible, Files
    <2> QED
        BY <1>1, <1>2, <2>1 DEF Originals
<1> QED
    BY <1>4, <1>5, <1>8, <1>9, <1>10, <1>11

LEMMA CertbotApacheStep ==
    ASSUME ProxyInvariant, CertbotApache
    PROVE  ProxyInvariant'
<1> USE DEF Goto, history, fixed, ProxyInvariant, Entering, Configuring, Finishing, Wizard, Undoing
<1> DEFINE more == << Created("le_ssl"), Ran("le_ssl") >>
<1>1. /\ UNCHANGED <<backups, record, todo, first, before, unrecorded, again, kind, suits, dry, runs, undos>>
      /\ pc = "certificate" /\ pc' = "behind" /\ ~dry /\ todo = <<>> /\ record = <<>> /\ ~unrecorded
      /\ files' = [files EXCEPT !["le_ssl"] = "tls"] /\ enabled' = enabled \cup {"le_ssl"}
      /\ live' = [Loadable EXCEPT !.le_ssl = "tls", !.enabled = enabled \cup {"le_ssl"}]
      /\ steps' = IF files["le_ssl"] = "none" THEN steps \o more ELSE steps
    BY DEF CertbotApache, Places, Add
<1>2. /\ files' \in [Files -> Contents] /\ files'["le_ssl"] = "tls" /\ "le_ssl" \in Files
      /\ \A f \in Files : f # "le_ssl" => files'[f] = files[f]
    BY <1>1 DEF Typed, TypeOK, Contents, Files
<1>3. live' \in Site /\ live'.conf = files["conf"] /\ enabled' \subseteq Sites
    <2>1. enabled' \subseteq Sites
        BY <1>1 DEF Typed, TypeOK, Sites
    <2> QED
        BY <1>1, <2>1 DEF Typed, TypeOK, Site, Contents, Loadable, Files
<1>4. /\ {Created("le_ssl"), Ran("le_ssl")} \subseteq Taken \cap Step
      /\ Created("le_ssl").what = "le_ssl" /\ Ran("le_ssl").what = "le_ssl"
    BY DEF Taken, Step, Created, Ran, Replaced, Files
<1>5. /\ steps \in Seq(Step) /\ steps' \in Seq(Step)
      /\ \A x : In(x, steps') <=>
            In(x, steps) \/ (files["le_ssl"] = "none" /\ (x = Created("le_ssl") \/ x = Ran("le_ssl")))
    <2>1. steps \in Seq(Step) /\ more \in Seq(Step)
        BY <1>4 DEF Typed, TypeOK
    <2>2. /\ steps \o more \in Seq(Step)
          /\ \A x : In(x, steps \o more) <=> In(x, steps) \/ In(x, more)
        BY <2>1, InBoth
    <2>3. \A x : In(x, more) <=> x = Created("le_ssl") \/ x = Ran("le_ssl")
        BY InTwo
    <2> HIDE DEF more
    <2> QED
        BY <1>1, <2>1, <2>2, <2>3
<1>6. Typed'
    BY <1>1, <1>2, <1>3, <1>5 DEF Typed, TypeOK
<1>7. Places' /\ Recorded'
    BY <1>1, <1>4, <1>5, InNone, NotUnreadable DEF Places, Recorded
<1>8. Owed = steps /\ Owed' = steps' /\ Ahead = steps /\ Ahead' = steps' /\ \A x : ~In(x, todo)
    BY <1>1, InNone DEF Owed, Ahead
<1>9. files["le_ssl"] = before.files["le_ssl"]
    <2>1. \A x : x \in Step /\ x.what = "le_ssl" => ~In(x, steps)
        BY <1>1 DEF Recorded
    <2>2. ~In(Created("le_ssl"), steps) /\ ~In(Replaced("le_ssl"), steps) /\ ~In(Dropping("le_ssl"), steps)
        BY <2>1 DEF Created, Replaced, Dropping, Step, Files
    <2> QED
        BY <1>1, <1>2, <1>8, <2>2 DEF FilesReversible
<1>10. FilesReversible'
    <2>1. \A f \in Files : /\ Created(f) # Ran("le_ssl") /\ Replaced(f) # Ran("le_ssl")
                           /\ Replaced(f) # Created("le_ssl")
                           /\ Created(f) = Created("le_ssl") => f = "le_ssl"
        BY DEF Created, Replaced, Ran
    <2>2. files["le_ssl"] # "none" => files'["le_ssl"] = before.files["le_ssl"]
        BY <1>2, <1>9 DEF SitesReversible
    <2> SUFFICES ASSUME NEW f \in Files
                 PROVE  /\ files'[f] = before.files[f]
                              \/ In(Created(f), steps') \/ In(Replaced(f), steps') \/ In(Dropping(f), steps')
                        /\ In(Created(f), steps') => before.files[f] = "none"
                        /\ In(Replaced(f), steps') =>
                              before.files[f] # "none" /\ backups[f] = before.files[f]
        BY <1>1, <1>8 DEF FilesReversible
    <2>3. /\ files[f] = before.files[f]
                \/ In(Created(f), steps) \/ In(Replaced(f), steps) \/ In(Dropping(f), steps)
          /\ In(Created(f), steps) => before.files[f] = "none"
          /\ In(Replaced(f), steps) => before.files[f] # "none" /\ backups[f] = before.files[f]
        BY <1>1, <1>8 DEF FilesReversible
    <2>4. CASE f = "le_ssl"
        BY <1>2, <1>5, <1>9, <2>1, <2>2, <2>3, <2>4
    <2>5. CASE f # "le_ssl"
        BY <1>2, <1>5, <2>1, <2>3, <2>5
    <2> QED
        BY <2>4, <2>5
<1>11. SitesReversible'
    BY <1>1, <1>2, <1>5, <1>8, <1>9, InNone DEF SitesReversible
<1>12. LiveReversible' /\ Sound'
    BY <1>1, <1>2, <1>3 DEF LiveReversible, Passes, Sound, BrokenNeverLive, Files
<1>13. Originals'
    BY <1>1, <1>2, <1>9 DEF Originals, SitesReversible
<1> QED
    BY <1>6, <1>7, <1>10, <1>11, <1>12, <1>13

LEMMA SaveStep ==
    ASSUME ProxyInvariant, Save
    PROVE  ProxyInvariant'
<1> USE DEF Goto, fixed, ProxyInvariant, Entering, Configuring, Finishing, Wizard, Undoing
<1>1. /\ UNCHANGED <<files, backups, enabled, live, todo, first, before, again, kind, suits, dry, runs, undos>>
      /\ pc = "save" /\ pc' = "idle" /\ todo = <<>> /\ record = <<>> /\ steps' = <<>>
    BY DEF Save, Places
<1>2. \A x : ~In(x, todo) /\ ~In(x, steps')
    BY <1>1, InNone
<1>4. CASE dry
    <2>1. UNCHANGED <<record, unrecorded>>
        BY <1>4 DEF Save
    <2>2. Owed = <<>> /\ Ahead = <<>> /\ Owed' = <<>> /\ Ahead' = <<>> /\ \A x : ~In(x, Owed)
        BY <1>1, <1>4, <2>1, InNone DEF Owed, Ahead
    <2>3. Typed' /\ Places' /\ Recorded'
        BY <1>1, <1>2, <2>1, NotUnreadable DEF Typed, TypeOK, Image, Site, Places, Recorded
    <2>4. FilesReversible' /\ SitesReversible'
        BY <1>1, <1>2, <2>1, <2>2 DEF FilesReversible, SitesReversible
    <2>5. LiveReversible' /\ Sound' /\ Originals'
        BY <1>1, <1>4, <2>1 DEF LiveReversible, Loadable, Passes, Sound, BrokenNeverLive, Originals
    <2> QED
        BY <2>3, <2>4, <2>5
<1>5. CASE ~dry
    <2>1. Owed = steps /\ Ahead = steps /\ Owed' = record' /\ Ahead' = record'
        BY <1>1, <1>5 DEF Owed, Ahead
    <2>2. ~unrecorded /\ steps # <<>>
        BY <1>1, <1>5, InNone DEF Places, Recorded
    <2>3. \/ record' = steps /\ unrecorded' = FALSE
          \/ record' = Unreadable /\ unrecorded' = TRUE
        BY <1>5, <2>2 DEF Save
    <2>4. \A x : ~In(x, record)
        BY <1>1, InNone
    <2>5. Typed' /\ Places'
        BY <1>1, <2>3 DEF Typed, TypeOK, Image, Site, Places
    <2>6. steps # Unreadable
        <3>1. Unreadable \notin Seq(Step)
            BY DEF Unreadable, Step
        <3> QED
            BY <3>1 DEF Typed, TypeOK
    <2>7. Recorded'
        BY <1>1, <1>2, <2>2, <2>3, <2>6, NotUnreadable DEF Recorded
    <2>8. FilesReversible'
        BY <1>1, <1>2, <2>1, <2>2, <2>3 DEF FilesReversible
    <2>9. SitesReversible'
        BY <1>1, <2>1, <2>2, <2>3, <2>4 DEF SitesReversible
    <2>10. LiveReversible' /\ Sound' /\ Originals'
        BY <1>1, <1>5, <2>2, <2>3, NotUnreadable DEF LiveReversible, Loadable, Passes, Sound, BrokenNeverLive, Originals
    <2> QED
        BY <2>5, <2>7, <2>8, <2>9, <2>10
<1> QED
    BY <1>4, <1>5
-----------------------------------------------------------------------------
(* The way back.                                                           *)

LEMMA StartUndoStep ==
    ASSUME ProxyInvariant, StartUndo
    PROVE  ProxyInvariant'
<1> USE DEF machine, history, ProxyInvariant, Entering, Configuring, Finishing, Wizard, Undoing
<1>1. /\ UNCHANGED <<files, backups, enabled, live, record, steps, first, before, unrecorded, again, kind,
                     suits, runs>>
      /\ pc = "idle" /\ pc' = "undo" /\ record \notin {<<>>, Unreadable} /\ steps = <<>> /\ todo = <<>>
      /\ todo' = Reverse(record) /\ dry' \in BOOLEAN
    BY DEF StartUndo, Places
<1>2. todo' \in Seq(Step) /\ \A x : In(x, todo') <=> In(x, record)
    BY <1>1, InReverse DEF Typed, TypeOK
<1>3. Typed'
    BY <1>1, <1>2, ProxyAssumption DEF StartUndo, Typed, TypeOK, Image, Site
<1>4. Places' /\ Recorded'
    BY <1>1, <1>2, InNone DEF Places, Recorded
<1>5. /\ Owed = record /\ Owed' = record /\ Ahead = record
      /\ \A x : In(x, Ahead') <=> In(x, record)
      /\ \A x : ~In(x, steps) /\ ~In(x, todo)
    BY <1>1, <1>2, InNone DEF Owed, Ahead
<1>6. \A f \in Files : ~In(Dropping(f), record)
    BY <1>1 DEF Recorded, Taken, Dropping, Step
<1>7. FilesReversible' /\ SitesReversible'
    BY <1>1, <1>2, <1>5, <1>6 DEF FilesReversible, SitesReversible
<1>8. LiveReversible' /\ Sound' /\ Originals'
    BY <1>1 DEF LiveReversible, Loadable, Passes, Sound, BrokenNeverLive, Originals
<1> QED
    BY <1>3, <1>4, <1>7, <1>8

\* With --dry-run the steps are gone through, and nothing else.
LEMMA DryReverseStep ==
    ASSUME ProxyInvariant, ReverseStep, dry
    PROVE  ProxyInvariant'
<1> USE DEF history, fixed, ProxyInvariant, Entering, Configuring, Finishing, Wizard, Undoing
<1>1. pc = "undo" /\ pc' = pc /\ todo # <<>>
    BY DEF ReverseStep, Places
<1>2. /\ Head(todo) \in Step /\ Tail(todo) \in Seq(Step)
      /\ \A x : In(x, todo) <=> x = Head(todo) \/ In(x, Tail(todo))
    BY <1>1, InTail DEF Typed, TypeOK
<1>3. Head(todo).kind # "drop"
    BY <1>1, <1>2 DEF Places, Recorded, Taken
<1>4. /\ todo' = Tail(todo)
      /\ UNCHANGED <<files, backups, enabled, live, record, steps, first, before, unrecorded, again, kind,
                     suits, dry, runs, undos>>
    BY <1>3 DEF ReverseStep, RemoveFile, Restore, DropBackup, Disable
<1>5. Typed'
    BY <1>1, <1>2, <1>4 DEF Typed, TypeOK, Image, Site
<1>6. Places' /\ Recorded'
    BY <1>1, <1>2, <1>4 DEF Places, Recorded
<1>7. Owed' = Owed /\ Ahead' = Ahead
    BY <1>1, <1>4 DEF Owed, Ahead, Places
<1>8. FilesReversible' /\ SitesReversible'
    BY <1>2, <1>4, <1>7 DEF FilesReversible, SitesReversible
<1>9. LiveReversible' /\ Sound' /\ Originals'
    BY <1>1, <1>4 DEF LiveReversible, Loadable, Passes, Sound, BrokenNeverLive, Originals
<1> QED
    BY <1>5, <1>6, <1>8, <1>9

\* What a reversed step leaves of the journal.
LEMMA LessAhead ==
    ASSUME ProxyInvariant, ReverseStep, ~dry,
           NEW f \in Files,
           todo' = Tail(todo) \/ todo' = << Dropping(f) >> \o Tail(todo)
    PROVE  /\ pc \in {"undo", "rollback"} /\ ~unrecorded
           /\ UNCHANGED <<live, record, pc, steps, first, before, unrecorded, again, kind, suits, dry, runs,
                          undos>>
           /\ todo' \in Seq(Step) /\ Ahead = todo /\ Ahead' = todo'
           /\ Head(todo) \in Step /\ In(Head(todo), todo)
           /\ Head(todo).kind # "drop" =>
                 In(Head(todo), Owed) /\ Head(todo) \in Taken /\ (pc = "undo" => In(Head(todo), record))
           /\ pc = "rollback" => Head(todo).what = "conf" \/ Head(todo).kind = "drop"
           /\ Head(todo).kind = "drop" => Head(todo).what # "le_ssl"
           /\ \A x : In(x, todo) => x = Head(todo) \/ In(x, todo')
           /\ \A x : In(x, todo') => In(x, todo) \/ (todo' # Tail(todo) /\ x = Dropping(f))
           /\ \A x : x # Dropping(f) /\ In(x, Owed') => In(x, Owed)
           /\ \A x : ~In(x, steps)
<1> USE DEF history, fixed, ProxyInvariant, Entering, Configuring, Finishing, Wizard, Undoing
<1>1. /\ pc \in {"undo", "rollback"} /\ pc' = pc /\ todo # <<>> /\ ~unrecorded /\ steps = <<>>
      /\ UNCHANGED <<live, record, steps, first, before, unrecorded, again, kind, suits, dry, runs, undos>>
      /\ pc = "rollback" => record = <<>>
      /\ pc = "undo" => record \notin {<<>>, Unreadable}
    BY DEF ReverseStep, Places, Recorded
<1>2. /\ Head(todo) \in Step /\ Tail(todo) \in Seq(Step)
      /\ \A x : In(x, todo) <=> x = Head(todo) \/ In(x, Tail(todo))
    BY <1>1, InTail DEF Typed, TypeOK
<1>3. /\ todo' \in Seq(Step)
      /\ \A x : In(x, Tail(todo)) => In(x, todo')
      /\ \A x : In(x, todo') => In(x, Tail(todo)) \/ (todo' # Tail(todo) /\ x = Dropping(f))
    <2>1. CASE todo' = Tail(todo)
        BY <1>2, <2>1
    <2>2. CASE todo' # Tail(todo)
        <3>1. << Dropping(f) >> \in Seq(Step)
            BY DEF Dropping, Step
        <3>2. /\ << Dropping(f) >> \o Tail(todo) \in Seq(Step)
              /\ \A x : In(x, << Dropping(f) >> \o Tail(todo)) <=> x = Dropping(f) \/ In(x, Tail(todo))
            BY <1>2, <3>1, InBoth, InOne
        <3> QED
            BY <2>2, <3>2
    <2> QED
        BY <2>1, <2>2
<1>4. /\ Ahead = todo /\ Ahead' = todo'
      /\ Owed = (IF pc = "undo" THEN record ELSE todo) /\ Owed' = (IF pc = "undo" THEN record ELSE todo')
      /\ \A x : ~In(x, steps)
    BY <1>1, InNone DEF Owed, Ahead
<1>5. /\ Head(todo).kind # "drop" =>
            In(Head(todo), Owed) /\ Head(todo) \in Taken /\ (pc = "undo" => In(Head(todo), record))
      /\ pc = "rollback" => Head(todo).what = "conf" \/ Head(todo).kind = "drop"
      /\ Head(todo).kind = "drop" => Head(todo).what # "le_ssl"
    BY <1>1, <1>2, <1>4 DEF Recorded, Taken
<1>6. \A x : x # Dropping(f) /\ In(x, Owed') => In(x, Owed)
    BY <1>2, <1>3, <1>4
<1> QED
    BY <1>1, <1>2, <1>3, <1>4, <1>5, <1>6

\* A step that is reversed leaves its file as it was.
LEMMA FileReversed ==
    ASSUME ProxyInvariant, ReverseStep, ~dry,
           NEW f \in Files,
           Head(todo) \in {Created(f), Replaced(f), Dropping(f)},
           files' = [files EXCEPT ![f] = before.files[f]],
           backups' \in {backups, [backups EXCEPT ![f] = "none"]},
           UNCHANGED enabled,
           \/ todo' = Tail(todo)
           \/ before.files[f] # "none" /\ todo' = << Dropping(f) >> \o Tail(todo),
           f = "le_ssl" => before.files[f] = "none"
    PROVE  ProxyInvariant'
<1> USE DEF ProxyInvariant, Entering, Configuring, Finishing, Wizard, Undoing
<1>1. /\ pc \in {"undo", "rollback"} /\ ~unrecorded
      /\ UNCHANGED <<live, record, pc, steps, first, before, unrecorded, again, kind, suits, dry, runs, undos>>
      /\ todo' \in Seq(Step) /\ Ahead = todo /\ Ahead' = todo'
      /\ \A x : In(x, todo) => x = Head(todo) \/ In(x, todo')
      /\ \A x : In(x, todo') => In(x, todo) \/ (todo' # Tail(todo) /\ x = Dropping(f))
      /\ \A x : x # Dropping(f) /\ In(x, Owed') => In(x, Owed)
      /\ \A x : ~In(x, steps)
    BY LessAhead
<1>2. /\ files' \in [Files -> Contents] /\ files'[f] = before.files[f]
      /\ \A g \in Files : g # f => files'[g] = files[g]
    BY DEF Typed, TypeOK, Image
<1>3. /\ backups' \in [Files -> Contents] /\ backups'[f] \in {backups[f], "none"}
      /\ \A g \in Files : g # f => backups'[g] = backups[g]
    BY DEF Typed, TypeOK, Contents
<1>4. Typed'
    BY <1>1, <1>2, <1>3 DEF Typed, TypeOK, Image, Site
<1>5. Places'
    BY <1>1 DEF Places
<1>6. \A g \in Files : /\ Created(g) # Dropping(f) /\ Replaced(g) # Dropping(f) /\ Ran(g) # Dropping(f)
                       /\ Head(todo) \in {Created(g), Replaced(g), Dropping(g)} => g = f
                       /\ Dropping(g) = Dropping(f) => g = f
                       /\ Head(todo) # Ran(g)
    BY DEF Created, Replaced, Dropping, Ran
<1>7. Recorded'
    <2>1. Dropping(f).kind = "drop" /\ Dropping(f).what = f
        BY DEF Dropping
    <2>2. todo' # Tail(todo) => f # "le_ssl"
        OBVIOUS
    <2> QED
        BY <1>1, <2>1, <2>2 DEF Recorded
<1>8. FilesReversible'
    <2> SUFFICES ASSUME NEW g \in Files
                 PROVE  /\ files'[g] = before.files[g]
                              \/ In(Created(g), todo') \/ In(Replaced(g), todo') \/ In(Dropping(g), todo')
                        /\ In(Created(g), Owed') => before.files[g] = "none"
                        /\ In(Replaced(g), Owed') =>
                              /\ before.files[g] # "none"
                              /\ \/ backups'[g] = before.files[g]
                                 \/ backups'[g] = "none" /\ files'[g] = before.files[g]
                        /\ In(Dropping(g), todo') => files'[g] = before.files[g] /\ before.files[g] # "none"
        BY <1>1 DEF FilesReversible
    <2>1. /\ files[g] = before.files[g]
                \/ In(Created(g), todo) \/ In(Replaced(g), todo) \/ In(Dropping(g), todo)
          /\ In(Created(g), Owed) => before.files[g] = "none"
          /\ In(Replaced(g), Owed) =>
                /\ before.files[g] # "none"
                /\ backups[g] = before.files[g] \/ (backups[g] = "none" /\ files[g] = before.files[g])
          /\ In(Dropping(g), todo) => files[g] = before.files[g] /\ before.files[g] # "none"
        BY <1>1 DEF FilesReversible
    <2>2. CASE g = f
        BY <1>1, <1>2, <1>3, <1>6, <2>1, <2>2
    <2>3. CASE g # f
        BY <1>1, <1>2, <1>3, <1>6, <2>1, <2>3
    <2> QED
        BY <2>2, <2>3
<1>9. SitesReversible'
    <2>1. Sites \subseteq Files /\ "le_ssl" \in Files /\ enabled \subseteq Sites
        BY DEF Sites, Files, Typed, TypeOK
    <2> QED
        BY <1>1, <1>2, <1>6, <2>1 DEF SitesReversible
<1>10. LiveReversible' /\ Sound'
    BY <1>1 DEF LiveReversible, Loadable, Passes, Sound, BrokenNeverLive
<1>11. Originals'
    BY <1>1, <1>2, <1>3 DEF Originals
<1> QED
    BY <1>4, <1>5, <1>7, <1>8, <1>9, <1>10, <1>11

LEMMA SiteReversed ==
    ASSUME ProxyInvariant, ReverseStep, ~dry, NEW site \in Sites,
           Head(todo) = Ran(site), Disable(site)
    PROVE  ProxyInvariant'
<1> USE DEF ProxyInvariant, Entering, Configuring, Finishing, Wizard, Undoing
<1>1. /\ UNCHANGED <<files, backups>> /\ enabled' = enabled \ {site} /\ todo' = Tail(todo) /\ site \in Files
    BY DEF Disable, Sites, Files
<1>2. /\ pc \in {"undo", "rollback"} /\ ~unrecorded
      /\ UNCHANGED <<live, record, pc, steps, first, before, unrecorded, again, kind, suits, dry, runs, undos>>
      /\ todo' \in Seq(Step) /\ Ahead = todo /\ Ahead' = todo'
      /\ \A x : In(x, todo) => x = Ran(site) \/ In(x, todo')
      /\ \A x : In(x, todo') => In(x, todo)
      /\ \A x : x # Dropping(site) /\ In(x, Owed') => In(x, Owed)
      /\ \A x : ~In(x, steps)
    BY <1>1, LessAhead
<1>3. site = "le_ssl" => In(Ran("le_ssl"), record)
    <2>1. Ran(site).kind = "ran" /\ Ran(site).what = site
        BY DEF Ran
    <2>2. /\ Head(todo).kind # "drop" => (pc = "undo" => In(Head(todo), record))
          /\ pc = "rollback" => Head(todo).what = "conf" \/ Head(todo).kind = "drop"
        BY <1>1, LessAhead
    <2> QED
        BY <1>2, <2>1, <2>2
<1>4. Typed'
    BY <1>1, <1>2 DEF Typed, TypeOK, Image, Site
<1>5. Places' /\ Recorded'
    BY <1>1, <1>2 DEF Places, Recorded
<1>6. \A g \in Files : /\ Created(g) # Ran(site) /\ Replaced(g) # Ran(site) /\ Dropping(g) # Ran(site)
                       /\ Created(g) # Dropping(site) /\ Replaced(g) # Dropping(site) /\ Ran(g) # Dropping(site)
                       /\ Ran(g) = Ran(site) => g = site
    BY DEF Created, Replaced, Dropping, Ran
<1>7. FilesReversible'
    BY <1>1, <1>2, <1>6 DEF FilesReversible
<1>8. SitesReversible'
    <2>1. Sites \subseteq Files /\ "le_ssl" \in Files /\ enabled \subseteq Sites
        BY DEF Sites, Files, Typed, TypeOK
    <2> QED
        BY <1>1, <1>2, <1>3, <1>6, <2>1 DEF SitesReversible
<1>9. LiveReversible' /\ Sound' /\ Originals'
    BY <1>1, <1>2 DEF LiveReversible, Loadable, Passes, Sound, BrokenNeverLive, Originals
<1> QED
    BY <1>4, <1>5, <1>7, <1>8, <1>9

LEMMA ReverseSteps ==
    ASSUME ProxyInvariant, ReverseStep, ~dry
    PROVE  ProxyInvariant'
<1> DEFINE s == Head(todo)
<1>1. /\ todo # <<>> /\ s \in Step /\ In(s, todo) /\ ~unrecorded
      /\ s.kind # "drop" => In(s, Owed) /\ s \in Taken
      /\ s.kind = "drop" => s.what # "le_ssl"
    <2>1. todo # <<>> /\ todo \in Seq(Step)
        BY DEF ReverseStep, ProxyInvariant, Typed, TypeOK
    <2>2. s \in Step /\ In(s, todo)
        BY <2>1, InTail
    <2>3. /\ pc \in {"undo", "rollback"}
          /\ pc = "rollback" => record = <<>> /\ ~unrecorded
          /\ pc = "undo" => record \notin {<<>>, Unreadable} /\ ~unrecorded
        BY DEF ReverseStep, ProxyInvariant, Places, Recorded, Undoing
    <2>4. Owed = IF pc = "undo" THEN record ELSE todo
        BY <2>3 DEF Owed
    <2> HIDE DEF s
    <2> QED
        BY <2>1, <2>2, <2>3, <2>4 DEF ProxyInvariant, Recorded, Taken
<1>2. /\ files \in [Files -> Contents] /\ backups \in [Files -> Contents] /\ s.what \in Files
    BY <1>1 DEF ProxyInvariant, Typed, TypeOK, Step
<1>3. CASE s.kind = "created"
    <2>1. s = Created(s.what)
        BY <1>1, <1>3 DEF Step, Created
    <2>2. RemoveFile(s.what) /\ before.files[s.what] = "none"
        BY <1>1, <1>2, <1>3, <2>1 DEF ReverseStep, ProxyInvariant, FilesReversible
    <2> QED
        BY <1>2, <2>1, <2>2, FileReversed DEF RemoveFile
<1>4. CASE s.kind = "replaced"
    <2>1. s = Replaced(s.what) /\ s.what # "le_ssl"
        BY <1>1, <1>4 DEF Step, Replaced, Taken
    <2>2. Restore(s.what) /\ before.files[s.what] # "none" /\ backups[s.what] = before.files[s.what]
        BY <1>1, <1>2, <1>4, <2>1 DEF ReverseStep, Restore, ProxyInvariant, FilesReversible
    <2> QED
        BY <1>2, <2>1, <2>2, FileReversed DEF Restore
<1>5. CASE s.kind = "drop"
    <2>1. s = Dropping(s.what) /\ s.what # "le_ssl"
        BY <1>1, <1>5 DEF Step, Dropping
    <2>2. DropBackup(s.what) /\ files[s.what] = before.files[s.what]
        BY <1>1, <1>2, <1>5, <2>1 DEF ReverseStep, ProxyInvariant, FilesReversible
    <2>3. files' = [files EXCEPT ![s.what] = before.files[s.what]]
        BY <1>2, <2>2 DEF DropBackup
    <2> QED
        BY <1>2, <2>1, <2>2, <2>3, FileReversed DEF DropBackup
<1>6. CASE s.kind = "ran"
    <2>1. s = Ran(s.what) /\ s.what \in Sites
        BY <1>1, <1>6 DEF Step, Ran, Taken, Sites, Files
    <2>2. Disable(s.what)
        BY <1>6 DEF ReverseStep
    <2> QED
        BY <2>1, <2>2, SiteReversed
<1> QED
    BY <1>1, <1>3, <1>4, <1>5, <1>6 DEF Step

\* The journal goes when all of it is reversed.
LEMMA ForgetStep ==
    ASSUME ProxyInvariant, Forget
    PROVE  ProxyInvariant'
<1> USE DEF Goto, history, fixed, ProxyInvariant, Entering, Configuring, Finishing, Wizard, Undoing
<1>1. /\ UNCHANGED <<files, backups, enabled, live, steps, todo, first, before, unrecorded, again, kind, suits,
                     dry, runs, undos>>
      /\ pc = "forget" /\ pc' = "idle" /\ todo = <<>> /\ steps = <<>> /\ record \notin {<<>>, Unreadable}
      /\ record' = (IF dry THEN record ELSE <<>>) /\ ~unrecorded
    BY DEF Forget, Places, Recorded
<1>2. Typed' /\ Places' /\ Recorded'
    BY <1>1, InNone, NotUnreadable DEF Typed, TypeOK, Image, Site, Places, Recorded
<1>3. /\ Owed = record /\ Owed' = record' /\ Ahead' = record' /\ Ahead = (IF dry THEN record ELSE <<>>)
      /\ \A x : ~In(x, todo) /\ ~In(x, steps) /\ (~dry => ~In(x, record'))
    BY <1>1, InNone DEF Owed, Ahead
<1>4. FilesReversible'
    BY <1>1, <1>3, InNone DEF FilesReversible
<1>5. SitesReversible'
    <2>1. CASE dry
        BY <1>1, <1>3, <2>1 DEF SitesReversible
    <2>2. CASE ~dry
        <3>1. files["le_ssl"] = before.files["le_ssl"]
            BY <1>1, <1>3, <2>2, InNone DEF FilesReversible, Files
        <3> QED
            BY <1>1, <1>3, <2>2, <3>1, InNone DEF SitesReversible
    <2> QED
        BY <2>1, <2>2
<1>6. LiveReversible' /\ Sound' /\ Originals'
    BY <1>1 DEF LiveReversible, Loadable, Passes, Sound, BrokenNeverLive, Originals
<1> QED
    BY <1>2, <1>4, <1>5, <1>6

\* A process that ends leaves what it has done, and its journal if it was on file.
LEMMA StopSteps ==
    ASSUME ProxyInvariant, Stop \/ StopTorn
    PROVE  ProxyInvariant'
<1> USE DEF machine, fixed, ProxyInvariant, Entering, Configuring, Finishing, Wizard, Undoing
<1>1. /\ UNCHANGED <<backups, enabled, live, record, first, before, again, kind, suits, dry, runs, undos>>
      /\ pc # "idle" /\ pc' = "idle" /\ steps' = <<>> /\ todo' = <<>>
      /\ unrecorded' \in BOOLEAN /\ (unrecorded => unrecorded')
      /\ \A x : ~In(x, steps') /\ ~In(x, todo')
    BY InNone DEF Stop, StopTorn, Typed, TypeOK
<1>2. record \notin {<<>>, Unreadable} => unrecorded' = FALSE
    BY DEF Stop, StopTorn, Places, Recorded
<1>3. Places' /\ Recorded'
    BY <1>1, <1>2, InNone DEF Places, Recorded
<1>4. ~unrecorded' => Owed' = Owed /\ Ahead' = Owed
    BY <1>1 DEF Owed, Ahead, Stop, StopTorn, Places
<1>5. ~unrecorded' => \A x : In(x, Ahead) /\ x \in Step /\ x.kind # "drop" => In(x, Owed)
    <2>1. CASE pc \in Undoing /\ ~dry
        <3>1. Ahead = todo /\ Owed = record
            BY <2>1 DEF Owed, Ahead, Places
        <3> QED
            BY <2>1, <3>1, InNone DEF Places, Recorded
    <2>2. CASE ~(pc \in Undoing /\ ~dry)
        BY <2>2 DEF Ahead
    <2> QED
        BY <2>1, <2>2
<1>6. ~unrecorded' => \A f \in Files :
        /\ files[f] = before.files[f] \/ In(Created(f), Owed) \/ In(Replaced(f), Owed)
        /\ In(Created(f), Owed) => before.files[f] = "none"
        /\ In(Replaced(f), Owed) =>
              /\ before.files[f] # "none"
              /\ backups[f] = before.files[f] \/ (backups[f] = "none" /\ files[f] = before.files[f])
    <2> SUFFICES ASSUME ~unrecorded', NEW f \in Files
                 PROVE  files[f] = before.files[f] \/ In(Created(f), Owed) \/ In(Replaced(f), Owed)
        BY <1>1 DEF FilesReversible
    <2>1. /\ Created(f) \in Step /\ Created(f).kind # "drop"
          /\ Replaced(f) \in Step /\ Replaced(f).kind # "drop"
          /\ Dropping(f) \in Step /\ Dropping(f).kind = "drop" /\ Dropping(f) \notin Taken
        BY DEF Created, Replaced, Dropping, Step, Taken
    <2>2. In(Dropping(f), Ahead) => In(Dropping(f), todo)
        BY <1>1, <2>1, InNone, NotUnreadable DEF Ahead, Owed, Recorded
    <2> QED
        BY <1>1, <1>5, <2>1, <2>2 DEF FilesReversible
<1>7. ~unrecorded' => /\ \A s \in enabled : s \in before.enabled \/ In(Ran(s), Owed)
                      /\ In(Ran("le_ssl"), Owed) => before.files["le_ssl"] = "none"
    <2>1. \A s \in enabled : Ran(s) \in Step /\ Ran(s).kind # "drop"
        BY DEF Ran, Step, Typed, TypeOK, Sites, Files
    <2> QED
        BY <1>1, <1>5, <2>1 DEF SitesReversible
<1>8. CASE Stop
    <2>1. UNCHANGED files
        BY <1>8 DEF Stop
    <2>2. Typed'
        BY <1>1, <2>1 DEF Typed, TypeOK, Image, Site
    <2>3. FilesReversible' /\ SitesReversible'
        BY <1>1, <1>4, <1>6, <1>7, <2>1 DEF FilesReversible, SitesReversible
    <2>4. LiveReversible'
        <3>1. record = <<>> /\ ~unrecorded' /\ ~dry => pc \in Entering \cup {"rollback"}
            BY <1>8, InNone DEF Stop, Places, Recorded, Typed
        <3> QED
            BY <1>1, <2>1, <3>1 DEF LiveReversible, Loadable, Passes
    <2>5. Sound' /\ Originals'
        BY <1>1, <2>1 DEF Sound, BrokenNeverLive, Passes, Originals
    <2> QED
        BY <1>3, <2>2, <2>3, <2>4, <2>5
<1>9. CASE StopTorn
    <2> DEFINE f == Head(todo).what
    <2>1. /\ Head(todo) \in Step /\ In(Head(todo), todo) /\ Head(todo).kind = "replaced"
        BY <1>9, InTail DEF StopTorn, Typed, TypeOK
    <2>2. /\ pc \in {"undo", "rollback"} /\ ~unrecorded /\ backups[f] # "none" /\ ~dry
          /\ files' = [files EXCEPT ![f] = "torn"] /\ f \in Files
          /\ pc = "rollback" => unrecorded' = TRUE /\ record = <<>>
          /\ pc = "undo" => record \notin {<<>>, Unreadable}
        BY <1>9, <2>1 DEF StopTorn, Places, Recorded, Step
    <2>3. /\ Head(todo) = Replaced(f) /\ f # "le_ssl"
          /\ In(Replaced(f), Owed) /\ (pc = "undo" => In(Replaced(f), record))
        <3>1. Head(todo) = Replaced(f)
            BY <2>1 DEF Replaced, Step
        <3>2. Owed = IF pc = "undo" THEN record ELSE todo
            BY <2>2 DEF Owed
        <3> QED
            BY <2>1, <2>2, <3>1, <3>2 DEF Recorded, Taken
    <2>4. backups[f] = before.files[f]
        BY <2>2, <2>3 DEF FilesReversible
    <2>5. /\ files' \in [Files -> Contents]
          /\ \A g \in Files : g # f => files'[g] = files[g]
        BY <2>2 DEF Typed, TypeOK, Contents
    <2>6. Typed'
        BY <1>1, <2>5 DEF Typed, TypeOK, Image, Site
    <2> HIDE DEF f
    <2>7. FilesReversible'
        BY <1>1, <1>4, <1>6, <2>2, <2>3, <2>4, <2>5 DEF FilesReversible
    <2>8. SitesReversible'
        BY <1>1, <1>4, <1>7, <2>3, <2>5 DEF SitesReversible, Files
    <2>9. LiveReversible' /\ Sound'
        BY <1>1, <2>2 DEF LiveReversible, Sound, BrokenNeverLive, Passes
    <2>10. Originals'
        BY <1>1, <2>4, <2>5 DEF Originals
    <2> QED
        BY <1>3, <2>6, <2>7, <2>8, <2>9, <2>10
<1> QED
    BY <1>8, <1>9

LEMMA Stutter == ProxyInvariant /\ UNCHANGED vars => ProxyInvariant'
<1> SUFFICES ASSUME ProxyInvariant, UNCHANGED vars PROVE ProxyInvariant'
    OBVIOUS
<1> USE DEF vars, machine, history, fixed, ProxyInvariant
<1>1. Typed' /\ Places' /\ Recorded'
    BY DEF Typed, TypeOK, Image, Site, Places, Recorded
<1>2. Owed' = Owed /\ Ahead' = Ahead
    BY DEF Owed, Ahead
<1>3. FilesReversible' /\ SitesReversible'
    BY <1>2 DEF FilesReversible, SitesReversible
<1>4. LiveReversible' /\ Sound' /\ Originals'
    BY DEF LiveReversible, Loadable, Passes, Sound, BrokenNeverLive, Originals
<1> QED
    BY <1>1, <1>3, <1>4

LEMMA Steps == ProxyInvariant /\ [Next]_vars => ProxyInvariant'
<1> SUFFICES ASSUME ProxyInvariant, [Next]_vars PROVE ProxyInvariant'
    OBVIOUS
<1>1. CASE Start
    BY <1>1, StartStep
<1>2. CASE \/ ChooseServer \/ AskName \/ DeclineConfiguration \/ NoCertificate
           \/ StayInFront \/ RolledBack \/ ValidateBack
    BY <1>2, Moves
<1>3. CASE Configure \/ Behind
    BY <1>3, BackUpStep
<1>4. CASE PutConf \/ PutEnv
    BY <1>4, PutStep DEF PutEnv
<1>5. CASE Enable
    BY <1>5, EnableStep
<1>6. CASE Validate
    BY <1>6, ValidateStep
<1>7. CASE Reload \/ ReloadBack
    BY <1>7, LoadSteps
<1>8. CASE CertbotNginx
    BY <1>8, CertbotNginxStep
<1>9. CASE CertbotApache
    BY <1>9, CertbotApacheStep
<1>10. CASE Save
    BY <1>10, SaveStep
<1>11. CASE StartUndo
    BY <1>11, StartUndoStep
<1>12. CASE ReverseStep
    BY <1>12, DryReverseStep, ReverseSteps
<1>13. CASE Forget
    BY <1>13, ForgetStep
<1>14. CASE Stop \/ StopTorn
    BY <1>14, StopSteps
<1>15. CASE Rest \/ UNCHANGED vars
    BY <1>15, Stutter DEF Rest
<1> QED
    BY <1>1, <1>2, <1>3, <1>4, <1>5, <1>6, <1>7, <1>8, <1>9, <1>10, <1>11, <1>12, <1>13, <1>14, <1>15 DEF Next

LEMMA Invariance == Spec => []ProxyInvariant
<1> QED
    BY Beginning, Steps, PTL DEF Spec
-----------------------------------------------------------------------------
(* The theorems.                                                           *)

\* Every variable of Proxy keeps its type.
THEOREM TypeCorrect == Spec => []TypeOK
<1>1. ProxyInvariant => TypeOK
    BY DEF ProxyInvariant, Typed
<1> QED
    BY <1>1, Invariance, PTL

\* undo, rollback: with no journal left and no run that died with one in memory,
\* the machine is as it was before the last run.
THEOREM AlwaysPutBack == Spec => []PutBack
<1>1. ProxyInvariant => PutBack
    <2> SUFFICES ASSUME ProxyInvariant, pc = "idle", record = <<>>, ~unrecorded
                 PROVE  /\ files = before.files
                        /\ enabled \subseteq before.enabled
                        /\ Passes(files["conf"]) => live \in {Loadable, before.live}
        BY DEF PutBack
    <2> USE DEF ProxyInvariant
    <2>1. \A x : ~In(x, Ahead)
        BY InNone DEF Ahead, Owed, Places, Undoing, Configuring, Finishing
    <2>2. \A f \in Files : files[f] = before.files[f]
        BY <2>1 DEF FilesReversible
    <2>3. files \in [Files -> Contents] /\ before.files \in [Files -> Contents]
        BY DEF Typed, TypeOK, Image
    <2>4. files = before.files
        BY <2>2, <2>3
    <2>5. enabled \subseteq before.enabled
        BY <2>1 DEF SitesReversible
    <2> QED
        BY <2>4, <2>5 DEF LiveReversible
<1> QED
    BY <1>1, Invariance, PTL

\* write_file, reverse: whatever fails, a file the person had is in its place or
\* in its backup, until a run follows one that died with its journal in memory.
THEOREM OriginalsKept == Spec => []OriginalKept
<1>1. ProxyInvariant => OriginalKept
    BY DEF ProxyInvariant, Originals, OriginalKept
<1> QED
    BY <1>1, Invariance, PTL

\* configure, undo: what the web server has loaded has passed its check.
THEOREM NeverBroken == Spec => []BrokenNeverLive
<1>1. ProxyInvariant => BrokenNeverLive
    BY DEF ProxyInvariant, Sound
<1> QED
    BY <1>1, Invariance, PTL
-----------------------------------------------------------------------------
(* Fetch.                                                                   *)

ScanTypeOK ==
    /\ scanning \in BOOLEAN /\ sendingDone \in BOOLEAN
    /\ probes \in Seq(Hosts \cup {Broadcast})
    /\ deadline \in 0..NoDeadline
    /\ wire \subseteq [from : Hosts, left : 0..Delay]
    /\ seen \in [Hosts -> Parsed] /\ unparseable \subseteq Hosts /\ answered \subseteq Hosts

\* The deadline is set when nothing is left to send, and every answer comes before it.
InTime ==
    /\ sendingDone => probes = <<>>
    /\ deadline # NoDeadline => sendingDone /\ \A m \in wire : m.left < deadline

\* Who answered is in the report, or the answer is still on its way.
Accounted ==
    \A h \in answered : \/ seen[h] # Nothing \/ h \in unparseable
                        \/ scanning /\ \E m \in wire : m.from = h

ScanInv == ScanTypeOK /\ InTime /\ Accounted

FetchPhases == {"probe", "scan", "app", "ask", "password", "trial", "list", "token",
                "check", "save", "over"}
FetchTypeOK ==
    /\ program \in {"fetch", "panel", "pair"} /\ phase \in FetchPhases
    /\ {targets, wanted, unfetched} \subseteq Seq(Units)
    /\ choice \in CloudSet \cup {NotSure} /\ cloud \in CloudSet \cup {None}
    /\ account.known \subseteq CloudSet
    /\ ask \in Seq(CloudSet) /\ known \in [CloudSet -> {"unasked", "yes", "no", "failed"}]
    /\ got \in [Units -> Units \cup {None}]
    /\ DOMAIN told = Units \cup {Account}

\* Where the conversation is, and what it has of the rest by then.
Course ==
    /\ phase # "over" => exit = None
    /\ phase = "probe" /\ targets = <<>> => wanted = <<>>
    /\ phase = "scan" => targets # <<>>
    /\ program = "pair" => wanted = <<>> /\ phase \in {"probe", "scan", "over"}
    /\ phase = "save" => program = "panel"
    /\ program = "panel" => phase \in {"probe", "scan", "ask", "password", "token", "save", "over"}

\* Every cloud is asked, and what it says of the account is true.
ToBeAsked(c) == \E i \in DOMAIN ask : ask[i] = c
Inquiry ==
    /\ phase \in {"probe", "scan", "app"} => \A c \in CloudSet : known[c] = "unasked"
    /\ phase = "ask" => \A c \in CloudSet : known[c] # "unasked" \/ ToBeAsked(c)
    /\ phase = "ask" /\ program = "panel" => \A c \in CloudSet : known[c] # "yes"
    /\ Account \notin hit =>
          \A c \in CloudSet : known[c] # "failed" /\ (known[c] = "no" => c \notin account.known)

\* The password goes to the cloud that was decided for.
SentToOne ==
    /\ sent = {} \/ (sent = {cloud} /\ cloud \in account.known /\ Knows(cloud))
    /\ phase \in {"probe", "scan", "app", "ask"} => sent = {}
    /\ phase \in {"password", "trial", "list", "token", "check", "save"} => cloud # None /\ Knows(cloud)

\* Each unit that is wanted has its token, is missing, or has its turn to come.
Turns ==
    /\ phase \in {"token", "check"} =>
          \A i \in DOMAIN wanted : \/ wanted[i] \in missing \/ got[wanted[i]] = wanted[i]
                                   \/ \E j \in DOMAIN unfetched : unfetched[j] = wanted[i]
    /\ phase = "check" => unfetched # <<>> /\ got[Head(unfetched)] = Head(unfetched)
    /\ phase \in {"ask", "password"} /\ program = "panel" => unfetched = wanted

\* What is said of a unit is said of the account and the cloud it stays with.
Sayings ==
    /\ \A u \in Units : told[u] # None => phase \in {"token", "check", "save", "over"}
    /\ told[Account] # None => phase = "over"
    /\ listed # {None} => phase \in {"token", "check", "over"} /\ listed = Appliances(cloud, account)
    /\ program = "panel" => listed = {None}

FetchInv ==
    /\ ScanInv /\ FetchTypeOK /\ Course /\ Inquiry /\ SentToOne /\ Turns /\ Sayings
    /\ RightToken /\ ExitTellsAll /\ FairVerdicts
-----------------------------------------------------------------------------
(* The clouds.                                                              *)

LEMMA CloudNames ==
    /\ CloudSet = {SmartHome, Meiju, NetHomePlus}
    /\ SmartHome # Meiju /\ SmartHome # NetHomePlus /\ Meiju # NetHomePlus
    /\ None \notin CloudSet
  BY DEF CloudSet, SmartHome, Meiju, NetHomePlus, None

LEMMA SaidOfAnswers ==
    /\ \A no : Said(Ok("login id"), no) = "yes"
    /\ \A no : \A code \in no : Said(Api(code), no) = "no"
<1>1. /\ Ok("login id").kind = "ok"
      /\ \A code : Api(code).kind # "ok" /\ Api(code).code = code
  BY DEF Ok, Api
<1> QED  BY <1>1 DEF Said

\* What the clients say of an account is one of three things, and with no
\* request lost it is the truth.
LEMMA KnownIsTrue ==
    ASSUME NEW c \in CloudSet, NEW a, NEW lost
    PROVE  /\ AccountKnown(c, a, lost) \in {"yes", "no", "failed"}
           /\ lost = {} => AccountKnown(c, a, lost) = IF c \in a.known THEN "yes" ELSE "no"
<1>1. CASE c = SmartHome
  <2>1. AccountKnown(c, a, lost) = SmartHomeKnows(a, lost)
    BY <1>1, CloudNames DEF AccountKnown
  <2>2. SmartHomeKnows(a, lost) \in {"yes", "no", "failed"}
    BY DEF SmartHomeKnows, Said
  <2>3. ASSUME lost = {} PROVE SmartHomeKnows(a, lost) = IF SmartHome \in a.known THEN "yes" ELSE "no"
    <3>1. Routed(a, lost) = RouteAnswer(a)
      BY <2>3 DEF Routed, Asked, RouteAnswer, Ok, Api
    <3>2. CASE SmartHome \in a.known
      <4>1. SmartHomeLoginId(a, lost) = Ok("login id")
        <5>1. Routed(a, lost) = Ok("regional server")
          BY <3>1, <3>2 DEF RouteAnswer
        <5>2. LoginIdAnswer(a, SmartHome, "regional server") = Ok("login id")
          BY <3>2 DEF LoginIdAnswer
        <5>3. Ok("regional server").kind = "ok" /\ Ok("regional server").of = "regional server"
          BY DEF Ok
        <5> QED  BY <2>3, <5>1, <5>2, <5>3 DEF SmartHomeLoginId, Asked
      <4> QED  BY <3>2, <4>1, SaidOfAnswers DEF SmartHomeKnows
    <3>3. CASE SmartHome \notin a.known
      <4>1. SmartHomeLoginId(a, lost) = Api("10004")
        <5>1. Routed(a, lost) = Api("10004") /\ Api("10004").kind # "ok"
          BY <3>1, <3>3 DEF RouteAnswer, Api
        <5> QED  BY <5>1 DEF SmartHomeLoginId
      <4> QED  BY <3>3, <4>1, SaidOfAnswers DEF SmartHomeKnows
    <3> QED  BY <3>2, <3>3
  <2> QED  BY <1>1, <2>1, <2>2, <2>3
<1>2. CASE c = Meiju
  <2>1. AccountKnown(c, a, lost) = MeijuKnows(a, lost)
    BY <1>2, CloudNames DEF AccountKnown
  <2>2. ASSUME lost = {} PROVE MeijuKnows(a, lost) = IF Meiju \in a.known THEN "yes" ELSE "no"
    <3>1. MeijuLoginId(a, lost) = IF Meiju \in a.known THEN Ok("login id") ELSE Api("1006")
      BY <2>2, CloudNames DEF MeijuLoginId, Asked, LoginIdAnswer
    <3> QED  BY <3>1, SaidOfAnswers DEF MeijuKnows
  <2> QED  BY <1>2, <2>1, <2>2 DEF MeijuKnows, Said
<1>3. CASE c = NetHomePlus
  <2>1. AccountKnown(c, a, lost) = NetHomeKnows(a, lost)
    BY <1>3, CloudNames DEF AccountKnown
  <2>2. ASSUME lost = {} PROVE NetHomeKnows(a, lost) = IF NetHomePlus \in a.known THEN "yes" ELSE "no"
    <3>1. NetHomeLoginId(a, lost) = IF NetHomePlus \in a.known THEN Ok("login id") ELSE Api("3102")
      BY <2>2, CloudNames DEF NetHomeLoginId, NetHomeAsked, LoginIdAnswer
    <3> QED  BY <3>1, SaidOfAnswers DEF NetHomeKnows
  <2> QED  BY <1>3, <2>1, <2>2 DEF NetHomeKnows, Said
<1> QED  BY <1>1, <1>2, <1>3, CloudNames

\* A cloud gives a login id, without which there is no password to send, only to
\* an account that it has.
LEMMA LoginIdOfItsOwn ==
    ASSUME NEW a, NEW lost
    PROVE  /\ SmartHomeLoginId(a, lost).kind = "ok" => SmartHome \in a.known
           /\ MeijuLoginId(a, lost).kind = "ok" => Meiju \in a.known
           /\ NetHomeLoginId(a, lost).kind = "ok" => NetHomePlus \in a.known
<1>1. ASSUME NEW c, NEW server, LoginIdAnswer(a, c, server).kind = "ok" PROVE c \in a.known
  BY <1>1 DEF LoginIdAnswer, Api
<1>2. ASSUME NEW req, NEW answer, Asked(req, lost, answer).kind = "ok" PROVE answer.kind = "ok"
  BY <1>2 DEF Asked, Unread
<1>3. ASSUME NEW req, NEW answer, NetHomeAsked(req, lost, answer).kind = "ok" PROVE answer.kind = "ok"
  BY <1>3 DEF NetHomeAsked, Unread
<1>4. SmartHomeLoginId(a, lost).kind = "ok" => SmartHome \in a.known
  <2>1. SUFFICES ASSUME SmartHomeLoginId(a, lost).kind = "ok" PROVE SmartHome \in a.known
    OBVIOUS
  <2>2. SmartHomeLoginId(a, lost)
          = Asked(Req("login_id"), lost, LoginIdAnswer(a, SmartHome, Routed(a, lost).of))
    BY <2>1 DEF SmartHomeLoginId
  <2> QED  BY <1>1, <1>2, <2>1, <2>2
<1> QED  BY <1>1, <1>2, <1>3, <1>4 DEF MeijuLoginId, NetHomeLoginId

LEMMA PasswordToOne ==
    ASSUME NEW c \in CloudSet, NEW a, NEW right, NEW lost
    PROVE  \/ Login(c, a, right, lost).sent = {}
           \/ Login(c, a, right, lost).sent = {c} /\ c \in a.known
<1>1. CASE c = SmartHome
  <2>1. Login(c, a, right, lost) = SmartHomeLogin(SmartHomeLoginId(a, lost), right, lost)
    BY <1>1, CloudNames DEF Login
  <2> QED  BY <1>1, <2>1, LoginIdOfItsOwn DEF SmartHomeLogin
<1>2. CASE c = Meiju
  <2>1. Login(c, a, right, lost) = MeijuLogin(MeijuLoginId(a, lost), right, lost)
    BY <1>2, CloudNames DEF Login
  <2> QED  BY <1>2, <2>1, LoginIdOfItsOwn DEF MeijuLogin
<1>3. CASE c = NetHomePlus
  <2>1. Login(c, a, right, lost) = NetHomeLogin(NetHomeLoginId(a, lost), right, lost)
    BY <1>3, CloudNames DEF Login
  <2> QED  BY <1>3, <2>1, LoginIdOfItsOwn DEF NetHomeLogin
<1> QED  BY <1>1, <1>2, <1>3, CloudNames

LEMMA Least ==
    ASSUME NEW T \in SUBSET Nat, T # {}
    PROVE  \E x \in T : \A y \in T : x <= y
<1> DEFINE R == OpToRel(<, Nat)
<1>1. \E x \in T : \A y \in T : <<y, x>> \notin R
  BY NatLessThanWellFounded, WFMin
<1>2. \A x, y \in Nat : <<y, x>> \in R <=> y < x
  BY DEF OpToRel
<1> HIDE DEF R
<1>3. PICK x \in T : \A y \in T : <<y, x>> \notin R
  BY <1>1
<1>4. ASSUME NEW y \in T PROVE x <= y
  <2>1. x \in Nat /\ y \in Nat /\ ~(y < x)
    BY <1>2, <1>3
  <2> QED  BY <2>1
<1> QED  BY <1>4

\* What the answer to a request for a token is, with no request lost and by the
\* cloud whose account the unit is paired with, and what it can be otherwise.
Answer(c, a, u, where, lost) ==
    TryBothOrders([order \in Orders |-> GetToken(c, a, u, where, order, lost)])

LEMMA PickedIsIts ==
    ASSUME NEW a, NEW u, NEW order
    PROVE  LET p == PickToken(TokenList(a, u, order), Udpid(u, order)) IN
           /\ p = Ok(u) \/ p = NoToken
           /\ order = OrderOf(a) => p = Ok(u)
<1> DEFINE list == TokenList(a, u, order)
           w == Udpid(u, order)
<1>1. \A e \in list : e.udpid = w => e.of = u
  <2> SUFFICES ASSUME NEW e \in list, e.udpid = w PROVE e.of = u
    OBVIOUS
  <2> DEFINE other == CHOOSE v \in Units : v # u
  <2>1. CASE e = [udpid |-> Udpid(other, OrderOf(a)), of |-> other]
    <3>1. <<other, OrderOf(a)>> = <<u, order>>
      BY <2>1 DEF Udpid
    <3> QED  BY <2>1, <3>1
  <2>2. CASE \E o \in {order} \cap {OrderOf(a)} : e = [udpid |-> Udpid(u, o), of |-> u]
    BY <2>2
  <2> QED  BY <2>1, <2>2 DEF TokenList
<1>2. order = OrderOf(a) => \E e \in list : e.udpid = w
  <2>1. order = OrderOf(a) => [udpid |-> Udpid(u, order), of |-> u] \in list
    BY DEF TokenList
  <2> QED  BY <2>1
<1>3. (\E e \in list : e.udpid = w) => (CHOOSE e \in list : e.udpid = w).of = u
  <2>1. ASSUME \E e \in list : e.udpid = w
        PROVE  /\ (CHOOSE e \in list : e.udpid = w) \in list
               /\ (CHOOSE e \in list : e.udpid = w).udpid = w
    BY <2>1
  <2> QED  BY <1>1, <2>1
<1> HIDE DEF list, w
<1>4. /\ PickToken(list, w) = Ok(u) \/ PickToken(list, w) = NoToken
      /\ (\E e \in list : e.udpid = w) => PickToken(list, w) = Ok(u)
  BY <1>3 DEF PickToken
<1> QED  BY <1>2, <1>4 DEF list, w

LEMMA Kinds4 ==
    /\ \A x : Ok(x).kind = "ok" /\ Ok(x).of = x
    /\ \A code : Api(code).kind = "api" /\ Api(code).code = code
    /\ NoToken.kind = "no token" /\ Unread.kind = "unread"
  BY DEF Ok, Api, NoToken, Unread

LEMMA AnswerIsIts ==
    ASSUME NEW c, NEW a, NEW u, NEW where, NEW lost
    PROVE  Answer(c, a, u, where, lost).kind = "ok" => Answer(c, a, u, where, lost).of = u
<1>1. \A order : GetToken(c, a, u, where, order, lost).kind = "ok"
                    => GetToken(c, a, u, where, order, lost).of = u
  <2> SUFFICES ASSUME NEW order, GetToken(c, a, u, where, order, lost).kind = "ok"
               PROVE  GetToken(c, a, u, where, order, lost).of = u
    OBVIOUS
  <2>1. GetToken(c, a, u, where, order, lost) = PickToken(TokenList(a, u, order), Udpid(u, order))
    BY DEF GetToken
  <2>2. PickToken(TokenList(a, u, order), Udpid(u, order)) \in {Ok(u), NoToken}
    BY PickedIsIts
  <2> QED  BY <2>1, <2>2, Kinds4
<1> QED  BY <1>1 DEF Answer, TryBothOrders, Orders

LEMMA AnswerGranted ==
    ASSUME NEW c, NEW a, NEW u, NEW where, TokenRefusal(a, c, u, where) = ""
    PROVE  Answer(c, a, u, where, {}).kind = "ok"
<1>1. \A order : GetToken(c, a, u, where, order, {}) = PickToken(TokenList(a, u, order), Udpid(u, order))
  BY Kinds4 DEF GetToken, Asked
<1>2. OrderOf(a) \in {"LE", "BE"}
  BY DEF OrderOf
<1>3. \A order : /\ GetToken(c, a, u, where, order, {}) \in {Ok(u), NoToken}
                 /\ order = OrderOf(a) => GetToken(c, a, u, where, order, {}) = Ok(u)
  BY <1>1, PickedIsIts
<1> QED  BY <1>2, <1>3, Kinds4 DEF Answer, TryBothOrders, Orders

LEMMA MeijuTokenIs ==
    ASSUME NEW a, NEW u, NEW lost
    PROVE  LET inHomes == {i \in DOMAIN Homes : Answer(Meiju, a, u, Homes[i], lost).kind = "ok"} IN
           \/ MeijuToken(a, u, lost) = Unread /\ Req("homes") \in lost
           \/ \E where : MeijuToken(a, u, lost) = Answer(Meiju, a, u, where, lost)
                         /\ (inHomes # {} => where \in {Homes[i] : i \in inHomes})
                         /\ (inHomes = {} /\ Answer(Meiju, a, u, "v1", lost).kind = "ok" => where = "v1")
<1> DEFINE inHomes == {i \in DOMAIN Homes : Answer(Meiju, a, u, Homes[i], lost).kind = "ok"}
           earliest == CHOOSE i \in inHomes : \A j \in inHomes : i <= j
<1>1. MeijuToken(a, u, lost)
        = IF Req("homes") \in lost THEN Unread
          ELSE IF inHomes # {} THEN Answer(Meiju, a, u, Homes[earliest], lost)
          ELSE IF Answer(Meiju, a, u, "v1", lost).kind = "ok" \/ Homes = <<>>
          THEN Answer(Meiju, a, u, "v1", lost)
          ELSE Answer(Meiju, a, u, Homes[Len(Homes)], lost)
  BY DEF MeijuToken, Answer
<1>2. inHomes # {} => earliest \in inHomes
  <2>1. inHomes \in SUBSET Nat
    BY CloudsAssumption
  <2> QED  BY <2>1, Least
<1> HIDE DEF inHomes, earliest
<1>3. CASE inHomes # {}
  BY <1>1, <1>2, <1>3 DEF inHomes
<1>4. CASE inHomes = {}
  BY <1>1, <1>4 DEF inHomes
<1> QED  BY <1>3, <1>4

\* A token that a cloud gives for a unit is the unit's.
LEMMA TokenIsIts ==
    ASSUME NEW c \in CloudSet, NEW a, NEW u, NEW lost
    PROVE  Token(c, a, u, lost).kind = "ok" => Token(c, a, u, lost).of = u
<1>1. CASE c = SmartHome
  <2>1. Token(c, a, u, lost) = Answer(SmartHome, a, u, "", lost)
    BY <1>1, CloudNames DEF Token, SmartHomeToken, Answer
  <2> QED  BY <2>1, AnswerIsIts
<1>2. CASE c = Meiju
  <2>1. Token(c, a, u, lost) = MeijuToken(a, u, lost)
    BY <1>2, CloudNames DEF Token
  <2>2. \A where : Answer(Meiju, a, u, where, lost).kind = "ok"
                      => Answer(Meiju, a, u, where, lost).of = u
    BY AnswerIsIts
  <2>3. \/ MeijuToken(a, u, lost) = Unread
        \/ \E where : MeijuToken(a, u, lost) = Answer(Meiju, a, u, where, lost)
    BY MeijuTokenIs
  <2>4. Unread.kind # "ok"
    BY Kinds4
  <2> QED  BY <2>1, <2>2, <2>3, <2>4
<1>3. CASE c = NetHomePlus
  <2>1. Token(c, a, u, lost) = Answer(NetHomePlus, a, u, "", lost)
    BY <1>3, CloudNames DEF Token, NetHomeToken, Answer
  <2> QED  BY <2>1, AnswerIsIts
<1> QED  BY <1>1, <1>2, <1>3, CloudNames

\* With no request lost, the cloud whose account a unit is paired with gives its
\* token, whichever home it is in and whatever is out of the ordinary; but for
\* NetHome Plus, which no longer gives any.
LEMMA OwnerGetsToken ==
    ASSUME NEW c \in CloudSet, NEW a, NEW u \in Units, a.owner[u] = c
    PROVE  \/ Token(c, a, u, {}).kind = "ok"
           \/ c = NetHomePlus /\ Token(c, a, u, {}) = Api("9999")
<1>1. CASE c = SmartHome
  <2>1. Token(c, a, u, {}) = Answer(SmartHome, a, u, "", {})
    BY <1>1, CloudNames DEF Token, SmartHomeToken, Answer
  <2>2. TokenRefusal(a, SmartHome, u, "") = ""
    BY <1>1, CloudNames DEF TokenRefusal
  <2> QED  BY <2>1, <2>2, AnswerGranted
<1>2. CASE c = Meiju
  <2>1. Token(c, a, u, {}) = MeijuToken(a, u, {})
    BY <1>2, CloudNames DEF Token
  <2>2. PICK h \in DOMAIN Homes : HomeOf[u] = Homes[h]
    BY CloudsAssumption
  <2>3. Homes[h] # "v1"
    BY CloudsAssumption
  <2>4. \/ Answer(Meiju, a, u, Homes[h], {}).kind = "ok"
        \/ Answer(Meiju, a, u, "v1", {}).kind = "ok"
    <3>1. CASE a.quirk = "old endpoint"
      <4>1. TokenRefusal(a, Meiju, u, "v1") = ""
        BY <1>2, <3>1, CloudNames DEF TokenRefusal
      <4> QED  BY <4>1, AnswerGranted
    <3>2. CASE a.quirk # "old endpoint"
      <4>1. TokenRefusal(a, Meiju, u, Homes[h]) = ""
        BY <1>2, <2>2, <2>3, <3>2, CloudNames DEF TokenRefusal
      <4> QED  BY <4>1, AnswerGranted
    <3> QED  BY <3>1, <3>2
  <2> QED  BY <2>1, <2>2, <2>4, MeijuTokenIs
<1>3. CASE c = NetHomePlus
  <2>1. Token(c, a, u, {}) = Answer(NetHomePlus, a, u, "", {})
    BY <1>3, CloudNames DEF Token, NetHomeToken, Answer
  <2>2. CASE a.quirk = "issuing"
    <3>1. TokenRefusal(a, NetHomePlus, u, "") = ""
      BY <1>3, <2>2, CloudNames DEF TokenRefusal
    <3> QED  BY <2>1, <3>1, AnswerGranted
  <2>3. CASE a.quirk # "issuing"
    <3>1. TokenRefusal(a, NetHomePlus, u, "") = "9999"
      BY <1>3, <2>3, CloudNames DEF TokenRefusal
    <3>2. \A order : GetToken(NetHomePlus, a, u, "", order, {}) = Api("9999")
      BY <3>1, Kinds4 DEF GetToken, Asked
    <3> QED  BY <1>3, <2>1, <3>2, Kinds4 DEF Answer, TryBothOrders, Orders
  <2> QED  BY <2>2, <2>3
<1> QED  BY <1>1, <1>2, <1>3, CloudNames

\* What is said of a unit without a token is true, unless a request was lost.
LEMMA VerdictIsFair ==
    ASSUME NEW c \in CloudSet, NEW a, NEW u \in Units, Token(c, a, u, {}).kind # "ok"
    PROVE  LET verdict == Verdict(Token(c, a, u, {})) IN
           /\ verdict = "not on this account" => a.owner[u] # c
           /\ verdict = "refused" /\ c # NetHomePlus => a.owner[u] # c
<1>1. a.owner[u] = c => c = NetHomePlus /\ Token(c, a, u, {}) = Api("9999")
  BY OwnerGetsToken
<1>2. Verdict(Api("9999")) = "refused"
  BY Kinds4 DEF Verdict
<1> QED  BY <1>1, <1>2
-----------------------------------------------------------------------------
(* A scan.                                                                  *)

LEMMA HellosTyped ==
    ASSUME NEW hosts \in Seq(Hosts), NEW broadcast \in BOOLEAN
    PROVE  Hellos(hosts, broadcast) \in Seq(Hosts \cup {Broadcast})
<1>1. \A s, t \in Seq(Hosts \cup {Broadcast}) : s \o t \in Seq(Hosts \cup {Broadcast})
  OBVIOUS
<1>2. <<>> \in Seq(Hosts \cup {Broadcast}) /\ <<Broadcast>> \in Seq(Hosts \cup {Broadcast})
  OBVIOUS
<1>3. hosts \in Seq(Hosts \cup {Broadcast})
  OBVIOUS
<1>4. (IF broadcast THEN <<Broadcast>> ELSE <<>>) \in Seq(Hosts \cup {Broadcast})
  BY <1>2
<1>5. (IF broadcast THEN <<Broadcast>> ELSE <<>>) \o hosts \in Seq(Hosts \cup {Broadcast})
  BY <1>1, <1>3, <1>4
<1> QED  BY <1>1, <1>5 DEF Hellos

LEMMA BeginScanInv ==
    ASSUME NEW hosts \in Seq(Hosts), NEW broadcast \in BOOLEAN, BeginScan(hosts, broadcast)
    PROVE  ScanInv'
<1>1. probes' \in Seq(Hosts \cup {Broadcast})
  BY HellosTyped DEF BeginScan
<1>2. ScanTypeOK'
  <2>1. NoDeadline \in 0..NoDeadline /\ Nothing \in Parsed
    BY ScanAssumption DEF NoDeadline, Parsed
  <2> QED  BY <1>1, <2>1 DEF BeginScan, ScanTypeOK
<1> QED  BY <1>2 DEF BeginScan, ScanInv, InTime, Accounted, NoDeadline

LEMMA ForgetInv ==
    ASSUME ScanInv, ForgetScan
    PROVE  ScanInv'
<1>1. ScanTypeOK'
  <2>1. NoDeadline \in 0..NoDeadline /\ Nothing \in Parsed
    BY ScanAssumption DEF NoDeadline, Parsed
  <2> QED  BY <2>1 DEF ScanInv, ScanTypeOK, ForgetScan
<1> QED  BY <1>1 DEF ScanInv, ForgetScan, InTime, Accounted, NoDeadline

LEMMA SendInv ==
    ASSUME ScanInv, Send
    PROVE  ScanInv'
<1> USE DEF ScanInv
<1>1. PICK who \in SUBSET Reached(Head(probes)), d \in 0..Delay :
         wire' = wire \cup [from : who, left : {d}] /\ answered' = answered \cup who
  BY DEF Send
<1>2. Head(probes) \in Hosts \cup {Broadcast} /\ Tail(probes) \in Seq(Hosts \cup {Broadcast})
  BY DEF Send, ScanTypeOK
<1>3. who \subseteq Hosts
  BY <1>2 DEF Reached
<1>4. [from : who, left : {d}] \subseteq [from : Hosts, left : 0..Delay]
  BY <1>3
<1>5. ScanTypeOK'
  BY <1>1, <1>2, <1>3, <1>4 DEF Send, ScanTypeOK
<1>6. InTime'
  \* What is to be sent is still there, so the deadline is not set.
  BY DEF Send, InTime
<1>7. Accounted'
  <2> SUFFICES ASSUME NEW h \in answered'
               PROVE  \/ seen'[h] # Nothing \/ h \in unparseable'
                      \/ scanning' /\ \E m \in wire' : m.from = h
    BY DEF Accounted
  <2>1. CASE h \in answered
    BY <1>1, <2>1 DEF Accounted, Send
  <2>2. CASE h \in who
    <3>1. [from |-> h, left |-> d] \in wire'
      BY <1>1, <2>2
    <3> QED  BY <3>1 DEF Send
  <2> QED  BY <1>1, <2>1, <2>2
<1> QED  BY <1>5, <1>6, <1>7

LEMMA ReceiveInv ==
    ASSUME ScanInv, Receive
    PROVE  ScanInv'
<1> USE DEF ScanInv
<1>1. PICK m \in wire :
         /\ wire' = wire \ {m}
         /\ \/ \E a \in Answers :
                  seen' = [seen EXCEPT ![m.from] = IF @ = Nothing THEN a ELSE @]
               /\ UNCHANGED unparseable
            \/ unparseable' = unparseable \cup {m.from} /\ UNCHANGED seen
  BY DEF Receive
<1>2. m.from \in Hosts
  BY DEF ScanTypeOK
<1>3. Nothing \notin Answers
  BY DEF Nothing, Answers, Versions
<1>4. /\ seen' \in [Hosts -> Parsed] /\ unparseable' \subseteq Hosts
      /\ seen'[m.from] # Nothing \/ m.from \in unparseable'
      /\ \A h \in Hosts : (seen[h] # Nothing => seen'[h] # Nothing)
      /\ unparseable \subseteq unparseable'
  <2>1. CASE UNCHANGED unparseable /\ \E a \in Answers :
               seen' = [seen EXCEPT ![m.from] = IF @ = Nothing THEN a ELSE @]
    <3>1. PICK a \in Answers : seen' = [seen EXCEPT ![m.from] = IF @ = Nothing THEN a ELSE @]
      BY <2>1
    <3>2. a \in Parsed /\ a # Nothing
      BY <1>3 DEF Parsed
    <3> QED  BY <1>2, <2>1, <3>1, <3>2 DEF ScanTypeOK
  <2>2. CASE unparseable' = unparseable \cup {m.from} /\ UNCHANGED seen
    BY <1>2, <2>2 DEF ScanTypeOK
  <2> QED  BY <1>1, <2>1, <2>2
<1>5. ScanTypeOK'
  BY <1>1, <1>4 DEF Receive, ScanTypeOK
<1>6. InTime'
  BY <1>1 DEF Receive, InTime
<1>7. Accounted'
  <2> SUFFICES ASSUME NEW h \in answered
               PROVE  \/ seen'[h] # Nothing \/ h \in unparseable'
                      \/ scanning' /\ \E x \in wire' : x.from = h
    BY DEF Accounted, Receive
  <2>1. h \in Hosts
    BY DEF ScanTypeOK
  <2> QED  BY <1>1, <1>4, <2>1 DEF Accounted, Receive
<1> QED  BY <1>5, <1>6, <1>7

LEMMA ScanTickInv ==
    ASSUME ScanInv, ScanTick
    PROVE  ScanInv'
<1> USE DEF ScanInv
<1>1. \A m \in wire : /\ m.from \in Hosts /\ m.left \in 1..Delay
                      /\ [m EXCEPT !.left = @ - 1] \in [from : Hosts, left : 0..Delay]
                      /\ [m EXCEPT !.left = @ - 1].from = m.from
                      /\ [m EXCEPT !.left = @ - 1].left = m.left - 1
  <2> TAKE m \in wire
  <2>1. m \in [from : Hosts, left : 0..Delay] /\ m.left > 0
    BY DEF ScanTick, ScanTypeOK
  <2> QED  BY <2>1, ScanAssumption
<1>2. \A x \in wire' : \E m \in wire :
         x.from = m.from /\ x.left = m.left - 1 /\ x \in [from : Hosts, left : 0..Delay]
  BY <1>1 DEF ScanTick
<1>3. \A m \in wire : \E x \in wire' : x.from = m.from
  BY <1>1 DEF ScanTick
<1>4. deadline \in Nat /\ deadline # 0 /\ (deadline' = deadline \/ deadline' = deadline - 1)
  BY ScanAssumption DEF ScanTick, ScanTypeOK, NoDeadline
<1>5. ScanTypeOK'
  <2>1. deadline' \in 0..NoDeadline
    BY <1>4, ScanAssumption DEF ScanTypeOK, NoDeadline
  <2>2. wire' \subseteq [from : Hosts, left : 0..Delay]
    BY <1>2
  <2> QED  BY <2>1, <2>2 DEF ScanTypeOK, ScanTick
<1>6. InTime'
  <2>1. ASSUME deadline' # NoDeadline PROVE sendingDone /\ \A x \in wire' : x.left < deadline'
    <3>1. deadline # NoDeadline /\ deadline' = deadline - 1
      BY <2>1 DEF ScanTick
    <3>2. sendingDone /\ \A m \in wire : m.left < deadline
      BY <3>1 DEF InTime
    <3>3. ASSUME NEW x \in wire' PROVE x.left < deadline'
      <4>1. PICK m \in wire : x.left = m.left - 1
        BY <1>2
      <4>2. m.left \in 1..Delay /\ m.left < deadline
        BY <1>1, <3>2
      <4> QED  BY <1>4, <3>1, <4>1, <4>2, ScanAssumption
    <3> QED  BY <3>2, <3>3
  <2> QED  BY <2>1 DEF InTime, ScanTick, NoDeadline
<1>7. Accounted'
  <2> SUFFICES ASSUME NEW h \in answered, seen[h] = Nothing, h \notin unparseable
               PROVE  scanning /\ \E x \in wire' : x.from = h
    BY DEF Accounted, ScanTick
  <2>1. PICK m \in wire : m.from = h
    BY DEF Accounted
  <2> QED  BY <1>3, <2>1 DEF ScanTick
<1> QED  BY <1>5, <1>6, <1>7

\* When the deadline has passed, nothing is on its way any more.
LEMMA EndScanInv ==
    ASSUME ScanInv, EndScan
    PROVE  ScanInv'
<1> USE DEF ScanInv
<1>1. wire = {}
  <2>1. deadline # NoDeadline
    BY ScanAssumption DEF EndScan, NoDeadline
  <2>2. \A m \in wire : m.left \in Nat /\ m.left < 0
    BY <2>1, ScanAssumption DEF EndScan, InTime, ScanTypeOK
  <2> QED  BY <2>2
<1>2. ScanTypeOK'
  BY DEF EndScan, ScanTypeOK
<1> QED  BY <1>1, <1>2 DEF EndScan, InTime, Accounted

LEMMA ScanStepInv ==
    ASSUME ScanInv, ScanStep \/ EndScan
    PROVE  ScanInv'
<1>1. CASE SenderDone
  BY <1>1, ScanAssumption DEF ScanInv, SenderDone, ScanTypeOK, InTime, Accounted
<1>2. CASE SetDeadline
  <2>1. \A m \in wire : m.left < Listen
    <3>1. \A m \in wire : m.left \in 0..Delay
      BY DEF ScanInv, ScanTypeOK
    <3> QED  BY <3>1, ScanAssumption
  <2>2. ScanTypeOK'
    BY <1>2, ScanAssumption DEF ScanInv, SetDeadline, ScanTypeOK, NoDeadline
  <2> QED  BY <1>2, <2>1, <2>2 DEF ScanInv, SetDeadline, InTime, Accounted
<1> QED  BY <1>1, <1>2, SendInv, ReceiveInv, ScanTickInv, EndScanInv DEF ScanStep
-----------------------------------------------------------------------------
(* The conversation, action by action.                                      *)

LEMMA ScanSame ==
    ASSUME ScanInv, UNCHANGED scanVars
    PROVE  ScanInv'
  BY DEF ScanInv, ScanTypeOK, InTime, Accounted, scanVars

LEMMA AllAreAsked ==
    ASSUME NEW app
    PROVE  /\ ChosenFirst(app) \in Seq(CloudSet)
           /\ \A c \in CloudSet : \E i \in DOMAIN ChosenFirst(app) : ChosenFirst(app)[i] = c
<1>1. \A a, b, c \in CloudSet : <<a, b, c>> \in Seq(CloudSet)
  OBVIOUS
<1>2. \/ ChosenFirst(app) = <<NetHomePlus, SmartHome, Meiju>>
      \/ ChosenFirst(app) = <<Meiju, SmartHome, NetHomePlus>>
      \/ ChosenFirst(app) = <<SmartHome, NetHomePlus, Meiju>>
  BY DEF ChosenFirst
<1>3. NetHomePlus \in CloudSet /\ SmartHome \in CloudSet /\ Meiju \in CloudSet
  BY DEF CloudSet
<1>4. ChosenFirst(app) \in Seq(CloudSet)
  BY <1>1, <1>2, <1>3
<1>5. \A c \in CloudSet : \E i \in DOMAIN ChosenFirst(app) : ChosenFirst(app)[i] = c
  <2> DEFINE s == ChosenFirst(app)
  <2>1. /\ 1 \in DOMAIN s /\ 2 \in DOMAIN s /\ 3 \in DOMAIN s
        /\ {s[1], s[2], s[3]} = CloudSet
    BY <1>2 DEF CloudSet
  <2> HIDE DEF s
  <2>2. \A c \in CloudSet : \E i \in DOMAIN s : s[i] = c
    BY <2>1
  <2> QED  BY <2>2 DEF s
<1> QED  BY <1>4, <1>5

\* What is decided for is a cloud that has the account, unless none has it or
\* the person does not want the one that does.
LEMMA DecidedIsKnown ==
    ASSUME FetchTypeOK, NEW useOther \in BOOLEAN
    PROVE  /\ Decide(useOther) \in CloudSet \cup {None}
           /\ Decide(useOther) # None => Knows(Decide(useOther))
           /\ (useOther \/ OffersOther) /\ Decide(useOther) = None =>
                 \A c \in CloudSet : Knows(c) => c \in OthersOffered
<1>1. /\ Issuing \in {SmartHome, Meiju, None} /\ (Issuing # None => Knows(Issuing))
      /\ Issuing = None => ~Knows(SmartHome) /\ ~Knows(Meiju)
  BY CloudNames DEF Issuing
<1>2. /\ OldOne \in {NetHomePlus, None} /\ (OldOne # None => Knows(OldOne))
      /\ OldOne = None => ~Knows(NetHomePlus)
  BY CloudNames DEF OldOne
<1>3. CASE OffersOther /\ useOther
  <2>1. Decide(useOther) = Issuing
    BY <1>3, CloudNames DEF Decide, OffersOther
  <2> QED  BY <1>1, <1>3, <2>1, CloudNames DEF OffersOther
<1>4. CASE choice = NetHomePlus /\ ~(OffersOther /\ useOther)
  <2>1. Decide(useOther) = OldOne
    BY <1>4, CloudNames DEF Decide
  <2>2. OldOne = None /\ (useOther \/ OffersOther) => \A c \in CloudSet : Knows(c) => c \in OthersOffered
    BY <1>1, <1>2, <1>4, CloudNames DEF OffersOther, OthersOffered
  <2> QED  BY <1>2, <2>1, <2>2, CloudNames
<1>5. CASE choice \in {SmartHome, Meiju} /\ Knows(choice)
  <2>1. Decide(useOther) = choice
    BY <1>5, CloudNames DEF Decide
  <2> QED  BY <1>5, <2>1, CloudNames
<1>6. CASE choice # NetHomePlus /\ ~(choice \in {SmartHome, Meiju} /\ Knows(choice))
  <2>1. Decide(useOther) = IF Issuing # None THEN Issuing ELSE OldOne
    BY <1>6 DEF Decide, OffersOther
  <2> QED  BY <1>1, <1>2, <2>1, CloudNames
<1> QED  BY <1>3, <1>4, <1>5, <1>6

LEMMA OthersInTail ==
    ASSUME NEW s \in Seq(Units), s # <<>>, NEW x, \E j \in DOMAIN s : s[j] = x
    PROVE  x = Head(s) \/ \E j \in DOMAIN Tail(s) : Tail(s)[j] = x
  BY InTail DEF In

LEMMA NothingToDoKeeps ==
    ASSUME FetchInv, NothingToDo
    PROVE  FetchInv'
<1> USE DEF FetchInv, talkVars, tokenVars, Over
<1>1. ScanInv'
  BY ScanSame DEF NothingToDo, fetchVars
<1>2. FetchTypeOK'
  BY DEF NothingToDo, FetchTypeOK, FetchPhases, fetchVars
<1>3. Course'
  BY DEF NothingToDo, Course, fetchVars
<1>4. Inquiry'
  BY DEF NothingToDo, Inquiry, ToBeAsked, Hit, fetchVars
<1>5. SentToOne'
  BY DEF NothingToDo, SentToOne, Knows, fetchVars
<1>6. Turns'
  BY DEF NothingToDo, Turns, fetchVars
<1>7. Sayings'
  BY DEF NothingToDo, Sayings, Course, fetchVars
<1>8. RightToken'
  BY DEF NothingToDo, RightToken, fetchVars
<1>9. ExitTellsAll'
  BY DEF NothingToDo, ExitTellsAll, Course, fetchVars
<1>10. FairVerdicts'
  BY DEF NothingToDo, FairVerdicts, Sayings, Hit, None, fetchVars
<1> QED  BY <1>1, <1>2, <1>3, <1>4, <1>5, <1>6, <1>7, <1>8, <1>9, <1>10

LEMMA PairReportsKeeps ==
    ASSUME FetchInv, PairReports
    PROVE  FetchInv'
<1> USE DEF FetchInv, talkVars, tokenVars, Over
<1>1. ScanInv'
  BY ScanSame DEF PairReports, fetchVars
<1>2. FetchTypeOK'
  BY DEF PairReports, FetchTypeOK, FetchPhases, fetchVars
<1>3. Course'
  BY DEF PairReports, Course, fetchVars
<1>4. Inquiry'
  BY DEF PairReports, Inquiry, ToBeAsked, Hit, fetchVars
<1>5. SentToOne'
  BY DEF PairReports, SentToOne, Knows, fetchVars
<1>6. Turns'
  BY DEF PairReports, Turns, fetchVars
<1>7. Sayings'
  BY DEF PairReports, Sayings, Course, fetchVars
<1>8. RightToken'
  BY DEF PairReports, RightToken, fetchVars
<1>9. ExitTellsAll'
  BY DEF PairReports, ExitTellsAll, Course, fetchVars
<1>10. FairVerdicts'
  BY DEF PairReports, FairVerdicts, Sayings, Hit, None, fetchVars
<1> QED  BY <1>1, <1>2, <1>3, <1>4, <1>5, <1>6, <1>7, <1>8, <1>9, <1>10

LEMMA NameAccountKeeps ==
    ASSUME FetchInv, NameAccount
    PROVE  FetchInv'
<1> USE DEF FetchInv, talkVars, tokenVars, Over
<1>1. ScanInv'
  BY ScanSame DEF NameAccount, fetchVars
<1>2. FetchTypeOK'
  <2>1. account'.known \subseteq CloudSet
    BY DEF NameAccount, Accounts
  <2>2. ask' \in Seq(CloudSet)
    BY AllAreAsked DEF NameAccount
  <2> QED  BY <2>1, <2>2 DEF NameAccount, FetchTypeOK, FetchPhases
<1>3. Course'
  BY DEF NameAccount, Course, fetchVars
<1>4. Inquiry'
  <2>1. \A c \in CloudSet : known[c] = "unasked" /\ ToBeAsked(c)'
    BY AllAreAsked DEF NameAccount, Inquiry, ToBeAsked
  <2> QED  BY <2>1 DEF NameAccount, Inquiry
<1>5. SentToOne'
  BY DEF NameAccount, SentToOne, Knows, fetchVars
<1>6. Turns'
  BY DEF NameAccount, Turns, Course
<1>7. Sayings'
  BY DEF NameAccount, Sayings, Course, fetchVars
<1>8. RightToken'
  BY DEF NameAccount, RightToken, fetchVars
<1>9. ExitTellsAll'
  BY DEF NameAccount, ExitTellsAll, Course, fetchVars
<1>10. FairVerdicts'
  BY DEF NameAccount, FairVerdicts, Sayings, Hit, None, fetchVars
<1> QED  BY <1>1, <1>2, <1>3, <1>4, <1>5, <1>6, <1>7, <1>8, <1>9, <1>10

LEMMA AskCloudKeeps ==
    ASSUME FetchInv, AskCloud
    PROVE  FetchInv'
<1> USE DEF FetchInv, talkVars, tokenVars, Over
<1> DEFINE c == Head(ask)
<1>a. PICK lost : /\ known' = [known EXCEPT ![c] = AccountKnown(c, account, lost)]
                  /\ Hit(lost, Account)
  BY DEF AskCloud
<1>b. c \in CloudSet /\ Tail(ask) \in Seq(CloudSet)
  BY DEF AskCloud, FetchTypeOK
<1>c. /\ AccountKnown(c, account, lost) \in {"yes", "no", "failed"}
      /\ lost = {} => AccountKnown(c, account, lost) = IF c \in account.known THEN "yes" ELSE "no"
  BY <1>b, KnownIsTrue
<1>d. /\ known' \in [CloudSet -> {"unasked", "yes", "no", "failed"}]
      /\ known'[c] = AccountKnown(c, account, lost)
      /\ \A d \in CloudSet \ {c} : known'[d] = known[d]
  BY <1>a, <1>b, <1>c DEF FetchTypeOK
<1>e. \/ /\ program = "panel" /\ known'[c] = "yes"
         /\ ask' = <<>> /\ cloud' = c /\ phase' = "password"
      \/ /\ ~(program = "panel" /\ known'[c] = "yes")
         /\ ask' = Tail(ask) /\ UNCHANGED <<cloud, phase>>
  BY DEF AskCloud
<1> HIDE DEF c
<1>1. ScanInv'
  BY ScanSame DEF AskCloud, fetchVars
<1>2. FetchTypeOK'
  <2>1. ask' \in Seq(CloudSet) /\ cloud' \in CloudSet \cup {None} /\ phase' \in FetchPhases
    <3>1. <<>> \in Seq(CloudSet)
      OBVIOUS
    <3> QED  BY <1>b, <1>e, <3>1 DEF FetchTypeOK, FetchPhases
  <2> QED  BY <1>d, <2>1 DEF AskCloud, FetchTypeOK
<1>3. Course'
  BY DEF AskCloud, Course, fetchVars
<1>4. Inquiry'
  <2>1. phase' = "ask" => \A d \in CloudSet : known'[d] # "unasked" \/ ToBeAsked(d)'
    <3> SUFFICES ASSUME phase' = "ask", NEW d \in CloudSet \ {c}, known[d] = "unasked"
                 PROVE  ToBeAsked(d)'
      BY <1>c, <1>d
    <3>1. ToBeAsked(d) /\ ask' = Tail(ask)
      BY <1>e DEF AskCloud, Inquiry
    <3>2. PICK i \in DOMAIN ask : ask[i] = d
      BY <3>1 DEF ToBeAsked
    <3>3. i # 1 /\ i \in 1..Len(ask) /\ ask # <<>>
      BY <3>2 DEF AskCloud, FetchTypeOK, c
    <3>4. i - 1 \in DOMAIN Tail(ask) /\ Tail(ask)[i - 1] = d
      BY <3>2, <3>3 DEF FetchTypeOK
    <3> QED  BY <3>1, <3>4 DEF ToBeAsked
  <2>2. phase' = "ask" /\ program = "panel" => \A d \in CloudSet : known'[d] # "yes"
    BY <1>d, <1>e DEF AskCloud, Inquiry
  <2>3. ASSUME Account \notin hit'
        PROVE  \A d \in CloudSet : known'[d] # "failed" /\ (known'[d] = "no" => d \notin account.known)
    <3>1. lost = {} /\ Account \notin hit
      BY <1>a, <2>3 DEF Hit
    <3> QED  BY <1>c, <1>d, <3>1 DEF Inquiry
  <2>4. phase' \in {"ask", "password"}
    BY <1>e DEF AskCloud
  <2> QED  BY <2>1, <2>2, <2>3, <2>4 DEF AskCloud, Inquiry
<1>5. SentToOne'
  <2>1. sent' = {} /\ phase' \in {"ask", "password"}
    BY <1>e DEF AskCloud, SentToOne
  <2>2. phase' = "password" => cloud' # None /\ known'[cloud'] = "yes"
    BY <1>b, <1>e, CloudNames DEF AskCloud
  <2> QED  BY <2>1, <2>2 DEF SentToOne, Knows
<1>6. Turns'
  BY DEF AskCloud, Turns, fetchVars
<1>7. Sayings'
  BY DEF AskCloud, Sayings, Course, fetchVars
<1>8. RightToken'
  BY DEF AskCloud, RightToken, fetchVars
<1>9. ExitTellsAll'
  BY DEF AskCloud, ExitTellsAll, Course, fetchVars
<1>10. FairVerdicts'
  BY DEF AskCloud, FairVerdicts, Sayings, Hit, None, fetchVars
<1> QED  BY <1>1, <1>2, <1>3, <1>4, <1>5, <1>6, <1>7, <1>8, <1>9, <1>10

LEMMA ChooseCloudKeeps ==
    ASSUME FetchInv, ChooseCloud
    PROVE  FetchInv'
<1> USE DEF FetchInv, talkVars, tokenVars, Over
<1>a. PICK useOther \in BOOLEAN :
         /\ cloud' = Decide(useOther)
         /\ useOther \/ OffersOther
         /\ IF cloud' = None
            THEN Over("1") /\ told' = [told EXCEPT ![Account] = "no cloud has it"]
            ELSE phase' = "password" /\ UNCHANGED <<told, exit>>
  BY DEF ChooseCloud
<1>b. /\ cloud' \in CloudSet \cup {None} /\ (cloud' # None => Knows(cloud'))
      /\ cloud' = None => \A c \in CloudSet : Knows(c) => c \in OthersOffered
  BY <1>a, DecidedIsKnown
<1>1. ScanInv'
  BY ScanSame DEF ChooseCloud, fetchVars
<1>2. FetchTypeOK'
  BY <1>a, <1>b DEF ChooseCloud, FetchTypeOK, FetchPhases
<1>3. Course'
  BY DEF ChooseCloud, Course, fetchVars
<1>4. Inquiry'
  BY DEF ChooseCloud, Inquiry, ToBeAsked, Hit, fetchVars
<1>5. SentToOne'
  <2>1. sent' = {} /\ phase' \in {"over", "password"} /\ (phase' = "password" => cloud' # None)
    BY <1>a DEF ChooseCloud, SentToOne
  <2> QED  BY <1>b, <2>1 DEF ChooseCloud, SentToOne, Knows
<1>6. Turns'
  BY DEF ChooseCloud, Turns, fetchVars
<1>7. Sayings'
  BY DEF ChooseCloud, Sayings, Course, fetchVars
<1>8. RightToken'
  BY DEF ChooseCloud, RightToken, fetchVars
<1>9. ExitTellsAll'
  BY DEF ChooseCloud, ExitTellsAll, Course, fetchVars
<1>10. FairVerdicts'
  <2>1. \A u \in Units : told'[u] = None
    BY <1>a, FetchAssumption DEF ChooseCloud, FetchTypeOK, Sayings
  <2>2. ASSUME told'[Account] = "no cloud has it", Account \notin hit
        PROVE  account.known \subseteq OthersOffered
    <3>1. cloud' = None
      BY <1>a, <2>2 DEF FetchTypeOK, Sayings, ChooseCloud, None
    <3>2. SUFFICES ASSUME NEW c \in CloudSet, c \in account.known PROVE c \in OthersOffered
      BY DEF FetchTypeOK
    <3>3. ~ToBeAsked(c)
      <4>1. ask = <<>>
        BY DEF ChooseCloud
      <4>2. DOMAIN <<>> = {}
        OBVIOUS
      <4> QED  BY <4>1, <4>2 DEF ToBeAsked
    <3>4. known[c] \in {"unasked", "yes", "no", "failed"} /\ known[c] \notin {"unasked", "no", "failed"}
      BY <2>2, <3>2, <3>3 DEF ChooseCloud, FetchTypeOK, Inquiry
    <3> QED  BY <1>b, <3>1, <3>4 DEF Knows
  <2>3. OthersOffered' = OthersOffered /\ UNCHANGED <<account, hit>>
    BY DEF ChooseCloud, OthersOffered, OffersOther, Issuing, Knows
  <2> QED  BY <2>1, <2>2, <2>3 DEF FairVerdicts, None
<1> QED  BY <1>1, <1>2, <1>3, <1>4, <1>5, <1>6, <1>7, <1>8, <1>9, <1>10

LEMMA NobodyKnowsKeeps ==
    ASSUME FetchInv, NobodyKnows
    PROVE  FetchInv'
<1> USE DEF FetchInv, talkVars, tokenVars, Over
<1>1. ScanInv'
  BY ScanSame DEF NobodyKnows, fetchVars
<1>2. FetchTypeOK'
  BY DEF NobodyKnows, FetchTypeOK, FetchPhases, fetchVars
<1>3. Course'
  BY DEF NobodyKnows, Course, fetchVars
<1>4. Inquiry'
  BY DEF NobodyKnows, Inquiry, ToBeAsked, Hit, fetchVars
<1>5. SentToOne'
  BY DEF NobodyKnows, SentToOne, Knows, fetchVars
<1>6. Turns'
  BY DEF NobodyKnows, Turns, fetchVars
<1>7. Sayings'
  BY DEF NobodyKnows, Sayings, Course, fetchVars
<1>8. RightToken'
  BY DEF NobodyKnows, RightToken, fetchVars
<1>9. ExitTellsAll'
  BY DEF NobodyKnows, ExitTellsAll, Course, fetchVars
<1>10. FairVerdicts'
  <2>1. \A u \in Units : told'[u] = told[u] /\ told[u] = None
    BY FetchAssumption DEF NobodyKnows, FetchTypeOK, Sayings
  <2>2. ASSUME told'[Account] = "no cloud has it", Account \notin hit PROVE account.known = {}
    <3>1. \A c \in CloudSet : known[c] = "no"
      <4> SUFFICES ASSUME NEW c \in CloudSet PROVE known[c] = "no"
        OBVIOUS
      <4>1. known[c] \in {"unasked", "yes", "no", "failed"} /\ known[c] # "yes" /\ known[c] # "failed"
        BY <2>2 DEF NobodyKnows, FetchTypeOK, Inquiry
      <4>2. ~ToBeAsked(c)
        <5>1. DOMAIN ask = {}
          <6>1. ask = <<>>
            BY DEF NobodyKnows
          <6>2. DOMAIN <<>> = {}
            OBVIOUS
          <6> QED  BY <6>1, <6>2
        <5> QED  BY <5>1 DEF ToBeAsked
      <4> QED  BY <4>1, <4>2 DEF NobodyKnows, Inquiry
    <3> QED  BY <2>2, <3>1 DEF Inquiry, FetchTypeOK
  <2> QED  BY <2>1, <2>2 DEF NobodyKnows, FairVerdicts, None
<1> QED  BY <1>1, <1>2, <1>3, <1>4, <1>5, <1>6, <1>7, <1>8, <1>9, <1>10

LEMMA SignInKeeps ==
    ASSUME FetchInv, SignIn
    PROVE  FetchInv'
<1> USE DEF FetchInv, talkVars, tokenVars, Over
<1>1. ScanInv'
  BY ScanSame DEF SignIn, fetchVars
<1>2. FetchTypeOK'
  BY DEF SignIn, FetchTypeOK, FetchPhases, fetchVars
<1>3. Course'
  BY DEF SignIn, Course, fetchVars
<1>4. Inquiry'
  BY DEF SignIn, Inquiry, ToBeAsked, Hit, fetchVars
<1>5. SentToOne'
  <2>1. PICK right, lost :
           /\ sent' = sent \cup Login(cloud, account, right, lost).sent
           /\ phase' \in {"password", "token", "trial", "list", "over"}
    <3>1. PICK right \in BOOLEAN, lost \in Losses({Req("route"), Req("login_id"), Req("login")}) :
             LET login == Login(cloud, account, right, lost)
             IN /\ sent' = sent \cup login.sent
                /\ IF login.result.kind = "ok"
                   THEN phase' = CASE program = "panel" -> "token"
                                   [] program = "fetch" /\ cloud = NetHomePlus -> "trial"
                                   [] OTHER -> "list"
                   ELSE IF login.result.code \in {"3101", "3102"} /\ tries > 1
                   THEN UNCHANGED phase
                   ELSE phase' = "over"
      BY DEF SignIn
    <3>2. phase = "password"
      BY DEF SignIn
    <3>3. (CASE program = "panel" -> "token"
             [] program = "fetch" /\ cloud = NetHomePlus -> "trial"
             [] OTHER -> "list") \in {"token", "trial", "list"}
      OBVIOUS
    <3> QED  BY <3>1, <3>2, <3>3
  <2>2. cloud \in CloudSet /\ Knows(cloud) /\ UNCHANGED <<cloud, account, known>>
    BY DEF SignIn, SentToOne, FetchTypeOK
  <2>3. \/ Login(cloud, account, right, lost).sent = {}
        \/ Login(cloud, account, right, lost).sent = {cloud} /\ cloud \in account.known
    BY <2>2, PasswordToOne
  <2>4. sent' = {} \/ (sent' = {cloud} /\ cloud \in account.known)
    BY <2>1, <2>3 DEF SentToOne
  <2> QED  BY <2>1, <2>2, <2>4, CloudNames DEF SentToOne, Knows
<1>6. Turns'
  <2>1. phase' # "check" /\ phase' # "ask" /\ (phase' = "token" => program = "panel") /\ phase = "password"
    BY DEF SignIn
  <2>2. UNCHANGED <<wanted, unfetched, missing, got, program>>
    BY DEF SignIn
  <2> QED  BY <2>1, <2>2 DEF Turns
<1>7. Sayings'
  BY DEF SignIn, Sayings, Course, fetchVars
<1>8. RightToken'
  BY DEF SignIn, RightToken, fetchVars
<1>9. ExitTellsAll'
  BY DEF SignIn, ExitTellsAll, Course, fetchVars
<1>10. FairVerdicts'
  BY DEF SignIn, FairVerdicts, Sayings, Hit, None, fetchVars
<1> QED  BY <1>1, <1>2, <1>3, <1>4, <1>5, <1>6, <1>7, <1>8, <1>9, <1>10

LEMMA TrialKeeps ==
    ASSUME FetchInv, Trial
    PROVE  FetchInv'
<1> USE DEF FetchInv, talkVars, tokenVars, Over
<1>1. ScanInv'
  BY ScanSame DEF Trial, fetchVars
<1>2. FetchTypeOK'
  BY DEF Trial, FetchTypeOK, FetchPhases, fetchVars
<1>3. Course'
  BY DEF Trial, Course, fetchVars
<1>4. Inquiry'
  BY DEF Trial, Inquiry, ToBeAsked, Hit, fetchVars
<1>5. SentToOne'
  BY DEF Trial, SentToOne, Knows, fetchVars
<1>6. Turns'
  BY DEF Trial, Turns, fetchVars
<1>7. Sayings'
  BY DEF Trial, Sayings, Course, fetchVars
<1>8. RightToken'
  BY DEF Trial, RightToken, fetchVars
<1>9. ExitTellsAll'
  BY DEF Trial, ExitTellsAll, Course, fetchVars
<1>10. FairVerdicts'
  BY DEF Trial, FairVerdicts, Sayings, Hit, None, fetchVars
<1> QED  BY <1>1, <1>2, <1>3, <1>4, <1>5, <1>6, <1>7, <1>8, <1>9, <1>10

LEMMA ListKeeps ==
    ASSUME FetchInv, List
    PROVE  FetchInv'
<1> USE DEF FetchInv, talkVars, tokenVars, Over
<1>1. ScanInv'
  BY ScanSame DEF List, fetchVars
<1>2. FetchTypeOK'
  BY DEF List, FetchTypeOK, FetchPhases, fetchVars
<1>3. Course'
  BY DEF List, Course, fetchVars
<1>4. Inquiry'
  BY DEF List, Inquiry, ToBeAsked, Hit, fetchVars
<1>5. SentToOne'
  BY DEF List, SentToOne, Knows, fetchVars
<1>6. Turns'
  BY DEF List, Turns, fetchVars
<1>7. Sayings'
  BY DEF List, Sayings, Course, fetchVars
<1>8. RightToken'
  BY DEF List, RightToken, fetchVars
<1>9. ExitTellsAll'
  BY DEF List, ExitTellsAll, Course, fetchVars
<1>10. FairVerdicts'
  BY DEF List, FairVerdicts, Sayings, Hit, None, fetchVars
<1> QED  BY <1>1, <1>2, <1>3, <1>4, <1>5, <1>6, <1>7, <1>8, <1>9, <1>10

LEMMA FetchTokenKeeps ==
    ASSUME FetchInv, FetchToken
    PROVE  FetchInv'
<1> USE DEF FetchInv, talkVars, tokenVars, Over
<1> DEFINE u == Head(unfetched)
<1>a. /\ phase = "token" /\ unfetched # <<>> /\ u \in Units /\ cloud \in CloudSet
      /\ Tail(unfetched) \in Seq(Units)
  <2>1. phase = "token" /\ unfetched # <<>> /\ unfetched \in Seq(Units)
    BY DEF FetchToken, FetchTypeOK
  <2>2. cloud \in CloudSet
    BY <2>1 DEF FetchTypeOK, SentToOne
  <2> QED  BY <2>1, <2>2
<1>b. \/ /\ listed # {None} /\ u \notin listed
         /\ told' = [told EXCEPT ![u] = "not on this account"]
         /\ missing' = missing \cup {u} /\ unfetched' = Tail(unfetched)
         /\ UNCHANGED <<phase, exit, got, hit>>
      \/ \E lost :
            LET token == Token(cloud, account, u, lost)
            IN /\ Hit(lost, u)
               /\ IF token.kind = "ok"
                  THEN /\ got' = [got EXCEPT ![u] = token.of]
                       /\ phase' = IF program = "panel" THEN "save" ELSE "check"
                       /\ UNCHANGED <<told, missing, unfetched, exit>>
                  ELSE /\ told' = [told EXCEPT ![u] = Verdict(token)]
                       /\ missing' = missing \cup {u} /\ unfetched' = Tail(unfetched)
                       /\ IF program = "panel" THEN Over("502") ELSE UNCHANGED <<phase, exit>>
                       /\ UNCHANGED got
  BY DEF FetchToken
\* It comes to one of two things: the unit has its token, or it is missing.
<1> DEFINE Gets ==
             /\ got' = [got EXCEPT ![u] = u]
             /\ phase' = IF program = "panel" THEN "save" ELSE "check"
             /\ UNCHANGED <<told, missing, unfetched, exit>>
           Misses ==
             /\ \E verdict : /\ told' = [told EXCEPT ![u] = verdict]
                             /\ u \notin hit' =>
                                  /\ (verdict = "not on this account" => account.owner[u] # cloud)
                                  /\ (verdict = "refused" /\ cloud # NetHomePlus => account.owner[u] # cloud)
             /\ missing' = missing \cup {u} /\ unfetched' = Tail(unfetched)
             /\ phase' \in {"token", "over"} /\ (phase' = "token" => exit' = exit)
             /\ (phase' = "over" => exit' = "502" /\ program = "panel") /\ UNCHANGED got
<1>c. hit \subseteq hit' /\ (Gets \/ Misses)
  <2>1. CASE /\ listed # {None} /\ u \notin listed
             /\ told' = [told EXCEPT ![u] = "not on this account"]
             /\ missing' = missing \cup {u} /\ unfetched' = Tail(unfetched)
             /\ UNCHANGED <<phase, exit, got, hit>>
    <3>1. account.owner[u] # cloud
      BY <1>a, <2>1 DEF Sayings, Appliances
    <3> QED  BY <1>a, <2>1, <3>1
  <2>2. ASSUME NEW lost, Hit(lost, u),
               LET token == Token(cloud, account, u, lost)
               IN IF token.kind = "ok"
                  THEN /\ got' = [got EXCEPT ![u] = token.of]
                       /\ phase' = IF program = "panel" THEN "save" ELSE "check"
                       /\ UNCHANGED <<told, missing, unfetched, exit>>
                  ELSE /\ told' = [told EXCEPT ![u] = Verdict(token)]
                       /\ missing' = missing \cup {u} /\ unfetched' = Tail(unfetched)
                       /\ IF program = "panel" THEN Over("502") ELSE UNCHANGED <<phase, exit>>
                       /\ UNCHANGED got
        PROVE  hit \subseteq hit' /\ (Gets \/ Misses)
    <3>1. hit \subseteq hit' /\ (u \notin hit' => lost = {})
      BY <2>2 DEF Hit
    <3>2. CASE Token(cloud, account, u, lost).kind = "ok"
      <4>1. Token(cloud, account, u, lost).of = u
        BY <1>a, <3>2, TokenIsIts
      <4> QED  BY <2>2, <3>1, <3>2, <4>1
    <3>3. CASE Token(cloud, account, u, lost).kind # "ok"
      <4> DEFINE verdict == Verdict(Token(cloud, account, u, lost))
      <4>1. u \notin hit' => /\ (verdict = "not on this account" => account.owner[u] # cloud)
                            /\ (verdict = "refused" /\ cloud # NetHomePlus => account.owner[u] # cloud)
        BY <1>a, <3>1, <3>3, VerdictIsFair
      <4>2. told' = [told EXCEPT ![u] = verdict]
        BY <2>2, <3>3
      <4> HIDE DEF verdict
      <4> QED  BY <1>a, <2>2, <3>1, <3>3, <4>1, <4>2
    <3> QED  BY <3>2, <3>3
  <2> QED  BY <1>b, <2>1, <2>2
<1>d. UNCHANGED <<scanVars, talkVars, program, stored, targets, wanted>>
  BY DEF FetchToken
<1> HIDE DEF u, Gets, Misses
<1>1. ScanInv'
  BY ScanSame DEF FetchToken, fetchVars
<1>2. FetchTypeOK'
  BY <1>a, <1>c, <1>d DEF Gets, Misses, FetchTypeOK, FetchPhases
<1>3. Course'
  BY <1>a, <1>c, <1>d DEF Gets, Misses, Course
<1>4. Inquiry'
  BY <1>a, <1>c, <1>d DEF Gets, Misses, Inquiry, ToBeAsked, Hit
<1>5. SentToOne'
  BY <1>a, <1>c, <1>d DEF Gets, Misses, SentToOne, Knows
<1>6. Turns'
  <2>1. CASE Gets
    <3>1. \A v \in Units : got[v] = v => got'[v] = v
      BY <1>a, <2>1 DEF Gets, FetchTypeOK
    <3>2. \A i \in DOMAIN wanted : wanted[i] \in Units
      BY DEF FetchTypeOK
    <3>3. got'[u] = u
      BY <1>a, <2>1 DEF Gets, FetchTypeOK
    <3> QED  BY <1>a, <1>d, <2>1, <3>1, <3>2, <3>3 DEF Gets, Turns, u
  <2>2. CASE Misses
    <3>1. ASSUME NEW i \in DOMAIN wanted
          PROVE  \/ wanted[i] \in missing' \/ got[wanted[i]] = wanted[i]
                 \/ \E j \in DOMAIN unfetched' : unfetched'[j] = wanted[i]
      <4>1. CASE \E j \in DOMAIN unfetched : unfetched[j] = wanted[i]
        <5>1. wanted[i] = u \/ \E j \in DOMAIN Tail(unfetched) : Tail(unfetched)[j] = wanted[i]
          BY <1>a, <4>1, OthersInTail DEF u, FetchTypeOK
        <5> QED  BY <2>2, <5>1 DEF Misses
      <4> QED  BY <1>a, <2>2, <4>1 DEF Misses, Turns
    <3> QED  BY <1>a, <1>d, <2>2, <3>1 DEF Misses, Turns
  <2> QED  BY <1>c, <2>1, <2>2
<1>7. Sayings'
  <2>1. phase' \in {"token", "check", "save", "over"}
    BY <1>a, <1>c DEF Gets, Misses
  <2>2. told'[Account] = told[Account]
    <3>1. u # Account
      BY <1>a, FetchAssumption
    <3> QED  BY <1>c, <3>1 DEF Gets, Misses, FetchTypeOK
  <2>3. phase' = "save" => program = "panel"
    BY <1>a, <1>c DEF Gets, Misses
  <2> QED  BY <1>a, <1>d, <2>1, <2>2, <2>3 DEF Sayings
<1>8. RightToken'
  <2>1. \A v \in Units : got'[v] \in {None, v}
    <3>1. got' = got \/ got' = [got EXCEPT ![u] = u]
      BY <1>c DEF Gets, Misses
    <3> QED  BY <1>a, <3>1 DEF RightToken, FetchTypeOK
  <2> QED  BY <1>d, <2>1 DEF RightToken
<1>9. ExitTellsAll'
  BY <1>a, <1>c, <1>d DEF Gets, Misses, ExitTellsAll, Course
<1>10. FairVerdicts'
  <2>0. told[Account] = None
    BY <1>a DEF Sayings
  <2>1. CASE Gets
    BY <1>c, <1>d, <2>0, <2>1 DEF Gets, FairVerdicts, None
  <2>2. CASE Misses
    <3>1. PICK verdict : /\ told' = [told EXCEPT ![u] = verdict]
                         /\ u \notin hit' =>
                              /\ (verdict = "not on this account" => account.owner[u] # cloud)
                              /\ (verdict = "refused" /\ cloud # NetHomePlus => account.owner[u] # cloud)
      BY <2>2 DEF Misses
    <3>2. u # Account /\ told'[Account] = told[Account] /\ told'[u] = verdict
          /\ \A v \in Units \ {u} : told'[v] = told[v]
      BY <1>a, <3>1, FetchAssumption DEF FetchTypeOK
    <3> QED  BY <1>c, <1>d, <2>0, <3>1, <3>2 DEF FairVerdicts, None
  <2> QED  BY <1>c, <2>1, <2>2
<1> QED  BY <1>1, <1>2, <1>3, <1>4, <1>5, <1>6, <1>7, <1>8, <1>9, <1>10

LEMMA CheckKeeps ==
    ASSUME FetchInv, Check
    PROVE  FetchInv'
<1> USE DEF FetchInv, talkVars, tokenVars, Over
<1> DEFINE u == Head(unfetched)
<1>a. /\ phase = "check" /\ unfetched # <<>> /\ u \in Units /\ got[u] = u
      /\ Tail(unfetched) \in Seq(Units)
  BY DEF Check, FetchTypeOK, Turns
<1>b. \/ UNCHANGED <<got, missing>>
      \/ got' = [got EXCEPT ![u] = None] /\ missing' = missing \cup {u}
  BY DEF Check
<1>c. unfetched' = Tail(unfetched) /\ phase' = "token" /\ wanted' = wanted /\ stored' = stored
  BY DEF Check
<1> HIDE DEF u
<1>1. ScanInv'
  BY ScanSame DEF Check, fetchVars
<1>2. FetchTypeOK'
  BY <1>a, <1>b, <1>c DEF Check, FetchTypeOK, FetchPhases
<1>3. Course'
  BY DEF Check, Course, fetchVars
<1>4. Inquiry'
  BY DEF Check, Inquiry, ToBeAsked, Hit, fetchVars
<1>5. SentToOne'
  BY DEF Check, SentToOne, Knows, fetchVars
<1>6. Turns'
  <2>1. ASSUME NEW i \in DOMAIN wanted
        PROVE  \/ wanted[i] \in missing' \/ got'[wanted[i]] = wanted[i]
               \/ \E j \in DOMAIN Tail(unfetched) : Tail(unfetched)[j] = wanted[i]
    <3>1. wanted[i] \in Units
      BY DEF FetchTypeOK
    <3>2. CASE \E j \in DOMAIN unfetched : unfetched[j] = wanted[i]
      <4>1. wanted[i] = u \/ \E j \in DOMAIN Tail(unfetched) : Tail(unfetched)[j] = wanted[i]
        BY <1>a, <3>2, OthersInTail DEF u, FetchTypeOK
      <4> QED  BY <1>a, <1>b, <4>1 DEF FetchTypeOK
    <3>3. CASE wanted[i] \in missing
      BY <1>b, <3>3
    <3>4. CASE got[wanted[i]] = wanted[i]
      BY <1>a, <1>b, <3>1, <3>4 DEF FetchTypeOK
    <3> QED  BY <1>a, <3>2, <3>3, <3>4 DEF Turns
  <2> QED  BY <1>c, <2>1 DEF Turns
<1>7. Sayings'
  BY DEF Check, Sayings, Course, fetchVars
<1>8. RightToken'
  BY <1>a, <1>b, <1>c DEF RightToken, FetchTypeOK
<1>9. ExitTellsAll'
  BY DEF Check, ExitTellsAll, Course, fetchVars
<1>10. FairVerdicts'
  BY DEF Check, FairVerdicts, Sayings, Hit, None, fetchVars
<1> QED  BY <1>1, <1>2, <1>3, <1>4, <1>5, <1>6, <1>7, <1>8, <1>9, <1>10

LEMMA NothingGotKeeps ==
    ASSUME FetchInv, NothingGot
    PROVE  FetchInv'
<1> USE DEF FetchInv, talkVars, tokenVars, Over
<1>1. ScanInv'
  BY ScanSame DEF NothingGot, fetchVars
<1>2. FetchTypeOK'
  BY DEF NothingGot, FetchTypeOK, FetchPhases, fetchVars
<1>3. Course'
  BY DEF NothingGot, Course, fetchVars
<1>4. Inquiry'
  BY DEF NothingGot, Inquiry, ToBeAsked, Hit, fetchVars
<1>5. SentToOne'
  BY DEF NothingGot, SentToOne, Knows, fetchVars
<1>6. Turns'
  BY DEF NothingGot, Turns, fetchVars
<1>7. Sayings'
  BY DEF NothingGot, Sayings, Course, fetchVars
<1>8. RightToken'
  BY DEF NothingGot, RightToken, fetchVars
<1>9. ExitTellsAll'
  BY DEF NothingGot, ExitTellsAll, Course, fetchVars
<1>10. FairVerdicts'
  BY DEF NothingGot, FairVerdicts, Sayings, Hit, None, fetchVars
<1> QED  BY <1>1, <1>2, <1>3, <1>4, <1>5, <1>6, <1>7, <1>8, <1>9, <1>10

LEMMA SaveTokensKeeps ==
    ASSUME FetchInv, SaveTokens
    PROVE  FetchInv'
<1> USE DEF FetchInv, talkVars, tokenVars, Over
<1>1. ScanInv'
  BY ScanSame DEF SaveTokens, fetchVars
<1>2. FetchTypeOK'
  BY DEF SaveTokens, FetchTypeOK, FetchPhases, fetchVars
<1>3. Course'
  BY DEF SaveTokens, Course, fetchVars
<1>4. Inquiry'
  BY DEF SaveTokens, Inquiry, ToBeAsked, Hit, fetchVars
<1>5. SentToOne'
  BY DEF SaveTokens, SentToOne, Knows, fetchVars
<1>6. Turns'
  BY DEF SaveTokens, Turns, fetchVars
<1>7. Sayings'
  BY DEF SaveTokens, Sayings, Course, fetchVars
<1>8. RightToken'
  <2>1. \A u \in Units : Saved[u] \in {None, "old", u}
    BY DEF Saved, RightToken
  <2>2. (stored' = Saved \/ stored' = stored) /\ got' = got
    BY DEF SaveTokens
  <2> QED  BY <2>1, <2>2 DEF RightToken
<1>9. ExitTellsAll'
  <2> SUFFICES ASSUME exit' = "0", NEW i \in DOMAIN wanted PROVE stored'[wanted[i]] = wanted[i]
    BY DEF SaveTokens, ExitTellsAll
  <2>1. stored' = Saved /\ program # "panel" /\ missing = {}
    BY DEF SaveTokens
  <2>2. phase = "token" /\ unfetched = <<>>
    BY <2>1 DEF SaveTokens, Course
  <2>3. wanted[i] \in Units /\ wanted[i] # None
    BY FetchAssumption DEF FetchTypeOK
  <2>4. got[wanted[i]] = wanted[i]
    BY <2>1, <2>2 DEF Turns
  <2> QED  BY <2>1, <2>3, <2>4 DEF Saved
<1>10. FairVerdicts'
  BY DEF SaveTokens, FairVerdicts, Sayings, Hit, None, fetchVars
<1> QED  BY <1>1, <1>2, <1>3, <1>4, <1>5, <1>6, <1>7, <1>8, <1>9, <1>10

LEMMA LeaveKeeps ==
    ASSUME FetchInv, Leave
    PROVE  FetchInv'
<1> USE DEF FetchInv, talkVars, tokenVars, Over
<1>1. ScanInv'
  BY ScanSame DEF Leave, fetchVars
<1>2. FetchTypeOK'
  BY DEF Leave, FetchTypeOK, FetchPhases, fetchVars
<1>3. Course'
  BY DEF Leave, Course, fetchVars
<1>4. Inquiry'
  BY DEF Leave, Inquiry, ToBeAsked, Hit, fetchVars
<1>5. SentToOne'
  BY DEF Leave, SentToOne, Knows, fetchVars
<1>6. Turns'
  BY DEF Leave, Turns, fetchVars
<1>7. Sayings'
  BY DEF Leave, Sayings, Course, fetchVars
<1>8. RightToken'
  BY DEF Leave, RightToken, fetchVars
<1>9. ExitTellsAll'
  BY DEF Leave, ExitTellsAll, Course, fetchVars
<1>10. FairVerdicts'
  BY DEF Leave, FairVerdicts, Sayings, Hit, None, fetchVars
<1> QED  BY <1>1, <1>2, <1>3, <1>4, <1>5, <1>6, <1>7, <1>8, <1>9, <1>10

LEMMA EndedKeeps ==
    ASSUME FetchInv, Ended
    PROVE  FetchInv'
<1> USE DEF FetchInv, talkVars, tokenVars, Over
<1>1. ScanInv'
  BY ScanSame DEF Ended, fetchVars
<1>2. FetchTypeOK'
  BY DEF Ended, FetchTypeOK, FetchPhases, fetchVars
<1>3. Course'
  BY DEF Ended, Course, fetchVars
<1>4. Inquiry'
  BY DEF Ended, Inquiry, ToBeAsked, Hit, fetchVars
<1>5. SentToOne'
  BY DEF Ended, SentToOne, Knows, fetchVars
<1>6. Turns'
  BY DEF Ended, Turns, fetchVars
<1>7. Sayings'
  BY DEF Ended, Sayings, Course, fetchVars
<1>8. RightToken'
  BY DEF Ended, RightToken, fetchVars
<1>9. ExitTellsAll'
  BY DEF Ended, ExitTellsAll, Course, fetchVars
<1>10. FairVerdicts'
  BY DEF Ended, FairVerdicts, OthersOffered, OffersOther, Issuing, Knows, Sayings, Hit, None,
     fetchVars
<1> QED  BY <1>1, <1>2, <1>3, <1>4, <1>5, <1>6, <1>7, <1>8, <1>9, <1>10

LEMMA BeginProbeKeeps ==
    ASSUME FetchInv, BeginProbe
    PROVE  FetchInv'
<1> USE DEF FetchInv, talkVars, tokenVars, Over
<1>1. ScanInv'
  <2>1. targets \in Seq(Hosts) /\ <<Head(targets)>> \in Seq(Hosts) /\ <<>> \in Seq(Hosts)
    <3>1. targets \in Seq(Units) /\ targets # <<>> /\ Units \subseteq Hosts
      BY FetchAssumption DEF BeginProbe, FetchTypeOK
    <3>2. Head(targets) \in Hosts
      BY <3>1
    <3> QED  BY <3>1, <3>2
  <2>2. \E hosts \in Seq(Hosts), broadcast \in BOOLEAN : BeginScan(hosts, broadcast)
    BY <2>1 DEF BeginProbe
  <2> QED  BY <2>2, BeginScanInv
<1>2. FetchTypeOK'
  BY DEF BeginProbe, FetchTypeOK, FetchPhases, fetchVars
<1>3. Course'
  BY DEF BeginProbe, Course, fetchVars
<1>4. Inquiry'
  BY DEF BeginProbe, Inquiry, ToBeAsked, Hit, fetchVars
<1>5. SentToOne'
  BY DEF BeginProbe, SentToOne, Knows, fetchVars
<1>6. Turns'
  BY DEF BeginProbe, Turns, fetchVars
<1>7. Sayings'
  BY DEF BeginProbe, Sayings, Course, fetchVars
<1>8. RightToken'
  BY DEF BeginProbe, RightToken, fetchVars
<1>9. ExitTellsAll'
  BY DEF BeginProbe, ExitTellsAll, Course, fetchVars
<1>10. FairVerdicts'
  BY DEF BeginProbe, FairVerdicts, Sayings, Hit, None, fetchVars
<1> QED  BY <1>1, <1>2, <1>3, <1>4, <1>5, <1>6, <1>7, <1>8, <1>9, <1>10

LEMMA ScanningKeeps ==
    ASSUME FetchInv, Scanning
    PROVE  FetchInv'
<1> USE DEF FetchInv, talkVars, tokenVars, Over
<1>1. ScanInv'
  BY ScanStepInv DEF Scanning
<1>2. FetchTypeOK'
  BY DEF Scanning, FetchTypeOK, FetchPhases, fetchVars
<1>3. Course'
  BY DEF Scanning, Course, fetchVars
<1>4. Inquiry'
  BY DEF Scanning, Inquiry, ToBeAsked, Hit, fetchVars
<1>5. SentToOne'
  BY DEF Scanning, SentToOne, Knows, fetchVars
<1>6. Turns'
  BY DEF Scanning, Turns, fetchVars
<1>7. Sayings'
  BY DEF Scanning, Sayings, Course, fetchVars
<1>8. RightToken'
  BY DEF Scanning, RightToken, fetchVars
<1>9. ExitTellsAll'
  BY DEF Scanning, ExitTellsAll, Course, fetchVars
<1>10. FairVerdicts'
  BY DEF Scanning, FairVerdicts, Sayings, Hit, None, fetchVars
<1> QED  BY <1>1, <1>2, <1>3, <1>4, <1>5, <1>6, <1>7, <1>8, <1>9, <1>10

LEMMA ProbedKeeps ==
    ASSUME FetchInv, Probed
    PROVE  FetchInv'
<1> USE DEF FetchInv, talkVars, tokenVars, Over
<1>a. /\ targets # <<>> /\ Head(targets) \in Units /\ Tail(targets) \in Seq(Units)
      /\ phase = "scan" /\ exit = None
  BY DEF Probed, FetchTypeOK, Course
<1>b. /\ targets' = Tail(targets)
      /\ wanted' = wanted \/ wanted' = Append(wanted, Head(targets))
  BY DEF Probed
<1>c. wanted' \in Seq(Units)
  <2>1. \A s \in Seq(Units), x \in Units : Append(s, x) \in Seq(Units)
    OBVIOUS
  <2>2. wanted \in Seq(Units)
    BY DEF FetchTypeOK
  <2> QED  BY <1>a, <1>b, <2>1, <2>2
<1>d. \/ phase' = "probe" /\ targets' # <<>> /\ exit' = exit
      \/ phase' = "over" /\ exit' = "0" /\ wanted' = <<>>
      \/ phase' = "app" /\ exit' = exit
  BY DEF Probed
<1>1. ScanInv'
  BY ForgetInv DEF Probed
<1>2. FetchTypeOK'
  BY <1>a, <1>b, <1>c, <1>d DEF Probed, FetchTypeOK, FetchPhases
<1>3. Course'
  BY DEF Probed, Course, fetchVars
<1>4. Inquiry'
  BY DEF Probed, Inquiry, ToBeAsked, Hit, fetchVars
<1>5. SentToOne'
  BY DEF Probed, SentToOne, Knows, fetchVars
<1>6. Turns'
  BY DEF Probed, Turns, fetchVars
<1>7. Sayings'
  BY DEF Probed, Sayings, Course, fetchVars
<1>8. RightToken'
  BY DEF Probed, RightToken, fetchVars
<1>9. ExitTellsAll'
  BY <1>a, <1>d DEF ExitTellsAll, None
<1>10. FairVerdicts'
  BY DEF Probed, FairVerdicts, Sayings, Hit, None, fetchVars
<1> QED  BY <1>1, <1>2, <1>3, <1>4, <1>5, <1>6, <1>7, <1>8, <1>9, <1>10

LEMMA PanelProbedKeeps ==
    ASSUME FetchInv, PanelProbed
    PROVE  FetchInv'
<1> USE DEF FetchInv, talkVars, tokenVars, Over
<1>a. /\ targets # <<>> /\ Head(targets) \in Units /\ phase = "scan" /\ exit = None
  BY DEF PanelProbed, FetchTypeOK, Course
<1>b. \/ Over("404") /\ UNCHANGED <<wanted, unfetched, account, ask, tries>>
      \/ /\ wanted' = <<Head(targets)>> /\ unfetched' = wanted' /\ phase' = "ask"
         /\ account' \in Accounts /\ ask' = <<SmartHome, Meiju, NetHomePlus>>
         /\ UNCHANGED exit
  BY DEF PanelProbed
<1>1. ScanInv'
  BY ForgetInv DEF PanelProbed
<1>2. FetchTypeOK'
  <2>1. account'.known \subseteq CloudSet
    BY <1>b DEF Accounts, FetchTypeOK
  <2>2. ask' \in Seq(CloudSet)
    <3>1. <<SmartHome, Meiju, NetHomePlus>> \in Seq(CloudSet)
      <4>1. \A a, b, c \in CloudSet : <<a, b, c>> \in Seq(CloudSet)
        OBVIOUS
      <4> QED  BY <4>1 DEF CloudSet
    <3> QED  BY <1>b, <3>1 DEF FetchTypeOK
  <2>3. <<Head(targets)>> \in Seq(Units)
    BY <1>a
  <2>4. <<>> \in Seq(Units)
    OBVIOUS
  <2> QED  BY <1>b, <2>1, <2>2, <2>3, <2>4 DEF PanelProbed, FetchTypeOK, FetchPhases
<1>3. Course'
  BY DEF PanelProbed, Course, fetchVars
<1>4. Inquiry'
  <2>1. \A c \in CloudSet : known[c] = "unasked"
    BY <1>a DEF Inquiry
  <2>2. phase' = "ask" => \A c \in CloudSet : ToBeAsked(c)'
    <3> SUFFICES ASSUME phase' = "ask", NEW c \in CloudSet PROVE ToBeAsked(c)'
      OBVIOUS
    <3>1. ask' = <<SmartHome, Meiju, NetHomePlus>>
      BY <1>b
    <3>2. /\ 1 \in DOMAIN ask' /\ 2 \in DOMAIN ask' /\ 3 \in DOMAIN ask'
          /\ ask'[1] = SmartHome /\ ask'[2] = Meiju /\ ask'[3] = NetHomePlus
      BY <3>1
    <3> QED  BY <3>2, CloudNames DEF ToBeAsked
  <2>3. UNCHANGED <<known, program, hit>> /\ phase' \in {"ask", "over"}
    BY <1>b DEF PanelProbed
  <2> QED  BY <2>1, <2>2, <2>3 DEF Inquiry
<1>5. SentToOne'
  BY DEF PanelProbed, SentToOne, Knows, fetchVars
<1>6. Turns'
  BY DEF PanelProbed, Turns, fetchVars
<1>7. Sayings'
  BY DEF PanelProbed, Sayings, Course, fetchVars
<1>8. RightToken'
  BY DEF PanelProbed, RightToken, fetchVars
<1>9. ExitTellsAll'
  BY <1>a, <1>b DEF ExitTellsAll, None
<1>10. FairVerdicts'
  BY DEF PanelProbed, FairVerdicts, Sayings, Hit, None, fetchVars
<1> QED  BY <1>1, <1>2, <1>3, <1>4, <1>5, <1>6, <1>7, <1>8, <1>9, <1>10
-----------------------------------------------------------------------------
LEMMA InOrderTyped ==
    ASSUME NEW S \in SUBSET Units, NEW t \in InOrder(S)
    PROVE  t \in Seq(Units)
<1>1. PICK n \in 0..Len(UnitSeq) : t \in [1..n -> S]
  BY DEF InOrder
<1>2. n \in Nat
  BY FetchAssumption
<1> QED  BY <1>1, <1>2

LEMMA FetchInitInv ==
    ASSUME FetchInit
    PROVE  FetchInv
<1>1. PICK s \in Starts :
         /\ stored = s.stored
         /\ targets \in CASE program = "pair"  -> {UnitSeq}
                          [] program = "panel" -> {<<Head(UnitSeq)>>}
                          [] s.asked # <<>>    -> {s.asked}
                          [] OTHER -> InOrder({u \in Units : s.stored[u] = None})
  BY DEF FetchInit
<1>2. s.stored \in [Units -> {None, "old"}] /\ s.asked \in Seq(Units)
  BY FetchAssumption
<1>3. targets \in Seq(Units)
  <2>1. UnitSeq \in Seq(Units) /\ <<Head(UnitSeq)>> \in Seq(Units)
    <3>1. UnitSeq \in Seq(Units) /\ UnitSeq # <<>>
      BY FetchAssumption
    <3>2. Head(UnitSeq) \in Units
      BY <3>1
    <3> QED  BY <3>1, <3>2
  <2>2. \/ targets = UnitSeq \/ targets = <<Head(UnitSeq)>> \/ targets = s.asked
        \/ targets \in InOrder({u \in Units : s.stored[u] = None})
    BY <1>1
  <2> QED  BY <1>2, <2>1, <2>2, InOrderTyped
<1>4. ScanInv
  <2>1. NoDeadline \in 0..NoDeadline /\ Nothing \in Parsed
    BY ScanAssumption DEF NoDeadline, Parsed
  <2>2. <<>> \in Seq(Hosts \cup {Broadcast})
    OBVIOUS
  <2>3. ScanTypeOK
    BY <2>1, <2>2 DEF FetchInit, ScanInit, ScanTypeOK
  <2> QED  BY <2>3 DEF FetchInit, ScanInit, ScanInv, InTime, Accounted
<1>5. FetchTypeOK
  <2>1. program \in {"fetch", "panel", "pair"}
    BY FetchAssumption DEF FetchInit
  <2>2. <<>> \in Seq(Units) /\ <<>> \in Seq(CloudSet)
    OBVIOUS
  <2> QED  BY <1>3, <2>1, <2>2 DEF FetchInit, FetchTypeOK, FetchPhases, NoAccount
<1>6. Course /\ Inquiry /\ SentToOne /\ Turns /\ Sayings
  BY DEF FetchInit, Course, Inquiry, SentToOne, Turns, Sayings
<1>7. RightToken
  BY <1>1, <1>2 DEF FetchInit, RightToken
<1>8. ExitTellsAll /\ FairVerdicts
  BY DEF FetchInit, ExitTellsAll, FairVerdicts, None
<1> QED  BY <1>3, <1>4, <1>5, <1>6, <1>7, <1>8 DEF FetchInv

LEMMA FetchInvariant == FetchSpec => []FetchInv
<1>1. FetchInit => FetchInv
  BY FetchInitInv
<1>2. FetchInv /\ [FetchNext]_fetchVars => FetchInv'
  <2> SUFFICES ASSUME FetchInv, [FetchNext]_fetchVars PROVE FetchInv'
    OBVIOUS
  <2>1. CASE UNCHANGED fetchVars
    <3> USE DEF FetchInv, fetchVars, talkVars, tokenVars
    <3>1. ScanInv'
      BY <2>1, ScanSame
    <3>2. FetchTypeOK' /\ Course' /\ SentToOne' /\ Turns' /\ Sayings'
      BY <2>1 DEF FetchTypeOK, Course, SentToOne, Knows, Turns, Sayings
    <3>3. Inquiry' /\ RightToken' /\ ExitTellsAll' /\ FairVerdicts'
      BY <2>1 DEF Inquiry, ToBeAsked, RightToken, ExitTellsAll, FairVerdicts, OthersOffered, OffersOther, Issuing, Knows
    <3> QED  BY <3>1, <3>2, <3>3
  <2>2. CASE FetchNext
    BY <2>2, BeginProbeKeeps, NothingToDoKeeps, ScanningKeeps, ProbedKeeps, PanelProbedKeeps,
       PairReportsKeeps, NameAccountKeeps, AskCloudKeeps, ChooseCloudKeeps, NobodyKnowsKeeps,
       SignInKeeps, TrialKeeps, ListKeeps, FetchTokenKeeps, CheckKeeps, NothingGotKeeps,
       SaveTokensKeeps, LeaveKeeps, EndedKeeps DEF FetchNext
  <2> QED  BY <2>1, <2>2
<1> QED  BY <1>1, <1>2, PTL DEF FetchSpec

\* Whoever answers a hello of a scan is in its report, for any addresses, window
\* and delay that is shorter (scan.rs, scan_targets).
THEOREM WhoAnswersIsReported == FetchSpec => []AnswersReported
<1>1. FetchInv => AnswersReported
  BY DEF FetchInv, ScanInv, Accounted, AnswersReported
<1> QED  BY <1>1, FetchInvariant, PTL

\* The password goes to one cloud that said it has the account, and a token to
\* the unit it is of, for any units, homes and lost requests (fetch.rs, breeze-cloud).
THEOREM SecretsWellPlaced == FetchSpec => []SecretsInPlace
<1>1. FetchInv => SecretsInPlace
  BY DEF FetchInv, SentToOne, SecretsInPlace, PasswordAskedFirst
<1> QED  BY <1>1, FetchInvariant, PTL

\* Exit code 0 means that every unit that was wanted has its own token (fetch.rs, fetch_all).
THEOREM ExitCodeTells == FetchSpec => []ExitTellsAll
<1>1. FetchInv => ExitTellsAll
  BY DEF FetchInv
<1> QED  BY <1>1, FetchInvariant, PTL

\* What the person is told of a unit and of the account is true, unless a request
\* about it was lost (lib.rs, advice; meiju.rs, token).
THEOREM VerdictsAreFair == FetchSpec => []FairVerdicts
<1>1. FetchInv => FairVerdicts
  BY DEF FetchInv
<1> QED  BY <1>1, FetchInvariant, PTL
=============================================================================
