-------------------------------- MODULE Proxy --------------------------------
(***************************************************************************)
(* `breeze-core proxy' and `breeze-core proxy --undo': the wizard that     *)
(* puts a web server in front of Breeze Core, and the journal from which   *)
(* it takes all of that back out (crates/breeze-core/src/cli/proxy.rs).    *)
(*                                                                         *)
(* Two files are written, the site's configuration and breeze-core.env;    *)
(* certbot may add a third.  Each has one of a few contents.  Whether the  *)
(* text of a configuration suits the web server is a matter of Init.       *)
(***************************************************************************)
EXTENDS Naturals, Sequences, SequencesExt

CONSTANTS
    MaxRuns,     \* bound: runs of the wizard
    MaxUndos     \* bound: runs of --undo

ASSUME ProxyAssumption == {MaxRuns, MaxUndos} \subseteq Nat

Kinds == {"nginx", "apache", "caddy"}
Files == {"conf", "le_ssl", "env"}
Sites == {"conf", "le_ssl"}     \* what a2ensite enables, by the file it is in
Contents == {"none", "own", "ours", "tls", "torn"}   \* "tls": after certbot's edits

VARIABLES
    kind,       \* the web server
    suits,      \* our configuration passes its check
    files, backups,   \* what is in each file, and in <file>.before-breeze-proxy
    enabled,    \* the sites a2ensite has enabled
    live,       \* what the web server has loaded
    record,     \* proxy-undo.json; <<>>: there is none
    pc,         \* where the process is; "idle": none runs
    dry,        \* it was started with --dry-run
    steps,      \* Ctx.journal.steps, in memory
    todo,       \* steps that are being reversed
    first, before,      \* history: the files at the beginning, all of it at the last run's
    unrecorded, again,  \* history: a run died with its journal, and another began after
    runs, undos         \* counted for the bounds

machine == <<files, backups, enabled, live, record>>
history == <<first, before, unrecorded, again>>
fixed   == <<kind, suits, dry, runs, undos>>
vars == <<machine, pc, steps, todo, history, fixed>>

Created(f)  == [kind |-> "created", what |-> f]
Replaced(f) == [kind |-> "replaced", what |-> f]
Dropping(f) == [kind |-> "drop", what |-> f]     \* a replaced file is back, its backup still there
Ran(site)   == [kind |-> "ran", what |-> site]
Step == [kind : {"created", "replaced", "drop", "ran"}, what : Files]
Unreadable == << [kind |-> "unreadable", what |-> "all"] >>

Loadable   == [conf |-> files["conf"], le_ssl |-> files["le_ssl"], enabled |-> enabled]
AsItIs     == [files |-> files, enabled |-> enabled, live |-> live]
Passes(c)  == c # "torn" /\ (c = "ours" => suits)
HasBlock   == files["conf"] \in {"ours", "tls"}

TypeOK ==
    /\ kind \in Kinds /\ suits \in BOOLEAN /\ dry \in BOOLEAN
    /\ files \in [Files -> Contents] /\ backups \in [Files -> Contents]
    /\ enabled \subseteq Sites
    /\ (record = Unreadable \/ record \in Seq(Step)) /\ steps \in Seq(Step) /\ todo \in Seq(Step)
    /\ unrecorded \in BOOLEAN /\ again \in BOOLEAN
    /\ runs \in 0..MaxRuns /\ undos \in 0..MaxUndos

\* A site of that name may be there, written and enabled by hand.
Init ==
    /\ kind \in Kinds /\ suits \in BOOLEAN
    /\ files \in {f \in [Files -> {"none", "own"}] : f["le_ssl"] = "none"}
    /\ enabled \in {s \in SUBSET {"conf"} : s # {} => kind = "apache" /\ files["conf"] = "own"}
    /\ live = Loadable
    /\ backups = [f \in Files |-> "none"]
    /\ record = <<>> /\ steps = <<>> /\ todo = <<>>
    /\ pc = "idle" /\ dry = FALSE
    /\ first = files /\ before = AsItIs
    /\ unrecorded = FALSE /\ again = FALSE
    /\ runs = 0 /\ undos = 0
-----------------------------------------------------------------------------
(* The wizard.                                                             *)

Goto(from, to) == pc = from /\ pc' = to
Add(new) == steps' = steps \o new

\* run: refused while there is a journal.
\*   Mutant: it is not.
StartAnyway ==
    /\ pc = "idle" /\ runs < MaxRuns
    /\ pc' = "choose" /\ runs' = runs + 1
    /\ dry' \in BOOLEAN
    /\ before' = IF dry' THEN before ELSE AsItIs
    /\ unrecorded' = (unrecorded /\ dry') /\ again' = (again \/ (unrecorded /\ ~dry'))
    /\ UNCHANGED <<machine, steps, todo, first, kind, suits, undos>>
Start ==
    /\ pc = "idle" /\ runs < MaxRuns /\ record = <<>>
    /\ pc' = "choose" /\ runs' = runs + 1
    /\ dry' \in BOOLEAN
    /\ before' = IF dry' THEN before ELSE AsItIs
    /\ unrecorded' = (unrecorded /\ dry') /\ again' = (again \/ (unrecorded /\ ~dry'))
    /\ UNCHANGED <<machine, steps, todo, first, kind, suits, undos>>

\* choose_server, with a package installed or not, and ask_domain, dns: the
\* person may leave.
ChooseServer ==
    /\ Goto("choose", "name") \/ Goto("choose", "idle")
    /\ UNCHANGED <<machine, steps, todo, history, fixed>>
AskName ==
    /\ Goto("name", "configure") \/ Goto("name", "idle")
    /\ UNCHANGED <<machine, steps, todo, history, fixed>>

\* write_file, its first half: a backup, and the step in the journal.
BackUp(f, from, to) ==
    /\ Goto(from, to)
    /\ IF dry THEN UNCHANGED <<backups, steps>>
       ELSE IF files[f] = "none" THEN Add(<< Created(f) >>) /\ UNCHANGED backups
       ELSE Add(<< Replaced(f) >>) /\ backups' = [backups EXCEPT ![f] = files[f]]
    /\ UNCHANGED <<files, enabled, live, record, todo, history, fixed>>

\* Its second half, which may fail on the way.
Put(f, from, to) ==
    /\ \/ /\ Goto(from, to)
          /\ files' = IF dry THEN files ELSE [files EXCEPT ![f] = "ours"]
          /\ UNCHANGED <<steps, unrecorded>>
       \/ /\ ~dry /\ Goto(from, "idle")
          /\ files' = [files EXCEPT ![f] = "torn"]
          /\ steps' = <<>> /\ unrecorded' = TRUE
    /\ UNCHANGED <<backups, enabled, live, record, todo, first, before, again, fixed>>

\* configure: the person agrees to the text, which is added to a Caddyfile once.
Configure ==
    /\ kind = "caddy" => ~HasBlock
    /\ BackUp("conf", "configure", "put_conf")
DeclineConfiguration ==
    /\ Goto("configure", "idle")
    /\ UNCHANGED <<machine, steps, todo, history, fixed>>
PutConf == Put("conf", "put_conf", "enable")

\* a2enmod, which nothing reverses, and a2ensite, which a2dissite does.
Enable ==
    /\ Goto("enable", "validate")
    /\ IF kind = "apache" THEN Add(<< Ran("conf") >>) ELSE UNCHANGED steps
    /\ enabled' = IF kind = "apache" /\ ~dry THEN enabled \cup {"conf"} ELSE enabled
    /\ UNCHANGED <<files, backups, live, record, todo, history, fixed>>

Validate ==
    /\ IF dry \/ Passes(files["conf"])
       THEN Goto("validate", "reload") /\ UNCHANGED <<steps, todo>>
       ELSE Goto("validate", "rollback") /\ todo' = Reverse(steps) /\ steps' = <<>>
    /\ UNCHANGED <<machine, history, fixed>>

LoadedAt(from, to) ==
    /\ Goto(from, to)
    /\ live' = IF dry THEN live ELSE Loadable
    /\ UNCHANGED <<files, backups, enabled, record, steps, todo, history, fixed>>
Reload == LoadedAt("reload", "certificate")

\* certificate: Caddy gets its own; for the others the person may skip it, and
\* certbot may fail.
NoCertificate ==
    /\ Goto("certificate", "behind")
    /\ UNCHANGED <<machine, steps, todo, history, fixed>>
CertbotNginx ==
    /\ kind = "nginx" /\ ~dry /\ Goto("certificate", "behind")
    /\ files' = [files EXCEPT !["conf"] = "tls"]
    /\ live' = [live EXCEPT !.conf = "tls"]
    /\ UNCHANGED <<backups, enabled, record, steps, todo, history, fixed>>
\* The HTTPS half is a file of its own, which certbot enables.
\*   Mutant: what certbot made is left to certbot.
CertbotAlone ==
    /\ kind = "apache" /\ ~dry /\ Goto("certificate", "behind")
    /\ files' = [files EXCEPT !["le_ssl"] = "tls"] /\ enabled' = enabled \cup {"le_ssl"}
    /\ live' = [Loadable EXCEPT !.le_ssl = "tls", !.enabled = enabled \cup {"le_ssl"}]
    /\ UNCHANGED <<backups, record, steps, todo, history, fixed>>
CertbotApache ==
    /\ kind = "apache" /\ ~dry /\ Goto("certificate", "behind")
    /\ files' = [files EXCEPT !["le_ssl"] = "tls"] /\ enabled' = enabled \cup {"le_ssl"}
    /\ live' = [Loadable EXCEPT !.le_ssl = "tls", !.enabled = enabled \cup {"le_ssl"}]
    /\ IF files["le_ssl"] = "none" THEN Add(<< Created("le_ssl"), Ran("le_ssl") >>)
                                   ELSE UNCHANGED steps
    /\ UNCHANGED <<backups, record, todo, history, fixed>>

\* behind_proxy: the person may leave breeze-core.env as it is.
Behind == BackUp("env", "behind", "put_env")
StayInFront ==
    /\ Goto("behind", "save")
    /\ UNCHANGED <<machine, steps, todo, history, fixed>>
PutEnv == Put("env", "put_env", "save")

\* save_journal, which may fail on the way.
Save ==
    /\ Goto("save", "idle")
    /\ IF dry \/ steps = <<>> THEN UNCHANGED <<record, unrecorded>>
       ELSE \/ record' = steps /\ UNCHANGED unrecorded
            \/ record' = Unreadable /\ unrecorded' = TRUE
    /\ steps' = <<>>
    /\ UNCHANGED <<files, backups, enabled, live, todo, first, before, again, fixed>>
-----------------------------------------------------------------------------
(* The way back.                                                           *)

\* undo, of a journal that can be read.
StartUndo ==
    /\ pc = "idle" /\ undos < MaxUndos /\ record \notin {<<>>, Unreadable}
    /\ pc' = "undo" /\ undos' = undos + 1
    /\ dry' \in BOOLEAN
    /\ todo' = Reverse(record)
    /\ UNCHANGED <<machine, steps, history, kind, suits, runs>>

\* reverse: one step.  A backup is copied back, and only then removed; without
\* one there is no going on.
RemoveFile(f) ==
    /\ files' = IF dry THEN files ELSE [files EXCEPT ![f] = "none"]
    /\ todo' = Tail(todo)
    /\ UNCHANGED <<backups, enabled>>
Restore(f) ==
    /\ dry \/ backups[f] # "none"
    /\ files' = IF dry THEN files ELSE [files EXCEPT ![f] = backups[f]]
    /\ todo' = IF dry THEN Tail(todo) ELSE << Dropping(f) >> \o Tail(todo)
    /\ UNCHANGED <<backups, enabled>>
DropBackup(f) ==
    /\ backups' = [backups EXCEPT ![f] = "none"]
    /\ todo' = Tail(todo)
    /\ UNCHANGED <<files, enabled>>
Disable(site) ==
    /\ enabled' = IF dry THEN enabled ELSE enabled \ {site}
    /\ todo' = Tail(todo)
    /\ UNCHANGED <<files, backups>>
ReverseStep ==
    /\ pc \in {"undo", "rollback"} /\ todo # <<>>
    /\ LET s == Head(todo) IN
          \/ s.kind = "created"  /\ RemoveFile(s.what)
          \/ s.kind = "replaced" /\ Restore(s.what)
          \/ s.kind = "drop"     /\ DropBackup(s.what)
          \/ s.kind = "ran"      /\ Disable(s.what)
    /\ UNCHANGED <<live, record, pc, steps, history, fixed>>

\* A run whose configuration did not pass has nothing to record any more.
RolledBack ==
    /\ Goto("rollback", "idle") /\ todo = <<>>
    /\ UNCHANGED <<machine, steps, todo, history, fixed>>

ValidateBack ==
    /\ todo = <<>>
    /\ Goto("undo", IF dry \/ Passes(files["conf"]) THEN "reload_back" ELSE "forget")
    /\ UNCHANGED <<machine, steps, todo, history, fixed>>
ReloadBack == LoadedAt("reload_back", "forget")
Forget ==
    /\ Goto("forget", "idle")
    /\ record' = IF dry THEN record ELSE <<>>
    /\ UNCHANGED <<files, backups, enabled, live, steps, todo, history, fixed>>
-----------------------------------------------------------------------------
\* A command that is required fails, or one cannot be started; a file cannot be
\* copied or removed; the terminal goes, or the process is killed: it ends where
\* it is, and what it had in memory is gone.
Stop ==
    /\ pc # "idle" /\ pc' = "idle"
    /\ steps' = <<>> /\ todo' = <<>>
    /\ unrecorded' = (unrecorded \/ (~dry /\ (steps # <<>> \/ (pc = "rollback" /\ todo # <<>>))))
    /\ UNCHANGED <<machine, first, before, again, fixed>>
\* The same, while a backup is being copied back.
StopTorn ==
    /\ pc \in {"undo", "rollback"} /\ todo # <<>> /\ ~dry
    /\ Head(todo).kind = "replaced" /\ backups[Head(todo).what] # "none"
    /\ pc' = "idle" /\ steps' = <<>> /\ todo' = <<>>
    /\ files' = [files EXCEPT ![Head(todo).what] = "torn"]
    /\ unrecorded' = (unrecorded \/ pc = "rollback")
    /\ UNCHANGED <<backups, enabled, live, record, first, before, again, fixed>>

\* The end of what the bounds allow.
Rest ==
    /\ pc = "idle"
    /\ runs = MaxRuns \/ record # <<>>
    /\ undos = MaxUndos \/ record \in {<<>>, Unreadable}
    /\ UNCHANGED vars

Next ==
    \/ Start \/ ChooseServer \/ AskName
    \/ Configure \/ DeclineConfiguration \/ PutConf \/ Enable \/ Validate \/ Reload
    \/ NoCertificate \/ CertbotNginx \/ CertbotApache
    \/ Behind \/ StayInFront \/ PutEnv \/ Save
    \/ StartUndo \/ ReverseStep \/ RolledBack \/ ValidateBack \/ ReloadBack \/ Forget
    \/ Stop \/ StopTorn \/ Rest

Spec == Init /\ [][Next]_vars
-----------------------------------------------------------------------------
(* Properties.                                                             *)

\* When no wizard is at work and nothing is recorded, be it after an undo, at
\* whichever attempt, or after a configuration that did not pass, the machine is
\* as it was before the last run: no file of ours is left, none is missing, no
\* site of ours is on, and the web server serves none of it.  A run that died
\* with changes in its memory alone is the exception; and a site enabled by hand
\* before a2ensite was run on it may be off (proxy.rs:1073).  What does not pass
\* is not loaded, though it was there before.
PutBack ==
    pc = "idle" /\ record = <<>> /\ ~unrecorded =>
        /\ files = before.files
        /\ enabled \subseteq before.enabled
        /\ Passes(files["conf"]) => live \in {Loadable, before.live}

\* Whatever fails, and whenever: a file the person had is in its place or in its
\* backup, unless a second run backs up what an unrecorded one has left
\* (write_file, proxy.rs:1145, and reverse).
OriginalKept ==
    ~again => \A f \in Files :
        first[f] = "own" => files[f] = "own" \/ backups[f] = "own"

\* "Checked before anything is reloaded: a broken file never goes live"
\* (proxy.rs:657), on the way in and on the way back.
BrokenNeverLive == Passes(live.conf)

\* "`--undo' reads that record and puts everything back as it was" (the wiki's
\* page on reverse proxies): it can be run until it has, that is, each backup
\* the journal names is there.  It is not: an undo that stops halfway has
\* removed the backups of what it restored, and the next one stops at the first.
UndoCanBeRepeated ==
    pc = "idle" /\ record \notin {<<>>, Unreadable} =>
        \A i \in DOMAIN record : record[i].kind = "replaced" => backups[record[i].what] # "none"
=============================================================================
