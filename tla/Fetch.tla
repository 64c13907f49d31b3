--------------------------------- MODULE Fetch ---------------------------------
(***************************************************************************)
(* Getting a V3 unit's token from the account it is paired with.  Three     *)
(* programs find units by the scan of Scan and two of them then talk to the *)
(* clouds of Clouds: `breeze-core fetch', a conversation with a person       *)
(* (cli/fetch.rs); the panel's add-unit form, with nobody to talk to          *)
(* (config_routes.rs, fetch_token_any); `breeze-core pair' only scans.       *)
(***************************************************************************)
EXTENDS Scan, Clouds

CONSTANTS
    Programs,        \* of {"fetch", "panel", "pair"}
    UnitSeq,         \* the units in the order of config.json
    Starts,          \* what config.json holds and which units are named: [stored, asked], each named once
    PasswordTries,   \* PASSWORD_TRIES
    MaxFaults        \* bound: requests of one call that fail, and what all of a run are about

\* Words that are not ids of units.
None     == "none"
Account  == "account"

ASSUME FetchAssumption ==
    /\ Units \subseteq Hosts /\ {None, Account} \cap Units = {}
    /\ Programs \subseteq {"fetch", "panel", "pair"} /\ UnitSeq \in Seq(Units) \ {<<>>}
    /\ Starts \subseteq [stored : [Units -> {None, "old"}], asked : Seq(Units)]

VARIABLES
    program, phase,
    stored,          \* config.json: each unit's token
    targets,         \* units still to be probed
    wanted,          \* units to fetch for
    choice, account, \* the app and the account the person names
    ask,             \* clouds still to be asked about the account
    known,           \* what they said
    cloud,           \* the one signed in to
    tries,           \* passwords that may still be typed
    listed,          \* the units of the account, if the cloud lists them
    unfetched,            \* wanted units still to be fetched for
    got,             \* tokens to be saved
    missing,         \* wanted units that stay without one
    exit,            \* how the program ended
    sent,            \* history: clouds the password was sent to
    told,            \* history: what the person was told of each unit, and of the account
    hit              \* history: what a failed request was about

talkVars == <<choice, account, ask, known, cloud, tries, listed, sent>>
tokenVars == <<unfetched, got, missing, told>>
fetchVars == <<scanVars, talkVars, tokenVars, program, phase, stored, targets, wanted, exit, hit>>

NotSure  == "not sure"
NoAccount == [known |-> {}, owner |-> [u \in Units |-> Elsewhere], quirk |-> "none"]

\* The units of S as config.json lists them: of its sequences, the one in that order.
InOrder(S) ==
    {t \in UNION {[1..n -> S] : n \in 0..Len(UnitSeq)} :
        /\ {t[i] : i \in DOMAIN t} = S
        /\ \A i, j \in DOMAIN t : i < j =>
              \E k, l \in DOMAIN UnitSeq : k < l /\ UnitSeq[k] = t[i] /\ UnitSeq[l] = t[j]}

FetchInit ==
    /\ ScanInit
    /\ program \in Programs /\ phase = "probe"
    /\ \E s \in Starts :
          /\ stored = s.stored
          \* targets: the units named, or those without a token
          /\ targets \in CASE program = "pair"  -> {UnitSeq}
                           [] program = "panel" -> {<<Head(UnitSeq)>>}
                           [] s.asked # <<>>    -> {s.asked}
                           [] OTHER -> InOrder({u \in Units : s.stored[u] = None})
    /\ wanted = <<>>
    /\ choice = NotSure /\ account = NoAccount /\ ask = <<>> /\ known = [c \in CloudSet |-> "unasked"]
    /\ cloud = None /\ tries = 0 /\ listed = {None} /\ unfetched = <<>>
    /\ got = [u \in Units |-> None] /\ missing = {} /\ exit = None
    /\ sent = {} /\ told = [x \in Units \cup {Account} |-> None] /\ hit = {}

Over(how) == phase' = "over" /\ exit' = how

\* The requests of one call that fail, and what they are about.
Losses(requests) ==
    {lost \in SUBSET requests : Cardinality(lost) + Cardinality(hit) <= MaxFaults}
Hit(lost, about) == hit' = IF lost = {} THEN hit ELSE hit \cup {about}
-----------------------------------------------------------------------------
(* Which units.                                                             *)

\* probe, add_unit: a sweep of one address; pair: of all, and a broadcast, or of
\* none if it does not know its own address.
BeginProbe ==
    /\ phase = "probe" /\ targets # <<>>
    /\ IF program = "pair"
       THEN \E hosts \in {<<>>, targets} : BeginScan(hosts, TRUE)
       ELSE BeginScan(<<Head(targets)>>, FALSE)
    /\ phase' = "scan"
    /\ UNCHANGED <<talkVars, tokenVars, program, stored, targets, wanted, exit, hit>>
NothingToDo ==
    /\ phase = "probe" /\ targets = <<>>     \* every unit has its token
    /\ Over("0")
    /\ UNCHANGED <<scanVars, talkVars, tokenVars, program, stored, targets, wanted, hit>>
Scanning ==
    /\ phase = "scan" /\ (ScanStep \/ EndScan)
    /\ UNCHANGED <<talkVars, tokenVars, program, phase, stored, targets, wanted, exit, hit>>

ForgetScan == seen' = [h \in Hosts |-> Nothing] /\ unparseable' = {} /\ answered' = {}
          /\ sendingDone' = FALSE /\ deadline' = NoDeadline /\ UNCHANGED <<scanning, probes, wire>>

\* The unit is wanted if it is a V3 one, or does not answer; another unit there,
\* and one that needs no token, is passed over.
Wanted(answer) == answer = Nothing \/ (answer.expected /\ answer.version = "V3")
Probed ==
    /\ program = "fetch" /\ phase = "scan" /\ ~scanning
    /\ LET u == Head(targets)
       IN wanted' = IF Wanted(seen[u]) THEN Append(wanted, u) ELSE wanted
    /\ targets' = Tail(targets) /\ ForgetScan
    /\ IF targets' # <<>> THEN phase' = "probe" /\ UNCHANGED exit
       ELSE IF wanted' = <<>> THEN Over("0")          \* "Nothing here needs a token."
       ELSE phase' = "app" /\ UNCHANGED exit
    /\ UNCHANGED <<talkVars, tokenVars, program, stored, hit>>

\* add_unit: a unit answered, and an account came with the request; 404 if none did.
PanelProbed ==
    /\ program = "panel" /\ phase = "scan" /\ ~scanning
    /\ ForgetScan /\ targets' = <<>>
    /\ IF seen[Head(targets)] = Nothing
       THEN Over("404") /\ UNCHANGED <<wanted, unfetched, account, ask, tries>>
       ELSE /\ wanted' = <<Head(targets)>> /\ unfetched' = wanted' /\ phase' = "ask" /\ tries' = 1
            /\ account' \in Accounts /\ ask' = <<SmartHome, Meiju, NetHomePlus>>
            /\ UNCHANGED exit
    /\ UNCHANGED <<choice, known, cloud, listed, sent, got, missing, told, program, stored, hit>>
PairReports ==
    /\ program = "pair" /\ phase = "scan" /\ ~scanning
    /\ Over("0")
    /\ UNCHANGED <<scanVars, talkVars, tokenVars, program, stored, targets, wanted, hit>>
-----------------------------------------------------------------------------
(* Which app, which account, which cloud.                                   *)

ChosenFirst(app) ==
    CASE app = NetHomePlus -> <<NetHomePlus, SmartHome, Meiju>>
      [] app = Meiju       -> <<Meiju, SmartHome, NetHomePlus>>
      [] OTHER             -> <<SmartHome, NetHomePlus, Meiju>>
\* Options, ask_app, the account; who_knows asks the chosen app's cloud first.
NameAccount ==
    /\ phase = "app"
    /\ choice' \in CloudSet \cup {NotSure} /\ account' \in Accounts
    /\ tries' \in {1, PasswordTries}            \* one, if it comes on standard input
    /\ ask' = ChosenFirst(choice')
    /\ phase' = "ask"
    /\ UNCHANGED <<scanVars, known, cloud, listed, sent, tokenVars, program, stored, targets, wanted, exit, hit>>

\* who_knows, and the loop of fetch_token_any, which stops at the first that does.
AskCloud ==
    /\ phase = "ask" /\ ask # <<>>
    /\ \E lost \in Losses({Req("route"), Req("login_id")}) :
          /\ known' = [known EXCEPT ![Head(ask)] = AccountKnown(Head(ask), account, lost)]
          /\ Hit(lost, Account)
    /\ IF program = "panel" /\ known'[Head(ask)] = "yes"
       THEN ask' = <<>> /\ cloud' = Head(ask) /\ phase' = "password"
       ELSE ask' = Tail(ask) /\ UNCHANGED <<cloud, phase>>
    /\ UNCHANGED <<scanVars, choice, account, tries, listed, sent, tokenVars,
                   program, stored, targets, wanted, exit>>

Knows(c) == known[c] = "yes"
Issuing == IF Knows(SmartHome) THEN SmartHome ELSE IF Knows(Meiju) THEN Meiju ELSE None
OldOne  == IF Knows(NetHomePlus) THEN NetHomePlus ELSE None
OffersOther == choice = NetHomePlus /\ Issuing # None
OthersOffered == IF OffersOther THEN {SmartHome, Meiju} ELSE {}
\* decide: the cloud to sign in to, None if there is none.
\*   Mutant: the app that was chosen.
DecideAsChosen(useOther) == IF choice = NotSure THEN Issuing ELSE choice
Decide(useOther) ==
    CASE OffersOther /\ useOther -> Issuing
      [] choice = NetHomePlus /\ ~(OffersOther /\ useOther) -> OldOne
      [] choice \in {SmartHome, Meiju} /\ Knows(choice) -> choice
      [] OTHER -> IF Issuing # None THEN Issuing ELSE OldOne

\* "Use ... instead?" is asked where another cloud than the chosen NetHome Plus has the
\* account.  With no cloud left "None of them has that account" is said, whatever the answer.
ChooseCloud ==
    /\ program = "fetch" /\ phase = "ask" /\ ask = <<>>
    /\ \E useOther \in BOOLEAN :
          /\ useOther \/ OffersOther
          /\ cloud' = Decide(useOther)
          /\ IF cloud' = None
             THEN Over("1") /\ told' = [told EXCEPT ![Account] = "no cloud has it"]
             ELSE phase' = "password" /\ UNCHANGED <<told, exit>>
    /\ UNCHANGED <<scanVars, choice, account, ask, known, tries, listed, sent, unfetched, got, missing,
                   program, stored, targets, wanted, hit>>
\* The last error, or that nobody has it.
NobodyKnows ==
    /\ program = "panel" /\ phase = "ask" /\ ask = <<>>
    /\ Over("502")
    /\ told' = [told EXCEPT ![Account] =
                   IF \E c \in CloudSet : known[c] = "failed" THEN "not reached" ELSE "no cloud has it"]
    /\ UNCHANGED <<scanVars, talkVars, unfetched, got, missing, program, stored, targets, wanted, hit>>

\* password, sign_in: a password that is not accepted may be typed again.
SignIn ==
    /\ phase = "password"
    /\ \E right \in BOOLEAN, lost \in Losses({Req("route"), Req("login_id"), Req("login")}) :
          LET login == Login(cloud, account, right, lost)
          IN /\ sent' = sent \cup login.sent
             /\ Hit(lost, Account)
             /\ IF login.result.kind = "ok"
                THEN /\ phase' = CASE program = "panel" -> "token"
                                   [] program = "fetch" /\ cloud = NetHomePlus -> "trial"
                                   [] OTHER -> "list"
                     /\ UNCHANGED <<exit, tries>>
                ELSE IF login.result.code \in {"3101", "3102"} /\ tries > 1
                THEN tries' = tries - 1 /\ UNCHANGED <<phase, exit>>
                ELSE Over(IF program = "panel" THEN "502" ELSE "1") /\ UNCHANGED tries
    /\ UNCHANGED <<scanVars, choice, account, ask, known, cloud, listed, tokenVars,
                   program, stored, targets, wanted>>
-----------------------------------------------------------------------------
(* The tokens.                                                              *)

\* nethome: one try, in case it issues tokens again; else how to move the unit.
Trial ==
    /\ phase = "trial"
    /\ \E lost \in Losses(TokenRequests) :
          /\ Hit(lost, Head(wanted))
          /\ IF Token(cloud, account, Head(wanted), lost).kind = "ok"
             THEN phase' = "list" /\ UNCHANGED exit
             ELSE Over("1")
    /\ UNCHANGED <<scanVars, talkVars, tokenVars, program, stored, targets, wanted>>
\* fetch_all: the account's own list, if there is one.
List ==
    /\ phase = "list"
    /\ \E lost \in Losses({r \in Requests : r[1] \in {"list", "homes"}}) :
          /\ Hit(lost, "list")
          /\ listed' = IF HasList(cloud, lost) THEN Appliances(cloud, account) ELSE {None}
    /\ unfetched' = wanted /\ phase' = "token"
    /\ UNCHANGED <<scanVars, choice, account, ask, known, cloud, tries, sent, got, missing, told,
                   program, stored, targets, wanted, exit>>

\* What the person is told of a unit that has none: advice() of the error.
Verdict(result) ==
    CASE result.kind = "unread" -> "not reached"
      [] result.kind = "no token" \/ result.code = "3201" -> "not on this account"
      [] OTHER -> "refused"
FetchToken ==
    /\ phase = "token" /\ unfetched # <<>>
    /\ LET u == Head(unfetched) IN
       \/ /\ listed # {None} /\ u \notin listed
          /\ told' = [told EXCEPT ![u] = "not on this account"]
          /\ missing' = missing \cup {u} /\ unfetched' = Tail(unfetched)
          /\ UNCHANGED <<phase, exit, got, hit>>
       \/ /\ listed = {None} \/ u \in listed
          /\ \E lost \in Losses(TokenRequests) :
                LET token == Token(cloud, account, u, lost)
                IN /\ Hit(lost, u)
                   /\ IF token.kind = "ok"
                      THEN /\ got' = [got EXCEPT ![u] = token.of]
                           /\ phase' = IF program = "panel" THEN "save" ELSE "check"
                           /\ UNCHANGED <<told, missing, unfetched, exit>>
                      ELSE /\ told' = [told EXCEPT ![u] = Verdict(token)]
                           /\ missing' = missing \cup {u} /\ unfetched' = Tail(unfetched)
                           /\ IF program = "panel" THEN Over("502") ELSE UNCHANGED <<phase, exit>>
                           /\ UNCHANGED got
    /\ UNCHANGED <<scanVars, talkVars, program, stored, targets, wanted>>

\* check: the unit itself accepts only its own token, and only if it is there and
\* has not been paired again; the person may keep one it did not accept.
\*   Mutant: a unit whose token is not kept is not missing.
CheckForgets ==
    /\ phase = "check"
    /\ \E accepts, anyway \in BOOLEAN :
          /\ accepts => got[Head(unfetched)] = Head(unfetched)
          /\ got' = IF accepts \/ anyway THEN got ELSE [got EXCEPT ![Head(unfetched)] = None]
    /\ unfetched' = Tail(unfetched) /\ phase' = "token"
    /\ UNCHANGED <<scanVars, talkVars, told, missing, program, stored, targets, wanted, exit, hit>>
Check ==
    /\ phase = "check"
    /\ \E accepts, anyway \in BOOLEAN :
          /\ accepts => got[Head(unfetched)] = Head(unfetched)
          /\ IF accepts \/ anyway
             THEN UNCHANGED <<got, missing>>
             ELSE got' = [got EXCEPT ![Head(unfetched)] = None] /\ missing' = missing \cup {Head(unfetched)}
    /\ unfetched' = Tail(unfetched) /\ phase' = "token"
    /\ UNCHANGED <<scanVars, talkVars, told, program, stored, targets, wanted, exit, hit>>

Saved == [u \in Units |-> IF got[u] # None THEN got[u] ELSE stored[u]]
\* The end of fetch_all, save: a backup, then the file; either may fail.
NothingGot ==
    /\ program = "fetch" /\ phase = "token" /\ unfetched = <<>> /\ \A u \in Units : got[u] = None
    /\ Over("1")
    /\ UNCHANGED <<scanVars, talkVars, tokenVars, program, stored, targets, wanted, hit>>
SaveTokens ==
    /\ \/ program = "fetch" /\ phase = "token" /\ unfetched = <<>> /\ \E u \in Units : got[u] # None
       \/ phase = "save"                      \* the panel's: add_or_update_unit, persist
    /\ \/ /\ stored' = Saved
          /\ Over(IF program = "panel" THEN "201" ELSE IF missing = {} THEN "0" ELSE "1")
       \/ Over(IF program = "panel" THEN "500" ELSE "error") /\ UNCHANGED stored
    /\ UNCHANGED <<scanVars, talkVars, tokenVars, program, targets, wanted, hit>>

\* Every question may be broken off: the end of the input, an interrupt.
Leave ==
    /\ program = "fetch" /\ phase \in {"app", "password", "check"}
    /\ Over("error")
    /\ UNCHANGED <<scanVars, talkVars, tokenVars, program, stored, targets, wanted, hit>>
Ended == phase = "over" /\ UNCHANGED fetchVars

FetchNext ==
    \/ BeginProbe \/ NothingToDo \/ Scanning \/ Probed \/ PanelProbed \/ PairReports
    \/ NameAccount \/ AskCloud \/ ChooseCloud \/ NobodyKnows \/ SignIn
    \/ Trial \/ List \/ FetchToken \/ Check \/ NothingGot \/ SaveTokens \/ Leave \/ Ended
FetchSpec == FetchInit /\ [][FetchNext]_fetchVars
-----------------------------------------------------------------------------
\* fetch.rs:13, lib.rs:35: "The password goes only to a cloud that has the
\* account", which it said in this run, and to no other in case that one fails.
PasswordAskedFirst ==
    \A c \in sent : c \in account.known /\ Knows(c) /\ sent = {c}

\* pick_token, "the first would be the wrong unit's credentials": what is kept
\* and what is saved for a unit is its own token, though the cloud lists others'
\* and the person may keep one that the unit did not accept.
RightToken ==
    \A u \in Units : got[u] \in {None, u} /\ stored[u] \in {None, "old", u}

\* Both: every secret goes where it belongs, the person's password to the cloud that
\* has the account, a unit's token to that unit's entry.
SecretsInPlace == PasswordAskedFirst /\ RightToken

\* Exit code 0 after a conversation: every unit that was to be fetched for (a V3 one, or
\* one that did not answer) has its own token, new, in config.json, and none was left out.
ExitTellsAll ==
    exit = "0" => \A i \in DOMAIN wanted : stored[wanted[i]] = wanted[i]

\* What is said of a unit is true of it, unless a request about it failed: in
\* either byte order, whichever home it is in, by the endpoint that serves it.
\* And that no cloud has the account is true unless one could not be asked; but where
\* the person declined another cloud (fetch.rs:174, 302) it speaks of NetHome Plus only.
FairVerdicts ==
    /\ \A u \in Units : told[u] = "not on this account" /\ u \notin hit => account.owner[u] # cloud
    /\ \A u \in Units : told[u] = "refused" /\ u \notin hit /\ cloud # NetHomePlus
                           => account.owner[u] # cloud
    /\ told[Account] = "no cloud has it" /\ Account \notin hit
           => account.known \subseteq OthersOffered
=============================================================================
