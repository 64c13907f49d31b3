-------------------------------- MODULE Clouds --------------------------------
(***************************************************************************)
(* Midea's three clouds as breeze-cloud speaks to them (crates/breeze-cloud): *)
(* what each request is answered with, and what the client makes of the     *)
(* answers.  A request that does not come through, and one whose answer     *)
(* cannot be read, come to the same here: CloudError::Transport, Malformed. *)
(***************************************************************************)
EXTENDS Naturals, Sequences, FiniteSets

CONSTANTS
    Units,       \* the units' ids
    Homes,       \* Meiju's homes, in its order
    HomeOf       \* the home a unit is in

\* "v1" stands for the old endpoint, which is no home's.
ASSUME CloudsAssumption ==
    /\ Homes \in Seq(STRING \ {"v1"})
    /\ \A u \in Units : \E i \in DOMAIN Homes : HomeOf[u] = Homes[i]

SmartHome   == "SmartHome"
Meiju       == "Meiju"
NetHomePlus == "NetHomePlus"
CloudSet    == {SmartHome, Meiju, NetHomePlus}
Elsewhere   == "elsewhere"

(* An account as the person gives it: who has it, whose account each unit is *)
(* paired with, and one thing that is out of the ordinary.                   *)
Quirks   == {"none", "regional", "old endpoint", "issuing", "big endian"}
Accounts == {a \in [known : SUBSET CloudSet, owner : [Units -> CloudSet \cup {Elsewhere}], quirk : Quirks] :
                /\ \A u \in Units : a.owner[u] \in a.known \cup {Elsewhere}
                /\ a.quirk = "regional" => SmartHome \in a.known
                /\ a.quirk = "old endpoint" => Meiju \in a.known
                /\ a.quirk = "issuing" => NetHomePlus \in a.known}

(* What a request comes to: Ok, of something; a refusal; a token list without *)
(* the unit's; no readable answer.                                            *)
Ok(x)     == [kind |-> "ok", code |-> "", of |-> x]
Api(code) == [kind |-> "api", code |-> code, of |-> ""]
NoToken   == [kind |-> "no token", code |-> "", of |-> ""]
Unread    == [kind |-> "unread", code |-> "", of |-> ""]

\* A request, by what it asks for, in which home and by which byte order.
Orders                  == {"LE", "BE"}
Req(what)               == <<what, "", "">>
TokenReq(where, order)  == <<"token", where, order>>
Requests == {Req(w) : w \in {"route", "login_id", "login", "list", "homes"}}
        \cup {<<"list", Homes[i], "">> : i \in DOMAIN Homes}
        \cup {TokenReq(w, o) : w \in {"", "v1"} \cup {Homes[i] : i \in DOMAIN Homes}, o \in Orders}
TokenRequests == {r \in Requests : r[1] \in {"token", "homes"}}

\* Client::request, and NetHome Plus's own: signed, and one at a time; `lost' are
\* those that fail.
Asked(req, lost, answer)        == IF req \in lost THEN Unread ELSE answer
NetHomeAsked(req, lost, answer) == IF req \in lost THEN Unread ELSE answer
-----------------------------------------------------------------------------
(* The clouds.                                                              *)
RouteAnswer(a) == IF SmartHome \in a.known THEN Ok("regional server") ELSE Api("10004")
LoginIdAnswer(a, c, server) ==
    IF /\ c \in a.known
       /\ c = SmartHome /\ a.quirk = "regional" => server = "regional server"
    THEN Ok("login id")
    ELSE Api(IF c = Meiju THEN "1006" ELSE "3102")     \* 1006 is Meiju's of an email address
LoginAnswer(right) == IF right THEN Ok("session") ELSE Api("3101")

\* udpid: which unit, and by which byte order of its id.
Udpid(u, order) == <<u, order>>
OrderOf(a) == IF a.quirk = "big endian" THEN "BE" ELSE "LE"
\* The tokens a cloud lists for a udpid: the unit's if it knows it by that, and
\* always somebody else's.
TokenList(a, u, order) ==
    LET other == CHOOSE v \in Units : v # u
    IN {[udpid |-> Udpid(other, OrderOf(a)), of |-> other]}
       \cup {[udpid |-> Udpid(u, o), of |-> u] : o \in {order} \cap {OrderOf(a)}}
\* v1 is gone from Meiju, except for some; v2 wants the unit's home.
TokenRefusal(a, c, u, where) ==
    IF c = NetHomePlus /\ a.quirk # "issuing" THEN "9999"
    ELSE IF c = Meiju /\ where = "v1" /\ a.quirk # "old endpoint" THEN "40404"
    ELSE IF a.owner[u] # c THEN "3201"
    ELSE IF c = Meiju /\ where # "v1" /\ where # HomeOf[u] THEN "1002"
    ELSE IF c = Meiju /\ where # "v1" /\ a.quirk = "old endpoint" THEN "40404"
    ELSE ""
-----------------------------------------------------------------------------
(* The clients.                                                             *)

\* routed: only a refusal of the account is passed on.
Routed(a, lost) ==
    LET answer == Asked(Req("route"), lost, RouteAnswer(a))
    IN IF answer.kind = "unread" THEN Ok("default server") ELSE answer
\* The account's login id.
SmartHomeLoginId(a, lost) ==
    LET client == Routed(a, lost)
    IN IF client.kind # "ok" THEN client
       ELSE Asked(Req("login_id"), lost, LoginIdAnswer(a, SmartHome, client.of))
MeijuLoginId(a, lost)   == Asked(Req("login_id"), lost, LoginIdAnswer(a, Meiju, "its server"))
NetHomeLoginId(a, lost) == NetHomeAsked(Req("login_id"), lost, LoginIdAnswer(a, NetHomePlus, "its server"))

\* account_known: without a password.  Some refusals mean no.
Said(answer, no) == IF answer.kind = "ok" THEN "yes" ELSE IF answer.code \in no THEN "no" ELSE "failed"
SmartHomeKnows(a, lost) == Said(SmartHomeLoginId(a, lost), {"10004", "3102"})
MeijuKnows(a, lost)     == Said(MeijuLoginId(a, lost), {"3102", "1006"})
NetHomeKnows(a, lost)   == Said(NetHomeLoginId(a, lost), {"3102"})
AccountKnown(c, a, lost) ==
    CASE c = SmartHome -> SmartHomeKnows(a, lost)
      [] c = Meiju -> MeijuKnows(a, lost)
      [] c = NetHomePlus -> NetHomeKnows(a, lost)

\* login: the login id salts the password, so that it goes out only once there is
\* one; an answer without a session is one that cannot be read.
SmartHomeLogin(id, right, lost) ==
    IF id.kind # "ok" THEN [result |-> id, sent |-> {}]
    ELSE [result |-> Asked(Req("login"), lost, LoginAnswer(right)), sent |-> {SmartHome}]
MeijuLogin(id, right, lost) ==
    IF id.kind # "ok" THEN [result |-> id, sent |-> {}]
    ELSE [result |-> Asked(Req("login"), lost, LoginAnswer(right)), sent |-> {Meiju}]
NetHomeLogin(id, right, lost) ==
    IF id.kind # "ok" THEN [result |-> id, sent |-> {}]
    ELSE [result |-> NetHomeAsked(Req("login"), lost, LoginAnswer(right)), sent |-> {NetHomePlus}]
Login(c, a, right, lost) ==
    CASE c = SmartHome -> SmartHomeLogin(SmartHomeLoginId(a, lost), right, lost)
      [] c = Meiju -> MeijuLogin(MeijuLoginId(a, lost), right, lost)
      [] c = NetHomePlus -> NetHomeLogin(NetHomeLoginId(a, lost), right, lost)

\* pick_token, and the same in nethome::get_token.
PickToken(list, wanted) ==
    IF \E e \in list : e.udpid = wanted THEN Ok((CHOOSE e \in list : e.udpid = wanted).of)
    ELSE NoToken

\* get_token, and the requests of the two `token's.
GetToken(c, a, u, where, order, lost) ==
    LET refusal == TokenRefusal(a, c, u, where)
        answer  == Asked(TokenReq(where, order), lost, IF refusal = "" THEN Ok("list") ELSE Api(refusal))
    IN IF answer.kind # "ok" THEN answer
       ELSE PickToken(TokenList(a, u, order), Udpid(u, order))

\* try_both_orders: a refusal is not about the byte order.
TryBothOrders(answer) == IF answer["LE"].kind \in {"ok", "api"} THEN answer["LE"] ELSE answer["BE"]

\* meiju::Session::token: in each home, until one has it, and then by the old
\* endpoint; if that has nothing either, what the last home said.
\*   Mutant: the first home's answer ends the search.
MeijuTokenOfFirst(a, u, lost) ==
    IF Req("homes") \in lost THEN Unread
    ELSE TryBothOrders([order \in Orders |-> GetToken(Meiju, a, u, Homes[1], order, lost)])
MeijuToken(a, u, lost) ==
    LET In(where) == TryBothOrders([order \in Orders |-> GetToken(Meiju, a, u, where, order, lost)])
        inHomes   == {i \in DOMAIN Homes : In(Homes[i]).kind = "ok"}
    IN IF Req("homes") \in lost THEN Unread
       ELSE IF inHomes # {} THEN In(Homes[CHOOSE i \in inHomes : \A j \in inHomes : i <= j])
       ELSE IF In("v1").kind = "ok" \/ Homes = <<>> THEN In("v1") ELSE In(Homes[Len(Homes)])

\* Session::token
SmartHomeToken(a, u, lost) ==
    TryBothOrders([order \in Orders |-> GetToken(SmartHome, a, u, "", order, lost)])
NetHomeToken(a, u, lost) ==
    TryBothOrders([order \in Orders |-> GetToken(NetHomePlus, a, u, "", order, lost)])
Token(c, a, u, lost) ==
    CASE c = SmartHome -> SmartHomeToken(a, u, lost)
      [] c = Meiju -> MeijuToken(a, u, lost)
      [] c = NetHomePlus -> NetHomeToken(a, u, lost)

\* Session::appliances: whether there is a list.  NetHome Plus is not asked, and
\* any request that fails takes the list with it.
SmartHomeLists(lost) == Req("list") \notin lost
MeijuLists(lost) == Req("homes") \notin lost /\ \A i \in DOMAIN Homes : <<"list", Homes[i], "">> \notin lost
HasList(c, lost) == (c = SmartHome /\ SmartHomeLists(lost)) \/ (c = Meiju /\ MeijuLists(lost))
Appliances(c, a) == {u \in Units : a.owner[u] = c}
=============================================================================
