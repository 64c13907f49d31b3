------------------------------ MODULE MCSession ------------------------------
(***************************************************************************)
(* Bounded inputs for what a session carries: payloads, and the words and  *)
(* names they come from.  These properties are about an exchange that went *)
(* well, whichever of the inputs it was about.                             *)
(***************************************************************************)
EXTENDS Session, Capabilities, CommandLine

\* A heating unit, and others that differ from it in the fields that share a byte
\* or have more than one place in it.
Switches == {"power_on", "eco", "turbo", "sleep", "fahrenheit", "purifier", "aux_heat",
             "independent_aux_heat", "follow_me", "freeze_protection"}
HeldAs(mode, target, swing, fan, humidity, on) ==
    [f \in Fields |-> CASE f = "mode" -> mode
                        [] f = "target_temperature" -> target
                        [] f = "swing_mode" -> swing
                        [] f = "fan_speed" -> fan
                        [] f = "target_humidity" -> humidity
                        [] OTHER -> f \in on]
Helds ==
    {HeldAs(m, t, 3, 102, 40, {"power_on"}) : m \in 0 .. 7, t \in 32 .. 63}
    \cup {HeldAs(4, t, 3, 102, 40, {"power_on"}) : t \in 26 .. 87}
    \cup {HeldAs(4, 48, s, v, h, {"power_on"}) :
            s \in {0, 3, 5, 12, 15}, v \in {20, 37, 102}, h \in {40, 65}}
    \cup {HeldAs(4, 48, 3, 102, 40, on) :
            on \in {s \in SUBSET Switches : Cardinality(s) \in {0, 1, 2, 9, 10}}}

\* A request for a few fields.
Asks(few) == [f \in DOMAIN NoRequest |-> IF f \in DOMAIN few THEN few[f] ELSE None]
Requests ==
    {Asks([mode |-> m]) : m \in {None, {"cool"}, {"HEAT"}}}
    \cup {Asks([target_temperature |-> {t}]) : t \in {160, 165, 170, 300}}
    \cup {Asks([swing_mode |-> {s}]) : s \in {"OFF", "Both"}}
    \cup {Asks([fan_speed |-> {20}, eco |-> {e}]) : e \in BOOLEAN}
    \cup {Asks([power_on |-> {p}, turbo |-> {p}, target_temperature |-> {245}, beep |-> {p}]) :
            p \in BOOLEAN}

\* A constant: TLC evaluates it once.
EveryRequest ==
    \A held \in Helds, request \in {r \in Requests : Accepts(r)} :
       \A refused \in SUBSET {f \in Askable : request[f] # None} :
          /\ Restates(held, TRUE, 24, request, refused)
          /\ held.target_temperature \in 32 .. 63 => Restates(held, FALSE, 17, request, refused)

\* Every request that is accepted and gets its reply restates what a unit reports, in full or short,
\* in the new way or the old one, and whichever of the fields the unit refuses.
CommandRestates == result.kind = "ok" => EveryRequest
-----------------------------------------------------------------------------
\* Records: an id and a value.
Records == {<<MODES, <<1>>>>, <<MODES, <<>>>>, <<FAN_SPEED_CONTROL, <<1>>>>,
            <<FAN_SPEED_CONTROL, <<3>>>>, <<SWING_MODES, <<0>>>>, <<SWING_MODES, <<1, 9>>>>,
            <<TEMPERATURES, <<34, 60, 32, 60, 40, 64>>>>, <<TEMPERATURES, <<34, 60>>>>,
            <<TEMPERATURES, <<32, 60, 32, 60, 32, 60, 0>>>>, <<UNKNOWN_0040, <<2>>>>,
            <<2457, <<1>>>>}

Lists == {<<>>} \cup {<<r>> : r \in Records} \cup
         {l \in Records \X Records \X Records : \A i, j \in DOMAIN l : i # j => l[i][1] # l[j][1]}

Bytes(record) == <<record[1] % 256, record[1] \div 256, Len(record[2])>> \o record[2]
Page(records, more) ==
    <<181, Len(records)>> \o FlattenSeq([i \in DOMAIN records |-> Bytes(records[i])])
        \o <<IF more THEN 1 ELSE 0, 7>>

Start(records, n) == SubSeq(records, 1, n)
\* How long the page is up to its nth record.
Reach(records, n) == Len(Page(Start(records, n), FALSE)) - 2

Said(caps) == [caps EXCEPT !.additional = FALSE]

\* The API takes 16 to 30 degrees of every unit; a unit may tell of more.
ToldOfMore(caps, t) ==
    \/ t < 32 /\ \E i \in {1, 3, 5} : \E limit \in caps.limits[i] : limit <= t
    \/ t > 60 /\ \E i \in {2, 4, 6} : \E limit \in caps.limits[i] : t <= limit

\* Two answers that share the records between them, one that is cut off, and what is
\* offered on the strength of them.
AddsUp(records) ==
    LET all == Parse(Page(records, FALSE)) IN
    /\ \A n \in 0 .. Len(records) :
          Fetched(Page(Start(records, n), TRUE),
                  {Page(SubSeq(records, n + 1, Len(records)), FALSE)}) = all
    /\ \A cut \in 2 .. Reach(records, Len(records)) :
          LET n == CHOOSE n \in 0 .. Len(records) :
                      /\ Reach(records, n) <= cut
                      /\ n = Len(records) \/ Reach(records, n + 1) > cut IN
          Said(Parse(SubSeq(Page(records, FALSE), 1, cut)))
            = Said(Parse(Page(Start(records, n), FALSE)))
    /\ \A m \in OperationalModes(all) : Accepts([NoRequest EXCEPT !.mode = {m}])
    /\ \A s \in SwingModes(all) : Accepts([NoRequest EXCEPT !.swing_mode = {s}])
    /\ \A v \in FanSpeedValues(all) : Accepts([NoRequest EXCEPT !.fan_speed = {v}])
    /\ \A t \in MinTemperature(all) .. MaxTemperature(all) :
          Accepts([NoRequest EXCEPT !.target_temperature = {5 * t}]) \/ ToldOfMore(all, t)
    /\ \A axis \in {<<"swing_horizontal", "HORIZONTAL">>, <<"swing_vertical", "VERTICAL">>} :
          SupportsSwing(all, axis[1]) \in {None, {(axis[2] \in SwingModes(all))}}

\* A constant, too.
EveryAnswer == \A records \in Lists : AddsUp(records)

\* merge ("the second response reports what the first left out") and parse ("half a
\* capability list is more useful than an error"): however a unit spreads its records
\* over two answers, what is known of it is what they say together; of an answer that
\* is cut off, what its whole records say.  Every mode, flap position and fan speed a
\* client is then offered the API accepts, the flaps shown are those offered, and a
\* temperature offered is refused only where the unit itself told of more than the
\* API's 16 to 30 degrees (a_wider_range_than_the_api_allows_is_reported_as_the_unit_gave_it).
CapabilitiesAddUp == result.kind = "ok" => EveryAnswer
-----------------------------------------------------------------------------
\* For each slot, its words and some that belong elsewhere; the timer may be missing.
Slots == <<{"cool", "fan", "off", "none", "h"}, {"25.5", "25.3", "none", "16"},
           {"h", "off", "-", "60"}, {"h", "60%", "none", "31"}, {"turbo+eco", "eco,noturbo", "same"}>>
Typed == UNION {{Start(w, n) : w \in Slots[1] \X Slots[2] \X Slots[3] \X Slots[4] \X Slots[5]} :
                  n \in 0 .. 5}
WithTimer == {Append(w, "2h") : w \in Typed} \cup {<<"15m">> \o w \o <<"2h">> : w \in Typed}

Names == {<<"k">>, <<"K", "a">>, <<"k", "a", "b">>, <<"b">>, <<"2">>}

\* And this.
EveryLine ==
    /\ \A words \in Typed \cup WithTimer :
          SaysWhatWasTyped(<<[id |-> <<"1">>, name |-> <<"k">>]>>, <<"k">>, words)
    /\ \A a, b, c \in Names, wanted \in Names \cup {<<"1">>, <<"3">>}, at \in 1 .. 3 :
          NameSettles(<<[id |-> <<"1">>, name |-> a], [id |-> <<"2">>, name |-> b]>>,
                      [id |-> <<"3">>, name |-> c], at, wanted)

\* cli/control.rs, from the words to the requests: each word reaches its field, a skipped
\* one leaves it alone, and no unit takes another's command for having been added.
SentAsTyped == result.kind = "ok" => EveryLine
=============================================================================
