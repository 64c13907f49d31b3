----------------------------- MODULE CommandLine -----------------------------
(***************************************************************************)
(* `breeze-core control NAME TYPE TEMPERATURE FLAP FAN EXTRA TIMER'        *)
(* (crates/breeze-core/src/cli/control.rs): what the words say, which unit *)
(* the name means, and what is sent.                                       *)
(*                                                                         *)
(* Words are in lower case and trimmed, and the numbers among them are the *)
(* ones `Number' and `Timer' list.  A name is a sequence of letters.       *)
(***************************************************************************)
EXTENDS Codec, Sequences, SequencesExt

\* apply_type
ModeWord == [cool |-> "COOL", cooling |-> "COOL", heat |-> "HEAT", heating |-> "HEAT",
             dry |-> "DRY", dehumidify |-> "DRY", auto |-> "AUTO", fan |-> "FAN_ONLY",
             fan_only |-> "FAN_ONLY", fanonly |-> "FAN_ONLY", ventilate |-> "FAN_ONLY"]
PowerWords == {"off", "on"}

\* parse_flap
FlapWord == [both |-> "BOTH", all |-> "BOTH", horizontal |-> "HORIZONTAL", h |-> "HORIZONTAL",
             lr |-> "HORIZONTAL", leftright |-> "HORIZONTAL", vertical |-> "VERTICAL",
             v |-> "VERTICAL", ud |-> "VERTICAL", updown |-> "VERTICAL", off |-> "OFF",
             still |-> "OFF", fixed |-> "OFF"]

\* parse_fan, and the speeds a number may be.
FanWord == [silent |-> 20, quiet |-> 20, low |-> 40, l |-> 40, medium |-> 60, med |-> 60,
            m |-> 60, high |-> 80, h |-> 80, max |-> 100, full |-> 100, auto |-> 102, a |-> 102]
FanNumbers == {20, 40, 60, 80, 100, 102}

\* apply_extra, of the parts between `+' and `,': those that name a field, and those
\* that set what they name.
ExtraParts == [turbo |-> {"turbo", "boost", "noturbo", "no-turbo"},
               eco   |-> {"eco", "saving", "noeco", "no-eco"}]
Setting    == {"turbo", "boost", "eco", "saving"}
ExtraWords == {"turbo+eco", "eco,noturbo"} \cup ExtraParts.turbo \cup ExtraParts.eco
PartsOf(word) ==
    CASE word = "turbo+eco"   -> <<"turbo", "eco">>
      [] word = "eco,noturbo" -> <<"eco", "noturbo">>
      [] OTHER -> <<word>>

\* The words that are numbers, in tenths; a temperature may end in c, a speed in %.
Number == "16" :> 160 @@ "25.5" :> 255 @@ "25.3" :> 253 @@ "31" :> 310 @@ "60" :> 600
          @@ "100" :> 1000
TemperatureWord == Number @@ "22c" :> 220
SpeedWord == Number @@ "60%" :> 600

\* parse_timer: digits and a unit, in minutes.
Timer == "15m" :> 15 @@ "2h" :> 2 * 60 @@ "0min" :> 0

Skipped == {"none", "-", "", "same", "keep"}

\* The value an extra word gives a field; the last part that names it wins.
ExtraValue(word, field) ==
    LET parts == PartsOf(word)
        named == {i \in DOMAIN parts : parts[i] \in ExtraParts[field]} IN
    IF named = {} THEN None ELSE {parts[CHOOSE i \in named : \A j \in named : j <= i] \in Setting}

\* What each slot takes.
Understood(slot, word) ==
    \/ word \in Skipped
    \/ slot = 1 /\ word \in DOMAIN ModeWord \cup PowerWords
    \/ slot = 2 /\ word \in DOMAIN TemperatureWord
                /\ TemperatureWord[word] \in 160 .. 300 /\ TemperatureWord[word] % 5 = 0
    \/ slot = 3 /\ word \in DOMAIN FlapWord
    \/ slot = 4 /\ \/ word \in DOMAIN FanWord
                   \/ word \in DOMAIN SpeedWord
                      /\ SpeedWord[word] % 10 = 0 /\ SpeedWord[word] \div 10 \in FanNumbers
    \/ slot = 5 /\ word \in ExtraWords

IsTimer(word) == word \in DOMAIN Timer

\* A timer is taken wherever it stands; the other words are counted without it.
TimersAt(words) == {i \in DOMAIN words : IsTimer(words[i])}
Positional(words) ==
    IF TimersAt(words) = {} THEN words ELSE RemoveAt(words, CHOOSE i \in TimersAt(words) : TRUE)

\* The word in a slot, unless it says to leave the setting alone.
InSlot(slots, i) == IF i \in DOMAIN slots /\ slots[i] \notin Skipped THEN {slots[i]} ELSE None

\* What the words in their slots, and the timer's minutes, ask for.
Told(slots, minutes) ==
    LET word(i) == InSlot(slots, i) IN
    [power_on |-> {w # "off" : w \in word(1)},
     mode |-> {ModeWord[w] : w \in word(1) \cap DOMAIN ModeWord},
     target_temperature |-> {TemperatureWord[w] : w \in word(2)},
     swing_mode |-> {FlapWord[w] : w \in word(3)},
     fan_speed |-> {IF w \in DOMAIN FanWord THEN FanWord[w] ELSE SpeedWord[w] \div 10 : w \in word(4)},
     eco   |-> UNION {ExtraValue(w, "eco") : w \in word(5)},
     turbo |-> UNION {ExtraValue(w, "turbo") : w \in word(5)},
     timer_minutes |-> minutes]

\* parse: a Command, if the words make one.
ParseWords(words) ==
    LET timers == TimersAt(words)
        slots  == Positional(words) IN
    IF \/ Len(words) > 6
       \/ \E i, j \in timers : i # j
       \/ \E i \in DOMAIN slots : ~Understood(i, slots[i])
    THEN None ELSE {Told(slots, {Timer[words[i]] : i \in timers})}

\* body, touches_the_unit
Body(command) == [f \in DOMAIN NoRequest |-> IF f \in Askable THEN command[f] ELSE None]
TouchesTheUnit(command) == Body(command) # NoRequest
-----------------------------------------------------------------------------
\* to_lowercase
Lower(name) == [i \in DOMAIN name |-> IF name[i] = "K" THEN "k" ELSE name[i]]

\* resolve_unit: an id, then the one name that is the same but for case, then the
\* one that begins so.  More than one is an error, not a choice.
\*   Mutant: of several the first is taken.
OnlyOneFirst(matches) == IF matches = {} THEN None ELSE {CHOOSE i \in matches : \A j \in matches : i <= j}
OnlyOne(matches) == IF Cardinality(matches) = 1 THEN matches ELSE None

ResolveUnit(units, wanted) ==
    LET target   == Lower(wanted)
        byId     == {i \in DOMAIN units : units[i].id = wanted}
        exact    == {i \in DOMAIN units : Lower(units[i].name) = target}
        prefixed == {i \in DOMAIN units : IsPrefix(target, Lower(units[i].name))}
        found    == IF byId # {} THEN {CHOOSE i \in byId : \A j \in byId : i <= j}
                    ELSE IF exact # {} THEN OnlyOne(exact) ELSE OnlyOne(prefixed) IN
    {units[i].id : i \in found}

\* run: the requests, in order; the second goes out when the first was answered.
Commands(words) ==
    {c \in ParseWords(words) : TouchesTheUnit(c) \/ c.timer_minutes # None}

Posts(units, name, words) ==
    UNION {{(IF TouchesTheUnit(command) THEN <<[to |-> id, body |-> {Body(command)}]>> ELSE <<>>)
            \o (IF command.timer_minutes # None
                THEN <<[to |-> id, minutes |-> command.timer_minutes]>> ELSE <<>>)
              : id \in ResolveUnit(units, name)} : command \in Commands(words)}
-----------------------------------------------------------------------------
(* Properties of one command.                                              *)

\* "The API applies only the fields present, so nothing else about the unit is
\* disturbed" and "a timer is also accepted anywhere": what is sent is accepted by
\* the server, reaches the unit field by field, touches no slot that was skipped,
\* and does not depend on where among the words the timer stands.
SaysWhatWasTyped(units, name, words) ==
    \A command \in ParseWords(words) :
        LET body  == Body(command)
            slots == Positional(words)
            skips == {i \in 1 .. 5 : i > Len(slots) \/ slots[i] \in Skipped}
            fields == <<{"power_on", "mode"}, {"target_temperature"}, {"swing_mode"},
                        {"fan_speed"}, {"eco", "turbo"}>> IN
        /\ Accepts(body)
        /\ \A f \in Askable : body[f] # None <=> ChangeFrom(body)[f] # None
        /\ \A i \in 1 .. 5 : i \in skips <=> \A f \in fields[i] : body[f] = None
        /\ \A t \in TimersAt(words), i \in 1 .. Len(slots) + 1 :
              Posts(units, name, InsertAt(slots, i, words[t])) = Posts(units, name, words)

\* "switching the wrong room's heating on is not a recoverable guess": a command
\* for one unit goes to another because a unit was added only if that is what the
\* other one is called.
NameSettles(units, added, at, wanted) ==
    \A before \in ResolveUnit(units, wanted),
       after  \in ResolveUnit(InsertAt(units, at, added), wanted) :
          after # before => after = added.id /\ (wanted = added.id \/ Lower(added.name) = Lower(wanted))
=============================================================================
