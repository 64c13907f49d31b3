-------------------------------- MODULE Codec --------------------------------
(***************************************************************************)
(* What a command says to an air conditioner and what its report says back *)
(* (crates/breeze-proto/src/ac), and what an API request makes of the two  *)
(* (crates/breeze-store/src/control.rs, crates/breeze-http/src/control.rs).*)
(*                                                                         *)
(* A payload is a function from positions to bytes.  A temperature is in   *)
(* half degrees once it is a setting, in tenths of a degree in a request.  *)
(* An Option is a set of at most one value.  The three names of a field    *)
(* (API, setpoint, report) are one here.  Sensor readings are left out.    *)
(***************************************************************************)
EXTENDS Naturals, FiniteSets, TLC

None == {}
Or(option, default) == IF option = None THEN default ELSE CHOOSE v \in option : TRUE

Bits(byte, low, n) == (byte \div 2^low) % 2^n
Bit(byte, k) == Bits(byte, k, 1) = 1
Flag(on, k) == IF on THEN 2^k ELSE 0

\* Mode and SwingMode: their wire values, by the names the API uses.
ModeByte  == [AUTO |-> 1, COOL |-> 2, DRY |-> 3, HEAT |-> 4, FAN_ONLY |-> 5]
SwingByte == [OFF |-> 0, HORIZONTAL |-> 3, VERTICAL |-> 12, BOTH |-> 15]

\* from_wire
FromWire(bytes, v) == {name \in DOMAIN bytes : bytes[name] = v}
-----------------------------------------------------------------------------
(* State::parse.                                                           *)

\* The setpoint again in byte 13, with another bias, wins when it is there.
Target(p) ==
    LET alt == Bits(p[13], 0, 5) IN
    2 * (IF alt # 0 THEN alt + 12 ELSE Bits(p[2], 0, 4) + 16) + Bits(p[2], 4, 1)

\* A byte the report may be too short for.
Byte(p, i) == IF i \in DOMAIN p THEN {p[i]} ELSE None

ParseState(p) ==
    IF Cardinality(DOMAIN p) < 17 \/ p[0] # 192 THEN None ELSE
    {[power_on             |-> Bit(p[1], 0),
      target_temperature   |-> Target(p),
      mode                 |-> FromWire(ModeByte, Bits(p[2], 5, 3)),
      fan_speed            |-> Bits(p[3], 0, 7),
      swing_mode           |-> FromWire(SwingByte, Bits(p[7], 0, 4)),
      turbo                |-> Bit(p[8], 5) \/ Bit(p[10], 1),
      eco                  |-> Bit(p[9], 4),
      sleep                |-> Bit(p[10], 0),
      fahrenheit           |-> Bit(p[10], 2),
      aux_heat             |-> Bit(p[9], 3),
      independent_aux_heat |-> Bit(p[8], 6),
      follow_me            |-> Bit(p[8], 7),
      purifier             |-> Bit(p[9], 5),
      target_humidity      |-> {Bits(b, 0, 7) : b \in Byte(p, 19)},
      freeze_protection    |-> {Bit(b, 7) : b \in Byte(p, 21)}]}
-----------------------------------------------------------------------------
(* Setpoint and set_state.                                                 *)

\* from_state: what could not be named falls back to something safe.
FromState(state) ==
    [f \in DOMAIN state \cup {"beep"} |->
        CASE f = "beep" -> FALSE
          [] f = "mode" -> Or(state.mode, "AUTO")
          [] f = "swing_mode" -> Or(state.swing_mode, "OFF")
          [] f = "freeze_protection" -> Or(state.freeze_protection, FALSE)
          [] f = "target_humidity" -> Or(state.target_humidity, 40)
          [] OTHER -> state[f]]

\* temperature_bytes: the nibble of byte 2 and byte 18.
\*   Mutant: 16 degrees travel in the nibble, which a unit takes for absent.
SixteenInNibble(target) ==
    LET whole == target \div 2
        inNibble == whole \in 16 .. 30 IN
    <<(IF inNibble THEN (whole - 16) % 16 ELSE 0) + Flag(target % 2 = 1, 4),
      IF inNibble THEN 0 ELSE (whole - 12) % 32>>
TemperatureBytes(target) ==
    LET whole == target \div 2
        inNibble == whole \in 17 .. 30 IN
    <<(IF inNibble THEN (whole - 16) % 16 ELSE 0) + Flag(target % 2 = 1, 4),
      IF inNibble THEN 0 ELSE (whole - 12) % 32>>

SetState(s) ==
    LET temperature == TemperatureBytes(s.target_temperature) IN
    [i \in 0 .. 23 |->
        CASE i = 0 -> 64
          [] i = 1 -> 2 + Flag(s.beep, 6) + Flag(s.power_on, 0)
          [] i = 2 -> temperature[1] + 32 * ModeByte[s.mode]
          [] i = 3 -> s.fan_speed
          [] i \in {4, 5} -> 127
          [] i = 7 -> 48 + SwingByte[s.swing_mode]
          [] i = 8 -> Flag(s.follow_me, 7) + Flag(s.turbo, 5)
          [] i = 9 -> Flag(s.eco, 7) + Flag(s.purifier, 5) + Flag(s.aux_heat, 3)
          [] i = 10 -> Flag(s.sleep, 0) + Flag(s.turbo, 1) + Flag(s.fahrenheit, 2)
          [] i = 18 -> temperature[2]
          [] i = 19 -> Bits(s.target_humidity, 0, 7)
          [] i = 21 -> Flag(s.freeze_protection, 7)
          [] i = 22 -> Flag(s.independent_aux_heat, 3)
          [] OTHER -> 0]
-----------------------------------------------------------------------------
(* ControlRequest and its reply.                                           *)

Askable == {"power_on", "mode", "target_temperature", "fan_speed", "swing_mode", "eco", "turbo"}
NoRequest == [f \in Askable \cup {"beep"} |-> None]

\* to_uppercase, of the names that occur in another case.
Spellings == [cool |-> "COOL", Both |-> "BOTH", warm |-> "WARM"]
Upper(name) == IF name \in DOMAIN Spellings THEN Spellings[name] ELSE name

TempMin == 160
TempMax == 300
AllowedFanSpeeds == {20, 40, 60, 80, 100, 102}

\* validate
Accepts(request) ==
    /\ \A t \in request.target_temperature : t \in TempMin .. TempMax /\ t % 5 = 0
    /\ request.fan_speed \subseteq AllowedFanSpeeds
    /\ \A name \in request.mode : Upper(name) \in {"AUTO", "COOL", "DRY", "HEAT", "FAN_ONLY"}
    /\ \A name \in request.swing_mode : Upper(name) \in {"OFF", "VERTICAL", "HORIZONTAL", "BOTH"}

\* change_from, mode_from_name, swing_from_name: an unknown name is dropped.
ChangeFrom(request) ==
    [request EXCEPT !.mode = {Upper(name) : name \in @} \cap DOMAIN ModeByte,
                    !.swing_mode = {Upper(name) : name \in @} \cap DOMAIN SwingByte,
                    !.target_temperature = {t \div 5 : t \in @}]

\* Change::apply_to: a chirp is never carried over.
Overlay(change, setpoint) ==
    [f \in DOMAIN setpoint |->
        IF f = "beep" THEN Or(change.beep, FALSE)
        ELSE IF f \in Askable THEN Or(change[f], setpoint[f]) ELSE setpoint[f]]

\* not_applied: sent one value, reported another.
NotApplied(request, setpoint, echoed) ==
    {f \in Askable : /\ request[f] # None
                     /\ IF f \in {"mode", "swing_mode"} THEN {setpoint[f]} # echoed[f]
                                                        ELSE setpoint[f] # echoed[f]}
-----------------------------------------------------------------------------
(* The unit, as the tests' stand-in has it (breeze-device/src/testing.rs), *)
(* with the flags the stand-in has no use for.  It holds mode and flaps by *)
(* their wire values, of which some have no name here.                     *)

Fields == {"power_on", "mode", "target_temperature", "fan_speed", "swing_mode", "eco", "turbo",
           "sleep", "fahrenheit", "purifier", "aux_heat", "independent_aux_heat", "follow_me",
           "freeze_protection", "target_humidity"}

\* state_payload, either the way the real units report the setpoint or the old
\* one; some firmware's reports are short.
Report(held, alternate, length) ==
    LET t == held.target_temperature IN
    [i \in 0 .. length - 1 |->
        CASE i = 0 -> 192
          [] i = 1 -> Flag(held.power_on, 0)
          [] i = 2 -> 32 * held.mode + 16 * (t % 2) + (IF alternate THEN 0 ELSE t \div 2 - 16)
          [] i = 3 -> held.fan_speed
          [] i = 7 -> held.swing_mode
          [] i = 8 -> Flag(held.follow_me, 7) + Flag(held.independent_aux_heat, 6)
                          + Flag(held.turbo, 5)
          [] i = 9 -> Flag(held.purifier, 5) + Flag(held.eco, 4) + Flag(held.aux_heat, 3)
          [] i = 10 -> Flag(held.sleep, 0) + Flag(held.fahrenheit, 2)
          [] i = 13 -> IF alternate THEN t \div 2 - 12 ELSE 0
          [] i = 19 -> held.target_humidity
          [] i = 21 -> Flag(held.freeze_protection, 7)
          [] OTHER -> 0]

\* adopt
Adopt(p, held) ==
    LET nibble == Bits(p[2], 0, 4)
        mode   == Bits(p[2], 5, 3)
        flaps  == Bits(p[7], 0, 4) IN
    [power_on             |-> Bit(p[1], 0),
     mode                 |-> IF FromWire(ModeByte, mode) # None THEN mode ELSE held.mode,
     target_temperature   |-> 2 * (IF nibble # 0 THEN nibble + 16 ELSE Bits(p[18], 0, 5) + 12)
                                  + Bits(p[2], 4, 1),
     fan_speed            |-> Bits(p[3], 0, 7),
     swing_mode           |-> IF FromWire(SwingByte, flaps) # None THEN flaps ELSE held.swing_mode,
     eco                  |-> Bit(p[9], 7),
     turbo                |-> Bit(p[8], 5) /\ Bit(p[10], 1),
     sleep                |-> Bit(p[10], 0),
     fahrenheit           |-> Bit(p[10], 2),
     purifier             |-> Bit(p[9], 5),
     aux_heat             |-> Bit(p[9], 3),
     independent_aux_heat |-> Bit(p[22], 3),
     follow_me            |-> Bit(p[8], 7),
     freeze_protection    |-> Bit(p[21], 7),
     target_humidity      |-> Bits(p[19], 0, 7)]
-----------------------------------------------------------------------------
(* One control request, from the report it is built on to its reply.       *)

Named(option) == CHOOSE v \in option : TRUE

\* "a caller can change one field and leave everything else exactly as it was"
\* (from_state) and "the fields the unit did not take: sent one value, reported
\* another" (not_applied): a unit that holds `held' and obeys but for the fields
\* in `refused' has what was asked and otherwise what it had, where its report
\* could be read; and the reply names what it refused and no more.
Restates(held, alternate, length, request, refused) ==
    LET before == Named(ParseState(Report(held, alternate, length)))
        change == ChangeFrom(request)
        setpoint == Overlay(change, FromState(before))
        took   == Adopt(SetState(setpoint), held)
        after  == [f \in DOMAIN held |-> IF f \in refused THEN held[f] ELSE took[f]]
        echoed == Named(ParseState(Report(after, TRUE, 24)))
        asked  == {f \in Askable : request[f] # None}
        value(state, f) == IF f \in {"mode", "swing_mode"} THEN state[f] ELSE {state[f]} IN
    /\ \A f \in DOMAIN held \ asked :
          f \notin {"mode", "swing_mode", "target_humidity", "freeze_protection"}
             \/ before[f] # None
          => took[f] = held[f]
    /\ \A f \in asked \ refused : value(echoed, f) = change[f]
    /\ NotApplied(request, setpoint, echoed) =
          {f \in asked \cap refused : value(before, f) # change[f]}
=============================================================================
