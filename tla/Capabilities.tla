----------------------------- MODULE Capabilities -----------------------------
(***************************************************************************)
(* What a unit says it can do (crates/breeze-proto/src/ac/capabilities.rs),*)
(* how the device fetches it (crates/breeze-device/src/device.rs) and what *)
(* a client is offered (crates/breeze-http/src/capabilities.rs).           *)
(*                                                                         *)
(* A payload is a sequence of bytes: the command byte, a count and that    *)
(* many records [id_lo, id_hi, size, value].  A Boolean of Capabilities is *)
(* here a member of `has', the six temperature limits are `limits', in     *)
(* half degrees and as Options.  The lists offered are sets.               *)
(***************************************************************************)
EXTENDS Codec, Sequences, FiniteSetsExt

\* mod id
MODES             == 532
SWING_MODES       == 533
FAN_SPEED_CONTROL == 528
PRESET_TURBO      == 538
FILTER_REMIND     == 535
HUMIDITY          == 543
TEMPERATURES      == 549
UNKNOWN_0040      == 64

\* The features, each with the id of the record that may bring it and with which
\* values of its first byte.
Feature ==
    [heat_mode |-> <<MODES, {1, 2, 4, 6, 7, 9, 10, 11, 12, 13}>>,
     cool_mode |-> <<MODES, {0, 1, 3, 4, 5, 6, 7, 8, 9, 11, 13, 14, 15}>>,
     dry_mode |-> <<MODES, {0, 1, 5, 6, 9, 11, 13, 14, 15}>>,
     auto_mode |-> <<MODES, {0, 1, 2, 7, 8, 9, 13, 14}>>, aux_heat_mode |-> <<MODES, {9}>>,
     aux_mode |-> <<MODES, {9, 10, 11, 13, 14, 15}>>,
     swing_horizontal |-> <<SWING_MODES, {1, 3}>>, swing_vertical |-> <<SWING_MODES, {0, 1}>>,
     saw_fan_capability |-> <<FAN_SPEED_CONTROL, 0 .. 255>>,
     fan_silent |-> <<FAN_SPEED_CONTROL, {6, 9}>>,
     fan_low |-> <<FAN_SPEED_CONTROL, {3, 4, 5, 6, 7, 9}>>,
     fan_medium |-> <<FAN_SPEED_CONTROL, {5, 6, 7}>>,
     fan_high |-> <<FAN_SPEED_CONTROL, {3, 4, 5, 6, 7, 9}>>,
     fan_auto |-> <<FAN_SPEED_CONTROL, {4, 5, 6, 9}>>,
     fan_custom |-> <<FAN_SPEED_CONTROL, {1}>>, turbo_heat |-> <<PRESET_TURBO, {1, 3}>>,
     turbo_cool |-> <<PRESET_TURBO, {0, 1}>>, filter_notice |-> <<FILTER_REMIND, {1, 2, 4}>>,
     filter_clean |-> <<FILTER_REMIND, {3, 4}>>, humidity_auto_set |-> <<HUMIDITY, {1, 2}>>,
     humidity_manual_set |-> <<HUMIDITY, {2, 3}>>, eco |-> <<530, {1, 2}>>,
     freeze_protection |-> <<531, {1}>>, display_control |-> <<548, {1, 2, 100}>>,
     energy_stats |-> <<534, {2, 3, 4, 5}>>, fahrenheit |-> <<546, {0}>>,
     flash |-> <<103, {1, 2, 3, 4}>>, out_silent |-> <<205, {1, 3}>>,
     swing_vertical_angle |-> <<9, {1}>>, swing_horizontal_angle |-> <<10, {1}>>,
     breezeless |-> <<24, {1}>>, smart_eye |-> <<48, {1}>>, wind_on_me |-> <<50, {1}>>,
     wind_off_me |-> <<51, {1}>>, self_clean |-> <<57, {1}>>, breeze_away |-> <<66, {1}>>,
     breeze_control |-> <<67, {1}>>, fresh_air |-> <<75, {1}>>, cascade |-> <<89, {1}>>,
     aux_fan_speed |-> <<147, {1}>>, aux_heat_fan_speed |-> <<148, {1}>>,
     aux_electric_heat |-> <<537, {1}>>, anion |-> <<542, {1}>>, buzzer |-> <<556, {1}>>]

NoCapabilities == [has |-> {}, limits |-> [i \in 1 .. 6 |-> None], additional |-> FALSE,
                   unknown_ids |-> {}]

Put(has, feature, on) == IF on THEN has \cup {feature} ELSE has \ {feature}

\* apply.  `record' is all that is left of the payload: the limits are read from
\* it by offset, the decimals in one firmware's record from its size byte.
Apply(caps, id, value, record) ==
    LET told == {f \in DOMAIN Feature : Feature[f][1] = id} IN
    IF told # {} THEN
        [caps EXCEPT !.has = (@ \ told) \cup {f \in told : value[1] \in Feature[f][2]}]
    ELSE IF id = TEMPERATURES THEN
        IF Len(record) < 9 \/ Len(value) < 6 THEN caps ELSE
        [caps EXCEPT !.limits = [i \in 1 .. 6 |-> {record[i + 3]}],
                     !.has = Put(@, "decimals",
                                 IF Len(value) > 6 /\ Len(record) > 9 THEN record[10] # 0
                                                                      ELSE record[3] # 0)]
    ELSE IF id = UNKNOWN_0040 THEN caps
    ELSE [caps EXCEPT !.unknown_ids = @ \cup {id}]

\* parse: a record that is not all there ends the walk, and what is left tells
\* whether a second query would bring more.
RecordLength(size) == 3 + size

ParseRecord(at) ==
    LET rest == at.rest
        long == RecordLength(rest[3]) IN
    IF ~at.whole \/ Len(rest) < 3 \/ Len(rest) < long THEN [at EXCEPT !.whole = FALSE] ELSE
    [rest  |-> SubSeq(rest, long + 1, Len(rest)),
     caps  |-> IF rest[3] = 0 THEN at.caps
               ELSE Apply(at.caps, rest[1] + 256 * rest[2], SubSeq(rest, 4, long), rest),
     whole |-> TRUE]

Parse(payload) ==
    IF Len(payload) < 2 THEN NoCapabilities ELSE
    LET walk[n \in 0 .. payload[2]] ==
            IF n = 0 THEN [rest |-> SubSeq(payload, 3, Len(payload)), caps |-> NoCapabilities,
                           whole |-> TRUE]
            ELSE ParseRecord(walk[n - 1])
        end == walk[payload[2]] IN
    [end.caps EXCEPT !.additional = Len(end.rest) > 1 /\ end.rest[Len(end.rest) - 1] # 0]

\* merge: what either says, and whether there is a third the second knows.
\*   Mutant: the second answer's limits replace the first's.
MergeLimitsOfSecond(caps, other) ==
    [has |-> caps.has \cup other.has, limits |-> other.limits,
     additional |-> other.additional, unknown_ids |-> caps.unknown_ids \cup other.unknown_ids]
Merge(caps, other) ==
    [has |-> caps.has \cup other.has,
     limits |-> [i \in 1 .. 6 |-> IF caps.limits[i] = None THEN other.limits[i]
                                                            ELSE caps.limits[i]],
     additional |-> other.additional, unknown_ids |-> caps.unknown_ids \cup other.unknown_ids]

\* Device::capabilities: what is kept when the second query has no answer is the
\* first one's, for good.
Fetched(first, second) ==
    LET caps == Parse(first) IN
    IF caps.additional /\ second # None THEN Merge(caps, Parse(Named(second))) ELSE caps
-----------------------------------------------------------------------------
(* What a client is offered.                                               *)

\* fan, supports_fan_*
SupportsFan(caps, speed) ==
    IF "saw_fan_capability" \in caps.has
    THEN caps.has \cap {speed, "fan_custom"} # {}
    ELSE speed # "fan_silent"

FanSpeedValues(caps) ==
    LET value == [fan_silent |-> 20, fan_low |-> 40, fan_medium |-> 60, fan_high |-> 80,
                  fan_auto |-> 102] IN
    {value[speed] : speed \in {s \in DOMAIN value : SupportsFan(caps, s)}}
        \cup (IF "fan_custom" \in caps.has THEN {100} ELSE {})

OperationalModes(caps) ==
    LET name == [dry_mode |-> "DRY", cool_mode |-> "COOL", heat_mode |-> "HEAT",
                 auto_mode |-> "AUTO"] IN
    {"FAN_ONLY"} \cup {name[m] : m \in DOMAIN name \cap caps.has}

SwingBoth(caps) == {"swing_horizontal", "swing_vertical"} \subseteq caps.has

SwingModes(caps) ==
    {"OFF"} \cup (IF "swing_horizontal" \in caps.has THEN {"HORIZONTAL"} ELSE {})
            \cup (IF "swing_vertical" \in caps.has THEN {"VERTICAL"} ELSE {})
            \cup (IF SwingBoth(caps) THEN {"BOTH"} ELSE {})

\* min_temperature, max_temperature: a mode that was not reported counts as the
\* API's own 16 or 30.
MinTemperature(caps) == Min({Or(caps.limits[i], 32) : i \in {1, 3, 5}})
MaxTemperature(caps) == Max({Or(caps.limits[i], 60) : i \in {2, 4, 6}})

\* view: null, which hides nothing, when no flaps were reported.
SupportsSwing(caps, axis) ==
    IF {"swing_horizontal", "swing_vertical"} \cap caps.has = {} THEN None
    ELSE {(axis \in caps.has) \/ SwingBoth(caps)}
=============================================================================
