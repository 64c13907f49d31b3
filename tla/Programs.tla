------------------------------- MODULE Programs -------------------------------
(***************************************************************************)
(* What a client may store as a program, and what a stored one asks for at *)
(* a minute (crates/breeze-store/src/programs.rs).                         *)
(*                                                                         *)
(* Temperatures are in tenths of a degree.  A time of day is the minute it *)
(* comes to and whether it is written in full, 07:30 and not 7:30.  A name *)
(* is its length.  Days are a set: what sorting and deduplication leave.   *)
(* The code computes a curve in floating point, this module in fractions:  *)
(* they may differ where the exact value is a midpoint that has none.      *)
(***************************************************************************)
EXTENDS Codec, Integers, SequencesExt

CONSTANT MinutesPerDay

ProgramKinds == {"favourite", "schedule", "curve"}
NameMaxChars == 64

\* minutes_of_day and, stricter, valid_hhmm.
MinutesOfDay(time) == {time.minute} \cap 0 .. MinutesPerDay - 1
ValidHhmm(time) == time.padded /\ MinutesOfDay(time) # None
-----------------------------------------------------------------------------
(* into_program: the program that is stored, if the spec is one.           *)

ValidEntry(entry) ==
    entry.days \subseteq 0 .. 6 /\ ValidHhmm(entry.time) /\ Accepts(entry.settings)

\* A curve's temperatures are bounded, and need not be half degrees.
ValidCurve(curve) ==
    /\ Upper(curve.operational_mode) \in DOMAIN ModeByte
    /\ curve.fan_speed \in AllowedFanSpeeds
    /\ \A i \in DOMAIN curve.points : /\ ValidHhmm(curve.points[i].time)
                                      /\ curve.points[i].temperature \in TempMin .. TempMax

IntoProgram(spec) ==
    IF /\ spec.name \in 1 .. NameMaxChars
       /\ spec.kind \in ProgramKinds
       /\ \A settings \in spec.favourite : Accepts(settings)
       /\ \A i \in DOMAIN spec.schedule : ValidEntry(spec.schedule[i])
       /\ \A curve \in spec.curve : ValidCurve(curve)
    THEN {[spec EXCEPT !.curve = {[curve EXCEPT !.operational_mode = Upper(@)] : curve \in @}]}
    ELSE None
-----------------------------------------------------------------------------
(* What it asks for.                                                       *)

OfDay(minute)   == minute % MinutesPerDay
Weekday(minute) == (minute \div MinutesPerDay) % 7

\* due_entries, the indices: the text of the time is compared.
IsDue(entry, minute) ==
    /\ entry.days = {} \/ Weekday(minute) \in entry.days
    /\ entry.time.padded /\ entry.time.minute = OfDay(minute)
DueEntries(schedule, minute) == {i \in DOMAIN schedule : IsDue(schedule[i], minute)}

\* round_half, of num/den tenths: to the half degree that is nearest, of two to the
\* even one, and into the API's range.
RoundHalf(num, den) ==
    LET lower  == num \div (5 * den)
        rest   == num % (5 * den)
        halves == IF 2 * rest < 5 * den \/ (2 * rest = 5 * den /\ lower % 2 = 0)
                  THEN lower ELSE lower + 1 IN
    CASE 5 * halves < TempMin -> TempMin
      [] 5 * halves > TempMax -> TempMax
      [] OTHER -> 5 * halves

\* rem_euclid
\*   Mutant: the remainder of a negative number is negative.
Remainder(n) == IF n < 0 THEN -(-n % MinutesPerDay) ELSE n % MinutesPerDay
Cyclic(n) == n % MinutesPerDay

\* curve_setpoint: the points that have a time, in the order of the day and, at the
\* same minute, of the list; the first segment that reaches as far as now has it.
InDayOrder(points) ==
    LET timed == {i \in DOMAIN points : MinutesOfDay(points[i].time) # None}
        before(i, j) == \/ points[i].time.minute < points[j].time.minute
                        \/ points[i].time.minute = points[j].time.minute /\ i < j
        order == CHOOSE s \in [1 .. Cardinality(timed) -> timed] :
                    \A k, l \in DOMAIN s : k < l => before(s[k], s[l]) IN
    [k \in DOMAIN order |-> points[order[k]]]

CurveSetpoint(points, minute) ==
    LET pts  == InDayOrder(points)
        n    == Len(pts)
        next(i) == pts[(i % n) + 1]
        span(i) == LET s == Cyclic(next(i).time.minute - pts[i].time.minute) IN
                   IF s = 0 THEN MinutesPerDay ELSE s
        off(i)  == Cyclic(OfDay(minute) - pts[i].time.minute)
        on      == {i \in 1 .. n : off(i) < span(i)} IN
    IF n = 0 THEN None
    ELSE IF n = 1 \/ on = {} THEN {RoundHalf(pts[1].temperature, 1)}
    ELSE LET i == CHOOSE i \in on : \A j \in on : i <= j IN
         {RoundHalf(pts[i].temperature * span(i)
                        + (next(i).temperature - pts[i].temperature) * off(i), span(i))}

\* curve_request
CurveRequest(curve, minute) ==
    [NoRequest EXCEPT !.power_on = {TRUE}, !.mode = {curve.operational_mode},
                      !.fan_speed = {curve.fan_speed},
                      !.target_temperature = CurveSetpoint(curve.points, minute)]
-----------------------------------------------------------------------------
(* The properties of one program.                                          *)

AtDistinctTimes(points) ==
    /\ points # <<>>
    /\ \A i, j \in DOMAIN points : points[i].time.minute = points[j].time.minute => i = j

\* "treating the points as a cyclic 24-hour curve": the setpoint is the half degree
\* nearest to the line through the last point so far and the next to come, be that
\* yesterday's last or tomorrow's first.
OnTheLine(points, minute, setpoint) ==
    LET ago(i) == (minute - points[i].time.minute) % MinutesPerDay
        from   == CHOOSE i \in DOMAIN points : \A j \in DOMAIN points : ago(i) <= ago(j)
        to     == CHOOSE i \in DOMAIN points : \A j \in DOMAIN points : ago(i) >= ago(j)
        length == MinutesPerDay - ago(to) + ago(from)
        rise   == points[to].temperature - points[from].temperature
        error  == (setpoint - points[from].temperature) * length - rise * ago(from) IN
    /\ setpoint % 5 = 0
    /\ 2 * error \in -5 * length .. 5 * length
=============================================================================
