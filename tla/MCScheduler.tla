---------------------------- MODULE MCScheduler ----------------------------
(* Instances of Scheduler for TLC: a day has four minutes.                 *)
EXTENDS Scheduler

UnitSymmetry == Permutations(Units)

At(minute) == [minute |-> minute, padded |-> TRUE]
Blank == [name |-> 5, enabled |-> TRUE, units |-> {}, kind |-> "favourite", favourite |-> None,
          schedule |-> <<>>, curve |-> None]

On  == [NoRequest EXCEPT !.power_on = {TRUE}]
Off == [NoRequest EXCEPT !.power_on = {FALSE}]
Entry(days, time, settings) == [days |-> days, time |-> time, settings |-> settings]
Schedule(list) == [Blank EXCEPT !.kind = "schedule", !.schedule = list]

Point(time, temperature) == [time |-> time, temperature |-> temperature]
Curve(mode, points) ==
    [Blank EXCEPT !.kind = "curve",
                  !.curve = {[operational_mode |-> mode, fan_speed |-> 102, points |-> points]}]

\* A schedule with two entries, of which one is for the second day only, and one of a
\* single entry, stored but off.
Together == Schedule(<<Entry({}, At(0), On), Entry({1}, At(1), Off)>>)
Single   == [Schedule(<<Entry({}, At(1), On)>>) EXCEPT !.enabled = FALSE]

\* Curves that move every minute and pass midnight on a slope, that stay, that have
\* no points; what is no program, for a temperature nobody may ask for; a favourite.
Slope == Curve("cool", <<Point(At(3), 233), Point(At(2), 200)>>)
Level == Curve("HEAT", <<Point(At(1), 200)>>)
Empty == Curve("HEAT", <<>>)
TooHot == Curve("HEAT", <<Point(At(1), 301)>>)

Scene == [Blank EXCEPT !.favourite = {On}]

Mixed == {Together, Single, Slope, Level, Empty, TooHot, Scene}
=============================================================================
