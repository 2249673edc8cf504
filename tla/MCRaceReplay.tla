---------------------------- MODULE MCRaceReplay ----------------------------
(* Two cars, one pit stop that shares both timestamps with a lap, laps that  *)
(* are out of order or unnumbered, and every kind of race event.             *)
EXTENDS RaceReplay

CONSTANTS ver, ham, soft, hard, dry, rain, spa

Blank == [event_id |-> 0, event_type |-> "PitEntry", event_time |-> 0,
          first_seen_at |-> 0, meeting_id |-> None, driver_id |-> None,
          lap |-> None, position |-> None, tyre |-> None, tyre_age |-> None,
          weather |-> None]

Ev(id, type, time, seen, driver) ==
  [Blank EXCEPT !.event_id = id, !.event_type = type, !.event_time = time,
                !.first_seen_at = seen, !.driver_id = driver]

Lap(id, time, seen, driver, lap, position, tyre, age) ==
  [Ev(id, "LapCompleted", time, seen, driver)
     EXCEPT !.lap = lap, !.position = position, !.tyre = tyre, !.tyre_age = age]

Lap1    == Lap(4, 1, 1, ver, 1, 1, soft, 1)
\* lap 2 and the stop at its end: same times, the ids break the tie
Lap2    == Lap(7, 2, 3, ver, 2, 2, soft, 2)
Stop2   == [Ev(5, "PitStopCompleted", 2, 3, ver) EXCEPT !.tyre = hard]
\* a stop whose new tyre is not reported
StopX   == Ev(6, "PitStopCompleted", 3, 3, ver)
\* happened before lap 2 but was seen after it; names no lap and no position
LapHam  == Lap(1, 2, 4, ham, None, None, None, 3)
LapHam3 == [Lap(3, 3, 4, ham, 3, 1, soft, 1) EXCEPT !.meeting_id = spa]
Change  == [Ev(8, "TyreCompoundChanged", 4, 4, ham) EXCEPT !.tyre = hard]
Moved   == [Ev(9, "PositionChanged", 3, 3, ver) EXCEPT !.position = 1]
Out     == Ev(2, "DriverRetired", 2, 2, ver)
Stopped == Ev(10, "DriverStopped", 4, 5, ham)
Orphan  == Lap(11, 4, 4, None, 9, 1, soft, 1)
Entry   == Ev(12, "PitEntry", 2, 2, ver)
Early   == [Lap1 EXCEPT !.event_time = 5, !.event_id = 13]  \* seen before it happened

CarEvents == {Lap1, Lap2, Stop2, StopX, LapHam, LapHam3, Change, Moved, Out, Stopped}

Yellow == Ev(21, "YellowFlagStarted", 1, 1, None)
Safety == Ev(22, "SafetyCarDeployed", 3, 3, None)  \* after the red flag
Red    == Ev(23, "RedFlagStarted", 2, 2, None)
Dry    == [Ev(24, "WeatherUpdated", 1, 3, None) EXCEPT !.weather = dry]
Wet    == [Ev(25, "WeatherUpdated", 3, 3, None) EXCEPT !.weather = rain]
ControlEvents == {Yellow, Safety, Red, Wet, Dry, Entry, Orphan, Early}
AllEvents == CarEvents \cup ControlEvents
=============================================================================
