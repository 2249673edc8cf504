----------------------------- MODULE MCIngestion -----------------------------
(* What a downloaded race goes through: the event store, and the quality     *)
(* report, which is made of any log and so of more logs than those that the  *)
(* sessions of MCEventStore give.  They share no state and are run side by   *)
(* side: the store from the states where the log to report on is empty, the  *)
(* report on every log of up to MaxLog events, of laps that repeat, run      *)
(* backwards or are unnumbered, stops and changes, entries to and exits from *)
(* the pit lane, and weather.                                                *)
EXTENDS MCEventStore, QualityReport

CONSTANTS ham, dry, scorching, freezing, MaxLog

Ev(id, type, time, driver) ==
  [event_id |-> id, event_type |-> type, event_time |-> time,
   first_seen_at |-> time, meeting_id |-> None, driver_id |-> driver, lap |-> None,
   position |-> None, tyre |-> None, tyre_age |-> None, weather |-> None]

Lap(id, time, driver, lap, position, age) ==
  [Ev(id, "LapCompleted", time, driver)
     EXCEPT !.lap = lap, !.position = position, !.tyre_age = age]
Reading(id, time, weather) ==
  [Ev(id, "WeatherUpdated", time, None) EXCEPT !.weather = weather]

Lap1   == Lap(11, 1, ver, 1, 1, 8)
Lap3   == Lap(12, 2, ver, 3, 3, 9)     \* position out of range
Lap1b  == Lap(24, 3, ver, 1, 1, 9)     \* lap 1 again, after lap 3
Stop   == Ev(10, "PitStopCompleted", 1, ver)  \* at the end of lap 1, before it by id
Lap2   == Lap(13, 4, ver, 2, 1, 1)     \* lap 2 at last, on fresh tyres
LapX   == Lap(14, 2, ver, None, 1, 0)
LapHam == Lap(15, 3, ham, 1, 2, 4)
Entry  == Ev(16, "PitEntry", 1, ver)
Exit   == Ev(17, "PitExit", 2, ver)
Change == Ev(18, "TyreCompoundChanged", 2, ver)
Slow   == {LapX}

\* logs of the events the lap and tyre checks read, logs of those the others read
LapSource == {Lap1, Lap3, Lap1b, Lap2, Stop, LapX, LapHam, Change}
PitSource == {Entry, Exit, Ev(19, "PitExit", 3, ham), Ev(20, "PitEntry", 2, None),
              Lap2, Reading(21, 1, scorching), Reading(22, 2, freezing),
              Reading(23, 3, dry)}
LogsOf(S) == UNION {[1..n -> S] : n \in 0..MaxLog}
LapLogs == LogsOf(LapSource)
PitLogs == LogsOf(PitSource)
AllLogs == LapLogs \cup PitLogs

IngestionInit == Init /\ ReportInit /\ (raw # <<>> => session = Anchored)
IngestionNext ==
  \/ raw = <<>> /\ Next /\ UNCHANGED reportVars
  \/ raw # <<>> /\ ReportNext /\ UNCHANGED vars
IngestionSpec == IngestionInit /\ [][IngestionNext]_<<vars, reportVars>>
=============================================================================
