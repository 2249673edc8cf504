--------------------------- MODULE FastF1Session ----------------------------
(***************************************************************************)
(* ingestion/fastf1_adapter.py: the four tables of a FastF1 session and    *)
(* the events that load_session_events makes of their rows.                *)
(*                                                                         *)
(* Laps, weather and track status are timed from the start of the session  *)
(* clock and need the anchor t0; race control messages carry absolute      *)
(* times.  An event is stamped with one time for both its own and its      *)
(* first sight, so it is always causally ordered.                          *)
(***************************************************************************)
EXTENDS RaceEvents, Integers, SequencesExt

LapRow == [time : Optional(Nat), driver : Driver, number : Optional(Nat),
           position : Optional(Nat), compound : Optional(Tyre),
           tyre_life : Optional(Nat), pit_in : BOOLEAN]
WeatherRow == [time : Optional(Nat), weather : Weather]
StatusRow == [time : Optional(Nat), code : {"1", "2", "4", "5", "6", "7"}]
MessageRow == [time : Optional(Nat)]

Session ==
  [date : Optional(Nat), start : Optional(Nat),  \* absolute, and on the session clock
   laps : Seq(LapRow), weather : Seq(WeatherRow),
   track_status : Seq(StatusRow), messages : Seq(MessageRow)]

\* _session_t0: where the session clock reads 0, None if either part is missing.
T0(s) == IF s.date = None \/ s.start = None THEN None ELSE s.date - s.start

\* _rel_to_abs
RelToAbs(t0, time) == IF t0 = None \/ time = None THEN None ELSE t0 + time

Or(time, now) == IF time = None THEN now ELSE time

\* An event at a time, without a car and without a payload.
Plain(type, time) ==
  [event_id |-> 0, event_type |-> type, event_time |-> time, first_seen_at |-> time,
   meeting_id |-> None, driver_id |-> None, lap |-> None, position |-> None,
   tyre |-> None, tyre_age |-> None, weather |-> None]

LapEvent(row, time) ==
  [Plain("LapCompleted", time) EXCEPT
     !.driver_id = row.driver, !.lap = row.number, !.position = row.position,
     !.tyre = row.compound, !.tyre_age = row.tyre_life]
StopEvent(row, time) ==
  [Plain("PitStopCompleted", time) EXCEPT !.driver_id = row.driver, !.lap = row.number]

\* A lap, and a stop with the lap's end time if the car came in; nothing of a
\* lap that has no end time.
EventsOfLap(s, row) ==
  LET time == RelToAbs(T0(s), row.time)
  IN  IF time = None THEN <<>>
      ELSE IF row.pit_in THEN <<LapEvent(row, time), StopEvent(row, time)>>
      ELSE <<LapEvent(row, time)>>

LapEvents(s) == FlattenSeq([i \in DOMAIN s.laps |-> EventsOfLap(s, s.laps[i])])

\* A row without a time, or a session without an anchor, is stamped now.
WeatherEvents(s, now) ==
  [i \in DOMAIN s.weather |->
     [Plain("WeatherUpdated", Or(RelToAbs(T0(s), s.weather[i].time), now)) EXCEPT
        !.weather = s.weather[i].weather]]

StatusType == [code \in {"2", "4", "5", "6"} |->
                 CASE code = "2" -> "YellowFlagStarted"
                   [] code = "5" -> "RedFlagStarted"
                   [] OTHER -> "SafetyCarDeployed"]

\* Mutant: the session clock is taken for the wall clock.
StatusUnanchored(s, row, now) ==
  IF row.code \in DOMAIN StatusType
  THEN <<Plain(StatusType[row.code], Or(row.time, now))>> ELSE <<>>

\* A clear track and the end of a virtual safety car make no event.
EventsOfStatus(s, row, now) ==
  IF row.code \in DOMAIN StatusType
  THEN <<Plain(StatusType[row.code], Or(RelToAbs(T0(s), row.time), now))>> ELSE <<>>

TrackStatusEvents(s, now) ==
  FlattenSeq([i \in DOMAIN s.track_status |-> EventsOfStatus(s, s.track_status[i], now)])

RaceControlEvents(s, now) ==
  [i \in DOMAIN s.messages |->
     Plain("RaceControlMessagePublished", Or(s.messages[i].time, now))]

\* load_session_events before its sort, downloaded at the time now.
SessionEvents(s, now) ==
  LapEvents(s) \o WeatherEvents(s, now) \o TrackStatusEvents(s, now)
    \o RaceControlEvents(s, now)
=============================================================================
