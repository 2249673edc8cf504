---------------------------- MODULE QualityReport ----------------------------
(***************************************************************************)
(* ingestion/normalization.py: run_quality_checks makes four passes over a *)
(* log, the first over the log as given and the others over its replay     *)
(* order.  One step per event of a pass.                                   *)
(*                                                                         *)
(* A lap's lap_time and a reading's temperatures are only compared with a  *)
(* constant range; SlowClock and Implausible say which fail.               *)
(***************************************************************************)
EXTENDS RaceEvents, SequencesExt

CONSTANTS Logs,                 \* the logs a report is asked for
          MaxPlausiblePosition,
          NonPositiveLap,       \* the laps whose lap_time is not positive
          TrackImplausible, AirImplausible  \* weather out of range

ASSUME QualityAssumption ==
  /\ \A l \in Logs : l \in Seq(Event) /\ \A e \in Range(l) : CausallyOrdered(e)
  /\ MaxPlausiblePosition \in Nat
  /\ NonPositiveLap \subseteq UNION {Range(l) : l \in Logs}
  /\ TrackImplausible \subseteq Weather /\ AirImplausible \subseteq Weather

VARIABLES raw, ordered,
          pass,           \* "timestamps" | "laps" | "pits" | "weather" | "done"
          at,             \* events of this pass already looked at
          prev,           \* event_time of the one before
          seen_laps, last_lap, last_tyre_age,  \* per driver
          in_pit,         \* drivers between entry and exit
          issues          \* set of [code, at]: at is the event reported

lapVars == <<seen_laps, last_lap, last_tyre_age>>
reportVars == <<raw, ordered, pass, at, prev, lapVars, in_pit, issues>>

Error == {"timestamp_backward", "duplicate_lap", "lap_out_of_order",
          "position_out_of_range", "nonpositive_lap_time", "pit_exit_before_entry"}
Warning == {"tyre_age_decreased", "track_temp_implausible", "air_temp_implausible"}

ReportInit ==
  /\ raw \in Logs
  /\ ordered = ReplayOrder(raw)
  /\ pass = "timestamps" /\ at = 0 /\ prev = None
  /\ seen_laps = [d \in Driver |-> {}]
  /\ last_lap = [d \in Driver |-> None]
  /\ last_tyre_age = [d \in Driver |-> None]
  /\ in_pit = {} /\ issues = {}

-----------------------------------------------------------------------------
\* The next event e of pass p, over log.
Look(p, log, e) ==
  /\ pass = p /\ at < Len(log)
  /\ e = log[at + 1]
  /\ at' = at + 1
  /\ UNCHANGED <<raw, ordered, pass>>

\* Each code whose condition holds is reported at this event.
Report(found) == issues' = issues \cup {[code |-> c, at |-> at + 1] : c \in found}

NextPass ==
  /\ at = Len(raw)
  /\ \E p \in {<<"timestamps", "laps">>, <<"laps", "pits">>,
               <<"pits", "weather">>, <<"weather", "done">>} :
       pass = p[1] /\ pass' = p[2]
  /\ at' = IF pass' = "done" THEN at ELSE 0
  /\ UNCHANGED <<raw, ordered, prev, lapVars, in_pit, issues>>

CheckTimestamp(e) ==
  /\ Look("timestamps", raw, e)
  /\ Report(IF prev # None /\ e.event_time < prev THEN {"timestamp_backward"} ELSE {})
  /\ prev' = e.event_time
  /\ UNCHANGED <<lapVars, in_pit>>

\* Mutant: a stop does not reset the age.
KeepTyreAge(e) ==
  /\ Look("laps", ordered, e)
  /\ e.event_type \in {"PitStopCompleted", "TyreCompoundChanged"}
  /\ UNCHANGED <<prev, lapVars, in_pit, issues>>

\* _check_laps: its loop body in three actions.
ResetTyreAge(e) ==
  /\ Look("laps", ordered, e)
  /\ e.event_type \in {"PitStopCompleted", "TyreCompoundChanged"}
  /\ last_tyre_age' = IF e.driver_id = None THEN last_tyre_age
                      ELSE [last_tyre_age EXCEPT ![e.driver_id] = 0]
  /\ UNCHANGED <<prev, seen_laps, last_lap, in_pit, issues>>

IsLap(e) == e.event_type = "LapCompleted" /\ e.driver_id # None

LapIssues(e) ==
  LET d == e.driver_id
  IN  {c \in Error \cup Warning :
        \/ c = "duplicate_lap" /\ e.lap # None /\ e.lap \in seen_laps[d]
        \/ /\ c = "lap_out_of_order" /\ e.lap # None
           /\ last_lap[d] # None /\ e.lap < last_lap[d]
        \/ /\ c = "position_out_of_range" /\ e.position # None
           /\ e.position \notin 1..MaxPlausiblePosition
        \/ c = "nonpositive_lap_time" /\ e \in NonPositiveLap
        \/ /\ c = "tyre_age_decreased" /\ e.tyre_age # None
           /\ last_tyre_age[d] # None /\ e.tyre_age < last_tyre_age[d]}

\* Mutants: the last lap instead of the highest; laps are not remembered.
LatestLap(old, lap) == IF lap = None THEN old ELSE lap
NoLap(lap) == {}

HighestLap(old, lap) ==
  IF lap = None THEN old ELSE IF old = None \/ lap > old THEN lap ELSE old
NewlySeen(lap) == {lap} \ {None}

CheckLap(e) ==
  /\ Look("laps", ordered, e)
  /\ IsLap(e)
  /\ Report(LapIssues(e))
  /\ seen_laps' = [seen_laps EXCEPT ![e.driver_id] = @ \cup NewlySeen(e.lap)]
  /\ last_lap' = [last_lap EXCEPT ![e.driver_id] = HighestLap(@, e.lap)]
  /\ last_tyre_age' = [last_tyre_age EXCEPT ![e.driver_id] =
                         IF e.tyre_age = None THEN @ ELSE e.tyre_age]
  /\ UNCHANGED <<prev, in_pit>>

SkipInLaps(e) ==
  /\ Look("laps", ordered, e)
  /\ e.event_type \notin {"PitStopCompleted", "TyreCompoundChanged"} /\ ~IsLap(e)
  /\ UNCHANGED <<prev, lapVars, in_pit, issues>>

\* Mutant: an exit leaves the car in the pit lane.
CheckPitNoExit(e) ==
  /\ Look("pits", ordered, e)
  /\ LET exits == e.event_type = "PitExit" /\ e.driver_id # None
         enters == e.event_type = "PitEntry" /\ e.driver_id # None
     IN  /\ Report(IF exits /\ e.driver_id \notin in_pit
                   THEN {"pit_exit_before_entry"} ELSE {})
         /\ in_pit' = IF enters THEN in_pit \cup {e.driver_id} ELSE in_pit
  /\ UNCHANGED <<prev, lapVars>>

CheckPit(e) ==
  /\ Look("pits", ordered, e)
  /\ LET exits == e.event_type = "PitExit" /\ e.driver_id # None
         enters == e.event_type = "PitEntry" /\ e.driver_id # None
     IN  /\ Report(IF exits /\ e.driver_id \notin in_pit
                   THEN {"pit_exit_before_entry"} ELSE {})
         /\ in_pit' = IF enters THEN in_pit \cup {e.driver_id}
                      ELSE IF exits THEN in_pit \ {e.driver_id} ELSE in_pit
  /\ UNCHANGED <<prev, lapVars>>

CheckWeather(e) ==
  /\ Look("weather", ordered, e)
  /\ LET reading == e.event_type = "WeatherUpdated"
     IN  Report({c \in Warning :
           \/ c = "track_temp_implausible" /\ reading /\ e.weather \in TrackImplausible
           \/ c = "air_temp_implausible" /\ reading /\ e.weather \in AirImplausible})
  /\ UNCHANGED <<prev, lapVars, in_pit>>

ReportNext ==
  \/ NextPass
  \/ \E e \in Range(raw) :
       \/ CheckTimestamp(e)
       \/ ResetTyreAge(e)
       \/ CheckLap(e)
       \/ SkipInLaps(e)
       \/ CheckPit(e)
       \/ CheckWeather(e)

ReportSpec == ReportInit /\ [][ReportNext]_reportVars

-----------------------------------------------------------------------------
Ok == ~\E i \in issues : i.code \in Error
Done == pass = "done"
Reported(code) == {i.at : i \in {j \in issues : j.code = code}}

\* Places of driver d's events of the given types, up to place j.
Of(types, d, j) ==
  {i \in 1..j : ordered[i].event_type \in types /\ ordered[i].driver_id = d}
NumberedLaps == {i \in DOMAIN ordered : IsLap(ordered[i]) /\ ordered[i].lap # None}
SameCar(i, j) == ordered[i].driver_id = ordered[j].driver_id

(* A lap is reported as a duplicate or out of order exactly when an earlier  *)
(* lap of the same car, in replay order, has its number or a higher one      *)
(* (_check_laps 102-124).                                                    *)
LapIssuesAreExact ==
  Done =>
    /\ Reported("duplicate_lap") =
         {j \in NumberedLaps : \E i \in NumberedLaps :
            i < j /\ SameCar(i, j) /\ ordered[i].lap = ordered[j].lap}
    /\ Reported("lap_out_of_order") =
         {j \in NumberedLaps : \E i \in NumberedLaps :
            i < j /\ SameCar(i, j) /\ ordered[i].lap > ordered[j].lap}

(* A log that passes replays with every car's laps counting strictly up, so  *)
(* no replayed lap number is ever taken back (run_quality_checks, ok).       *)
OkLogCountsLapsUp ==
  Done /\ Ok => \A i, j \in NumberedLaps :
    i < j /\ SameCar(i, j) => ordered[i].lap < ordered[j].lap

(* A pit exit is reported exactly when the car's previous pit event, if any, *)
(* is not an entry (_check_pit_ordering).                                    *)
PitIssuesAreExact ==
  Done => Reported("pit_exit_before_entry") =
    {j \in DOMAIN ordered :
       /\ ordered[j].event_type = "PitExit" /\ ordered[j].driver_id # None
       /\ LET before == Of({"PitEntry", "PitExit"}, ordered[j].driver_id, j - 1)
          IN  \A i \in before : (\A k \in before : k <= i)
                                  => ordered[i].event_type # "PitEntry"}

(* The tyre warning compares a lap with the car's last aged lap or, if one   *)
(* came after it in replay order, with a fresh set (_check_laps 89-92,       *)
(* 147-160).                                                                 *)
TyreWarningsAreExact ==
  Done => Reported("tyre_age_decreased") =
    {j \in DOMAIN ordered :
       /\ IsLap(ordered[j]) /\ ordered[j].tyre_age # None
       /\ \E i \in Of({"LapCompleted"}, ordered[j].driver_id, j - 1) :
            /\ ordered[i].tyre_age # None /\ ordered[i].tyre_age > ordered[j].tyre_age
            /\ \A k \in Of({"PitStopCompleted", "TyreCompoundChanged"},
                           ordered[j].driver_id, j - 1) : k < i
            /\ \A k \in Of({"LapCompleted"}, ordered[j].driver_id, j - 1) :
                 k <= i \/ ordered[k].tyre_age = None}
=============================================================================
