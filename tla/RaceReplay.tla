----------------------------- MODULE RaceReplay -----------------------------
(***************************************************************************)
(* domain/race_state.py over storage/event_store.py: events reach an       *)
(* append-only log in whatever order their sources deliver them; replay()  *)
(* sorts the log and folds it, one event per step, into a race state.      *)
(* Each branch of apply_event is an action.                                *)
(***************************************************************************)
EXTENDS RaceEvents

CONSTANTS Source,      \* the events the data sources can deliver
          RecentKept,  \* _RECENT_EVENTS_KEPT
          MaxLog       \* bound: entries in the log

ASSUME ReplayAssumption ==
  /\ Source \subseteq Event
  /\ RecentKept \in Nat /\ RecentKept >= 2
  /\ MaxLog \in Nat
  /\ None # "suspended"

VARIABLES
  log,             \* AppendOnlyEventStore._events, in insertion order
  phase,           \* "idle" | "folding" | "done"
  ordered,         \* the sorted copy replay() iterates over
  events_applied,  \* how many events of ordered are folded
  meeting_id, timestamp, current_lap, track_status, session_status,
  weather, drivers, recent_events, data_snapshot_id

raceVars == <<meeting_id, timestamp, current_lap, track_status, session_status,
              weather, drivers, recent_events>>
vars == <<log, phase, ordered, events_applied, raceVars, data_snapshot_id>>

DriverState ==
  [position       : Optional(Nat),
   lap_number     : Nat,
   tyre_compound  : Optional(Tyre),
   tyre_age       : Optional(Nat),
   stint_number   : Nat,
   pit_stop_count : Nat,
   retired        : BOOLEAN,
   running        : BOOLEAN]

NewDriver ==
  [position |-> None, lap_number |-> 0, tyre_compound |-> None, tyre_age |-> None,
   stint_number |-> 1, pit_stop_count |-> 0, retired |-> FALSE, running |-> TRUE]

Label(e) == <<e.event_type, e.driver_id>>

\* The reducer's fields have their declared types, the recent events are at
\* most RecentKept, and no more is folded than was sorted.
TypeOK ==
  /\ log \in Seq(Source)
  /\ phase \in {"idle", "folding", "done"}
  /\ ordered \in Seq(Source)
  /\ events_applied \in 0..Len(ordered)
  /\ meeting_id \in Optional(Meeting) \cup {"unknown"}
  /\ timestamp \in Optional(Nat)
  /\ current_lap \in Nat
  /\ track_status \in {"clear", "yellow", "safety_car", "red"}
  /\ session_status \in {None, "suspended"}
  /\ weather \in Optional(Weather)
  /\ DOMAIN drivers \subseteq Driver
  /\ drivers \in [DOMAIN drivers -> DriverState]
  /\ recent_events \in Seq(EventType \X Optional(Driver))
  /\ Len(recent_events) <= RecentKept
  /\ data_snapshot_id \in {None} \cup Seq(Nat)

-----------------------------------------------------------------------------
(***************************************************************************)
(* Helpers of the reducer.                                                 *)
(***************************************************************************)
Car(d) == IF d \in DOMAIN drivers THEN drivers[d] ELSE NewDriver

\* _with_driver: the mapping with d inserted or updated.
WithDriver(d, car) ==
  [x \in DOMAIN drivers \cup {d} |-> IF x = d THEN car ELSE drivers[x]]

\* Mutants: one label too many is kept; the oldest labels are.
RecordOneMore(labels, e) ==
  LET n == Len(labels)
  IN  Append(SubSeq(labels, IF n > RecentKept THEN n - RecentKept + 1 ELSE 1, n), Label(e))
RecordOldest(labels, e) ==
  LET n == Len(labels)
  IN  Append(SubSeq(labels, 1, IF n >= RecentKept THEN RecentKept - 1 ELSE n), Label(e))

\* _record: the last RecentKept - 1 labels, then the new one.
Record(labels, e) ==
  LET n     == Len(labels)
      first == IF n >= RecentKept THEN n - RecentKept + 2 ELSE 1
  IN  Append(SubSeq(labels, first, n), Label(e))

\* payload.get("lap", current lap of the driver)
ReportedLap(e) == IF e.lap = None THEN Car(e.driver_id).lap_number ELSE e.lap

\* The defaults of RaceState, which initial_state() returns.
EmptyRace ==
  /\ timestamp = None /\ current_lap = 0
  /\ track_status = "clear" /\ session_status = None
  /\ weather = None /\ drivers = <<>> /\ recent_events = <<>>
ResetRace ==
  /\ timestamp' = None /\ current_lap' = 0
  /\ track_status' = "clear" /\ session_status' = None
  /\ weather' = None /\ drivers' = <<>> /\ recent_events' = <<>>

Init ==
  /\ log = <<>> /\ phase = "idle" /\ ordered = <<>> /\ events_applied = 0
  /\ meeting_id = None /\ EmptyRace
  /\ data_snapshot_id = None

-----------------------------------------------------------------------------
\* AppendOnlyEventStore.append, of an event its constructor has accepted.
AppendEvent(e) ==
  /\ phase # "folding"
  /\ Len(log) < MaxLog
  /\ CausallyOrdered(e)
  /\ log' = Append(log, e)
  /\ phase' = "idle"
  /\ UNCHANGED <<ordered, events_applied, raceVars, data_snapshot_id>>

\* The head of replay(): m is the meeting_id argument, None when not given.
\* An empty log without it raises ValueError, so there is no step.
BeginReplay(m) ==
  /\ phase = "idle"
  /\ m # None \/ log # <<>>
  /\ phase' = "folding"
  /\ ordered' = ReplayOrder(log)
  /\ events_applied' = 0
  /\ meeting_id' = IF m # None THEN m
                   ELSE IF ordered'[1].meeting_id # None THEN ordered'[1].meeting_id
                   ELSE "unknown"
  /\ ResetRace
  /\ data_snapshot_id' = None
  /\ UNCHANGED log

\* What apply_event does for every event.
Fold(e) ==
  /\ phase = "folding"
  /\ events_applied < Len(ordered)
  /\ e = ordered[events_applied + 1]
  /\ events_applied' = events_applied + 1
  /\ timestamp' = e.event_time
  /\ recent_events' = Record(recent_events, e)
  /\ UNCHANGED <<log, phase, ordered, meeting_id, data_snapshot_id>>

\* Mutant: a lap that starts the car anew.
LapOfNewCar(e) ==
  /\ e.event_type = "LapCompleted" /\ e.driver_id # None
  /\ Fold(e)
  /\ drivers' = WithDriver(e.driver_id,
                  [NewDriver EXCEPT !.lap_number = ReportedLap(e),
                                    !.position = e.position,
                                    !.tyre_compound = e.tyre,
                                    !.tyre_age = e.tyre_age])
  /\ current_lap' = IF ReportedLap(e) > current_lap THEN ReportedLap(e)
                    ELSE current_lap
  /\ UNCHANGED <<track_status, session_status, weather>>

LapCompleted(e) ==
  /\ e.event_type = "LapCompleted" /\ e.driver_id # None
  /\ Fold(e)
  /\ drivers' = WithDriver(e.driver_id,
                  [Car(e.driver_id) EXCEPT !.lap_number = ReportedLap(e),
                                           !.position = e.position,
                                           !.tyre_compound = e.tyre,
                                           !.tyre_age = e.tyre_age])
  /\ current_lap' = IF ReportedLap(e) > current_lap THEN ReportedLap(e)
                    ELSE current_lap
  /\ UNCHANGED <<track_status, session_status, weather>>

PositionChanged(e) ==
  /\ e.event_type = "PositionChanged" /\ e.driver_id # None
  /\ Fold(e)
  /\ drivers' = WithDriver(e.driver_id,
                           [Car(e.driver_id) EXCEPT !.position = e.position])
  /\ UNCHANGED <<current_lap, track_status, session_status, weather>>

\* Mutant: the age of the old tyres stays on the new ones.
PitStopKeepingAge(e) ==
  /\ e.event_type = "PitStopCompleted" /\ e.driver_id # None
  /\ Fold(e)
  /\ drivers' = WithDriver(e.driver_id,
                  [Car(e.driver_id) EXCEPT
                     !.pit_stop_count = @ + 1,
                     !.stint_number = @ + 1,
                     !.tyre_compound = IF e.tyre = None THEN @ ELSE e.tyre])
  /\ UNCHANGED <<current_lap, track_status, session_status, weather>>

PitStopCompleted(e) ==
  /\ e.event_type = "PitStopCompleted" /\ e.driver_id # None
  /\ Fold(e)
  /\ drivers' = WithDriver(e.driver_id,
                  [Car(e.driver_id) EXCEPT
                     !.pit_stop_count = @ + 1,
                     !.stint_number = @ + 1,
                     !.tyre_compound = IF e.tyre = None THEN @ ELSE e.tyre,
                     !.tyre_age = 0])
  /\ UNCHANGED <<current_lap, track_status, session_status, weather>>

TyreCompoundChanged(e) ==
  /\ e.event_type = "TyreCompoundChanged" /\ e.driver_id # None
  /\ Fold(e)
  /\ drivers' = WithDriver(e.driver_id,
                  [Car(e.driver_id) EXCEPT !.tyre_compound = e.tyre,
                                           !.tyre_age = 0])
  /\ UNCHANGED <<current_lap, track_status, session_status, weather>>

DriverOut(e) ==
  /\ e.event_type \in {"DriverRetired", "DriverStopped"} /\ e.driver_id # None
  /\ Fold(e)
  /\ drivers' = WithDriver(e.driver_id,
                  [Car(e.driver_id) EXCEPT !.retired = TRUE, !.running = FALSE])
  /\ UNCHANGED <<current_lap, track_status, session_status, weather>>

\* Mutant: a safety car after a red flag lifts the suspension.
SafetyCarResumes(e) ==
  /\ e.event_type = "SafetyCarDeployed"
  /\ Fold(e)
  /\ track_status' = "safety_car"
  /\ session_status' = None
  /\ UNCHANGED <<current_lap, weather, drivers>>

SafetyCarDeployed(e) ==
  /\ e.event_type = "SafetyCarDeployed"
  /\ Fold(e)
  /\ track_status' = "safety_car"
  /\ UNCHANGED <<current_lap, session_status, weather, drivers>>

YellowFlagStarted(e) ==
  /\ e.event_type = "YellowFlagStarted"
  /\ Fold(e)
  /\ track_status' = "yellow"
  /\ UNCHANGED <<current_lap, session_status, weather, drivers>>

RedFlagStarted(e) ==
  /\ e.event_type = "RedFlagStarted"
  /\ Fold(e)
  /\ track_status' = "red"
  /\ session_status' = "suspended"
  /\ UNCHANGED <<current_lap, weather, drivers>>

WeatherUpdated(e) ==
  /\ e.event_type = "WeatherUpdated"
  /\ Fold(e)
  /\ weather' = e.weather
  /\ UNCHANGED <<current_lap, track_status, session_status, drivers>>

\* No branch applies: the event is counted and labelled, nothing else.
DriverEventType == {"LapCompleted", "PositionChanged", "PitStopCompleted",
                    "TyreCompoundChanged", "DriverRetired", "DriverStopped"}
RaceEventType == {"SafetyCarDeployed", "YellowFlagStarted", "RedFlagStarted",
                  "WeatherUpdated"}
NoBranch(e) ==
  /\ e.event_type \notin RaceEventType
  /\ e.event_type \in DriverEventType => e.driver_id = None
  /\ Fold(e)
  /\ UNCHANGED <<current_lap, track_status, session_status, weather, drivers>>

\* The tail of replay(): the snapshot id, a hash of the applied ids in order.
FinishReplay ==
  /\ phase = "folding"
  /\ events_applied = Len(ordered)
  /\ phase' = "done"
  /\ data_snapshot_id' = [k \in 1..Len(ordered) |-> ordered[k].event_id]
  /\ UNCHANGED <<log, ordered, events_applied, raceVars>>

ApplyEvent(e) ==
  \/ LapCompleted(e)
  \/ PositionChanged(e)
  \/ PitStopCompleted(e)
  \/ TyreCompoundChanged(e)
  \/ DriverOut(e)
  \/ SafetyCarDeployed(e)
  \/ YellowFlagStarted(e)
  \/ RedFlagStarted(e)
  \/ WeatherUpdated(e)
  \/ NoBranch(e)

Next ==
  \/ \E e \in Source : AppendEvent(e)
  \/ \E m \in Optional(Meeting) : BeginReplay(m)
  \/ \E e \in Source : ApplyEvent(e)
  \/ FinishReplay

Spec == Init /\ [][Next]_vars

-----------------------------------------------------------------------------
(***************************************************************************)
(* What the race state must be: a summary of the folded events, stated     *)
(* without folding.  Applied(T, d) are the folded events of driver d whose *)
(* type is in T, by their place in the replay order.                       *)
(***************************************************************************)
Applied(T, d) ==
  {i \in 1..events_applied : /\ ordered[i].event_type \in T
                             /\ ordered[i].driver_id = d}
AppliedType(T) == {i \in 1..events_applied : ordered[i].event_type \in T}
Latest(I, i) == i \in I /\ \A j \in I : j <= i

TyreFits == {i \in 1..events_applied :
               ordered[i].event_type = "PitStopCompleted" => ordered[i].tyre # None}
LapReports == {i \in 1..events_applied :
                 /\ ordered[i].event_type = "LapCompleted"
                 /\ ordered[i].driver_id # None
                 /\ ordered[i].lap # None}

\* The position shown is the one of the driver's latest lap or position event.
PositionOf(d) ==
  LET I == Applied({"LapCompleted", "PositionChanged"}, d)
  IN  /\ I = {} => Car(d).position = None
      /\ \A i \in I : Latest(I, i) => Car(d).position = ordered[i].position

\* The lap shown is the one of the driver's latest lap event that names a lap.
LapOf(d) ==
  LET I == LapReports \cap Applied({"LapCompleted"}, d)
  IN  /\ I = {} => Car(d).lap_number = 0
      /\ \A i \in I : Latest(I, i) => Car(d).lap_number = ordered[i].lap

\* The tyre shown is the last one fitted; its age is 0 from the stop or change
\* until the driver's next completed lap, whatever those events' timestamps.
TyreOf(d) ==
  LET I == Applied({"LapCompleted", "PitStopCompleted", "TyreCompoundChanged"}, d)
  IN  /\ I = {} => Car(d).tyre_age = None
      /\ I \cap TyreFits = {} => Car(d).tyre_compound = None
      /\ \A i \in I : Latest(I, i) =>
           Car(d).tyre_age = IF ordered[i].event_type = "LapCompleted"
                             THEN ordered[i].tyre_age ELSE 0
      /\ \A i \in I \cap TyreFits : Latest(I \cap TyreFits, i) =>
           Car(d).tyre_compound = ordered[i].tyre

\* Every stop is counted once and opens a stint.
StopsOf(d) ==
  /\ Car(d).pit_stop_count = Cardinality(Applied({"PitStopCompleted"}, d))
  /\ Car(d).stint_number = Car(d).pit_stop_count + 1

\* A car is out exactly when it was reported so, however many laps follow.
RetirementOf(d) ==
  /\ Car(d).retired <=> Applied({"DriverRetired", "DriverStopped"}, d) # {}
  /\ Car(d).running <=> ~Car(d).retired

\* Only drivers with an event of their own are in the mapping.
Mentioned(d) == d \in DOMAIN drivers <=> Applied(DriverEventType, d) # {}

(* Replay invariant for cars: for every driver, the folded DriverState is    *)
(* what the replayed prefix of the log says of it (apply_event 99-133).      *)
CarsMatchLog ==
  \A d \in Driver : /\ PositionOf(d) /\ LapOf(d) /\ TyreOf(d)
                    /\ StopsOf(d) /\ RetirementOf(d) /\ Mentioned(d)

(* Replay invariant for the race: the leader's lap is the highest lap any    *)
(* car reported, the flag and the weather are those of the latest such       *)
(* event, and a session that saw a red flag stays suspended (111, 135-143).  *)
RaceMatchesLog ==
  LET Flags == AppliedType({"SafetyCarDeployed", "YellowFlagStarted", "RedFlagStarted"})
      Readings == AppliedType({"WeatherUpdated"})
  IN  /\ \A i \in LapReports : ordered[i].lap <= current_lap
      /\ current_lap = 0 \/ \E i \in LapReports : ordered[i].lap = current_lap
      /\ Flags = {} => track_status = "clear"
      /\ \A i \in Flags : Latest(Flags, i) =>
           track_status = CASE ordered[i].event_type = "SafetyCarDeployed" -> "safety_car"
                            [] ordered[i].event_type = "YellowFlagStarted" -> "yellow"
                            [] ordered[i].event_type = "RedFlagStarted"    -> "red"
      /\ session_status = "suspended" <=> AppliedType({"RedFlagStarted"}) # {}
      /\ Readings = {} => weather = None
      /\ \A i \in Readings : Latest(Readings, i) => weather = ordered[i].weather

(* recent_events is the tail of the replayed labels: never more than         *)
(* RecentKept, none missing, in replay order (_record 80-84).                *)
RecentIsTail ==
  /\ Len(recent_events) = IF events_applied < RecentKept THEN events_applied ELSE RecentKept
  /\ \A k \in 1..Len(recent_events) :
       recent_events[k] = Label(ordered[events_applied - Len(recent_events) + k])

(* No car is shown on a lap beyond the leader's, although lap numbers may    *)
(* repeat, be missing or arrive out of order (RaceState.current_lap).        *)
NoCarAheadOfLeader == \A d \in Driver : Car(d).lap_number <= current_lap

(* Replay order depends on which events the log holds, never on the order    *)
(* they arrived in: place k holds the event with fewer than k events before  *)
(* it by key and at least k no later than it (sort_key 86-92).               *)
ReplayIsCanonical ==
  phase # "idle" =>
    /\ Len(ordered) = Len(log)
    /\ \A k \in 1..Len(ordered) :
         /\ Cardinality({j \in DOMAIN log : KeyLess(log[j], ordered[k])}) < k
         /\ k <= Cardinality({j \in DOMAIN log : ~KeyLess(ordered[k], log[j])})

(* World time never runs backwards while a log is replayed, and what a       *)
(* replay has established about a car (its stops, its retirement) and the    *)
(* leader's lap are never taken back by a later event of the log.            *)
ReplayMovesForward ==
  [][events_applied' = events_applied + 1 =>
       /\ timestamp # None => timestamp <= timestamp'
       /\ current_lap <= current_lap'
       /\ \A d \in DOMAIN drivers :
            /\ d \in DOMAIN drivers'
            /\ drivers[d].pit_stop_count <= drivers'[d].pit_stop_count
            /\ drivers[d].retired => drivers'[d].retired]_vars
=============================================================================
