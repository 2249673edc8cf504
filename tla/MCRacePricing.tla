---------------------------- MODULE MCRacePricing ----------------------------
(* Races of up to three laps between two cars.  Each has its own pace, so    *)
(* one can be lapped; each may stop early, with or without a report of it;   *)
(* a safety car is seen one unit of time after it happened.                  *)
EXTENDS RacePricing, SequencesExt

CONSTANTS ver, ham

Ev(id, type, time, seen, driver) ==
  [event_id |-> id, event_type |-> type, event_time |-> time,
   first_seen_at |-> seen, meeting_id |-> None, driver_id |-> driver, lap |-> None,
   position |-> None, tyre |-> None, tyre_age |-> None, weather |-> None]

Number(d) == IF d = ver THEN 0 ELSE 1
Rival(d) == IF d = ver THEN ham ELSE ver

\* Whether d ends lap n before its rival does.
Leads(d, n, pace, laps) ==
  \/ laps[Rival(d)] < n
  \/ pace[d] < pace[Rival(d)]
  \/ pace[d] = pace[Rival(d)] /\ d = ver

\* The slowest car's first lap has no position in the timing data.
Lap(d, n, pace, laps) ==
  [Ev(2 * n + Number(d), "LapCompleted", n * pace[d], n * pace[d], d)
     EXCEPT !.lap = n, !.tyre_age = n,
            !.position = IF n = 1 /\ pace[d] = 5 THEN None
                         ELSE IF Leads(d, n, pace, laps) THEN 1 ELSE 2]

\* A car that stops early is reported out, unless it is the slowest one.
Out(d, pace, laps) ==
  LET time == laps[d] * pace[d] + 1 IN Ev(30 + Number(d), "DriverRetired", time, time, d)
Safety == Ev(40, "SafetyCarDeployed", 3, 4, None)

Events(pace, laps) ==
  {Lap(x[1], x[2], pace, laps) :
     x \in {y \in Driver \X (1..TotalLaps) : y[2] <= laps[y[1]]}}
  \cup {Out(d, pace, laps) : d \in {c \in Driver : laps[c] < TotalLaps /\ pace[c] # 5}}
  \cup {Safety}

AllEvents == {Events(p, l) : p \in [Driver -> {2, 3, 5}], l \in [Driver -> 0..TotalLaps]}
RacesRun == {ReplayOrder(SetToSeq(E)) : E \in AllEvents}
Seen == UNION AllEvents
=============================================================================
