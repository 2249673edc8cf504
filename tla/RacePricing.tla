----------------------------- MODULE RacePricing -----------------------------
(***************************************************************************)
(* Pricing a race from one of its laps, as scripts/price_race.py and the   *)
(* dashboard's _sim do: cut the race's log after a lap, replay the cut     *)
(* (RaceReplay), and build the simulator's input from the state            *)
(* (services/pricing_service.py).                                          *)
(*                                                                         *)
(* The numeric part of the input (pace, tyre curves, retirement odds) is   *)
(* left out.  Gaps count in the 1.5 s that separate two positions.         *)
(***************************************************************************)
EXTENDS RaceReplay, FiniteSetsExt

CONSTANTS Races,               \* the logs of races that were run, as loaded
          TotalLaps,
          ActiveLapTolerance,  \* active_lap_tolerance
          RetiredGap           \* the gap given to a car out of the race

ASSUME PricingAssumption ==
  /\ Races \subseteq Seq(Source)
  /\ TotalLaps \in Nat /\ ActiveLapTolerance \in Nat /\ RetiredGap \in Nat

\* Logs are loaded from the store, which sorts them (the demo log is sorted as it is).
ASSUME LoadedAssumption ==
  \A r \in Races : \A i, j \in DOMAIN r : i < j => ~KeyLess(r[j], r[i])

\* Positions count from 1, and the gap of a car that is out exceeds them all.
ASSUME PositionAssumption ==
  \A r \in Races : \A i \in DOMAIN r : r[i].position \in Optional(1..RetiredGap)

VARIABLES race,    \* the events as loaded
          at_lap,  \* the lap to price from, None until asked
          sim      \* the SimInput, None until built

pricingVars == <<race, at_lap, sim>>
allVars == <<vars, pricingVars>>

PricingInit ==
  /\ Init
  /\ race \in Races /\ at_lap = None /\ sim = None

-----------------------------------------------------------------------------
LapThrough(e, n) ==
  e.event_type = "LapCompleted" /\ (e.lap = None \/ e.lap <= n)

\* The latest end of a lap numbered up to n, of any car.
CutoffTimes(n) == {e.event_time : e \in {race[i] : i \in {j \in DOMAIN race : LapThrough(race[j], n)}}}

\* The events at the places in S, in the order of the race.
Keep(S) ==
  [k \in 1..Cardinality(S) |-> race[CHOOSE i \in S : Cardinality({j \in S : j <= i}) = k]]

\* Mutant: the cut leaves out the moment it is made at.
EventsBeforeCutoff(n) ==
  IF CutoffTimes(n) = {} THEN race
  ELSE Keep({i \in DOMAIN race : race[i].event_time < Max(CutoffTimes(n))})

\* _events_through_lap: the whole log when no such lap is in it.
EventsThroughLap(n) ==
  IF CutoffTimes(n) = {} THEN race
  ELSE Keep({i \in DOMAIN race : race[i].event_time <= Max(CutoffTimes(n))})

AskFor(n) ==
  /\ at_lap = None
  /\ at_lap' = n
  /\ log' = EventsThroughLap(n)
  /\ UNCHANGED <<phase, ordered, events_applied, raceVars, data_snapshot_id,
                 race, sim>>

\* replay(subset), step by step
Replay ==
  /\ at_lap # None
  /\ \/ BeginReplay(None)
     \/ \E e \in Source : ApplyEvent(e)
     \/ FinishReplay
  /\ UNCHANGED pricingVars

-----------------------------------------------------------------------------
\* Mutant: the tolerance is off by one.
IsActiveStrictly(d) ==
  /\ ~drivers[d].retired
  /\ drivers[d].position # None
  /\ drivers[d].lap_number + ActiveLapTolerance > current_lap

IsActive(d) ==
  /\ ~drivers[d].retired
  /\ drivers[d].position # None
  /\ drivers[d].lap_number + ActiveLapTolerance >= current_lap

\* "position or x": a position of 0 counts as none.
PositionOr(d, x) == IF drivers[d].position \in {None, 0} THEN x ELSE drivers[d].position

LeaderPosition ==
  LET positions == {PositionOr(d, 10^6) : d \in {c \in DOMAIN drivers : IsActive(c)}}
  IN  IF positions = {} THEN 1 ELSE Min(positions)

\* Mutant: a retired car keeps the gap it had.
GapOfAny(d) == PositionOr(d, LeaderPosition) - LeaderPosition

Gap(d) == IF IsActive(d) THEN PositionOr(d, LeaderPosition) - LeaderPosition
          ELSE RetiredGap

\* state.drivers[d].tyre_age or 0
AgeOrZero(d) == IF drivers[d].tyre_age = None THEN 0 ELSE drivers[d].tyre_age

SimInput ==
  [current_lap   |-> current_lap,
   tyre_compound |-> [d \in DOMAIN drivers |-> drivers[d].tyre_compound],
   tyre_age      |-> [d \in DOMAIN drivers |-> AgeOrZero(d)],
   pit_count     |-> [d \in DOMAIN drivers |-> drivers[d].pit_stop_count],
   gap_to_leader |-> [d \in DOMAIN drivers |-> Gap(d)],
   retired       |-> [d \in DOMAIN drivers |-> ~IsActive(d)]]

BuildSimInput ==
  /\ phase = "done" /\ sim = None
  /\ sim' = SimInput
  /\ UNCHANGED <<vars, race, at_lap>>

PricingNext ==
  \/ \E n \in 1..TotalLaps : AskFor(n)
  \/ Replay
  \/ BuildSimInput

PricingSpec == PricingInit /\ [][PricingNext]_allVars

\* standings and the ranked rows of timing_rows: <<position, driver>>.
Standings ==
  {<<drivers[d].position, d>> :
     d \in {c \in DOMAIN drivers : drivers[c].position # None /\ ~drivers[c].retired}}

-----------------------------------------------------------------------------
Asked == at_lap # None
Priced == sim # None
Cut == DOMAIN log   \* the places of the events that are replayed
Numbered(S) == {i \in S : /\ log[i].event_type = "LapCompleted"
                          /\ log[i].driver_id # None /\ log[i].lap # None}
OfCar(S, d) == {i \in S : log[i].driver_id = d}

(* A race cut after lap n is the race as it was at some earlier moment: a    *)
(* beginning of its log that lacks no lap up to n (_events_through_lap).     *)
CutIsTheRaceSoFar ==
  Asked =>
    /\ \E k \in 0..Len(race) : log = SubSeq(race, 1, k)
    /\ \A i \in DOMAIN race : LapThrough(race[i], at_lap) => i \in Cut

(* The simulator counts a car as retired exactly when the cut says so: it    *)
(* was reported out, its last lap or position event gives no position, or    *)
(* it is more than the tolerance behind the highest lap (build_sim_input).   *)
RetiredAsTheLogSays ==
  Priced => \A d \in DOMAIN sim.retired :
    LET Out     == {i \in OfCar(Cut, d) : log[i].event_type \in {"DriverRetired", "DriverStopped"}}
        Placing == {i \in OfCar(Cut, d) : log[i].event_type \in {"LapCompleted", "PositionChanged"}}
        Lap     == IF OfCar(Numbered(Cut), d) = {} THEN 0
                   ELSE log[Max(OfCar(Numbered(Cut), d))].lap
    IN  sim.retired[d] <=>
          \/ Out # {}
          \/ Placing = {} \/ log[Max(Placing)].position = None
          \/ \E i \in Numbered(Cut) : log[i].lap > Lap + ActiveLapTolerance

(* The simulator starts from the field the timing tower shows, less the cars *)
(* that have silently stopped: it races no car the tower does not rank, the  *)
(* cars it races keep the tower's order and its ties, the first of them has  *)
(* no gap, and every other car is behind them (standings, build_sim_input).  *)
SimStartsInTowerOrder ==
  Priced =>
    LET Racing == {d \in DOMAIN sim.retired : ~sim.retired[d]}
        Place(d) == CHOOSE p \in {r[1] : r \in Standings} : <<p, d>> \in Standings
        Silent(d) == current_lap > drivers[d].lap_number + ActiveLapTolerance
    IN  /\ {r[2] : r \in Standings} = Racing \cup {d \in {r[2] : r \in Standings} : Silent(d)}
        /\ \A c, d \in Racing : Place(c) < Place(d) <=> sim.gap_to_leader[c] < sim.gap_to_leader[d]
        /\ Racing # {} => \E d \in Racing : sim.gap_to_leader[d] = 0
        /\ \A c \in Racing, d \in DOMAIN sim.retired \ Racing :
             sim.gap_to_leader[c] < sim.gap_to_leader[d]
=============================================================================
