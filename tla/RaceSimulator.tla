---------------------------- MODULE RaceSimulator ----------------------------
(***************************************************************************)
(* simulation/engine.py and simulation/payoff_matrix.py: one path of the   *)
(* Monte Carlo continuation of a race, lap by lap, and how each contract   *)
(* settles on it.  The code runs many paths side by side as the rows of    *)
(* its arrays; no row reads another.                                       *)
(*                                                                         *)
(* A draw compared with a probability is a choice, open where the          *)
(* probability is neither 0 nor 1; the noise of a lap is one of Noise.     *)
(* Times are whole units, fine enough that compressed gaps come out whole. *)
(***************************************************************************)
EXTENDS Integers, FiniteSets, FiniteSetsExt

CONSTANTS N,                       \* cars, numbered as in driver_ids
          Compound, soft, medium, hard,
          Grip, Deg,               \* _compound_tables: per compound
          HardFrom, MediumFrom,    \* stints longer than this get that compound
          Inputs,                  \* the SimInputs to continue from
          Noise, FuelGain, PitLoss, DirtyAirPenalty, DirtyAirThreshold,
          ScLapPenalty, CompressionNum, CompressionDen,
          MandatoryStop, MinLapsLeftToPit,
          GainsThreshold,
          Podium, Points,          \* PODIUM, POINTS
          None

Car == 1..N

SimInput ==
  [total_laps : Nat, current_lap : Nat, clean_air_pace : [Car -> Nat],
   tyre_compound : [Car -> Compound], tyre_age : [Car -> Nat],
   pit_count : [Car -> Nat], gap_to_leader : [Car -> Nat],
   retired : SUBSET Car, circuit_sc_multiplier : Int]

ASSUME SimulatorAssumption ==
  /\ N \in Nat \ {0} /\ {soft, medium, hard} \subseteq Compound
  /\ Grip \in [Compound -> Int] /\ Deg \in [Compound -> Nat]
  /\ \A s \in Inputs : s \in SimInput
  /\ Noise \subseteq Int /\ None \notin Int
  /\ CompressionNum \in Nat /\ CompressionDen \in Nat \ {0}
  /\ CompressionNum <= CompressionDen
  /\ {HardFrom, MediumFrom, FuelGain, PitLoss, DirtyAirPenalty, DirtyAirThreshold,
      ScLapPenalty, MinLapsLeftToPit, GainsThreshold, Podium, Points} \subseteq Nat
  /\ 1 <= Podium /\ Podium <= Points /\ MandatoryStop \in BOOLEAN

VARIABLES sim, lap,        \* the input, and the last lap simulated
          codes, age, cum, retired, pits_made, pitted_lap,
          fastest_time, fastest_driver, sc_occurred,
          result           \* None until the last lap is simulated

cars == <<codes, age, cum, retired, pits_made, pitted_lap>>
vars == <<sim, lap, cars, fastest_time, fastest_driver, sc_occurred, result>>

-----------------------------------------------------------------------------
\* Mutant: the cars of out sort by time, like the others.
BeforeByTime(c, d, time, out) == time[c] < time[d] \/ (time[c] = time[d] /\ c < d)

(* _rank: a stable sort by time; the cars of out sort last, as equals.       *)
Before(c, d, time, out) ==
  \/ c \notin out /\ d \in out
  \/ c \notin out /\ d \notin out /\ time[c] < time[d]
  \/ (c \in out <=> d \in out) /\ (c \in out \/ time[c] = time[d]) /\ c < d

Rank(time, out) ==
  [d \in Car |-> 1 + Cardinality({c \in Car : Before(c, d, time, out)})]

Init ==
  /\ sim \in Inputs /\ lap = sim.current_lap
  /\ codes = sim.tyre_compound /\ age = sim.tyre_age /\ cum = sim.gap_to_leader
  /\ retired = sim.retired /\ pits_made = sim.pit_count
  /\ pitted_lap = [c \in Car |-> -1]
  /\ fastest_time = None /\ fastest_driver = -1
  /\ sc_occurred = FALSE /\ result = None

-----------------------------------------------------------------------------
(* The parts of the lap after lap.                                           *)
Running == Car \ retired
LapsRemaining == sim.total_laps - lap

\* _gap_to_car_ahead: within the threshold of the running car ahead, not level.
InDirtyAir(d) ==
  LET ahead == {c \in Running : Before(c, d, cum, {})}
  IN  /\ d \in Running /\ ahead # {}
      /\ LET gap == cum[d] - Max({cum[c] : c \in ahead})
         IN  gap > 0 /\ gap < DirtyAirThreshold

\* Mutant: a car that is out may stop.
AnyMayPit(d) ==
  LapsRemaining > MinLapsLeftToPit \/ (MandatoryStop /\ pits_made[d] = 0)

\* _pit_probs is positive until the last laps, and then only where the
\* mandatory stop is still to be made.
MayPit(d) ==
  /\ d \in Running
  /\ LapsRemaining > MinLapsLeftToPit \/ (MandatoryStop /\ pits_made[d] = 0)

NextCompound(laps_remaining) ==
  IF laps_remaining > HardFrom THEN hard
  ELSE IF laps_remaining > MediumFrom THEN medium ELSE soft

\* A safety car overwrites whatever the lap had cost, a stop included.
LapTime(d, sc_now, pit_now, noise) ==
  sim.clean_air_pace[d] +
  IF sc_now THEN ScLapPenalty
  ELSE Grip[codes[d]] + Deg[codes[d]] * age[d]
       + FuelGain * (LapsRemaining - 1) + noise[d]
       + (IF InDirtyAir(d) THEN DirtyAirPenalty ELSE 0)
       + (IF d \in pit_now THEN PitLoss ELSE 0)

\* green: a car that retires on the lap is still among the running here.
Green(sc_now, pit_now) == IF sc_now THEN {} ELSE Running \ pit_now

TimeFastestLap(green, time) ==
  LET best  == Min({time[c] : c \in green})
      first == Min({c \in green : time[c] = best})
  IN  IF green # {} /\ (fastest_time = None \/ best < fastest_time)
      THEN fastest_time' = best /\ fastest_driver' = first
      ELSE UNCHANGED <<fastest_time, fastest_driver>>

\* Gaps shrink towards the least time of any car, in the race or out of it.
Compress(time, out) ==
  LET leader == Min({time[c] : c \in Car})
  IN  [c \in Car |-> IF c \in out THEN time[c]
                     ELSE leader + ((time[c] - leader) * CompressionNum) \div CompressionDen]

FirstStop(d, pit_now) == IF d \in pit_now /\ pitted_lap[d] < 0 THEN lap + 1 ELSE pitted_lap[d]

\* Mutant: the tyres keep their age through a stop.
AgeThroughStop(d, pit_now) == IF d \in Running THEN age[d] + 1 ELSE age[d]
AgeAfter(d, pit_now) ==
  IF d \in pit_now THEN 0 ELSE IF d \in Running THEN age[d] + 1 ELSE age[d]

SimulateLap(sc_now, pit_now, retire_now, noise) ==
  LET time == [d \in Car |-> LapTime(d, sc_now, pit_now, noise)]
      run  == [d \in Car |-> IF d \in Running \ retire_now THEN cum[d] + time[d] ELSE cum[d]]
  IN  /\ result = None /\ lap < sim.total_laps
      /\ sc_now => sim.circuit_sc_multiplier > 0
      /\ lap' = lap + 1
      /\ sc_occurred' = (sc_occurred \/ sc_now)
      /\ codes' = [d \in Car |-> IF d \in pit_now THEN NextCompound(LapsRemaining)
                                 ELSE codes[d]]
      /\ pitted_lap' = [d \in Car |-> FirstStop(d, pit_now)]
      /\ pits_made' = [d \in Car |-> pits_made[d] + IF d \in pit_now THEN 1 ELSE 0]
      /\ TimeFastestLap(Green(sc_now, pit_now), time)
      /\ retired' = retired \cup retire_now
      /\ age' = [d \in Car |-> AgeAfter(d, pit_now)]
      /\ cum' = IF sc_now THEN Compress(run, retired') ELSE run
      /\ UNCHANGED <<sim, result>>

Finish ==
  /\ result = None /\ lap >= sim.total_laps
  /\ result' = [start_positions |-> Rank(sim.gap_to_leader, {}),
                final_positions |-> Rank(cum, retired),
                classified |-> Car \ retired]
  /\ UNCHANGED <<sim, lap, cars, fastest_time, fastest_driver, sc_occurred>>

Next ==
  \/ \E sc_now \in BOOLEAN, pit_now \in SUBSET {d \in Car : MayPit(d)} :
       \E retire_now \in SUBSET (Running \ pit_now), noise \in [Car -> Noise] :
         SimulateLap(sc_now, pit_now, retire_now, noise)
  \/ Finish

Spec == Init /\ [][Next]_vars

-----------------------------------------------------------------------------
(* How the contracts settle on the finished path (contract_payoff); d is the *)
(* car the contract names, None for the race's own.                          *)
ContractType == {"win", "podium", "points", "dnf", "fastest_lap",
                 "positions_gained", "safety_car"}

Payoff(type, d) ==
  CASE type = "safety_car" -> sc_occurred
    [] type # "safety_car" /\ d \notin Car -> FALSE
    [] type = "win" -> d \in result.classified /\ result.final_positions[d] = 1
    [] type = "podium" -> d \in result.classified /\ result.final_positions[d] <= Podium
    [] type = "points" -> d \in result.classified /\ result.final_positions[d] <= Points
    [] type = "dnf" -> d \notin result.classified
    [] type = "fastest_lap" -> fastest_driver = d
    [] type = "positions_gained" ->
         /\ d \in result.classified
         /\ result.start_positions[d] - result.final_positions[d] >= GainsThreshold

\* What the path adds to the prices of d (price_contracts), n the lap of
\* "pits before": the same contracts, computed apart from contract_payoff.
PathPrice(d, n) ==
  LET in   == d \in result.classified
      pos  == result.final_positions[d]
      gain == result.start_positions[d] - pos
  IN  [win |-> in /\ pos = 1, podium |-> in /\ pos <= Podium,
       points |-> in /\ pos <= Points, dnf |-> ~in,
       fastest_lap |-> fastest_driver = d,
       positions_gained |-> in /\ gain >= GainsThreshold,
       pit_before_lap |-> pitted_lap[d] >= 0 /\ pitted_lap[d] < n]

\* _pairwise_ahead
Ahead(c, d) ==
  /\ c # d /\ c \in result.classified
  /\ \/ d \notin result.classified
     \/ result.final_positions[c] < result.final_positions[d]

-----------------------------------------------------------------------------
\* Whatever happened on the path, its contracts settle as the contracts of one
\* race: one winner, if anyone finished; as many on the podium and in the
\* points as there are places or finishers; a winner is on the podium, who is
\* there is in the points and out of "dnf"; of two cars one is ahead, unless
\* both are out; places gained are places lost by others.  What is priced is
\* what pays off, and every stop made falls before the end.
ContractsCohere ==
  result # None =>
    LET settling(type) == {d \in Car : Payoff(type, d)}
        finishers == Cardinality(result.classified)
    IN  /\ Cardinality(settling("win")) = IF finishers = 0 THEN 0 ELSE 1
        /\ Cardinality(settling("podium")) = Min({Podium, finishers})
        /\ Cardinality(settling("points")) = Min({Points, finishers})
        /\ settling("win") \subseteq settling("podium")
        /\ settling("podium") \subseteq settling("points")
        /\ settling("dnf") \cap (settling("points") \cup settling("positions_gained")) = {}
        /\ Cardinality(settling("fastest_lap")) <= 1
        /\ \A c, d \in Car :
             /\ ~(Ahead(c, d) /\ Ahead(d, c))
             /\ c # d /\ {c, d} \cap result.classified # {} => Ahead(c, d) \/ Ahead(d, c)
             /\ Payoff("win", c) /\ c # d => Ahead(c, d)
             /\ \A type \in ContractType \ {"safety_car"} :
                  PathPrice(c, lap)[type] = Payoff(type, c)
             /\ PathPrice(c, lap + 1).pit_before_lap <=> pits_made[c] > sim.pit_count[c]
        /\ (GainsThreshold > 0 /\ settling("positions_gained") # {}) =>
             \E d \in Car : result.final_positions[d] > result.start_positions[d]

\* A car that is out of the race stays out of it: it is not timed, does not
\* stop, and sets no fastest lap from then on (running = ~retired).
RetiredStayOut ==
  [][\A d \in retired :
       /\ d \in retired' /\ cum'[d] = cum[d] /\ codes'[d] = codes[d] /\ age'[d] = age[d]
       /\ pits_made'[d] = pits_made[d] /\ pitted_lap'[d] = pitted_lap[d]
       /\ fastest_driver' = d => fastest_driver = d /\ fastest_time' = fastest_time]_vars

\* The stops made, the lap of the first and the tyres agree: a car has a first
\* stop just when it has made more than it started with; without one it is on
\* the tyres it started with, with one on those it was given then; no set is
\* older than the laps since the first stop.
StopsAndTyresAgree ==
  \A d \in Car :
    LET made == pits_made[d] - sim.pit_count[d]
    IN  /\ made \in Nat
        /\ made = 0 <=> pitted_lap[d] = -1
        /\ d \notin retired /\ made = 0 =>
             /\ codes[d] = sim.tyre_compound[d]
             /\ age[d] = sim.tyre_age[d] + lap - sim.current_lap
        /\ d \notin retired /\ made = 1 =>
             /\ codes[d] = NextCompound(sim.total_laps - pitted_lap[d] + 1)
             /\ age[d] = lap - pitted_lap[d]
        /\ d \notin retired /\ made > 1 => age[d] < lap - pitted_lap[d]
=============================================================================
