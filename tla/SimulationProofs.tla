------------------------- MODULE SimulationProofs -------------------------
(***************************************************************************)
(* What holds of every simulated race (RaceSimulator: the paths of the     *)
(* Monte Carlo continuation), for any number of cars, laps, compounds,     *)
(* inputs and draws; and of every simulated trade (PaperExecutor), for any *)
(* markets, prices, sizes, fees and number of fills.                       *)
(***************************************************************************)
EXTENDS RaceSimulator, PaperExecutor, SortAndSumProofs

\* A finite set of integers that is not empty has a least one.
LEMMA LeastExists ==
  ASSUME NEW S \in SUBSET Int, S # {}, IsFiniteSet(S)
  PROVE  Min(S) \in S /\ \A y \in S : Min(S) <= y
<1> DEFINE Less(x) == {z \in S : z < x}
           counts == {Cardinality(Less(x)) : x \in S}
<1>1. \A x \in S : IsFiniteSet(Less(x)) /\ Cardinality(Less(x)) \in Nat
  BY FS_Subset, FS_CardinalityType
<1>2. PICK n \in counts : \A k \in counts : n <= k
  <2>1. counts \in SUBSET Nat /\ counts # {}
    BY <1>1
  <2> HIDE DEF counts
  <2>2. QED
    BY <2>1, LeastNatural
<1>3. PICK x \in S : n = Cardinality(Less(x))
  OBVIOUS
<1>4. ASSUME NEW y \in S, y < x PROVE FALSE
  <2>1. x \in Int /\ S \subseteq Int
    OBVIOUS
  <2>2. Less(y) \subseteq Less(x) /\ y \in Less(x) /\ y \notin Less(y)
    <3>1. ASSUME NEW z \in S, z < y PROVE z < x
      BY <1>4, <2>1, <3>1
    <3>2. ~(y < y)
      BY <2>1
    <3>3. QED
      BY <1>4, <3>1, <3>2
  <2>3. Cardinality(Less(x)) \in Nat /\ Cardinality(Less(y)) \in Nat /\ IsFiniteSet(Less(x))
    BY <1>1
  <2>4. Cardinality(Less(x)) <= Cardinality(Less(y))
    BY <1>2, <1>3
  <2> HIDE DEF Less
  <2>5. Cardinality(Less(y)) <= Cardinality(Less(x)) /\ Cardinality(Less(x)) # Cardinality(Less(y))
    BY <2>2, <2>3, FS_Subset
  <2>6. QED
    BY <2>3, <2>4, <2>5
<1>5. \A y \in S : x <= y
  BY <1>4
<1>6. QED
  BY <1>5 DEF Min

\* The lesser of two numbers.
LEMMA LesserOfTwo ==
  ASSUME NEW a \in Nat, NEW b \in Nat
  PROVE  Min({a, b}) = IF a <= b THEN a ELSE b
<1>1. IsFiniteSet({a, b}) /\ {a, b} \in SUBSET Int /\ {a, b} # {}
  <2>1. IsFiniteSet({a} \cup {b}) /\ {a} \cup {b} = {a, b}
    BY FS_Singleton, FS_AddElement
  <2>2. QED
    BY <2>1
<1>2. Min({a, b}) \in {a, b} /\ \A y \in {a, b} : Min({a, b}) <= y
  BY <1>1, LeastExists
<1>3. QED
  BY <1>2

-----------------------------------------------------------------------------
LEMMA CarsFinite ==
  /\ IsFiniteSet(Car) /\ Cardinality(Car) = N /\ Car \subseteq Nat /\ N \in Nat \ {0}
  /\ Car # {}
<1>1. N \in Nat \ {0}
  BY SimulatorAssumption
<1>2. IsFiniteSet(1..N) /\ Cardinality(1..N) = IF 1 > N THEN 0 ELSE N - 1 + 1
  BY <1>1, FS_Interval
<1>3. QED
  BY <1>1, <1>2 DEF Car

Times == [Car -> Int]

Better(time, out) == {p \in Car \X Car : Before(p[1], p[2], time, out)}
AheadOf(d, time, out) == {c \in Car : Before(c, d, time, out)}

(* _rank gives every place from first to last to one car, whatever the times *)
(* and whoever is out, and who comes before is ranked before (_rank, a       *)
(* stable argsort).                                                          *)
THEOREM RankPermutes ==
  ASSUME NEW time \in Times, NEW out
  PROVE  /\ Rank(time, out) \in Bijection(Car, 1..N)
         /\ \A c, d \in Car :
              Before(c, d, time, out) <=> Rank(time, out)[c] < Rank(time, out)[d]
         /\ \A d \in Car : /\ IsFiniteSet(AheadOf(d, time, out)) /\ d \notin AheadOf(d, time, out)
                           /\ Cardinality(AheadOf(d, time, out)) \in Nat
<1> DEFINE R == Better(time, out)
<1>1. \A a, b \in Car : <<a, b>> \in R <=> Before(a, b, time, out)
  BY DEF Better
<1>2. StrictTotalOrder(R, Car)
  <2>1. ASSUME NEW a \in Car, NEW b \in Car, NEW c \in Car
        PROVE  /\ ~Before(a, a, time, out)
               /\ Before(a, b, time, out) /\ Before(b, c, time, out) => Before(a, c, time, out)
               /\ a # b => Before(a, b, time, out) \/ Before(b, a, time, out)
    <3>1. a \in Int /\ b \in Int /\ c \in Int /\ time[a] \in Int /\ time[b] \in Int /\ time[c] \in Int
      BY CarsFinite DEF Times
    <3>2. QED
      BY <3>1 DEF Before
  <2> HIDE DEF R
  <2>2. QED
    BY <1>1, <2>1 DEF StrictTotalOrder
<1>3. \A d \in Car : Preceding(R, Car, d) = AheadOf(d, time, out)
  BY <1>1 DEF Preceding, AheadOf
<1>4. Rank(time, out) = [d \in Car |-> Cardinality(Preceding(R, Car, d)) + 1]
  <2>1. \A d \in Car : /\ IsFiniteSet(AheadOf(d, time, out))
                       /\ Cardinality(AheadOf(d, time, out)) \in Nat
    BY CarsFinite, FS_Subset, FS_CardinalityType DEF AheadOf
  <2>2. Rank(time, out) = [d \in Car |-> 1 + Cardinality(AheadOf(d, time, out))]
    BY DEF Rank, AheadOf
  <2> HIDE DEF R
  <2>3. \A d \in Car : 1 + Cardinality(AheadOf(d, time, out)) = Cardinality(Preceding(R, Car, d)) + 1
    BY <1>3, <2>1
  <2>4. QED
    BY <2>2, <2>3
<1> HIDE DEF R
<1> DEFINE rank == Rank(time, out)
<1>5. rank = [d \in Car |-> Cardinality(Preceding(R, Car, d)) + 1]
  BY <1>4
<1> HIDE DEF rank
<1>6. /\ rank \in Bijection(Car, 1..Cardinality(Car))
      /\ \A c, d \in Car : <<c, d>> \in R <=> rank[c] < rank[d]
      /\ \A d \in Car : /\ IsFiniteSet(Preceding(R, Car, d)) /\ d \notin Preceding(R, Car, d)
                        /\ Cardinality(Preceding(R, Car, d)) \in Nat
  <2>1. IsFiniteSet(Car) /\ StrictTotalOrder(R, Car)
    BY <1>2, CarsFinite
  <2>2. QED
    BY <1>5, <2>1, Ranking
<1>7. QED
  BY <1>1, <1>3, <1>6, CarsFinite DEF rank

\* So as many cars are ranked k-th or better as there are such places.
LEMMA FirstPlaces ==
  ASSUME NEW time \in Times, NEW out, NEW k \in 0..N
  PROVE  /\ IsFiniteSet({c \in Car : Rank(time, out)[c] <= k})
         /\ Cardinality({c \in Car : Rank(time, out)[c] <= k}) = k
<1> DEFINE f == Rank(time, out)
           S == {c \in Car : f[c] <= k}
           g == [c \in S |-> f[c]]
<1>1. f \in [Car -> 1..N] /\ (\A a, b \in Car : f[a] = f[b] => a = b)
      /\ \A p \in 1..N : \E c \in Car : f[c] = p
  BY RankPermutes DEF Bijection, Injection, IsInjective, Surjection
<1>2. IsFiniteSet(S)
  BY CarsFinite, FS_Subset
<1> HIDE DEF f
<1>3. k \in Nat /\ N \in Nat /\ k <= N
  BY CarsFinite
<1>4. g \in [S -> 1..k]
  BY <1>1, <1>3
<1>5. g \in Injection(S, 1..k)
  BY <1>1, <1>4 DEF Injection, IsInjective
<1>6. g \in Surjection(S, 1..k)
  <2>1. ASSUME NEW p \in 1..k PROVE \E c \in S : g[c] = p
    <3>1. PICK c \in Car : f[c] = p
      BY <1>1, <1>3
    <3>2. QED
      BY <1>3, <3>1
  <2>2. QED
    BY <1>4, <2>1 DEF Surjection
<1>7. ExistsBijection(S, 1..k)
  BY <1>5, <1>6 DEF ExistsBijection, Bijection
<1>8. Cardinality(1..k) = Cardinality(S)
  BY <1>2, <1>7, FS_Bijection
<1>9. Cardinality(1..k) = k
  BY <1>3, FS_Interval
<1>10. QED
  BY <1>2, <1>8, <1>9 DEF f

LEMMA RankType ==
  ASSUME NEW time \in Times, NEW out, NEW d \in Car
  PROVE  /\ Rank(time, out)[d] \in 1..N /\ Rank(time, out)[d] \in Nat
         /\ Rank(time, out)[d] = Cardinality(AheadOf(d, time, out)) + 1
         /\ IsFiniteSet(AheadOf(d, time, out)) /\ d \notin AheadOf(d, time, out)
         /\ Cardinality(AheadOf(d, time, out)) \in Nat
<1>1. /\ Rank(time, out) \in [Car -> 1..N]
      /\ IsFiniteSet(AheadOf(d, time, out)) /\ d \notin AheadOf(d, time, out)
      /\ Cardinality(AheadOf(d, time, out)) \in Nat
  BY RankPermutes DEF Bijection, Injection
<1>2. Rank(time, out)[d] = Cardinality(AheadOf(d, time, out)) + 1
  BY <1>1 DEF Rank, AheadOf
<1>3. QED
  BY <1>1, <1>2, CarsFinite

\* The cars in the race are ranked before those that are out.
LEMMA OutRankLast ==
  ASSUME NEW time \in Times, NEW out \in SUBSET Car, NEW d \in Car
  PROVE  d \notin out <=> Rank(time, out)[d] <= Cardinality(Car \ out)
<1> DEFINE in == Car \ out
           A == AheadOf(d, time, out)
<1>1. IsFiniteSet(in) /\ Cardinality(in) \in Nat
  BY CarsFinite, FS_Subset, FS_CardinalityType
<1>2. CASE d \notin out
  <2>1. A \cup {d} \subseteq in
    BY <1>2 DEF AheadOf, Before
  <2>2. Cardinality(A \cup {d}) = Cardinality(A) + 1 /\ Cardinality(A \cup {d}) <= Cardinality(in)
    BY <1>1, <2>1, RankType, FS_AddElement, FS_Subset
  <2>3. QED
    BY <1>1, <1>2, <2>2, RankType
<1>3. CASE d \in out
  <2>1. in \subseteq A
    BY <1>3 DEF AheadOf, Before
  <2>2. Cardinality(in) <= Cardinality(A)
    BY <2>1, RankType, FS_Subset
  <2>3. QED
    BY <1>1, <1>3, <2>2, RankType
<1>4. QED
  BY <1>2, <1>3

\* So many of the cars in the race take the first p places, or all of them.
LEMMA PlacesTaken ==
  ASSUME NEW time \in Times, NEW out \in SUBSET Car, NEW p \in Nat
  PROVE  Cardinality({d \in Car \ out : Rank(time, out)[d] <= p})
           = Min({p, Cardinality(Car \ out)})
<1> DEFINE m == Cardinality(Car \ out)
           f == Rank(time, out)
           k == IF p <= m THEN p ELSE m
<1>1. m \in Nat /\ m <= N
  BY CarsFinite, FS_Subset, FS_CardinalityType
<1>2. \A d \in Car : f[d] \in Int /\ (d \notin out <=> f[d] <= m)
  BY RankType, OutRankLast
<1>3. {d \in Car \ out : f[d] <= p} = {d \in Car : f[d] <= k}
  <2> HIDE DEF m, f
  <2>1. QED
    BY <1>1, <1>2
<1>4. k \in 0..N
  <2> HIDE DEF m
  <2>1. QED
    BY <1>1, CarsFinite
<1>5. Cardinality({d \in Car : f[d] <= k}) = k
  <2> HIDE DEF k
  <2>1. QED
    BY <1>4, FirstPlaces
<1>6. Min({p, m}) = k
  <2> HIDE DEF m
  <2>1. QED
    BY <1>1, LesserOfTwo
<1>7. QED
  BY <1>3, <1>5, <1>6

(* If some car gains places between two rankings, some car loses places.     *)
THEOREM GainsAreLosses ==
  ASSUME NEW time1 \in Times, NEW out1, NEW time2 \in Times, NEW out2,
         NEW g \in Car, Rank(time2, out2)[g] < Rank(time1, out1)[g]
  PROVE  \E d \in Car : Rank(time2, out2)[d] > Rank(time1, out1)[d]
<1> DEFINE start == Rank(time1, out1)
           final == Rank(time2, out2)
           k == final[g]
           S == {c \in Car : start[c] <= k}
           T == {c \in Car : final[c] <= k}
<1>1. \A c \in Car : start[c] \in 1..N /\ final[c] \in 1..N
  BY RankType
<1>2. k \in 0..N /\ k \in Nat
  BY <1>1, CarsFinite
<1>3. IsFiniteSet(S) /\ Cardinality(S) = k /\ IsFiniteSet(T) /\ Cardinality(T) = k
  BY <1>2, FirstPlaces
<1> HIDE DEF start, final
<1>4. SUFFICES ASSUME \A d \in Car : ~(final[d] > start[d])
               PROVE  FALSE
  BY DEF start, final
<1>5. S \subseteq T /\ g \in T
  BY <1>1, <1>4
<1>6. g \notin S
  BY <1>1 DEF start, final
<1>7. S = T
  BY <1>3, <1>5, FS_Subset
<1>8. QED
  BY <1>5, <1>6, <1>7
-----------------------------------------------------------------------------
\* Where a path stands: the input it started from, what is known of each car,
\* and what Finish makes of it.
PathOK ==
  /\ sim \in Inputs /\ lap \in Nat
  /\ codes \in [Car -> Compound] /\ age \in [Car -> Nat] /\ cum \in Times
  /\ retired \in SUBSET Car
  /\ pits_made \in [Car -> Nat] /\ pitted_lap \in [Car -> Int]
  /\ \A d \in Car : pitted_lap[d] = -1 \/ pitted_lap[d] \in 1..lap
  /\ result # None =>
       result = [start_positions |-> Rank(sim.gap_to_leader, {}),
                 final_positions |-> Rank(cum, retired),
                 classified |-> Car \ retired]

LEMMA InputFacts ==
  ASSUME sim \in Inputs
  PROVE  /\ sim.total_laps \in Nat /\ sim.current_lap \in Nat
         /\ sim.clean_air_pace \in [Car -> Nat] /\ sim.tyre_compound \in [Car -> Compound]
         /\ sim.tyre_age \in [Car -> Nat] /\ sim.pit_count \in [Car -> Nat]
         /\ sim.gap_to_leader \in [Car -> Nat] /\ sim.retired \in SUBSET Car
  BY SimulatorAssumption DEF SimInput

LEMMA ParameterFacts ==
  /\ Grip \in [Compound -> Int] /\ Deg \in [Compound -> Nat]
  /\ soft \in Compound /\ medium \in Compound /\ hard \in Compound
  /\ Noise \subseteq Int
  /\ CompressionNum \in Nat /\ CompressionDen \in Nat \ {0}
  /\ FuelGain \in Nat /\ PitLoss \in Nat /\ DirtyAirPenalty \in Nat /\ ScLapPenalty \in Nat
  /\ HardFrom \in Nat /\ MediumFrom \in Nat
  /\ GainsThreshold \in Nat /\ Podium \in Nat /\ Points \in Nat
  /\ 1 <= Podium /\ Podium <= Points
  BY SimulatorAssumption

\* A lap time is a number, whatever happens on the lap.
LEMMA LapTimeType ==
  ASSUME PathOK, NEW d \in Car, NEW sc_now \in BOOLEAN, NEW pit_now,
         NEW noise \in [Car -> Noise]
  PROVE  LapTime(d, sc_now, pit_now, noise) \in Int
<1> DEFINE g == Grip[codes[d]]
           w == Deg[codes[d]] * age[d]
           u == FuelGain * (LapsRemaining - 1)
<1>1. g \in Int /\ noise[d] \in Int /\ sim.clean_air_pace[d] \in Int
  <2>1. codes[d] \in Compound
    BY DEF PathOK
  <2>2. noise[d] \in Noise
    OBVIOUS
  <2>3. sim.clean_air_pace[d] \in Nat
    BY InputFacts DEF PathOK
  <2>4. g \in Int
    BY <2>1, ParameterFacts
  <2>5. noise[d] \in Int
    BY <2>2, ParameterFacts
  <2>6. QED
    BY <2>3, <2>4, <2>5
<1>2. w \in Int
  <2>1. Deg[codes[d]] \in Int /\ age[d] \in Int
    BY ParameterFacts DEF PathOK
  <2>2. QED
    BY <2>1
<1>3. u \in Int
  <2>1. FuelGain \in Int /\ LapsRemaining \in Int
    BY InputFacts, ParameterFacts DEF PathOK, LapsRemaining
  <2>2. QED
    BY <2>1
<1>4. LapTime(d, sc_now, pit_now, noise) = sim.clean_air_pace[d] +
        IF sc_now THEN ScLapPenalty
        ELSE g + w + u + noise[d] + (IF InDirtyAir(d) THEN DirtyAirPenalty ELSE 0)
               + (IF d \in pit_now THEN PitLoss ELSE 0)
  BY DEF LapTime
<1> HIDE DEF g, w, u
<1>5. QED
  BY <1>1, <1>2, <1>3, <1>4, ParameterFacts

\* So is a compressed gap.
LEMMA CompressType ==
  ASSUME NEW time \in Times, NEW out
  PROVE  Compress(time, out) \in Times
<1> DEFINE all == {time[c] : c \in Car}
           leader == Min(all)
<1>1. all \in SUBSET Int /\ all # {}
  BY CarsFinite DEF Times
<1>2. IsFiniteSet(all)
  <2>1. time \in Surjection(Car, all)
    BY DEF Times, Surjection
  <2>2. QED
    BY <2>1, CarsFinite, FS_Surjection
<1>3. leader \in Int
  <2> HIDE DEF all
  <2>1. QED
    BY <1>1, <1>2, LeastExists
<1>4. ASSUME NEW x \in Int PROVE (x * CompressionNum) \div CompressionDen \in Int
  <2>1. x * CompressionNum \in Int
    BY ParameterFacts
  <2>2. QED
    BY <2>1, ParameterFacts
<1>5. \A c \in Car : time[c] \in Int /\ time[c] - leader \in Int
  BY <1>3 DEF Times
<1>6. \A c \in Car : ((time[c] - leader) * CompressionNum) \div CompressionDen \in Int
  BY <1>4, <1>5
<1>7. \A c \in Car : leader + ((time[c] - leader) * CompressionNum) \div CompressionDen \in Int
  BY <1>3, <1>6
<1>8. Compress(time, out) =
        [c \in Car |-> IF c \in out THEN time[c]
           ELSE leader + ((time[c] - leader) * CompressionNum) \div CompressionDen]
  BY DEF Compress
<1> HIDE DEF leader
<1>9. QED
  BY <1>5, <1>7, <1>8 DEF Times

\* What a lap does to each car.
LEMMA LapFacts ==
  ASSUME PathOK, NEW sc_now \in BOOLEAN,
         NEW pit_now \in SUBSET {d \in Car : MayPit(d)},
         NEW retire_now \in SUBSET (Running \ pit_now), NEW noise \in [Car -> Noise],
         SimulateLap(sc_now, pit_now, retire_now, noise)
  PROVE  /\ lap' = lap + 1 /\ sim' = sim /\ result = None /\ result' = None
         /\ retired \subseteq retired' /\ retired' \in SUBSET Car /\ cum' \in Times
         /\ DOMAIN codes' = Car /\ DOMAIN age' = Car /\ DOMAIN pitted_lap' = Car
         /\ DOMAIN pits_made' = Car
         /\ pits_made' = [d \in Car |-> pits_made'[d]] /\ pitted_lap' = [d \in Car |-> pitted_lap'[d]]
         /\ codes' = [d \in Car |-> codes'[d]] /\ age' = [d \in Car |-> age'[d]]
         /\ \A d \in Car :
              /\ d \in pit_now => /\ d \notin retired /\ age'[d] = 0
                                  /\ pits_made'[d] = pits_made[d] + 1
                                  /\ codes'[d] = NextCompound(sim.total_laps - lap)
                                  /\ pitted_lap'[d] = IF pitted_lap[d] < 0 THEN lap + 1 ELSE pitted_lap[d]
              /\ d \notin pit_now => /\ pits_made'[d] = pits_made[d] /\ codes'[d] = codes[d]
                                     /\ pitted_lap'[d] = pitted_lap[d]
                                     /\ d \notin retired => age'[d] = age[d] + 1
              /\ d \in retired => age'[d] = age[d] /\ cum'[d] = cum[d]
<1> DEFINE time == [d \in Car |-> LapTime(d, sc_now, pit_now, noise)]
           run  == [d \in Car |-> IF d \in Running \ retire_now THEN cum[d] + time[d] ELSE cum[d]]
<1>1. \A d \in pit_now : d \in Car /\ d \notin retired
  BY DEF MayPit, Running
<1>2. run \in Times
  BY LapTimeType DEF PathOK, Times
<1>3. cum' = IF sc_now THEN Compress(run, retired') ELSE run
  BY DEF SimulateLap
<1>4. retired' = retired \cup retire_now /\ retired \in SUBSET Car
  BY DEF SimulateLap, PathOK
<1>5. cum' \in Times
  BY <1>2, <1>3, CompressType
<1>6. ASSUME NEW d \in retired PROVE cum'[d] = cum[d]
  <2>1. run[d] = cum[d] /\ d \in Car /\ d \in retired'
    BY <1>4 DEF Running
  <2> HIDE DEF run
  <2>2. sc_now => Compress(run, retired')[d] = run[d]
    BY <2>1 DEF Compress
  <2>3. QED
    BY <1>3, <2>1, <2>2
<1>7. /\ codes' = [d \in Car |-> IF d \in pit_now THEN NextCompound(LapsRemaining) ELSE codes[d]]
      /\ pitted_lap' = [d \in Car |-> FirstStop(d, pit_now)]
      /\ pits_made' = [d \in Car |-> pits_made[d] + IF d \in pit_now THEN 1 ELSE 0]
      /\ age' = [d \in Car |-> AgeAfter(d, pit_now)]
      /\ lap' = lap + 1 /\ sim' = sim /\ result = None /\ result' = None
  BY DEF SimulateLap
<1>8. retired \subseteq retired' /\ retired' \in SUBSET Car
  BY <1>4 DEF Running
<1>9. ASSUME NEW d \in Car
      PROVE  /\ d \in pit_now => /\ d \notin retired /\ age'[d] = 0
                                 /\ pits_made'[d] = pits_made[d] + 1
                                 /\ codes'[d] = NextCompound(sim.total_laps - lap)
                                 /\ pitted_lap'[d] = IF pitted_lap[d] < 0 THEN lap + 1 ELSE pitted_lap[d]
             /\ d \notin pit_now => /\ pits_made'[d] = pits_made[d] /\ codes'[d] = codes[d]
                                    /\ pitted_lap'[d] = pitted_lap[d]
                                    /\ d \notin retired => age'[d] = age[d] + 1
             /\ d \in retired => age'[d] = age[d]
  <2>1. pits_made[d] \in Nat
    BY DEF PathOK
  <2>2. QED
    BY <1>1, <1>7, <2>1 DEF FirstStop, AgeAfter, Running, LapsRemaining
<1>10. QED
  BY <1>5, <1>6, <1>7, <1>8, <1>9

\* The compounds are the known ones.
LEMMA NextCompoundType ==
  ASSUME NEW n \in Int
  PROVE  NextCompound(n) \in Compound
  BY ParameterFacts DEF NextCompound

LEMMA PathOKStep ==
  ASSUME PathOK, [Next]_vars
  PROVE  PathOK'
<1>1. ASSUME NEW sc_now \in BOOLEAN, NEW pit_now \in SUBSET {d \in Car : MayPit(d)},
             NEW retire_now \in SUBSET (Running \ pit_now), NEW noise \in [Car -> Noise],
             SimulateLap(sc_now, pit_now, retire_now, noise)
      PROVE  PathOK'
  <2>1. /\ lap' = lap + 1 /\ sim' = sim /\ result' = None
        /\ retired' \in SUBSET Car /\ cum' \in Times
        /\ lap \in Nat /\ sim \in Inputs
    BY <1>1, LapFacts DEF PathOK
  <2>2. \A d \in Car : pits_made[d] \in Nat /\ age[d] \in Nat /\ codes[d] \in Compound
                       /\ pitted_lap[d] \in Int /\ (pitted_lap[d] = -1 \/ pitted_lap[d] \in 1..lap)
    BY DEF PathOK
  <2>3. sim.total_laps - lap \in Int
    BY <2>1, InputFacts
  <2>4. pits_made' \in [Car -> Nat]
    <3>1. ASSUME NEW d \in Car PROVE pits_made'[d] \in Nat
      <4>1. pits_made'[d] \in {0, pits_made[d], pits_made[d] + 1}
        BY <1>1, LapFacts
      <4>2. QED
        BY <2>2, <4>1
    <3>2. QED
      BY <1>1, <3>1, LapFacts
  <2>5. codes' \in [Car -> Compound]
    <3>1. ASSUME NEW d \in Car PROVE codes'[d] \in Compound
      <4>1. codes'[d] \in {NextCompound(sim.total_laps - lap), codes[d]}
        BY <1>1, LapFacts
      <4>2. NextCompound(sim.total_laps - lap) \in Compound
        BY <2>3, NextCompoundType
      <4>3. QED
        BY <2>2, <4>1, <4>2
    <3>2. QED
      BY <1>1, <3>1, LapFacts
  <2>6. age' \in [Car -> Nat]
    <3>1. ASSUME NEW d \in Car PROVE age'[d] \in Nat
      <4>1. age'[d] \in {0, age[d], age[d] + 1}
        BY <1>1, LapFacts
      <4>2. QED
        BY <2>2, <4>1
    <3>2. QED
      BY <1>1, <3>1, LapFacts
  <2>7. \A d \in Car : pitted_lap'[d] \in Int /\ (pitted_lap'[d] = -1 \/ pitted_lap'[d] \in 1..lap')
    <3> SUFFICES ASSUME NEW d \in Car
                 PROVE  pitted_lap'[d] \in Int /\ (pitted_lap'[d] = -1 \/ pitted_lap'[d] \in 1..lap')
      OBVIOUS
    <3>1. pitted_lap'[d] = pitted_lap[d] \/ pitted_lap'[d] = lap + 1
      BY <1>1, LapFacts
    <3>2. QED
      BY <2>1, <2>2, <3>1
  <2>8. pitted_lap' \in [Car -> Int]
    BY <1>1, <2>7, LapFacts
  <2>9. QED
    BY <2>1, <2>4, <2>5, <2>6, <2>7, <2>8 DEF PathOK
<1>2. CASE Finish
  BY <1>2 DEF Finish, PathOK, cars
<1>3. CASE UNCHANGED vars
  BY <1>3 DEF vars, cars, PathOK
<1>4. QED
  BY <1>1, <1>2, <1>3 DEF Next

LEMMA PathOKHolds == Spec => []PathOK
<1>1. Init => PathOK
  <2> SUFFICES ASSUME Init PROVE PathOK
    OBVIOUS
  <2>1. sim \in Inputs /\ lap = sim.current_lap /\ result = None
    BY DEF Init
  <2>2. cum \in Times
    BY <2>1, InputFacts DEF Init, Times
  <2>3. QED
    BY <2>1, <2>2, InputFacts DEF Init, PathOK
<1>2. PathOK /\ [Next]_vars => PathOK'
  BY PathOKStep
<1>3. QED
  BY <1>1, <1>2, PTL DEF Spec

-----------------------------------------------------------------------------
(* A car that is out of the race stays out, untimed, and takes no stop and   *)
(* no fastest lap (engine.simulate's running = ~retired).                    *)
THEOREM RetiredCarsStayOut == Spec => RetiredStayOut
<1> DEFINE Stay ==
      \A d \in retired :
        /\ d \in retired' /\ cum'[d] = cum[d] /\ codes'[d] = codes[d] /\ age'[d] = age[d]
        /\ pits_made'[d] = pits_made[d] /\ pitted_lap'[d] = pitted_lap[d]
        /\ fastest_driver' = d => fastest_driver = d /\ fastest_time' = fastest_time
<1>1. ASSUME PathOK, [Next]_vars PROVE [Stay]_vars
  <2>1. ASSUME NEW sc_now \in BOOLEAN, NEW pit_now \in SUBSET {d \in Car : MayPit(d)},
               NEW retire_now \in SUBSET (Running \ pit_now), NEW noise \in [Car -> Noise],
               SimulateLap(sc_now, pit_now, retire_now, noise),
               NEW d \in retired
        PROVE  /\ d \in retired' /\ cum'[d] = cum[d] /\ codes'[d] = codes[d] /\ age'[d] = age[d]
               /\ pits_made'[d] = pits_made[d] /\ pitted_lap'[d] = pitted_lap[d]
               /\ fastest_driver' = d => fastest_driver = d /\ fastest_time' = fastest_time
    <3> DEFINE time == [c \in Car |-> LapTime(c, sc_now, pit_now, noise)]
               green == Green(sc_now, pit_now)
               best == Min({time[c] : c \in green})
               quickest == {c \in green : time[c] = best}
    <3>1. d \in Car /\ d \notin pit_now
      <4>1. d \in Car
        BY <1>1, <2>1 DEF PathOK
      <4>2. QED
        BY <1>1, <2>1, <4>1, LapFacts
    <3>2. /\ d \in retired' /\ cum'[d] = cum[d] /\ codes'[d] = codes[d] /\ age'[d] = age[d]
          /\ pits_made'[d] = pits_made[d] /\ pitted_lap'[d] = pitted_lap[d]
      BY <1>1, <2>1, <3>1, LapFacts
    <3>3. CASE fastest_driver' = fastest_driver /\ fastest_time' = fastest_time
      BY <3>2, <3>3
    <3>4. CASE green # {} /\ fastest_driver' = Min(quickest)
      <4>1. green \subseteq Car /\ d \notin green
        BY DEF Green, Running
      <4>2. \A c \in Car : time[c] \in Int
        BY <1>1, LapTimeType
      <4>3. best \in {time[c] : c \in green}
        <5> DEFINE g == [c \in green |-> time[c]]
                   all == {time[c] : c \in green}
        <5>1. all \in SUBSET Int /\ all # {}
          BY <3>4, <4>1, <4>2
        <5>2. g \in Surjection(green, all)
          BY DEF Surjection
        <5>3. IsFiniteSet(green)
          BY <4>1, CarsFinite, FS_Subset
        <5>4. IsFiniteSet(all)
          BY <5>2, <5>3, FS_Surjection
        <5> HIDE DEF all
        <5>5. Min(all) \in all
          BY <5>1, <5>4, LeastExists
        <5>6. QED
          BY <5>5 DEF all
      <4>4. quickest # {} /\ quickest \in SUBSET Int /\ IsFiniteSet(quickest)
        <5>1. quickest \subseteq Car
          BY <4>1
        <5>2. IsFiniteSet(quickest)
          BY <5>1, CarsFinite, FS_Subset
        <5>3. PICK c \in green : time[c] = best
          <6> HIDE DEF best
          <6>1. QED
            BY <4>3
        <5>4. c \in quickest
          BY <5>3
        <5> HIDE DEF quickest
        <5>5. QED
          BY <5>1, <5>2, <5>4, CarsFinite
      <4>5. Min(quickest) \in quickest
        BY <4>4, LeastExists
      <4>6. fastest_driver' \in green
        BY <3>4, <4>5
      <4>7. QED
        BY <3>2, <4>1, <4>6
    <3>5. TimeFastestLap(green, time)
      BY <2>1 DEF SimulateLap
    <3>6. \/ fastest_driver' = fastest_driver /\ fastest_time' = fastest_time
          \/ green # {} /\ fastest_driver' = Min(quickest)
      <4> HIDE DEF green, time
      <4>1. QED
        BY <3>5 DEF TimeFastestLap
    <3>7. QED
      BY <3>3, <3>4, <3>6
  <2>2. CASE Finish
    BY <2>2 DEF Finish, cars
  <2>3. CASE UNCHANGED vars
    BY <2>3
  <2>4. QED
    BY <1>1, <2>1, <2>2, <2>3 DEF Next
<1>2. QED
  BY <1>1, PathOKHolds, PTL DEF Spec, RetiredStayOut

-----------------------------------------------------------------------------
\* With the lap and the stops of PathOK, the stops, their laps and the tyres
\* agree after every lap.
LEMMA TyresStep ==
  ASSUME PathOK, StopsAndTyresAgree, NEW sc_now \in BOOLEAN,
         NEW pit_now \in SUBSET {d \in Car : MayPit(d)},
         NEW retire_now \in SUBSET (Running \ pit_now), NEW noise \in [Car -> Noise],
         SimulateLap(sc_now, pit_now, retire_now, noise)
  PROVE  StopsAndTyresAgree'
<1> SUFFICES ASSUME NEW d \in Car
    PROVE  LET made == pits_made'[d] - sim'.pit_count[d]
           IN  /\ made \in Nat
               /\ made = 0 <=> pitted_lap'[d] = -1
               /\ d \notin retired' /\ made = 0 =>
                    /\ codes'[d] = sim'.tyre_compound[d]
                    /\ age'[d] = sim'.tyre_age[d] + lap' - sim'.current_lap
               /\ d \notin retired' /\ made = 1 =>
                    /\ codes'[d] = NextCompound(sim'.total_laps - pitted_lap'[d] + 1)
                    /\ age'[d] = lap' - pitted_lap'[d]
               /\ d \notin retired' /\ made > 1 => age'[d] < lap' - pitted_lap'[d]
  BY DEF StopsAndTyresAgree, NextCompound
<1>1. /\ d \in pit_now => /\ d \notin retired /\ age'[d] = 0
                          /\ pits_made'[d] = pits_made[d] + 1
                          /\ codes'[d] = NextCompound(sim.total_laps - lap)
                          /\ pitted_lap'[d] = IF pitted_lap[d] < 0 THEN lap + 1 ELSE pitted_lap[d]
      /\ d \notin pit_now => /\ pits_made'[d] = pits_made[d] /\ codes'[d] = codes[d]
                             /\ pitted_lap'[d] = pitted_lap[d]
                             /\ d \notin retired => age'[d] = age[d] + 1
  BY LapFacts
<1>2. lap' = lap + 1 /\ sim' = sim /\ (d \notin retired' => d \notin retired)
  BY LapFacts
<1> DEFINE n == sim.pit_count[d]
           made == pits_made[d] - n
           total == sim.total_laps
           age0 == sim.tyre_age[d]
           lap0 == sim.current_lap
           was == pitted_lap[d]
<1>3. /\ lap \in Nat /\ age[d] \in Nat /\ pits_made[d] \in Nat
      /\ was \in Int /\ (was = -1 \/ was \in 1..lap)
      /\ n \in Nat /\ total \in Nat /\ age0 \in Nat /\ lap0 \in Nat
  BY InputFacts DEF PathOK
<1>4. /\ made \in Nat
      /\ made = 0 <=> was = -1
      /\ d \notin retired /\ made = 0 =>
           codes[d] = sim.tyre_compound[d] /\ age[d] = age0 + lap - lap0
      /\ d \notin retired /\ made = 1 =>
           codes[d] = NextCompound(total - was + 1) /\ age[d] = lap - was
      /\ d \notin retired /\ made > 1 => age[d] < lap - was
  BY DEF StopsAndTyresAgree
<1>5. CASE d \in pit_now
  <2>1. /\ age'[d] = 0 /\ pits_made'[d] = pits_made[d] + 1
        /\ codes'[d] = NextCompound(total - lap)
        /\ pitted_lap'[d] = IF was < 0 THEN lap + 1 ELSE was
    BY <1>1, <1>5
  <2> DEFINE now == pitted_lap'[d]
  <2>2. pits_made'[d] - n = made + 1
    BY <1>3, <2>1
  <2>3. now \in 1..(lap + 1)
    BY <1>3, <2>1
  <2>4. made = 0 => now = lap + 1 /\ total - now + 1 = total - lap
    BY <1>3, <1>4, <2>1
  <2>5. made > 0 => now < lap + 1
    BY <1>3, <1>4, <2>1
  <2> HIDE DEF made, now
  <2>6. /\ pits_made'[d] - n \in Nat /\ pits_made'[d] - n # 0 /\ now # -1
        /\ (pits_made'[d] - n = 1 <=> made = 0) /\ (pits_made'[d] - n > 1 <=> made > 0)
    BY <1>4, <2>2, <2>3
  <2>7. made = 0 => codes'[d] = NextCompound(total - now + 1) /\ 0 = lap + 1 - now
    BY <1>3, <2>1, <2>4
  <2>8. made > 0 => 0 < lap + 1 - now
    BY <1>3, <2>3, <2>5
  <2>9. /\ pits_made'[d] - sim'.pit_count[d] = pits_made'[d] - n
        /\ codes'[d] = NextCompound(total - lap) /\ age'[d] = 0 /\ lap' = lap + 1
        /\ sim'.total_laps = total
    BY <1>2, <2>1
  <2>10. pits_made'[d] - n = 1 =>
           codes'[d] = NextCompound(sim'.total_laps - pitted_lap'[d] + 1) /\ age'[d] = lap' - pitted_lap'[d]
    BY <1>3, <2>3, <2>6, <2>7, <2>9 DEF now
  <2>11. pits_made'[d] - n > 1 => age'[d] < lap' - pitted_lap'[d]
    BY <1>3, <2>3, <2>6, <2>8, <2>9 DEF now
  <2>12. QED
    BY <2>6, <2>9, <2>10, <2>11 DEF now
<1>6. CASE d \notin pit_now
  <2>1. /\ pits_made'[d] = pits_made[d] /\ codes'[d] = codes[d] /\ pitted_lap'[d] = was
        /\ d \notin retired => age'[d] = age[d] + 1
    BY <1>1, <1>6
  <2>2. d \notin retired /\ made = 0 => age[d] + 1 = age0 + (lap + 1) - lap0
    BY <1>3, <1>4
  <2>3. d \notin retired /\ made = 1 => age[d] + 1 = (lap + 1) - was
    BY <1>3, <1>4
  <2>4. d \notin retired /\ made > 1 => age[d] + 1 < (lap + 1) - was
    BY <1>3, <1>4
  <2>5. pits_made'[d] - sim'.pit_count[d] = made
    BY <1>2, <2>1
  <2> HIDE DEF made
  <2>6. /\ made \in Nat
        /\ made = 0 <=> pitted_lap'[d] = -1
    BY <1>4, <2>1
  <2>7. d \notin retired' /\ made = 0 => /\ codes'[d] = sim'.tyre_compound[d]
                                         /\ age'[d] = sim'.tyre_age[d] + lap' - sim'.current_lap
    BY <1>2, <1>4, <2>1, <2>2
  <2>8. d \notin retired' /\ made = 1 =>
          /\ codes'[d] = NextCompound(sim'.total_laps - pitted_lap'[d] + 1)
          /\ age'[d] = lap' - pitted_lap'[d]
    BY <1>2, <1>4, <2>1, <2>3
  <2>9. d \notin retired' /\ made > 1 => age'[d] < lap' - pitted_lap'[d]
    BY <1>2, <1>4, <2>1, <2>4
  <2>10. QED
    BY <2>5, <2>6, <2>7, <2>8, <2>9
<1>7. QED
  BY <1>5, <1>6

(* The stops a car has made, the lap of the first and the age and compound   *)
(* of its tyres agree on every path, at every lap (simulate's pit block).    *)
THEOREM TyresAgree == Spec => []StopsAndTyresAgree
<1>1. Init => StopsAndTyresAgree
  <2> SUFFICES ASSUME Init, NEW d \in Car
      PROVE  /\ pits_made[d] - sim.pit_count[d] = 0 /\ pitted_lap[d] = -1
             /\ codes[d] = sim.tyre_compound[d]
             /\ age[d] = sim.tyre_age[d] + lap - sim.current_lap
    BY DEF StopsAndTyresAgree
  <2>1. /\ sim \in Inputs /\ lap = sim.current_lap /\ codes = sim.tyre_compound
        /\ age = sim.tyre_age /\ pits_made = sim.pit_count /\ pitted_lap[d] = -1
    BY DEF Init
  <2>2. lap \in Nat /\ age[d] \in Nat /\ pits_made[d] \in Nat
    BY <2>1, InputFacts
  <2>3. QED
    BY <2>1, <2>2
<1>2. PathOK /\ StopsAndTyresAgree /\ [Next]_vars => StopsAndTyresAgree'
  <2> SUFFICES ASSUME PathOK, StopsAndTyresAgree, [Next]_vars
               PROVE  StopsAndTyresAgree'
    OBVIOUS
  <2>1. ASSUME NEW sc_now \in BOOLEAN, NEW pit_now \in SUBSET {d \in Car : MayPit(d)},
               NEW retire_now \in SUBSET (Running \ pit_now), NEW noise \in [Car -> Noise],
               SimulateLap(sc_now, pit_now, retire_now, noise)
        PROVE  StopsAndTyresAgree'
    BY <2>1, TyresStep
  <2>2. CASE Finish
    BY <2>2 DEF Finish, cars, StopsAndTyresAgree, NextCompound
  <2>3. CASE UNCHANGED vars
    BY <2>3 DEF vars, cars, StopsAndTyresAgree, NextCompound
  <2>4. QED
    BY <2>1, <2>2, <2>3 DEF Next
<1>3. QED
  BY <1>1, <1>2, PathOKHolds, PTL DEF Spec

-----------------------------------------------------------------------------
\* What each contract on a car pays on.
LEMMA PayoffFacts ==
  ASSUME NEW d \in Car
  PROVE  /\ Payoff("win", d) = (d \in result.classified /\ result.final_positions[d] = 1)
         /\ Payoff("podium", d) = (d \in result.classified /\ result.final_positions[d] <= Podium)
         /\ Payoff("points", d) = (d \in result.classified /\ result.final_positions[d] <= Points)
         /\ Payoff("dnf", d) = (d \notin result.classified)
         /\ Payoff("fastest_lap", d) = (fastest_driver = d)
         /\ Payoff("positions_gained", d) =
              (/\ d \in result.classified
               /\ result.start_positions[d] - result.final_positions[d] >= GainsThreshold)
  BY DEF Payoff

\* What is priced for a car is what its contracts pay off.
LEMMA PriceIsPayoff ==
  ASSUME NEW c \in Car, NEW n, NEW type \in ContractType \ {"safety_car"}
  PROVE  PathPrice(c, n)[type] = Payoff(type, c)
<1>1. CASE type = "win"
  BY <1>1, PayoffFacts DEF PathPrice
<1>2. CASE type = "podium"
  BY <1>2, PayoffFacts DEF PathPrice
<1>3. CASE type = "points"
  BY <1>3, PayoffFacts DEF PathPrice
<1>4. CASE type = "dnf"
  BY <1>4, PayoffFacts DEF PathPrice
<1>5. CASE type = "fastest_lap"
  BY <1>5, PayoffFacts DEF PathPrice
<1>6. CASE type = "positions_gained"
  BY <1>6, PayoffFacts DEF PathPrice
<1>7. QED
  BY <1>1, <1>2, <1>3, <1>4, <1>5, <1>6 DEF ContractType

\* On a finished path, places are those of two rankings of the same cars.
LEMMA FinishedFacts ==
  ASSUME PathOK, result # None
  PROVE  /\ result.classified = Car \ retired
         /\ result.final_positions = Rank(cum, retired)
         /\ result.start_positions = Rank(sim.gap_to_leader, {})
         /\ cum \in Times /\ sim.gap_to_leader \in Times /\ retired \in SUBSET Car
         /\ \A d \in Car : result.final_positions[d] \in Nat \ {0} /\ result.start_positions[d] \in Nat
<1>1. sim.gap_to_leader \in Times
  BY InputFacts DEF PathOK, Times
<1>2. /\ result.classified = Car \ retired
      /\ result.final_positions = Rank(cum, retired)
      /\ result.start_positions = Rank(sim.gap_to_leader, {})
      /\ cum \in Times /\ retired \in SUBSET Car
  BY DEF PathOK
<1>3. \A d \in Car : Rank(cum, retired)[d] \in 1..N /\ Rank(sim.gap_to_leader, {})[d] \in 1..N
  BY <1>1, <1>2, RankType
<1>4. \A p \in 1..N : p \in Nat \ {0}
  BY CarsFinite
<1>5. \A d \in Car : result.final_positions[d] \in 1..N /\ result.start_positions[d] \in 1..N
  BY <1>2, <1>3
<1>6. QED
  BY <1>1, <1>2, <1>4, <1>5

\* As many contracts on the first p places settle as there are places or finishers.
LEMMA PlacesSettled ==
  ASSUME PathOK, result # None, NEW p \in Nat
  PROVE  Cardinality({d \in Car : d \in result.classified /\ result.final_positions[d] <= p})
           = Min({p, Cardinality(result.classified)})
<1>1. {d \in Car : d \in result.classified /\ result.final_positions[d] <= p}
        = {d \in Car \ retired : Rank(cum, retired)[d] <= p}
  BY FinishedFacts
<1>2. QED
  BY <1>1, PlacesTaken, FinishedFacts

(* The contracts of a finished path settle as those of one race, and what is *)
(* priced is what they pay (payoff_matrix.contract_payoff, price_contracts). *)
THEOREM FinishedContractsCohere ==
  ASSUME PathOK, StopsAndTyresAgree
  PROVE  ContractsCohere
<1> SUFFICES ASSUME result # None PROVE ContractsCohere
  BY DEF ContractsCohere
<1> DEFINE settling(type) == {d \in Car : Payoff(type, d)}
           in == result.classified
           final == result.final_positions
           start == result.start_positions
           finishers == Cardinality(in)
<1>1. /\ \A d \in Car : final[d] \in Nat \ {0} /\ start[d] \in Nat
      /\ in \subseteq Car /\ IsFiniteSet(in) /\ finishers \in Nat
  BY FinishedFacts, CarsFinite, FS_Subset, FS_CardinalityType
<1>2. /\ settling("win") = {d \in Car : d \in in /\ final[d] = 1}
      /\ settling("podium") = {d \in Car : d \in in /\ final[d] <= Podium}
      /\ settling("points") = {d \in Car : d \in in /\ final[d] <= Points}
      /\ settling("dnf") = {d \in Car : d \notin in}
      /\ settling("fastest_lap") = {d \in Car : fastest_driver = d}
      /\ settling("positions_gained") = {d \in Car : d \in in /\ start[d] - final[d] >= GainsThreshold}
  BY PayoffFacts
<1>3. Cardinality(settling("podium")) = Min({Podium, finishers})
      /\ Cardinality(settling("points")) = Min({Points, finishers})
  BY <1>2, PlacesSettled, ParameterFacts
<1>4. Cardinality(settling("win")) = IF finishers = 0 THEN 0 ELSE 1
  <2>1. settling("win") = {d \in Car : d \in in /\ final[d] <= 1}
    BY <1>1, <1>2
  <2>2. Cardinality(settling("win")) = Min({1, finishers})
    BY <2>1, PlacesSettled
  <2>3. QED
    BY <1>1, <2>2, LesserOfTwo
<1>5. settling("podium") \subseteq settling("points")
  BY <1>1, <1>2, ParameterFacts
<1>6. settling("dnf") \cap (settling("points") \cup settling("positions_gained")) = {}
  BY <1>2
<1>7. Cardinality(settling("fastest_lap")) <= 1
  <2>1. settling("fastest_lap") \in SUBSET {fastest_driver}
    BY <1>2
  <2>2. IsFiniteSet({fastest_driver}) /\ Cardinality({fastest_driver}) = 1
    BY FS_Singleton
  <2> HIDE DEF settling
  <2>3. QED
    BY <2>1, <2>2, FS_Subset
<1>8. ASSUME NEW c \in Car, NEW d \in Car
      PROVE  /\ ~(Ahead(c, d) /\ Ahead(d, c))
             /\ c # d /\ {c, d} \cap in # {} => Ahead(c, d) \/ Ahead(d, c)
             /\ Payoff("win", c) /\ c # d => Ahead(c, d)
  <2>1. final[c] = final[d] => c = d
    BY FinishedFacts, RankPermutes DEF Bijection, Injection, IsInjective
  <2>2. Payoff("win", c) <=> c \in in /\ final[c] = 1
    BY PayoffFacts
  <2>3. final[c] \in Nat \ {0} /\ final[d] \in Nat \ {0}
    BY <1>1
  <2>4. QED
    BY <2>1, <2>2, <2>3 DEF Ahead
<1>9. ASSUME NEW c \in Car
      PROVE  PathPrice(c, lap + 1).pit_before_lap <=> pits_made[c] > sim.pit_count[c]
  <2>1. PathPrice(c, lap + 1).pit_before_lap <=> pitted_lap[c] >= 0 /\ pitted_lap[c] < lap + 1
    BY DEF PathPrice
  <2>2. /\ lap \in Nat /\ pitted_lap[c] \in Int /\ (pitted_lap[c] = -1 \/ pitted_lap[c] \in 1..lap)
        /\ pits_made[c] \in Nat /\ sim.pit_count[c] \in Nat
    BY InputFacts DEF PathOK
  <2>3. /\ pits_made[c] - sim.pit_count[c] \in Nat
        /\ pits_made[c] - sim.pit_count[c] = 0 <=> pitted_lap[c] = -1
    BY DEF StopsAndTyresAgree
  <2>4. QED
    BY <2>1, <2>2, <2>3
<1>10. settling("win") \subseteq settling("podium")
  <2> SUFFICES ASSUME NEW d \in settling("win") PROVE d \in settling("podium")
    OBVIOUS
  <2>1. d \in Car /\ d \in in /\ final[d] = 1
    BY <1>2
  <2>2. QED
    BY <1>2, <2>1, ParameterFacts
<1>11. ASSUME GainsThreshold > 0, settling("positions_gained") # {}
       PROVE  \E d \in Car : final[d] > start[d]
  <2>1. PICK g \in Car : start[g] - final[g] >= GainsThreshold
    BY <1>2, <1>11
  <2>2. final[g] < start[g]
    BY <1>1, <1>11, <2>1, ParameterFacts
  <2>3. QED
    BY <2>2, FinishedFacts, GainsAreLosses
<1>12. QED
  BY <1>3, <1>4, <1>5, <1>6, <1>7, <1>8, <1>9, <1>10, <1>11, PriceIsPayoff DEF ContractsCohere

(* Every finished path settles coherently (simulate, contract_payoff).       *)
THEOREM ContractsAlwaysCohere == Spec => []ContractsCohere
<1>1. PathOK /\ StopsAndTyresAgree => ContractsCohere
  BY FinishedContractsCohere
<1>2. QED
  BY <1>1, PathOKHolds, TyresAgree, PTL

-----------------------------------------------------------------------------
(* Paper execution.  Fractions first: x stands for a / K.                    *)

Fraction == Int \X (Nat \ {0})
Stands(x, a, K) == x[1] * K = a * x[2]

LEMMA Cancel ==
  ASSUME NEW a \in Int, NEW b \in Int, NEW d \in Nat \ {0}, a * d = b * d
  PROVE  a = b
  OBVIOUS

\* Reducing to lowest terms keeps the number.
LEMMA LowestStands ==
  ASSUME NEW n \in Int, NEW d \in Int \ {0}
  PROVE  Lowest(n, d) \in Fraction /\ Lowest(n, d)[1] * d = n * Lowest(n, d)[2]
<1> DEFINE size == Magnitude(d)
           sign == IF d < 0 THEN -1 ELSE 1
           divisors == {k \in 1..size : n % k = 0 /\ size % k = 0}
           common == Max(divisors)
           n1 == n \div common
           d1 == size \div common
<1>1. size \in Nat \ {0} /\ size = sign * d /\ sign \in Int /\ sign * sign = 1
  BY DEF Magnitude
<1>2. Lowest(n, d) = <<sign * n1, d1>>
  BY DEF Lowest
<1> HIDE DEF size, sign
<1>3. divisors \in SUBSET Nat /\ \A k \in divisors : k <= size
  BY <1>1
<1>4. 1 \in divisors
  BY <1>1
<1>5. common \in divisors
  BY <1>1, <1>3, <1>4, GreatestNatural
<1> HIDE DEF common
<1>6. common \in Nat \ {0} /\ n % common = 0 /\ size % common = 0
  BY <1>1, <1>5
<1> HIDE DEF divisors
<1>7. n1 \in Int /\ n = common * n1 /\ d1 \in Int /\ size = common * d1
  BY <1>1, <1>6
<1> HIDE DEF n1, d1
<1>8. d1 \in Nat \ {0}
  BY <1>1, <1>6, <1>7
<1>9. (sign * n1) * d = n * d1
  <2>1. (sign * n1) * d = n1 * size
    BY <1>1, <1>7
  <2>2. n1 * size = n * d1
    BY <1>6, <1>7
  <2>3. QED
    BY <2>1, <2>2
<1>10. sign * n1 \in Int
  BY <1>1, <1>7
<1>11. QED
  BY <1>2, <1>8, <1>9, <1>10 DEF Fraction

\* What the operations do to fractions over a denominator.
LEMMA WholeStands ==
  ASSUME NEW n \in Int, NEW K \in Nat \ {0}
  PROVE  Whole(n) \in Fraction /\ Stands(Whole(n), n * K, K)
  BY DEF Whole, Fraction, Stands

LEMMA PlusStands ==
  ASSUME NEW x \in Fraction, NEW y \in Fraction, NEW K \in Nat \ {0},
         NEW a \in Int, NEW b \in Int, Stands(x, a, K), Stands(y, b, K)
  PROVE  Plus(x, y) \in Fraction /\ Stands(Plus(x, y), a + b, K)
<1> DEFINE p == Plus(x, y)[1]
           q == Plus(x, y)[2]
           x1 == x[1]  y1 == y[1]
           x2 == x[2]  y2 == y[2]
<1>1. x1 \in Int /\ y1 \in Int /\ x2 \in Nat \ {0} /\ y2 \in Nat \ {0}
  BY DEF Fraction
<1>2. x2 * y2 \in Nat \ {0} /\ x1 * y2 + y1 * x2 \in Int
  <2> HIDE DEF x1, x2, y1, y2
  <2>1. QED
    BY <1>1
<1>3. Plus(x, y) \in Fraction /\ p * (x2 * y2) = (x1 * y2 + y1 * x2) * q
  BY <1>2, LowestStands DEF Plus
<1>4. p \in Int /\ q \in Nat \ {0}
  BY <1>3 DEF Fraction
<1>5. x1 * K = a * x2 /\ y1 * K = b * y2
  BY DEF Stands
<1> HIDE DEF p, q, x1, x2, y1, y2
<1>6. (p * K) * (x2 * y2) = ((a + b) * q) * (x2 * y2)
  BY <1>1, <1>3, <1>4, <1>5
<1>7. p * K = (a + b) * q
  <2>1. p * K \in Int /\ (a + b) * q \in Int
    BY <1>4
  <2>2. QED
    BY <1>2, <1>6, <2>1, Cancel
<1>8. QED
  BY <1>3, <1>7 DEF Stands, p, q

LEMMA MultipleStands ==
  ASSUME NEW x \in Fraction, NEW K \in Nat \ {0}, NEW a \in Int, NEW n \in Int, Stands(x, a, K)
  PROVE  Multiple(x, n) \in Fraction /\ Stands(Multiple(x, n), a * n, K)
<1> DEFINE p == Multiple(x, n)[1]
           q == Multiple(x, n)[2]
           x1 == x[1]
           x2 == x[2]
<1>1. x1 \in Int /\ x2 \in Nat \ {0}
  BY DEF Fraction
<1>2. Multiple(x, n) \in Fraction /\ p * x2 = (x1 * n) * q
  BY <1>1, LowestStands DEF Multiple
<1>3. p \in Int /\ q \in Nat \ {0}
  BY <1>2 DEF Fraction
<1>4. x1 * K = a * x2
  BY DEF Stands
<1> HIDE DEF p, q, x1, x2
<1>5. (p * K) * x2 = ((a * n) * q) * x2
  BY <1>1, <1>2, <1>3, <1>4
<1>6. p * K = (a * n) * q
  <2>1. p * K \in Int /\ (a * n) * q \in Int
    BY <1>3
  <2>2. QED
    BY <1>1, <1>5, <2>1, Cancel
<1>7. QED
  BY <1>2, <1>6 DEF Stands, p, q

LEMMA OverStands ==
  ASSUME NEW x \in Fraction, NEW K \in Nat \ {0}, NEW a \in Int, NEW n \in Nat \ {0}, Stands(x, a, K)
  PROVE  Over(x, n) \in Fraction /\ Stands(Over(x, n), a, K * n)
<1> DEFINE p == Over(x, n)[1]
           q == Over(x, n)[2]
           x1 == x[1]
           x2 == x[2]
<1>1. x1 \in Int /\ x2 \in Nat \ {0} /\ x2 * n \in Nat \ {0}
  BY DEF Fraction
<1>2. Over(x, n) \in Fraction /\ p * (x2 * n) = x1 * q
  BY <1>1, LowestStands DEF Over
<1>3. p \in Int /\ q \in Nat \ {0}
  BY <1>2 DEF Fraction
<1>4. x1 * K = a * x2
  BY DEF Stands
<1> HIDE DEF p, q, x1, x2
<1>5. (p * (K * n)) * x2 = (a * q) * x2
  BY <1>1, <1>2, <1>3, <1>4
<1>6. p * (K * n) = a * q
  <2>1. p * (K * n) \in Int /\ a * q \in Int
    BY <1>3
  <2>2. QED
    BY <1>1, <1>5, <2>1, Cancel
<1>7. QED
  BY <1>2, <1>6 DEF Stands, p, q

\* Over a larger denominator and back; what stands is unique; fractions that
\* stand for one thing are the same number.
LEMMA Rescaled ==
  ASSUME NEW x \in Fraction, NEW K \in Nat \ {0}, NEW a \in Int, NEW c \in Nat \ {0}
  PROVE  Stands(x, a, K) <=> Stands(x, a * c, K * c)
<1>1. x[1] \in Int /\ x[2] \in Nat \ {0}
  BY DEF Fraction
<1>2. ASSUME Stands(x, a, K) PROVE Stands(x, a * c, K * c)
  BY <1>1, <1>2 DEF Stands
<1>3. ASSUME Stands(x, a * c, K * c) PROVE Stands(x, a, K)
  <2>1. (x[1] * K) * c = (a * x[2]) * c
    BY <1>1, <1>3 DEF Stands
  <2>2. x[1] * K \in Int /\ a * x[2] \in Int
    BY <1>1
  <2>3. QED
    BY <2>1, <2>2, Cancel DEF Stands
<1>4. QED
  BY <1>2, <1>3

LEMMA StandsOnce ==
  ASSUME NEW x \in Fraction, NEW K, NEW a \in Int, NEW b \in Int, Stands(x, a, K), Stands(x, b, K)
  PROVE  a = b
<1>1. x[2] \in Nat \ {0} /\ a * x[2] = b * x[2]
  BY DEF Fraction, Stands
<1>2. QED
  BY <1>1, Cancel

LEMMA StandAlike ==
  ASSUME NEW x \in Fraction, NEW y \in Fraction, NEW K \in Nat \ {0}, NEW a \in Int,
         Stands(x, a, K), Stands(y, a, K)
  PROVE  Same(x, y)
<1> DEFINE x1 == x[1]  y1 == y[1]
           x2 == x[2]  y2 == y[2]
<1>1. x1 \in Int /\ y1 \in Int /\ x2 \in Nat \ {0} /\ y2 \in Nat \ {0}
  BY DEF Fraction
<1>2. x1 * K = a * x2 /\ y1 * K = a * y2
  BY DEF Stands
<1> HIDE DEF x1, x2, y1, y2
<1>3. (x1 * y2) * K = (y1 * x2) * K
  BY <1>1, <1>2
<1>4. x1 * y2 \in Int /\ y1 * x2 \in Int
  BY <1>1
<1>5. QED
  BY <1>3, <1>4, Cancel DEF Same, x1, x2, y1, y2

\* A fraction is its numerator over its denominator, over any multiple of it.
LEMMA StandsItself ==
  ASSUME NEW x \in Fraction, NEW K \in Nat \ {0}
  PROVE  Stands(x, x[1] * K, K * x[2]) /\ K * x[2] \in Nat \ {0} /\ x[1] * K \in Int
<1>1. x[1] \in Int /\ x[2] \in Nat \ {0}
  BY DEF Fraction
<1>2. K * x[2] \in Nat \ {0} /\ x[1] * K \in Int
  BY <1>1
<1>3. x[1] * (K * x[2]) = (x[1] * K) * x[2]
  BY <1>1
<1>4. QED
  BY <1>2, <1>3 DEF Stands

LEMMA SumIsFraction ==
  ASSUME NEW x \in Fraction, NEW y \in Fraction
  PROVE  Plus(x, y) \in Fraction
<1> DEFINE x2 == x[2]
           y2 == y[2]
<1>1. x[1] \in Int /\ y[1] \in Int /\ x2 \in Nat \ {0} /\ y2 \in Nat \ {0}
  BY DEF Fraction
<1>2. x[1] * y2 + y[1] * x2 \in Int
  BY <1>1
<1> HIDE DEF x2, y2
<1>3. x2 * y2 \in Int \ {0}
  BY <1>1
<1>4. QED
  BY <1>2, <1>3, LowestStands DEF Plus, x2, y2

LEMMA MultipleIsFraction ==
  ASSUME NEW x \in Fraction, NEW n \in Int
  PROVE  Multiple(x, n) \in Fraction
<1>1. x[1] * n \in Int /\ x[2] \in Int \ {0}
  BY DEF Fraction
<1>2. QED
  BY <1>1, LowestStands DEF Multiple

LEMMA WholeIsFraction ==
  ASSUME NEW n \in Int
  PROVE  Whole(n) \in Fraction
  BY DEF Whole, Fraction

\* The member a fold takes, and what a fold of fractions computes on the
\* subsets of a set.
Picked(s) == CHOOSE x \in s : TRUE
FoldRecursion(F, base, S, h) ==
  h = [s \in SUBSET S |->
         IF s = {} THEN base ELSE Plus(F[Picked(s)], h[s \ {Picked(s)}])]

LEMMA FoldOfNothing ==
  ASSUME NEW F, NEW base, NEW S, NEW h, FoldRecursion(F, base, S, h)
  PROVE  h[{}] = base
  BY DEF FoldRecursion

LEMMA FoldUnfolds ==
  ASSUME NEW F, NEW base, NEW S, NEW h, FoldRecursion(F, base, S, h), NEW s \in SUBSET S, s # {}
  PROVE  /\ Picked(s) \in s /\ s \ {Picked(s)} \in SUBSET s /\ s \ {Picked(s)} # s
         /\ h[s] = Plus(F[Picked(s)], h[s \ {Picked(s)}])
<1>1. h[s] = Plus(F[Picked(s)], h[s \ {Picked(s)}])
  BY DEF FoldRecursion
<1>2. Picked(s) \in s
  BY DEF Picked
<1>3. QED
  BY <1>1, <1>2

\* Two of them agree where both are defined.
LEMMA FoldsAgree ==
  ASSUME NEW F, NEW base, NEW S, IsFiniteSet(S), NEW T \in SUBSET S,
         NEW h, FoldRecursion(F, base, S, h), NEW g, FoldRecursion(F, base, T, g)
  PROVE  h[T] = g[T]
<1> DEFINE Bad == {s \in SUBSET T : h[s] # g[s]}
<1> SUFFICES ASSUME Bad # {} PROVE FALSE
  OBVIOUS
<1>1. IsFiniteSet(T) /\ Bad \in SUBSET SUBSET T
  BY FS_Subset
<1>2. \E s \in Bad : \A t \in SUBSET s : t # s => t \notin Bad
  <2> HIDE DEF Bad
  <2>1. QED
    BY <1>1, SmallestSet
<1>3. PICK s \in Bad : \A t \in SUBSET s : t # s => t \notin Bad
  BY <1>2
<1>4. s \in SUBSET S /\ s \in SUBSET T
  OBVIOUS
<1> DEFINE x == Picked(s)
<1>5. CASE s = {}
  <2>1. h[s] = base /\ g[s] = base
    BY <1>5, FoldOfNothing
  <2>2. QED
    BY <1>3, <2>1
<1>6. CASE s # {}
  <2>1. /\ s \ {x} \in SUBSET s /\ s \ {x} # s
        /\ h[s] = Plus(F[x], h[s \ {x}]) /\ g[s] = Plus(F[x], g[s \ {x}])
    <3> HIDE DEF Bad
    <3>1. h[s] = Plus(F[x], h[s \ {x}])
      BY <1>4, <1>6 DEF FoldRecursion
    <3>2. g[s] = Plus(F[x], g[s \ {x}])
      BY <1>4, <1>6 DEF FoldRecursion
    <3>3. x \in s
      BY <1>6 DEF Picked
    <3> HIDE DEF x
    <3>4. QED
      BY <3>1, <3>2, <3>3
  <2> HIDE DEF x
  <2>2. h[s \ {x}] = g[s \ {x}]
    BY <1>3, <1>4, <2>1
  <2>3. QED
    BY <2>1, <2>2
<1>7. QED
  BY <1>5, <1>6

\* There is one: a smallest set without it could be given one from those of
\* its subsets.
LEMMA FoldExists ==
  ASSUME NEW F, NEW base, NEW S, IsFiniteSet(S)
  PROVE  \E h : FoldRecursion(F, base, S, h)
<1> DEFINE Has(t) == \E h : FoldRecursion(F, base, t, h)
           H(t) == CHOOSE h : FoldRecursion(F, base, t, h)
           Bad == {t \in SUBSET S : ~Has(t)}
<1> SUFFICES ASSUME Bad # {} PROVE FALSE
  OBVIOUS
<1>1. \E t \in Bad : \A u \in SUBSET t : u # t => u \notin Bad
  <2>1. Bad \in SUBSET SUBSET S
    OBVIOUS
  <2> HIDE DEF Bad
  <2>2. QED
    BY <2>1, SmallestSet
<1>2. PICK t \in Bad : \A u \in SUBSET t : u # t => u \notin Bad
  BY <1>1
<1>3. t \in SUBSET S /\ ~Has(t)
  OBVIOUS
<1>4. \A u \in SUBSET t : u # t => IsFiniteSet(u) /\ FoldRecursion(F, base, u, H(u))
  <2> SUFFICES ASSUME NEW u \in SUBSET t, u # t
               PROVE  IsFiniteSet(u) /\ FoldRecursion(F, base, u, H(u))
    OBVIOUS
  <2>1. u \in SUBSET S
    BY <1>3
  <2>2. Has(u)
    BY <1>2, <2>1
  <2>3. QED
    BY <2>1, <2>2, FS_Subset
<1> DEFINE top == IF t = {} THEN base ELSE Plus(F[Picked(t)], H(t \ {Picked(t)})[t \ {Picked(t)}])
           h == [u \in SUBSET t |-> IF u = t THEN top ELSE H(u)[u]]
<1>5. \A u \in SUBSET t :
        h[u] = IF u = {} THEN base ELSE Plus(F[Picked(u)], h[u \ {Picked(u)}])
  <2> SUFFICES ASSUME NEW u \in SUBSET t
               PROVE  h[u] = IF u = {} THEN base ELSE Plus(F[Picked(u)], h[u \ {Picked(u)}])
    OBVIOUS
  <2>1. u # {} => Picked(u) \in u
    BY DEF Picked
  <2> DEFINE v == u \ {Picked(u)}
  <2>2. u # {} => v \in SUBSET u /\ v \in SUBSET t /\ v # u /\ v # t
    BY <2>1
  <2>3. CASE u = t
    <3>1. h[u] = top
      BY <2>3
    <3>2. u # {} => h[v] = H(v)[v]
      BY <2>2
    <3> HIDE DEF h, H
    <3>3. QED
      BY <2>3, <3>1, <3>2
  <2>4. CASE u # t
    <3>1. h[u] = H(u)[u] /\ FoldRecursion(F, base, u, H(u)) /\ IsFiniteSet(u)
      BY <1>4, <2>4
    <3>2. CASE u = {}
      <4> HIDE DEF h, H
      <4>1. H(u)[u] = base
        BY <3>1, <3>2, FoldOfNothing
      <4>2. QED
        BY <3>1, <3>2, <4>1
    <3>3. CASE u # {}
      <4>1. h[v] = H(v)[v] /\ FoldRecursion(F, base, v, H(v)) /\ v \in SUBSET u
        BY <1>4, <2>2, <3>3
      <4> HIDE DEF h, H
      <4>2. H(u)[v] = H(v)[v]
        <5> HIDE DEF v
        <5>1. QED
          BY <3>1, <4>1, FoldsAgree
      <4>3. H(u)[u] = Plus(F[Picked(u)], H(u)[v])
        <5> DEFINE g == H(u)
        <5>1. FoldRecursion(F, base, u, g) /\ u \in SUBSET u
          BY <3>1
        <5> HIDE DEF g
        <5>2. g[u] = Plus(F[Picked(u)], g[u \ {Picked(u)}])
          BY <3>3, <5>1 DEF FoldRecursion
        <5>3. QED
          BY <5>2 DEF g
      <4>4. QED
        BY <3>1, <3>3, <4>1, <4>2, <4>3
    <3>4. QED
      BY <3>2, <3>3
  <2>5. QED
    BY <2>3, <2>4
<1>6. h = [u \in SUBSET t |-> h[u]]
  OBVIOUS
<1> HIDE DEF h
<1>7. FoldRecursion(F, base, t, h)
  BY <1>5, <1>6 DEF FoldRecursion
<1>8. QED
  BY <1>3, <1>7

\* A fold of fractions stands for the sum of what they stand for, whatever the
\* order in which it takes them.
LEMMA FoldStands ==
  ASSUME NEW S, IsFiniteSet(S), NEW K \in Nat \ {0}, NEW base \in Fraction, NEW b \in Int,
         Stands(base, b, K), NEW F, DOMAIN F = S, NEW w,
         \A m \in S : F[m] \in Fraction /\ w[m] \in Nat /\ Stands(F[m], w[m], K)
  PROVE  /\ FoldFunction(Plus, base, F) \in Fraction
         /\ SumFunctionOnSet(w, S) \in Nat
         /\ Stands(FoldFunction(Plus, base, F), b + SumFunctionOnSet(w, S), K)
<1>1. \E h : FoldRecursion(F, base, S, h)
  BY FoldExists
<1>2. \E h : FoldRecursion(F, base, S, h) /\ FoldFunction(Plus, base, F) = h[S]
  <2>1. FoldFunction(Plus, base, F) = FoldFunctionOnSet(Plus, base, F, S)
    BY DEF FoldFunction
  <2>2. \E h : FoldRecursion(F, base, S, h) /\ FoldFunctionOnSet(Plus, base, F, S) = h[S]
    BY <1>1 DEF FoldRecursion, Picked, FoldFunctionOnSet, MapThenFoldSet
  <2>3. QED
    BY <2>1, <2>2
<1>3. PICK h : FoldRecursion(F, base, S, h) /\ FoldFunction(Plus, base, F) = h[S]
  BY <1>2
<1> DEFINE Good(s) == h[s] \in Fraction /\ Stands(h[s], b + SumFunctionOnSet(w, s), K)
           Bad == {s \in SUBSET S : ~Good(s)}
<1>4. Bad = {}
  <2> SUFFICES ASSUME Bad # {} PROVE FALSE
    OBVIOUS
  <2>1. \E s \in Bad : IsFiniteSet(s) /\ \A t \in SUBSET s : t # s => t \notin Bad
    <3>1. Bad \in SUBSET SUBSET S
      OBVIOUS
    <3> HIDE DEF Bad
    <3>2. QED
      BY <3>1, SmallestSet
  <2>2. PICK s \in Bad : IsFiniteSet(s) /\ \A t \in SUBSET s : t # s => t \notin Bad
    BY <2>1
  <2>3. s \in SUBSET S /\ ~Good(s)
    OBVIOUS
  <2> DEFINE x == Picked(s)
             t == s \ {x}
  <2>4. CASE s = {}
    <3>0. SumFunctionOnSet(w, {}) = 0
      BY EmptySum
    <3>1. h[s] = base /\ SumFunctionOnSet(w, s) = 0
      <4>1. h[s] = base
        BY <1>3, <2>4, FoldOfNothing
      <4>2. QED
        BY <2>4, <3>0, <4>1
    <3>2. b + 0 = b
      OBVIOUS
    <3>3. QED
      BY <2>3, <3>1, <3>2
  <2>5. CASE s # {}
    <3>0. /\ x \in s /\ s \ {x} \in SUBSET s /\ s \ {x} # s
          /\ h[s] = Plus(F[x], h[s \ {x}])
      BY <1>3, <2>3, <2>5, FoldUnfolds
    <3> HIDE DEF x
    <3>1. x \in s /\ t \in SUBSET s /\ t # s /\ h[s] = Plus(F[x], h[t])
      BY <3>0
    <3>2. IsFiniteSet(t) /\ x \notin t /\ s = t \cup {x} /\ t \in SUBSET S /\ x \in S
      BY <2>2, <2>3, <3>1, FS_Subset
    <3> HIDE DEF t
    <3>3. Good(t)
      BY <2>2, <3>1, <3>2
    <3>4. \A i \in t \cup {x} : w[i] \in Nat
      BY <3>2
    <3>5. SumFunctionOnSet(w, t \cup {x}) = SumFunctionOnSet(w, t) + w[x]
      BY <3>2, <3>4, SumOfOneMore
    <3>6. SumFunctionOnSet(w, t) \in Nat
      BY <3>2, <3>4, SumIsNatural
    <3> DEFINE n == SumFunctionOnSet(w, t)
    <3>7. h[t] \in Fraction /\ Stands(h[t], b + n, K) /\ n \in Nat /\ b + n \in Int
      BY <3>3, <3>6
    <3>8. F[x] \in Fraction /\ Stands(F[x], w[x], K) /\ w[x] \in Int
      BY <3>2
    <3> HIDE DEF n
    <3>9. Plus(F[x], h[t]) \in Fraction /\ Stands(Plus(F[x], h[t]), w[x] + (b + n), K)
      BY <3>7, <3>8, PlusStands
    <3>10. w[x] + (b + n) = b + (n + w[x])
      BY <3>7, <3>8
    <3>11. SumFunctionOnSet(w, s) = n + w[x]
      BY <3>2, <3>5 DEF n
    <3>12. QED
      BY <2>3, <3>1, <3>9, <3>10, <3>11
  <2>6. QED
    BY <2>4, <2>5
<1>5. Good(S)
  BY <1>4
<1>6. SumFunctionOnSet(w, S) \in Nat
  BY SumIsNatural
<1>7. QED
  BY <1>3, <1>5, <1>6

\* A sum without one of its members, with that member changed, and scaled.
LEMMA SumOfRest ==
  ASSUME NEW S, IsFiniteSet(S), NEW m \in S, NEW w, \A k \in S : w[k] \in Nat
  PROVE  /\ SumFunctionOnSet(w, S) \in Nat /\ SumFunctionOnSet(w, S \ {m}) \in Nat
         /\ SumFunctionOnSet(w, S) = SumFunctionOnSet(w, S \ {m}) + w[m]
<1> DEFINE T == S \ {m}
<1>1. IsFiniteSet(T) /\ m \notin T /\ S = T \cup {m}
  BY FS_Subset
<1> HIDE DEF T
<1>2. SumFunctionOnSet(w, T \cup {m}) = SumFunctionOnSet(w, T) + w[m]
  BY <1>1, SumOfOneMore
<1>3. SumFunctionOnSet(w, S) \in Nat
  BY SumIsNatural
<1>4. SumFunctionOnSet(w, T) \in Nat
  BY <1>1, SumIsNatural
<1>5. QED
  BY <1>1, <1>2, <1>3, <1>4 DEF T

LEMMA SumChanged ==
  ASSUME NEW S, IsFiniteSet(S), NEW m, NEW w, \A k \in S : w[k] \in Nat,
         NEW v, v[m] \in Nat, \A k \in S \ {m} : v[k] = w[k]
  PROVE  /\ SumFunctionOnSet(w, S) \in Nat /\ SumFunctionOnSet(v, S \cup {m}) \in Nat
         /\ SumFunctionOnSet(v, S \cup {m}) + (IF m \in S THEN w[m] ELSE 0)
              = SumFunctionOnSet(w, S) + v[m]
<1> DEFINE T == S \ {m}
<1>1. IsFiniteSet(T) /\ m \notin T /\ T \cup {m} = S \cup {m}
  BY FS_Subset
<1>2. \A k \in T : v[k] \in Nat /\ v[k] = w[k]
  OBVIOUS
<1>3. \A k \in T \cup {m} : v[k] \in Nat
  BY <1>2
<1> HIDE DEF T
<1>4. SumFunctionOnSet(v, T \cup {m}) = SumFunctionOnSet(v, T) + v[m]
  BY <1>1, <1>3, SumOfOneMore
<1>5. SumFunctionOnSet(v, T) = SumFunctionOnSet(w, T)
  BY <1>1, <1>2, SumsAgree
<1>6. SumFunctionOnSet(v, T) \in Nat
  BY <1>1, <1>2, SumIsNatural
<1>7. SumFunctionOnSet(w, S) \in Nat
  BY SumIsNatural
<1>0. /\ SumFunctionOnSet(v, S \cup {m}) = SumFunctionOnSet(w, T) + v[m]
      /\ SumFunctionOnSet(w, T) \in Nat
  BY <1>1, <1>4, <1>5, <1>6
<1>8. CASE m \in S
  <2>1. SumFunctionOnSet(w, S) = SumFunctionOnSet(w, T) + w[m] /\ w[m] \in Nat
    BY <1>8, SumOfRest DEF T
  <2> DEFINE a == SumFunctionOnSet(v, S \cup {m})
             b == SumFunctionOnSet(w, S)
             c == SumFunctionOnSet(w, T)
             x == w[m]
             y == v[m]
  <2>2. a = c + y /\ c \in Nat /\ b = c + x /\ x \in Nat /\ y \in Nat
    BY <1>0, <2>1
  <2> HIDE DEF a, b, c, x, y
  <2>3. a \in Nat /\ b \in Nat /\ a + x = b + y
    BY <2>2
  <2>4. QED
    BY <1>8, <2>3 DEF a, b, x, y
<1>9. CASE m \notin S
  <2>1. S = T
    BY <1>9 DEF T
  <2>2. QED
    BY <1>0, <1>7, <1>9, <2>1
<1>10. QED
  BY <1>8, <1>9

LEMMA SumScaled ==
  ASSUME NEW S, IsFiniteSet(S), NEW w, \A k \in S : w[k] \in Nat, NEW c \in Nat,
         NEW v, \A k \in S : v[k] = w[k] * c
  PROVE  /\ SumFunctionOnSet(w, S) \in Nat
         /\ SumFunctionOnSet(v, S) = SumFunctionOnSet(w, S) * c
<1> DEFINE Bad == {s \in SUBSET S : SumFunctionOnSet(v, s) # SumFunctionOnSet(w, s) * c}
<1>1. Bad = {}
  <2> SUFFICES ASSUME Bad # {} PROVE FALSE
    OBVIOUS
  <2>1. \E s \in Bad : IsFiniteSet(s) /\ \A t \in SUBSET s : t # s => t \notin Bad
    <3>1. Bad \in SUBSET SUBSET S
      OBVIOUS
    <3> HIDE DEF Bad
    <3>2. QED
      BY <3>1, SmallestSet
  <2>2. PICK s \in Bad : IsFiniteSet(s) /\ \A t \in SUBSET s : t # s => t \notin Bad
    BY <2>1
  <2>3. s \in SUBSET S /\ SumFunctionOnSet(v, s) # SumFunctionOnSet(w, s) * c
    OBVIOUS
  <2>4. s # {}
    <3>1. SumFunctionOnSet(v, {}) = 0 /\ SumFunctionOnSet(w, {}) = 0
      BY EmptySum
    <3>2. 0 = 0 * c
      OBVIOUS
    <3>3. QED
      BY <2>3, <3>1, <3>2
  <2>5. PICK x \in s : TRUE
    BY <2>4
  <2> DEFINE t == s \ {x}
  <2>6. t \in SUBSET s /\ t # s /\ t \in SUBSET S
    BY <2>3, <2>5
  <2>7. SumFunctionOnSet(v, t) = SumFunctionOnSet(w, t) * c
    <3>1. t \notin Bad
      BY <2>2, <2>6
    <3> HIDE DEF t
    <3>2. QED
      BY <2>6, <3>1
  <2>8. \A k \in s : w[k] \in Nat /\ v[k] = w[k] * c /\ v[k] \in Nat
    BY <2>3
  <2>9. /\ SumFunctionOnSet(w, t) \in Nat
        /\ SumFunctionOnSet(w, s) = SumFunctionOnSet(w, t) + w[x]
        /\ SumFunctionOnSet(v, s) = SumFunctionOnSet(v, t) + v[x]
    BY <2>2, <2>8, SumOfRest
  <2> DEFINE n == SumFunctionOnSet(w, t)
             y == w[x]
  <2>10. n \in Nat /\ y \in Nat
    BY <2>5, <2>8, <2>9
  <2>11. SumFunctionOnSet(v, s) = n * c + y * c /\ SumFunctionOnSet(w, s) = n + y
    BY <2>5, <2>7, <2>8, <2>9
  <2> HIDE DEF n, y, t
  <2>12. n * c + y * c = (n + y) * c
    BY <2>10
  <2>13. QED
    BY <2>3, <2>11, <2>12
<1>2. SumFunctionOnSet(w, S) \in Nat
  BY SumIsNatural
<1>3. QED
  BY <1>1, <1>2

-----------------------------------------------------------------------------
(* The executor's books. *)

Held == [quantity : Int, avg_price : Fraction]

PaperType ==
  /\ cash \in Int /\ fills \in Seq(Fill) /\ realized_pnl \in Fraction /\ oversold \in BOOLEAN
  /\ IsFiniteSet(DOMAIN positions)
  /\ positions \in [DOMAIN positions -> Held]

LEMMA PositionType ==
  ASSUME PaperType, NEW m
  PROVE  /\ Position(m) \in Held
         /\ Position(m).quantity \in Int /\ Position(m).avg_price \in Fraction
         /\ m \notin DOMAIN positions => Position(m).quantity = 0 /\ Position(m).avg_price = Whole(0)
<1>1. [quantity |-> 0, avg_price |-> Whole(0)] \in Held
  <2>1. Whole(0) \in Fraction
    BY WholeIsFraction
  <2>2. QED
    BY <2>1 DEF Held
<1>2. Position(m) \in Held
  BY <1>1 DEF Position, PaperType
<1>3. QED
  BY <1>2 DEF Position, Held

LEMMA FillType ==
  ASSUME NEW order \in Order, NEW book \in Book, Marketable(order, book)
  PROVE  /\ FillOf(order, book) \in Fill
         /\ FillOf(order, book).price \in 0..Payout /\ FillOf(order, book).price \in Nat
         /\ FillOf(order, book).size \in Nat \ {0} /\ FillOf(order, book).fee \in Nat
<1>1. FillPrice(order, book) \in Price
  BY DEF Order, Book, Side, Marketable, FillPrice
<1>2. order.size \in Nat \ {0} /\ order.size \in Size /\ order.market_id \in Market /\ order.side \in Side
  BY PaperAssumption DEF Order
<1>3. Fee * order.size \in Nat
  BY <1>2, PaperAssumption
<1>4. Price \subseteq 0..Payout /\ 0..Payout \subseteq Nat
  BY PaperAssumption
<1>5. QED
  BY <1>1, <1>2, <1>3, <1>4 DEF FillOf, Fill

\* The average of what was held and what is bought is a fraction, also when
\* more had been sold than was held.
LEMMA AverageType ==
  ASSUME NEW pos \in Held, NEW fill, fill.price \in Int, fill.size \in Int
  PROVE  AverageEntry(pos, fill) \in Fraction
<1> DEFINE held == pos.quantity + fill.size
           cost == Plus(Multiple(pos.avg_price, pos.quantity), Whole(fill.price * fill.size))
<1>1. pos.quantity \in Int /\ pos.avg_price \in Fraction /\ held \in Int
  BY DEF Held
<1>3. Multiple(pos.avg_price, pos.quantity) \in Fraction
  BY <1>1, MultipleIsFraction
<1>4. fill.price * fill.size \in Int
  OBVIOUS
<1>5. Whole(fill.price * fill.size) \in Fraction
  BY <1>4, WholeIsFraction
<1>6. cost \in Fraction
  BY <1>3, <1>5, SumIsFraction
<1>7. CASE held = 0
  <2>1. AverageEntry(pos, fill) = Whole(0)
    BY <1>7 DEF AverageEntry
  <2>2. QED
    BY <2>1, WholeIsFraction
<1>8. CASE held # 0
  <2>1. AverageEntry(pos, fill) = Lowest(cost[1], cost[2] * held)
    BY <1>8 DEF AverageEntry, Over
  <2>2. cost[1] \in Int /\ cost[2] \in Nat \ {0}
    BY <1>6 DEF Fraction
  <2> DEFINE c2 == cost[2]
  <2> HIDE DEF cost, held, c2
  <2>3. c2 * held \in Int \ {0}
    BY <1>1, <1>8, <2>2 DEF c2
  <2>4. QED
    BY <2>1, <2>2, <2>3, LowestStands DEF c2
<1>9. QED
  BY <1>7, <1>8

LEMMA WithPositionType ==
  ASSUME PaperType, NEW m, NEW p \in Held
  PROVE  /\ DOMAIN WithPosition(m, p) = DOMAIN positions \cup {m}
         /\ IsFiniteSet(DOMAIN WithPosition(m, p))
         /\ WithPosition(m, p) \in [DOMAIN WithPosition(m, p) -> Held]
         /\ WithPosition(m, p)[m] = p
         /\ \A k \in DOMAIN positions \ {m} : WithPosition(m, p)[k] = positions[k]
<1>1. DOMAIN WithPosition(m, p) = DOMAIN positions \cup {m}
  BY DEF WithPosition
<1>2. IsFiniteSet(DOMAIN positions \cup {m})
  BY FS_AddElement DEF PaperType
<1>3. WithPosition(m, p) \in [DOMAIN positions \cup {m} -> Held]
  BY DEF WithPosition, PaperType
<1>4. QED
  BY <1>1, <1>2, <1>3 DEF WithPosition

LEMMA FillAdded ==
  ASSUME PaperType, NEW fill \in Fill, fills' = Append(fills, fill)
  PROVE  fills' \in Seq(Fill)
  BY DEF PaperType

LEMMA BuyKeepsType ==
  ASSUME PaperType, NEW order \in Order, NEW book \in Book, Buy(order, book)
  PROVE  PaperType'
<1> DEFINE fill == FillOf(order, book)
           pos == Position(order.market_id)
           p == [quantity |-> pos.quantity + fill.size, avg_price |-> AverageEntry(pos, fill)]
<1>1. /\ fill \in Fill /\ fill.price \in Nat /\ fill.size \in Nat \ {0} /\ fill.fee \in Nat
  BY FillType DEF Buy
<1>2. pos \in Held /\ pos.quantity \in Int
  BY PositionType
<1>3. /\ positions' = WithPosition(order.market_id, p)
      /\ cash' = cash - (fill.price * fill.size + fill.fee)
      /\ fills' = Append(fills, fill) /\ realized_pnl' = realized_pnl /\ oversold' = oversold
  BY DEF Buy
<1>4. AverageEntry(pos, fill) \in Fraction
  <2> HIDE DEF pos, fill
  <2>1. QED
    BY <1>1, <1>2, AverageType
<1> HIDE DEF fill, pos
<1>5. p \in Held
  BY <1>1, <1>2, <1>4 DEF Held
<1>6. IsFiniteSet(DOMAIN positions') /\ positions' \in [DOMAIN positions' -> Held]
  <2> HIDE DEF p
  <2>1. QED
    BY <1>3, <1>5, WithPositionType
<1>7. fill.price * fill.size \in Int
  BY <1>1
<1>8. cash' \in Int
  BY <1>1, <1>3, <1>7 DEF PaperType
<1>9. QED
  BY <1>1, <1>3, <1>6, <1>8, FillAdded DEF PaperType

LEMMA SellKeepsType ==
  ASSUME PaperType, NEW order \in Order, NEW book \in Book, Sell(order, book)
  PROVE  PaperType'
<1> DEFINE fill == FillOf(order, book)
           pos == Position(order.market_id)
           p == [pos EXCEPT !.quantity = @ - fill.size]
           gain == Multiple(Plus(Whole(fill.price), Multiple(pos.avg_price, -1)), fill.size)
<1>1. /\ fill \in Fill /\ fill.price \in Nat /\ fill.size \in Nat \ {0} /\ fill.fee \in Nat
  BY FillType DEF Sell
<1>2. pos \in Held /\ pos.quantity \in Int /\ pos.avg_price \in Fraction
  BY PositionType
<1>3. /\ positions' = WithPosition(order.market_id, p)
      /\ cash' = cash + fill.price * fill.size - fill.fee
      /\ fills' = Append(fills, fill) /\ realized_pnl' = Plus(realized_pnl, gain)
      /\ oversold' = (oversold \/ fill.size > pos.quantity)
  BY DEF Sell
<1> HIDE DEF fill, pos
<1>4. p \in Held
  BY <1>1, <1>2 DEF Held
<1>5. IsFiniteSet(DOMAIN positions') /\ positions' \in [DOMAIN positions' -> Held]
  <2> HIDE DEF p
  <2>1. QED
    BY <1>3, <1>4, WithPositionType
<1>6. Plus(realized_pnl, gain) \in Fraction
  <2>1. Whole(fill.price) \in Fraction
    BY <1>1, WholeIsFraction
  <2>2. Multiple(pos.avg_price, -1) \in Fraction
    BY <1>2, MultipleIsFraction
  <2>3. Plus(Whole(fill.price), Multiple(pos.avg_price, -1)) \in Fraction
    BY <2>1, <2>2, SumIsFraction
  <2>4. gain \in Fraction
    BY <1>1, <2>3, MultipleIsFraction
  <2> HIDE DEF gain
  <2>5. QED
    BY <2>4, SumIsFraction DEF PaperType
<1>7. fill.price * fill.size \in Int
  BY <1>1
<1>8. cash' \in Int
  BY <1>1, <1>3, <1>7 DEF PaperType
<1>9. oversold' \in BOOLEAN
  BY <1>3
<1>10. QED
  BY <1>1, <1>3, <1>5, <1>6, <1>8, <1>9, FillAdded DEF PaperType

LEMMA RestType ==
  ASSUME PaperType, NEW m
  PROVE  LET rest == Restrict(positions, DOMAIN positions \ {m}) IN
         /\ DOMAIN rest = DOMAIN positions \ {m} /\ IsFiniteSet(DOMAIN rest)
         /\ rest \in [DOMAIN rest -> Held]
         /\ \A k \in DOMAIN rest : rest[k] = positions[k]
<1>1. IsFiniteSet(DOMAIN positions \ {m})
  BY FS_Subset DEF PaperType
<1>2. QED
  BY <1>1 DEF Restrict, PaperType

LEMMA SettleKeepsType ==
  ASSUME PaperType, NEW m, NEW outcome \in {0, Payout}, Settle(m, outcome)
  PROVE  PaperType'
<1> DEFINE pos == Position(m)
           gain == Multiple(Plus(Whole(outcome), Multiple(pos.avg_price, -1)), pos.quantity)
<1>1. outcome \in Int
  BY PaperAssumption
<1>2. pos.quantity \in Int /\ pos.avg_price \in Fraction
  BY PositionType
<1>3. /\ positions' = Restrict(positions, DOMAIN positions \ {m})
      /\ cash' = cash + outcome * pos.quantity /\ fills' = fills /\ oversold' = oversold
      /\ realized_pnl' = Plus(realized_pnl, gain)
  BY DEF Settle
<1> HIDE DEF pos
<1>4. IsFiniteSet(DOMAIN positions') /\ positions' \in [DOMAIN positions' -> Held]
  BY <1>3, RestType
<1>5. Plus(realized_pnl, gain) \in Fraction
  <2>1. Whole(outcome) \in Fraction
    BY <1>1, WholeIsFraction
  <2>2. Multiple(pos.avg_price, -1) \in Fraction
    BY <1>2, MultipleIsFraction
  <2>3. Plus(Whole(outcome), Multiple(pos.avg_price, -1)) \in Fraction
    BY <2>1, <2>2, SumIsFraction
  <2>4. gain \in Fraction
    BY <1>2, <2>3, MultipleIsFraction
  <2> HIDE DEF gain
  <2>5. QED
    BY <2>4, SumIsFraction DEF PaperType
<1>6. outcome * pos.quantity \in Int
  BY <1>1, <1>2
<1> HIDE DEF gain
<1>7. cash' \in Int
  BY <1>3, <1>6 DEF PaperType
<1>8. fills' \in Seq(Fill) /\ realized_pnl' \in Fraction /\ oversold' \in BOOLEAN
  BY <1>3, <1>5 DEF PaperType
<1>9. QED
  BY <1>4, <1>7, <1>8 DEF PaperType

\* What may happen in a step.
LEMMA PaperSteps ==
  ASSUME [PaperNext]_paperVars
  PROVE  \/ \E order \in Order, book \in Book : Buy(order, book)
         \/ \E order \in Order, book \in Book : Sell(order, book)
         \/ \E m \in Market, outcome \in {0, Payout} : Settle(m, outcome)
         \/ UNCHANGED paperVars
  BY DEF PaperNext, Decline

LEMMA PaperTypeHolds == PaperSpec => []PaperType
<1>1. PaperInit => PaperType
  <2> SUFFICES ASSUME PaperInit PROVE PaperType
    OBVIOUS
  <2>1. DOMAIN positions = {} /\ fills \in Seq(Fill) /\ positions \in [DOMAIN positions -> Held]
    BY DEF PaperInit
  <2>2. realized_pnl = Whole(0) /\ oversold \in BOOLEAN
    BY DEF PaperInit
  <2>5. cash = StartingCash /\ StartingCash \in Int
    BY PaperAssumption DEF PaperInit
  <2>4. realized_pnl \in Fraction
    BY <2>2, WholeIsFraction
  <2>3. QED
    BY <2>1, <2>2, <2>4, <2>5, FS_EmptySet DEF PaperType
<1>2. PaperType /\ [PaperNext]_paperVars => PaperType'
  <2> SUFFICES ASSUME PaperType, [PaperNext]_paperVars PROVE PaperType'
    OBVIOUS
  <2>1. UNCHANGED paperVars => PaperType'
    BY DEF paperVars, PaperType
  <2>2. ASSUME NEW order \in Order, NEW book \in Book, Buy(order, book)
        PROVE  PaperType'
    BY <2>2, BuyKeepsType
  <2>3. ASSUME NEW order \in Order, NEW book \in Book, Sell(order, book)
        PROVE  PaperType'
    BY <2>3, SellKeepsType
  <2>4. ASSUME NEW m \in Market, NEW outcome \in {0, Payout}, Settle(m, outcome)
        PROVE  PaperType'
    BY <2>4, SettleKeepsType
  <2>5. QED
    BY <2>1, <2>2, <2>3, <2>4, PaperSteps
<1>3. QED
  BY <1>1, <1>2, PTL DEF PaperSpec

-----------------------------------------------------------------------------
\* A price between nothing and the payout.
Fair(x) == 0 <= x[1] /\ x[1] <= Payout * x[2]

\* Unless more was sold than was held, what is held is a number of contracts
\* that cost a fair price.
Covered ==
  oversold \/ \A m \in DOMAIN positions :
                positions[m].quantity \in Nat /\ Fair(positions[m].avg_price)

LEMMA FairBetween ==
  ASSUME NEW a \in Int, NEW b \in Nat \ {0}, NEW n \in Nat, NEW d \in Nat \ {0},
         NEW q \in Nat, NEW s \in Nat \ {0}, NEW p \in Nat, NEW top \in Nat,
         p <= top, n <= top * d, a * (d * (q + s)) = (n * q + (p * s) * d) * b
  PROVE  0 <= a /\ a <= top * b
<1> DEFINE e == d * (q + s)
           c == n * q + (p * s) * d
<1>1. q + s \in Nat \ {0}
  OBVIOUS
<1>2. e \in Nat \ {0}
  <2> DEFINE h == q + s
  <2> HIDE DEF h
  <2>1. d * h \in Nat \ {0}
    BY <1>1 DEF h
  <2>2. QED
    BY <2>1 DEF h
<1>3. c \in Nat /\ c <= top * e
  <2>1. n * q <= (top * d) * q
    OBVIOUS
  <2>2. p * s <= top * s
    OBVIOUS
  <2>3. (p * s) * d <= (top * s) * d
    <3> DEFINE x == p * s
               y == top * s
    <3>1. x \in Nat /\ y \in Nat /\ x <= y
      BY <2>2
    <3> HIDE DEF x, y
    <3>2. x * d <= y * d
      BY <3>1
    <3>3. QED
      BY <3>2 DEF x, y
  <2>4. (top * d) * q + (top * s) * d = top * e
    OBVIOUS
  <2>5. n * q \in Nat /\ (p * s) * d \in Nat
    OBVIOUS
  <2>6. (top * d) * q \in Nat /\ (top * s) * d \in Nat /\ top * e \in Nat
    BY <1>2
  <2> DEFINE x1 == n * q  x2 == (p * s) * d  y1 == (top * d) * q  y2 == (top * s) * d
             z == top * e
  <2>7. x1 \in Nat /\ x2 \in Nat /\ y1 \in Nat /\ y2 \in Nat /\ x1 <= y1 /\ x2 <= y2 /\ y1 + y2 = z
    BY <2>1, <2>3, <2>4, <2>5, <2>6
  <2>8. c = x1 + x2
    OBVIOUS
  <2> HIDE DEF x1, x2, y1, y2, z, c
  <2>9. c \in Nat /\ c <= z
    BY <2>7, <2>8
  <2>10. QED
    BY <2>9 DEF z
<1> HIDE DEF e, c
<1>4. a * e = c * b
  BY DEF e, c
<1>5. c * b \in Nat
  BY <1>3
<1>6. 0 <= a
  BY <1>2, <1>4, <1>5
<1>7. a * e <= (top * b) * e
  <2>1. c * b <= (top * e) * b
    <3> DEFINE y == top * e
    <3>1. y \in Nat /\ c <= y
      BY <1>2, <1>3
    <3> HIDE DEF y
    <3>2. c * b <= y * b
      BY <1>3, <3>1
    <3>3. QED
      BY <3>2 DEF y
  <2>2. (top * e) * b = (top * b) * e
    BY <1>2
  <2>3. QED
    BY <1>4, <2>1, <2>2
<1>8. a <= top * b
  <2> DEFINE y == top * b
  <2>1. y \in Int
    OBVIOUS
  <2> HIDE DEF y
  <2>2. a * e <= y * e
    BY <1>7 DEF y
  <2>3. a <= y
    BY <1>2, <2>1, <2>2
  <2>4. QED
    BY <2>3 DEF y
<1>9. QED
  BY <1>6, <1>8

\* What an average over h contracts stands for, alone and times h: what was
\* held and the y added.
LEMMA AverageStands ==
  ASSUME NEW x \in Fraction, NEW q \in Int, NEW y \in Int, NEW h \in Nat \ {0},
         NEW K \in Nat \ {0}, NEW w \in Int, Stands(Multiple(x, q), w, K),
         NEW c, c = w + y * K,
         NEW avg, avg = Over(Plus(Multiple(x, q), Whole(y)), h)
  PROVE  Stands(avg, c, K * h) /\ Stands(Multiple(avg, h), c, K)
<1> DEFINE held == Multiple(x, q)
           added == Whole(y)
           e == y * K
<1>1. held \in Fraction /\ Stands(held, w, K)
  BY MultipleIsFraction
<1>2. e \in Int
  OBVIOUS
<1>3. added \in Fraction /\ Stands(added, e, K)
  BY WholeStands
<1>4. c \in Int /\ c = w + e
  BY <1>2
<1> HIDE DEF held, added, e
<1>5. Plus(held, added) \in Fraction /\ Stands(Plus(held, added), c, K)
  <2>1. Plus(held, added) \in Fraction /\ Stands(Plus(held, added), w + e, K)
    BY <1>1, <1>2, <1>3, PlusStands
  <2>2. QED
    BY <1>4, <2>1
<1>6. avg \in Fraction /\ Stands(avg, c, K * h)
  <2>1. avg = Over(Plus(held, added), h)
    BY DEF held, added
  <2>2. QED
    BY <1>4, <1>5, <2>1, OverStands
<1>7. K * h \in Nat \ {0} /\ h \in Int
  OBVIOUS
<1>8. Multiple(avg, h) \in Fraction /\ Stands(Multiple(avg, h), c * h, K * h)
  BY <1>4, <1>6, <1>7, MultipleStands
<1>9. Stands(Multiple(avg, h), c, K)
  BY <1>4, <1>8, Rescaled
<1>10. QED
  BY <1>6, <1>9

\* An average of fair prices is fair.
LEMMA AverageFair ==
  ASSUME NEW pos \in Held, pos.quantity \in Nat, Fair(pos.avg_price),
         NEW fill, fill.price \in 0..Payout, fill.size \in Nat \ {0}
  PROVE  Fair(AverageEntry(pos, fill))
<1> DEFINE x == pos.avg_price
           q == pos.quantity
           p == fill.price
           s == fill.size
           n == x[1]
           d == x[2]
           avg == AverageEntry(pos, fill)
           a == avg[1]
           b == avg[2]
<1>1. x \in Fraction /\ n \in Nat /\ d \in Nat \ {0} /\ n <= Payout * d /\ Payout \in Nat
  <2>1. x \in Fraction
    BY DEF Held
  <2>2. n \in Int /\ d \in Nat \ {0}
    BY <2>1 DEF Fraction
  <2>3. 0 <= n /\ n <= Payout * d
    BY DEF Fair
  <2>4. QED
    BY <2>1, <2>2, <2>3, PaperAssumption
<1>2. q \in Nat /\ p \in Nat /\ s \in Nat \ {0} /\ p <= Payout
  BY PaperAssumption
<1>3. Stands(x, n, d)
  BY DEF Stands
<1>4. avg = Over(Plus(Multiple(x, q), Whole(p * s)), q + s)
  BY <1>2 DEF AverageEntry
<1> HIDE DEF x, q, p, s, n, d, avg
<1>5. n \in Int /\ q \in Int
  BY <1>1, <1>2
<1>6. Stands(Multiple(x, q), n * q, d)
  BY <1>1, <1>3, <1>5, MultipleStands
<1> DEFINE w == n * q
           y == p * s
           h == q + s
           c == w + y * d
<1>7. w \in Int /\ y \in Int /\ h \in Nat \ {0} /\ Stands(Multiple(x, q), w, d)
  BY <1>1, <1>2, <1>6
<1>8. avg = Over(Plus(Multiple(x, q), Whole(y)), h) /\ c = w + y * d
  BY <1>4
<1> HIDE DEF w, y, h, c
<1>9. Stands(avg, c, d * h)
  <2>1. x \in Fraction /\ d \in Nat \ {0}
    BY <1>1
  <2>2. QED
    BY <1>5, <1>7, <1>8, <2>1, AverageStands
<1>10. a \in Int /\ b \in Nat \ {0}
  <2>1. avg \in Fraction
    BY AverageType DEF avg
  <2>2. QED
    BY <2>1 DEF Fraction
<1>11. a * (d * (q + s)) = (n * q + (p * s) * d) * b
  BY <1>9 DEF Stands, c, w, y, h
<1> HIDE DEF a, b
<1>12. 0 <= a /\ a <= Payout * b
  BY <1>1, <1>2, <1>10, <1>11, FairBetween
<1>13. QED
  BY <1>12 DEF Fair, a, b, avg

\* A position of fair price, quantity counted, whether or not it is open.
LEMMA PositionCovered ==
  ASSUME PaperType, Covered, ~oversold, NEW m
  PROVE  Position(m).quantity \in Nat /\ Fair(Position(m).avg_price)
<1>1. CASE m \in DOMAIN positions
  BY <1>1 DEF Covered, Position
<1>2. CASE m \notin DOMAIN positions
  <2>1. Fair(Whole(0))
    BY PaperAssumption DEF Fair, Whole
  <2>2. QED
    BY <1>2, <2>1 DEF Position
<1>3. QED
  BY <1>1, <1>2

LEMMA BuyKeepsCovered ==
  ASSUME PaperType, Covered, NEW order \in Order, NEW book \in Book, Buy(order, book)
  PROVE  Covered'
<1> SUFFICES ASSUME ~oversold' PROVE Covered'
  BY DEF Covered
<1> DEFINE fill == FillOf(order, book)
           m == order.market_id
           pos == Position(m)
           p == [quantity |-> pos.quantity + fill.size, avg_price |-> AverageEntry(pos, fill)]
<1>1. fill \in Fill /\ fill.price \in 0..Payout /\ fill.price \in Nat /\ fill.size \in Nat \ {0}
  BY FillType DEF Buy
<1>2. ~oversold /\ positions' = WithPosition(m, p)
  BY DEF Buy
<1>3. pos \in Held /\ pos.quantity \in Nat /\ Fair(pos.avg_price)
  BY <1>2, PositionType, PositionCovered
<1> HIDE DEF fill, pos, m
<1>4. Fair(AverageEntry(pos, fill)) /\ AverageEntry(pos, fill) \in Fraction
  BY <1>1, <1>3, AverageFair, AverageType
<1>5. p \in Held /\ p.quantity \in Nat /\ Fair(p.avg_price)
  BY <1>1, <1>3, <1>4 DEF Held
<1> HIDE DEF p
<1>6. /\ DOMAIN positions' = DOMAIN positions \cup {m} /\ positions'[m] = p
      /\ \A k \in DOMAIN positions \ {m} : positions'[k] = positions[k]
  <2> DEFINE wide == WithPosition(m, p)
  <2>1. /\ DOMAIN wide = DOMAIN positions \cup {m} /\ wide[m] = p
        /\ \A k \in DOMAIN positions \ {m} : wide[k] = positions[k]
    BY <1>5, WithPositionType
  <2>2. positions' = wide
    BY <1>2
  <2> HIDE DEF wide
  <2>3. QED
    BY <2>1, <2>2
<1>7. \A k \in DOMAIN positions' : positions'[k].quantity \in Nat /\ Fair(positions'[k].avg_price)
  BY <1>2, <1>5, <1>6 DEF Covered
<1>8. QED
  BY <1>7 DEF Covered, Fair

LEMMA SellKeepsCovered ==
  ASSUME PaperType, Covered, NEW order \in Order, NEW book \in Book, Sell(order, book)
  PROVE  Covered'
<1> SUFFICES ASSUME ~oversold' PROVE Covered'
  BY DEF Covered
<1> DEFINE fill == FillOf(order, book)
           m == order.market_id
           pos == Position(m)
           p == [pos EXCEPT !.quantity = @ - fill.size]
<1>1. fill \in Fill /\ fill.size \in Nat \ {0}
  BY FillType DEF Sell
<1>2. ~oversold /\ ~(fill.size > pos.quantity) /\ positions' = WithPosition(m, p)
  BY DEF Sell
<1>3. pos \in Held /\ pos.quantity \in Nat /\ Fair(pos.avg_price)
  BY <1>2, PositionType, PositionCovered
<1> HIDE DEF fill, pos, m
<1>4. p \in Held /\ p.quantity \in Nat /\ Fair(p.avg_price)
  BY <1>1, <1>2, <1>3 DEF Held
<1> HIDE DEF p
<1>5. /\ DOMAIN positions' = DOMAIN positions \cup {m} /\ positions'[m] = p
      /\ \A k \in DOMAIN positions \ {m} : positions'[k] = positions[k]
  <2> DEFINE wide == WithPosition(m, p)
  <2>1. /\ DOMAIN wide = DOMAIN positions \cup {m} /\ wide[m] = p
        /\ \A k \in DOMAIN positions \ {m} : wide[k] = positions[k]
    BY <1>4, WithPositionType
  <2>2. positions' = wide
    BY <1>2
  <2> HIDE DEF wide
  <2>3. QED
    BY <2>1, <2>2
<1>6. \A k \in DOMAIN positions' : positions'[k].quantity \in Nat /\ Fair(positions'[k].avg_price)
  BY <1>2, <1>4, <1>5 DEF Covered
<1>7. QED
  BY <1>6 DEF Covered, Fair

LEMMA CoveredHolds == PaperSpec => []Covered
<1>1. PaperInit => Covered
  BY DEF PaperInit, Covered
<1>2. PaperType /\ Covered /\ [PaperNext]_paperVars => Covered'
  <2> SUFFICES ASSUME PaperType, Covered, [PaperNext]_paperVars PROVE Covered'
    OBVIOUS
  <2>1. UNCHANGED paperVars => Covered'
    BY DEF paperVars, Covered, Fair
  <2>2. ASSUME NEW order \in Order, NEW book \in Book, Buy(order, book)
        PROVE  Covered'
    BY <2>2, BuyKeepsCovered
  <2>3. ASSUME NEW order \in Order, NEW book \in Book, Sell(order, book)
        PROVE  Covered'
    BY <2>3, SellKeepsCovered
  <2>4. ASSUME NEW m \in Market, NEW outcome \in {0, Payout}, Settle(m, outcome)
        PROVE  Covered'
    <3>1. oversold' = oversold /\ positions' = Restrict(positions, DOMAIN positions \ {m})
      BY <2>4 DEF Settle
    <3>2. /\ DOMAIN positions' = DOMAIN positions \ {m}
          /\ \A k \in DOMAIN positions' : positions'[k] = positions[k]
      BY <3>1, RestType
    <3>3. QED
      BY <3>1, <3>2 DEF Covered, Fair
  <2>5. QED
    BY <2>1, <2>2, <2>3, <2>4, PaperSteps
<1>3. QED
  BY <1>1, <1>2, PaperTypeHolds, PTL DEF PaperSpec

\* Whatever is bought, sold and settled, and in whatever order, the entry
\* price of an open position (AverageEntry, paper.py's weighted average across
\* adds) is a price between nothing and the payout, unless more was sold than
\* was held.
THEOREM PaperEntryIsAPrice == PaperSpec => []EntryIsAPrice
<1>1. Covered => EntryIsAPrice
  BY DEF Covered, EntryIsAPrice, Fair
<1>2. QED
  BY <1>1, CoveredHolds, PTL

-----------------------------------------------------------------------------
(* The money.  Over a denominator K that all of the books' fractions share,  *)
(* r is what the realised profit stands for and w what each holding, at its  *)
(* entry, stands for: with them, the balance is one of whole numbers.        *)

Balanced(money, held, fees, gain, K, r, w) ==
  /\ \A m \in DOMAIN held : Stands(Multiple(held[m].avg_price, held[m].quantity), w[m], K)
  /\ Stands(gain, r, K)
  /\ money * K + SumFunctionOnSet(w, DOMAIN held) = (StartingCash - fees) * K + r

Balances(money, held, fees, gain) ==
  \E K \in Nat \ {0}, r \in Int : \E w \in [DOMAIN held -> Nat] :
    Balanced(money, held, fees, gain, K, r, w)

\* What is kept on the way to BooksReconcile: a sum of fractions cannot be
\* carried through a step, its balance over one denominator can.
Ledger == oversold \/ Balances(cash, positions, FeesPaid, realized_pnl)

LEMMA FeesAdd ==
  ASSUME PaperType
  PROVE  /\ FeesPaid \in Nat
         /\ \A fill \in Fill : fills' = Append(fills, fill) => FeesPaid' = FeesPaid + fill.fee
<1> DEFINE n == Len(fills)
           F == [i \in DOMAIN fills |-> fills[i].fee]
<1>1. n \in Nat /\ DOMAIN fills = 1..n /\ \A i \in 1..n : fills[i] \in Fill
  BY DEF PaperType
<1>2. DOMAIN F = 1..n /\ \A i \in 1..n : F[i] = fills[i].fee /\ F[i] \in Nat
  BY <1>1 DEF Fill
<1>3. FeesPaid \in Nat
  <2>1. FeesPaid = SumFunctionOnSet(F, 1..n)
    BY <1>2 DEF FeesPaid, SumFunction
  <2>2. IsFiniteSet(1..n)
    BY <1>1, FS_Interval
  <2> HIDE DEF F, n
  <2>3. SumFunctionOnSet(F, 1..n) \in Nat
    BY <1>2, <2>2, SumIsNatural
  <2>4. QED
    BY <2>1, <2>3
<1>4. ASSUME NEW fill \in Fill, fills' = Append(fills, fill)
      PROVE  FeesPaid' = FeesPaid + fill.fee
  <2> DEFINE G == [i \in DOMAIN fills' |-> fills'[i].fee]
  <2>1. /\ DOMAIN fills' = 1..(n + 1) /\ fills'[n + 1] = fill
        /\ \A i \in 1..n : fills'[i] = fills[i]
    <3>1. fills \in Seq(Fill)
      BY DEF PaperType
    <3>2. QED
      BY <1>4, <3>1
  <2>2. DOMAIN G = 1..(n + 1) /\ G[n + 1] = fill.fee /\ \A i \in 1..n : F[i] = G[i]
    BY <1>1, <2>1
  <2>3. fill.fee \in Nat
    BY DEF Fill
  <2>4. FeesPaid = SumFunction(F) /\ FeesPaid' = SumFunction(G)
    BY DEF FeesPaid
  <2> HIDE DEF F, G, n
  <2>5. SumFunction(G) = SumFunction(F) + G[n + 1]
    BY <1>1, <1>2, <2>2, <2>3, SumOfLonger
  <2>6. QED
    BY <2>2, <2>4, <2>5
<1>5. QED
  BY <1>3, <1>4

\* The profit of a sale, over the denominator that takes in the entry's.
LEMMA GainStands ==
  ASSUME NEW g \in Fraction, NEW K \in Nat \ {0}, NEW r \in Int, Stands(g, r, K),
         NEW x \in Fraction, NEW price \in Int, NEW n \in Int
  PROVE  Stands(Plus(g, Multiple(Plus(Whole(price), Multiple(x, -1)), n)),
                r * x[2] + (price * (K * x[2]) - x[1] * K) * n, K * x[2])
<1> DEFINE d == x[2]
           a == x[1] * K
           J == K * d
           p == price * J
           back == Multiple(x, -1)
           margin == Plus(Whole(price), back)
           gain == Multiple(margin, n)
<1>1. d \in Nat \ {0} /\ J \in Nat \ {0} /\ a \in Int /\ Stands(x, a, J)
  BY StandsItself DEF Fraction
<1> HIDE DEF d, a, J
<1>2. p \in Int /\ Whole(price) \in Fraction /\ Stands(Whole(price), p, J)
  <2>1. p \in Int
    BY <1>1
  <2>2. QED
    BY <1>1, <2>1, WholeStands
<1>3. back \in Fraction /\ Stands(back, a * (-1), J) /\ a * (-1) \in Int
  <2>1. a * (-1) \in Int /\ -1 \in Int
    BY <1>1
  <2>2. QED
    BY <1>1, <2>1, MultipleStands
<1> HIDE DEF p, back
<1>4. margin \in Fraction /\ Stands(margin, p + a * (-1), J)
  BY <1>1, <1>2, <1>3, PlusStands
<1>5. p + a * (-1) = p - a /\ p - a \in Int
  BY <1>1, <1>2
<1> HIDE DEF margin
<1> DEFINE b == p - a
<1>6. margin \in Fraction /\ Stands(margin, b, J) /\ b \in Int
  BY <1>4, <1>5
<1> HIDE DEF b
<1>7. gain \in Fraction /\ Stands(gain, b * n, J) /\ b * n \in Int
  <2>1. b * n \in Int
    BY <1>6
  <2>2. QED
    BY <1>1, <1>6, <2>1, MultipleStands
<1>8. Stands(g, r * d, J) /\ r * d \in Int
  <2>1. r * d \in Int
    BY <1>1
  <2>2. Stands(g, r * d, K * d)
    BY <1>1, Rescaled
  <2>3. QED
    BY <2>1, <2>2 DEF J
<1> HIDE DEF gain
<1>9. Stands(Plus(g, gain), r * d + b * n, J)
  BY <1>1, <1>7, <1>8, PlusStands
<1>10. QED
  BY <1>9 DEF gain, margin, back, b, p, a, J, d

\* A holding over the larger denominator: so many contracts at the entry.
LEMMA HoldingScaled ==
  ASSUME NEW x \in Fraction, NEW q \in Int, NEW K \in Nat \ {0}, NEW w \in Int,
         Stands(Multiple(x, q), w, K)
  PROVE  w * x[2] = (x[1] * K) * q
<1> DEFINE d == x[2]
           a == x[1] * K
           J == K * d
<1>1. d \in Nat \ {0} /\ J \in Nat \ {0} /\ a \in Int /\ Stands(x, a, J)
  BY StandsItself DEF Fraction
<1> HIDE DEF d, a
<1>2. Multiple(x, q) \in Fraction
  BY MultipleIsFraction
<1>3. Stands(Multiple(x, q), w * d, J)
  BY <1>1, <1>2, Rescaled
<1> HIDE DEF J
<1>4. Stands(Multiple(x, q), a * q, J)
  BY <1>1, MultipleStands
<1>5. w * d \in Int /\ a * q \in Int
  BY <1>1
<1>6. w * d = a * q
  BY <1>2, <1>3, <1>4, <1>5, StandsOnce
<1>7. QED
  BY <1>6 DEF d, a

LEMMA LedgerUnfolds ==
  ASSUME PaperType, Balances(cash, positions, FeesPaid, realized_pnl)
  PROVE  \E K \in Nat \ {0}, r \in Int : \E w \in [DOMAIN positions -> Nat] :
           /\ \A m \in DOMAIN positions :
                Stands(Multiple(positions[m].avg_price, positions[m].quantity), w[m], K)
           /\ Stands(realized_pnl, r, K)
           /\ cash * K + SumFunctionOnSet(w, DOMAIN positions) = (StartingCash - FeesPaid) * K + r
           /\ SumFunctionOnSet(w, DOMAIN positions) \in Nat
<1>1. PICK K \in Nat \ {0}, r \in Int : \E w \in [DOMAIN positions -> Nat] :
        Balanced(cash, positions, FeesPaid, realized_pnl, K, r, w)
  BY DEF Balances
<1>2. PICK w \in [DOMAIN positions -> Nat] :
        Balanced(cash, positions, FeesPaid, realized_pnl, K, r, w)
  BY <1>1
<1>3. IsFiniteSet(DOMAIN positions) /\ \A m \in DOMAIN positions : w[m] \in Nat
  BY DEF PaperType
<1>4. SumFunctionOnSet(w, DOMAIN positions) \in Nat
  BY <1>3, SumIsNatural
<1>5. QED
  BY <1>2, <1>4 DEF Balanced

LEMMA BuyKeepsLedger ==
  ASSUME PaperType, Covered, Ledger, NEW order \in Order, NEW book \in Book, Buy(order, book)
  PROVE  Ledger'
<1> SUFFICES ASSUME ~oversold' PROVE Balances(cash', positions', FeesPaid', realized_pnl')
  BY DEF Ledger
<1> DEFINE fill == FillOf(order, book)
           m == order.market_id
           pos == Position(m)
           new == [quantity |-> pos.quantity + fill.size, avg_price |-> AverageEntry(pos, fill)]
           x == pos.avg_price
           q == pos.quantity
           p == fill.price
           s == fill.size
           avg == AverageEntry(pos, fill)
           D == DOMAIN positions
<1>1. fill \in Fill /\ p \in Nat /\ s \in Nat \ {0} /\ fill.fee \in Nat
  BY FillType DEF Buy
<1>2. /\ ~oversold /\ positions' = WithPosition(m, new)
      /\ cash' = cash - (p * s + fill.fee)
      /\ fills' = Append(fills, fill) /\ realized_pnl' = realized_pnl
  BY DEF Buy
<1>3. pos \in Held /\ x \in Fraction /\ q \in Nat /\ Fair(x)
  BY <1>2, PositionType, PositionCovered
<1>4. m \notin D => q = 0 /\ x = Whole(0)
  BY PositionType
<1>5. m \in D => positions[m].avg_price = x /\ positions[m].quantity = q
  BY DEF Position
<1>6. avg = Over(Plus(Multiple(x, q), Whole(p * s)), q + s) /\ avg \in Fraction
  <2>1. q + s # 0
    BY <1>1, <1>3
  <2>2. avg \in Fraction
    <3> HIDE DEF fill, pos
    <3>1. QED
      BY <1>1, <1>3, AverageType
  <2>3. QED
    BY <2>1, <2>2 DEF AverageEntry
<1>7. FeesPaid \in Nat /\ FeesPaid' = FeesPaid + fill.fee
  BY <1>1, <1>2, FeesAdd
<1>8. new \in Held /\ new.avg_price = avg /\ new.quantity = q + s
  <2>1. q + s \in Int
    BY <1>1, <1>3
  <2>2. QED
    BY <1>6, <2>1 DEF Held
<1> HIDE DEF avg, new, x, q, p, s, pos, m
<1>9. /\ DOMAIN positions' = D \cup {m} /\ positions'[m] = new
      /\ \A k \in D \ {m} : positions'[k] = positions[k]
  <2> DEFINE wide == WithPosition(m, new)
  <2>1. /\ DOMAIN wide = D \cup {m} /\ wide[m] = new
        /\ \A k \in D \ {m} : wide[k] = positions[k]
    BY <1>8, WithPositionType
  <2>2. positions' = wide
    BY <1>2
  <2> HIDE DEF wide
  <2>3. QED
    BY <2>1, <2>2
<1>10. IsFiniteSet(D) /\ cash \in Int
  BY DEF PaperType
<1>11. PICK K \in Nat \ {0}, r \in Int : \E w \in [D -> Nat] :
         /\ \A k \in D : Stands(Multiple(positions[k].avg_price, positions[k].quantity), w[k], K)
         /\ Stands(realized_pnl, r, K)
         /\ cash * K + SumFunctionOnSet(w, D) = (StartingCash - FeesPaid) * K + r
         /\ SumFunctionOnSet(w, D) \in Nat
  BY <1>2, LedgerUnfolds DEF Ledger
<1>12. PICK w \in [D -> Nat] :
         /\ \A k \in D : Stands(Multiple(positions[k].avg_price, positions[k].quantity), w[k], K)
         /\ Stands(realized_pnl, r, K)
         /\ cash * K + SumFunctionOnSet(w, D) = (StartingCash - FeesPaid) * K + r
         /\ SumFunctionOnSet(w, D) \in Nat
  BY <1>11
<1> DEFINE w0 == IF m \in D THEN w[m] ELSE 0
           cost == (p * s) * K
           v == [k \in D \cup {m} |-> IF k = m THEN w0 + cost ELSE w[k]]
<1>13. w0 \in Nat /\ Stands(Multiple(x, q), w0, K)
  <2>1. CASE m \in D
    BY <1>5, <1>12, <2>1
  <2>2. CASE m \notin D
    <3>1. Whole(0) \in Fraction /\ Stands(Whole(0), 0, K)
      BY DEF Whole, Fraction, Stands
    <3>2. Stands(Multiple(Whole(0), 0), 0 * 0, K)
      BY <3>1, MultipleStands
    <3>3. w0 = 0 /\ 0 * 0 = 0
      BY <2>2
    <3>4. QED
      BY <1>4, <2>2, <3>2, <3>3
  <2>3. QED
    BY <2>1, <2>2
<1>14. cost \in Nat /\ p * s \in Nat
  <2>1. p * s \in Nat
    BY <1>1
  <2> DEFINE y == p * s
  <2> HIDE DEF y
  <2>2. y * K \in Nat
    BY <2>1 DEF y
  <2>3. QED
    BY <2>1, <2>2 DEF y
<1> HIDE DEF w0, D
<1>15. Stands(Multiple(avg, q + s), w0 + cost, K)
  <2> DEFINE y == p * s
             h == q + s
             c == w0 + cost
  <2>1. w0 \in Int /\ q \in Int /\ y \in Int /\ h \in Nat \ {0} /\ c = w0 + y * K
    BY <1>1, <1>3, <1>13, <1>14
  <2>2. avg = Over(Plus(Multiple(x, q), Whole(y)), h)
    BY <1>6
  <2> HIDE DEF y, h, c
  <2>3. Stands(Multiple(avg, h), c, K)
    BY <1>3, <1>13, <2>1, <2>2, AverageStands
  <2>4. QED
    BY <2>3 DEF h, c
<1> HIDE DEF cost
<1>16. v \in [D \cup {m} -> Nat] /\ v[m] = w0 + cost /\ \A k \in D \ {m} : v[k] = w[k]
  BY <1>13, <1>14
<1> HIDE DEF v
<1>17. \A k \in D \cup {m} :
         Stands(Multiple(positions'[k].avg_price, positions'[k].quantity), v[k], K)
  BY <1>8, <1>9, <1>12, <1>15, <1>16
<1>18. SumFunctionOnSet(v, D \cup {m}) = SumFunctionOnSet(w, D) + cost
  <2>1. \A k \in D : w[k] \in Nat
    OBVIOUS
  <2>2. v[m] \in Nat
    BY <1>16
  <2>6. \A k \in D \ {m} : v[k] = w[k]
    BY <1>16
  <2>7. /\ SumFunctionOnSet(v, D \cup {m}) \in Nat
        /\ SumFunctionOnSet(v, D \cup {m}) + (IF m \in D THEN w[m] ELSE 0)
             = SumFunctionOnSet(w, D) + v[m]
    BY <1>10, <2>1, <2>2, <2>6, SumChanged
  <2>3. /\ SumFunctionOnSet(v, D \cup {m}) \in Nat
        /\ SumFunctionOnSet(v, D \cup {m}) + w0 = SumFunctionOnSet(w, D) + v[m]
    BY <2>7 DEF w0
  <2> DEFINE a == SumFunctionOnSet(v, D \cup {m})
             b == SumFunctionOnSet(w, D)
  <2>4. a \in Nat /\ b \in Nat /\ a + w0 = b + (w0 + cost)
    BY <1>12, <1>16, <2>3
  <2> HIDE DEF a, b
  <2>5. a = b + cost
    BY <1>13, <1>14, <2>4
  <2>8. QED
    BY <2>5 DEF a, b
<1>19. cash' * K + SumFunctionOnSet(v, D \cup {m}) = (StartingCash - FeesPaid') * K + r
  <2> DEFINE b == SumFunctionOnSet(w, D)
             f == FeesPaid
             e == fill.fee
             c == cash
             S == StartingCash
             y == p * s
  <2>1. /\ b \in Int /\ f \in Int /\ e \in Int /\ c \in Int /\ S \in Int /\ y \in Int
        /\ c * K + b = (S - f) * K + r
    BY <1>1, <1>7, <1>10, <1>12, <1>14, PaperAssumption
  <2>2. cash' = c - (y + e) /\ FeesPaid' = f + e /\ cost = y * K
    BY <1>2, <1>7 DEF cost
  <2> HIDE DEF b, f, e, c, S, y
  <2>3. (c - (y + e)) * K + (b + y * K) = (S - (f + e)) * K + r
    BY <2>1
  <2>4. QED
    BY <1>18, <2>2, <2>3 DEF b, S
<1>20. Balanced(cash', positions', FeesPaid', realized_pnl', K, r, v)
  BY <1>2, <1>9, <1>12, <1>17, <1>19 DEF Balanced
<1>21. QED
  BY <1>9, <1>16, <1>20 DEF Balances

\* The balance after s of the contracts entered at a over d leave at p each.
LEMMA BalanceAfter ==
  ASSUME NEW K \in Int, NEW d \in Int, NEW c \in Int, NEW b \in Int, NEW S \in Int, NEW f \in Int,
         NEW r \in Int, NEW p \in Int, NEW s \in Int, NEW a \in Int, NEW e \in Int,
         c * K + b = (S - f) * K + r
  PROVE  (c + p * s - e) * (K * d) + (b * d - (a * K) * s)
           = (S - (f + e)) * (K * d) + (r * d + (p * (K * d) - a * K) * s)
<1>1. (c * K + b) * d = ((S - f) * K + r) * d
  OBVIOUS
<1>2. (c + p * s - e) * (K * d) + (b * d - (a * K) * s)
        = (c * K + b) * d + ((p * s) * (K * d) - e * (K * d) - (a * K) * s)
  OBVIOUS
<1>3. (S - (f + e)) * (K * d) + (r * d + (p * (K * d) - a * K) * s)
        = ((S - f) * K + r) * d + ((p * s) * (K * d) - e * (K * d) - (a * K) * s)
  OBVIOUS
<1>4. QED
  BY <1>1, <1>2, <1>3

LEMMA SellKeepsLedger ==
  ASSUME PaperType, Covered, Ledger, NEW order \in Order, NEW book \in Book, Sell(order, book)
  PROVE  Ledger'
<1> SUFFICES ASSUME ~oversold' PROVE Balances(cash', positions', FeesPaid', realized_pnl')
  BY DEF Ledger
<1> DEFINE fill == FillOf(order, book)
           m == order.market_id
           pos == Position(m)
           new == [pos EXCEPT !.quantity = @ - fill.size]
           x == pos.avg_price
           q == pos.quantity
           p == fill.price
           s == fill.size
           a == x[1]
           d == x[2]
           D == DOMAIN positions
<1>1. fill \in Fill /\ p \in Nat /\ s \in Nat \ {0} /\ fill.fee \in Nat
  BY FillType DEF Sell
<1>2. /\ ~oversold /\ ~(s > q) /\ positions' = WithPosition(m, new)
      /\ cash' = cash + p * s - fill.fee
      /\ fills' = Append(fills, fill)
      /\ realized_pnl' = Plus(realized_pnl, Multiple(Plus(Whole(p), Multiple(x, -1)), s))
  BY DEF Sell
<1>3. pos \in Held /\ x \in Fraction /\ q \in Nat /\ Fair(x)
  BY <1>2, PositionType, PositionCovered
<1>4. m \in D
  <2>1. q # 0
    BY <1>1, <1>2, <1>3
  <2>2. QED
    BY <2>1, PositionType
<1>5. positions[m].avg_price = x /\ positions[m].quantity = q
  BY <1>4 DEF Position
<1>6. a \in Nat /\ d \in Nat \ {0}
  BY <1>3 DEF Fair, Fraction
<1>7. FeesPaid \in Nat /\ FeesPaid' = FeesPaid + fill.fee
  BY <1>1, <1>2, FeesAdd
<1>8. new \in Held /\ new.avg_price = x /\ new.quantity = q - s /\ q - s \in Nat
  <2>1. q - s \in Nat
    BY <1>1, <1>2, <1>3
  <2>2. QED
    BY <1>3, <2>1 DEF Held
<1> HIDE DEF new, x, q, p, s, pos, m, a, d
<1>9. /\ DOMAIN positions' = D /\ positions'[m] = new
      /\ \A k \in D \ {m} : positions'[k] = positions[k] /\ positions[k] \in Held
  <2>1. /\ DOMAIN positions' = D \cup {m} /\ positions'[m] = new
        /\ \A k \in D \ {m} : positions'[k] = positions[k]
    <3> DEFINE wide == WithPosition(m, new)
    <3>1. /\ DOMAIN wide = D \cup {m} /\ wide[m] = new
          /\ \A k \in D \ {m} : wide[k] = positions[k]
      BY <1>8, WithPositionType
    <3>2. positions' = wide
      BY <1>2
    <3> HIDE DEF wide
    <3>3. QED
      BY <3>1, <3>2
  <2>2. QED
    BY <1>4, <2>1 DEF PaperType
<1>10. IsFiniteSet(D) /\ cash \in Int /\ realized_pnl \in Fraction
  BY DEF PaperType
<1>11. PICK K \in Nat \ {0}, r \in Int : \E w \in [D -> Nat] :
         /\ \A k \in D : Stands(Multiple(positions[k].avg_price, positions[k].quantity), w[k], K)
         /\ Stands(realized_pnl, r, K)
         /\ cash * K + SumFunctionOnSet(w, D) = (StartingCash - FeesPaid) * K + r
         /\ SumFunctionOnSet(w, D) \in Nat
  BY <1>2, LedgerUnfolds DEF Ledger
<1>12. PICK w \in [D -> Nat] :
         /\ \A k \in D : Stands(Multiple(positions[k].avg_price, positions[k].quantity), w[k], K)
         /\ Stands(realized_pnl, r, K)
         /\ cash * K + SumFunctionOnSet(w, D) = (StartingCash - FeesPaid) * K + r
         /\ SumFunctionOnSet(w, D) \in Nat
  BY <1>11
<1> DEFINE J == K * d
           A == a * K
           u == [k \in D |-> w[k] * d]
           v == [k \in D |-> IF k = m THEN A * (q - s) ELSE w[k] * d]
           r1 == r * d + (p * J - A) * s
<1>13. J \in Nat \ {0} /\ A \in Nat /\ Stands(x, A, J)
  <2>1. J \in Nat \ {0} /\ A \in Nat
    BY <1>6
  <2>2. QED
    BY <1>3, <2>1, StandsItself DEF a, d
<1>14. Stands(realized_pnl', r1, J) /\ r1 \in Int
  <2>1. Stands(realized_pnl', r1, J)
    <3>1. p \in Int /\ s \in Int
      BY <1>1
    <3>2. Stands(Plus(realized_pnl, Multiple(Plus(Whole(p), Multiple(x, -1)), s)),
                 r * x[2] + (p * (K * x[2]) - x[1] * K) * s, K * x[2])
      BY <1>3, <1>10, <1>12, <3>1, GainStands
    <3>3. QED
      BY <1>2, <3>2 DEF a, d
  <2> HIDE DEF J, A
  <2>2. r * d \in Int /\ p * J - A \in Int
    BY <1>1, <1>6, <1>13
  <2>3. r1 \in Int
    <3> DEFINE y == p * J - A
    <3> HIDE DEF y
    <3>1. y * s \in Int
      BY <1>1, <2>2 DEF y
    <3>2. QED
      BY <2>2, <3>1 DEF y
  <2>4. QED
    BY <2>1, <2>3
<1>15. \A k \in D : w[k] \in Nat /\ w[k] * d \in Nat
  BY <1>6
<1>16. w[m] * d = A * q
  <2>1. Stands(Multiple(x, q), w[m], K) /\ w[m] \in Int /\ q \in Int
    BY <1>3, <1>4, <1>5, <1>12
  <2>2. QED
    BY <1>3, <2>1, HoldingScaled DEF a, d
<1>17. A * (q - s) \in Nat /\ A * s \in Nat /\ A * q = A * (q - s) + A * s
  <2> HIDE DEF A
  <2>1. A * (q - s) \in Nat /\ A * s \in Nat
    <3> DEFINE y == q - s
    <3> HIDE DEF y
    <3>1. A * y \in Nat
      BY <1>8, <1>13 DEF y
    <3>2. A * s \in Nat
      BY <1>1, <1>13
    <3>3. QED
      BY <3>1, <3>2 DEF y
  <2>2. A * q = A * (q - s) + A * s
    BY <1>1, <1>3, <1>13
  <2>3. QED
    BY <2>1, <2>2
<1>18. v \in [D -> Nat] /\ v[m] = A * (q - s) /\ \A k \in D \ {m} : v[k] = w[k] * d
  <2> HIDE DEF A, D
  <2>1. QED
    BY <1>4, <1>15, <1>17
<1>19. \A k \in D : Stands(Multiple(positions'[k].avg_price, positions'[k].quantity), v[k], J)
  <2> SUFFICES ASSUME NEW k \in D
               PROVE  Stands(Multiple(positions'[k].avg_price, positions'[k].quantity), v[k], J)
    OBVIOUS
  <2> HIDE DEF v, u, A, r1
  <2>1. CASE k = m
    <3>1. q - s \in Int /\ A \in Int
      BY <1>8, <1>13
    <3> DEFINE y == q - s
    <3>2. Stands(Multiple(x, y), A * y, J)
      <4> HIDE DEF J, y
      <4>1. QED
        BY <1>3, <1>13, <3>1, MultipleStands DEF y
    <3>3. QED
      BY <1>8, <1>9, <1>18, <2>1, <3>2
  <2>2. CASE k # m
    <3>1. positions'[k] = positions[k] /\ positions[k] \in Held /\ v[k] = w[k] * d
      BY <1>9, <1>18, <2>2
    <3> DEFINE z == Multiple(positions[k].avg_price, positions[k].quantity)
    <3>2. z \in Fraction /\ Stands(z, w[k], K) /\ w[k] \in Int
      BY <1>12, <3>1, MultipleIsFraction DEF Held
    <3>3. Stands(z, w[k] * d, K * d)
      <4> HIDE DEF z
      <4>1. QED
        BY <1>6, <3>2, Rescaled
    <3>4. QED
      BY <3>1, <3>3
  <2>3. QED
    BY <2>1, <2>2
<1>20. SumFunctionOnSet(v, D) = SumFunctionOnSet(w, D) * d - A * s
  <2> HIDE DEF A, D
  <2>1. u[m] = A * q /\ \A k \in D : u[k] = w[k] * d /\ u[k] \in Nat
    BY <1>4, <1>15, <1>16
  <2>2. d \in Nat /\ \A k \in D : w[k] \in Nat
    BY <1>6
  <2>3. v[m] \in Nat /\ \A k \in D \ {m} : v[k] = u[k]
    BY <1>17, <1>18, <2>1
  <2> HIDE DEF u, v
  <2>4. SumFunctionOnSet(u, D) = SumFunctionOnSet(w, D) * d
    BY <1>10, <2>1, <2>2, SumScaled
  <2>10. \A k \in D : u[k] \in Nat
    BY <2>1
  <2>11. v[m] \in Nat
    BY <2>3
  <2>12. \A k \in D \ {m} : v[k] = u[k]
    BY <2>3
  <2>5. /\ SumFunctionOnSet(u, D) \in Nat /\ SumFunctionOnSet(v, D \cup {m}) \in Nat
        /\ SumFunctionOnSet(v, D \cup {m}) + (IF m \in D THEN u[m] ELSE 0)
             = SumFunctionOnSet(u, D) + v[m]
    BY <1>10, <2>10, <2>11, <2>12, SumChanged
  <2>6. D \cup {m} = D
    BY <1>4
  <2> DEFINE b1 == SumFunctionOnSet(v, D)
             b == SumFunctionOnSet(u, D)
             g == A * q
             h == A * (q - s)
             t == A * s
  <2>7. b1 \in Nat /\ b \in Nat /\ b1 + g = b + h /\ g = h + t /\ h \in Nat /\ t \in Nat
    BY <1>4, <1>17, <1>18, <2>1, <2>5, <2>6
  <2> HIDE DEF b1, b, g, h, t
  <2>8. b1 = b - t
    BY <2>7
  <2>9. QED
    BY <2>4, <2>8 DEF b1, b, t
<1>21. cash' * J + SumFunctionOnSet(v, D) = (StartingCash - FeesPaid') * J + r1
  <2> DEFINE b == SumFunctionOnSet(w, D)
             f == FeesPaid
             e == fill.fee
             c == cash
             S == StartingCash
  <2>1. /\ b \in Int /\ f \in Int /\ e \in Int /\ c \in Int /\ S \in Int
        /\ c * K + b = (S - f) * K + r
    BY <1>1, <1>7, <1>10, <1>12, PaperAssumption
  <2>2. p \in Int /\ s \in Int /\ a \in Int /\ d \in Int /\ K \in Int
    BY <1>1, <1>6
  <2>3. cash' = c + p * s - e /\ FeesPaid' = f + e
        /\ SumFunctionOnSet(v, D) = b * d - (a * K) * s
    BY <1>2, <1>7, <1>20
  <2> HIDE DEF b, f, e, c, S, v, D
  <2>4. (c + p * s - e) * (K * d) + (b * d - (a * K) * s)
          = (S - (f + e)) * (K * d) + (r * d + (p * (K * d) - a * K) * s)
    BY <2>1, <2>2, BalanceAfter
  <2>5. QED
    BY <2>3, <2>4 DEF S
<1> HIDE DEF J, A, u, v, r1, D
<1>22. Balanced(cash', positions', FeesPaid', realized_pnl', J, r1, v)
  BY <1>9, <1>14, <1>19, <1>21 DEF Balanced
<1>23. QED
  BY <1>9, <1>13, <1>14, <1>18, <1>22 DEF Balances

LEMMA SettleKeepsLedger ==
  ASSUME PaperType, Ledger, NEW m, NEW outcome \in {0, Payout}, Settle(m, outcome)
  PROVE  Ledger'
<1> SUFFICES ASSUME ~oversold' PROVE Balances(cash', positions', FeesPaid', realized_pnl')
  BY DEF Ledger
<1> DEFINE pos == Position(m)
           x == pos.avg_price
           q == pos.quantity
           a == x[1]
           d == x[2]
           D == DOMAIN positions
           E == D \ {m}
           o == outcome
<1>1. o \in Int
  BY PaperAssumption
<1>2. /\ ~oversold /\ m \in D /\ positions' = Restrict(positions, E)
      /\ cash' = cash + o * q /\ fills' = fills
      /\ realized_pnl' = Plus(realized_pnl, Multiple(Plus(Whole(o), Multiple(x, -1)), q))
  BY DEF Settle
<1>3. pos \in Held /\ x \in Fraction /\ q \in Int
  BY PositionType
<1>4. positions[m].avg_price = x /\ positions[m].quantity = q
  BY <1>2 DEF Position
<1>5. a \in Int /\ d \in Nat \ {0}
  BY <1>3 DEF Fraction
<1>6. FeesPaid \in Nat /\ FeesPaid' = FeesPaid
  <2>1. FeesPaid' = FeesPaid
    BY <1>2 DEF FeesPaid
  <2>2. QED
    BY <2>1, FeesAdd
<1>7. /\ DOMAIN positions' = E
      /\ \A k \in E : positions'[k] = positions[k] /\ positions[k] \in Held
  <2>1. DOMAIN positions' = E /\ \A k \in E : positions'[k] = positions[k]
    BY <1>2, RestType
  <2>2. QED
    BY <2>1 DEF PaperType
<1> HIDE DEF x, q, pos, a, d, o
<1>8. IsFiniteSet(D) /\ IsFiniteSet(E) /\ cash \in Int /\ realized_pnl \in Fraction
  <2>1. IsFiniteSet(D)
    BY DEF PaperType
  <2>2. QED
    BY <2>1, FS_Subset DEF PaperType
<1>9. PICK K \in Nat \ {0}, r \in Int : \E w \in [D -> Nat] :
         /\ \A k \in D : Stands(Multiple(positions[k].avg_price, positions[k].quantity), w[k], K)
         /\ Stands(realized_pnl, r, K)
         /\ cash * K + SumFunctionOnSet(w, D) = (StartingCash - FeesPaid) * K + r
         /\ SumFunctionOnSet(w, D) \in Nat
  BY <1>2, LedgerUnfolds DEF Ledger
<1>10. PICK w \in [D -> Nat] :
         /\ \A k \in D : Stands(Multiple(positions[k].avg_price, positions[k].quantity), w[k], K)
         /\ Stands(realized_pnl, r, K)
         /\ cash * K + SumFunctionOnSet(w, D) = (StartingCash - FeesPaid) * K + r
         /\ SumFunctionOnSet(w, D) \in Nat
  BY <1>9
<1> DEFINE J == K * d
           A == a * K
           v == [k \in E |-> w[k] * d]
           r1 == r * d + (o * J - A) * q
<1>11. J \in Nat \ {0} /\ A \in Int
  BY <1>5
<1>12. Stands(realized_pnl', r1, J) /\ r1 \in Int
  <2>1. Stands(realized_pnl', r1, J)
    <3>1. Stands(Plus(realized_pnl, Multiple(Plus(Whole(o), Multiple(x, -1)), q)),
                 r * x[2] + (o * (K * x[2]) - x[1] * K) * q, K * x[2])
      BY <1>1, <1>3, <1>8, <1>10, GainStands
    <3>2. QED
      BY <1>2, <3>1 DEF a, d
  <2> HIDE DEF J, A
  <2>2. r * d \in Int /\ o * J - A \in Int
    BY <1>1, <1>5, <1>11
  <2>3. r1 \in Int
    <3> DEFINE y == o * J - A
    <3> HIDE DEF y
    <3>1. y * q \in Int
      BY <1>3, <2>2 DEF y
    <3>2. QED
      BY <2>2, <3>1 DEF y
  <2>4. QED
    BY <2>1, <2>3
<1>13. \A k \in E : w[k] \in Nat /\ w[k] * d \in Nat
  BY <1>5
<1>14. w[m] * d = A * q
  <2>1. Stands(Multiple(x, q), w[m], K) /\ w[m] \in Int
    BY <1>2, <1>4, <1>10
  <2>2. QED
    BY <1>3, <2>1, HoldingScaled DEF a, d
<1>15. v \in [E -> Nat] /\ \A k \in E : v[k] = w[k] * d
  <2> HIDE DEF E
  <2>1. QED
    BY <1>13
<1>16. \A k \in E : Stands(Multiple(positions'[k].avg_price, positions'[k].quantity), v[k], J)
  <2> SUFFICES ASSUME NEW k \in E
               PROVE  Stands(Multiple(positions'[k].avg_price, positions'[k].quantity), v[k], J)
    OBVIOUS
  <2> HIDE DEF v, A, r1
  <2>1. positions'[k] = positions[k] /\ positions[k] \in Held /\ v[k] = w[k] * d
    BY <1>7, <1>15
  <2> DEFINE z == Multiple(positions[k].avg_price, positions[k].quantity)
  <2>2. z \in Fraction /\ Stands(z, w[k], K) /\ w[k] \in Int
    BY <1>10, <2>1, MultipleIsFraction DEF Held
  <2>3. Stands(z, w[k] * d, K * d)
    <3> HIDE DEF z
    <3>1. QED
      BY <1>5, <2>2, Rescaled
  <2>4. QED
    BY <2>1, <2>3
<1>17. SumFunctionOnSet(v, E) = SumFunctionOnSet(w, D) * d - A * q
  <2>1. \A k \in D : w[k] \in Nat
    OBVIOUS
  <2>2. /\ SumFunctionOnSet(w, E) \in Nat
        /\ SumFunctionOnSet(w, D) = SumFunctionOnSet(w, E) + w[m]
    BY <1>2, <1>8, <2>1, SumOfRest
  <2>3. \A k \in E : w[k] \in Nat
    BY <1>13
  <2>4. \A k \in E : v[k] = w[k] * d
    BY <1>15
  <2> HIDE DEF v, E
  <2>5. d \in Nat
    BY <1>5
  <2>6. SumFunctionOnSet(v, E) = SumFunctionOnSet(w, E) * d
    BY <1>8, <2>3, <2>4, <2>5, SumScaled
  <2>8. w[m] \in Nat
    BY <1>2, <2>1
  <2> DEFINE b1 == SumFunctionOnSet(w, E)
             y == w[m]
  <2>7. b1 \in Nat /\ y \in Nat /\ y * d = A * q /\ SumFunctionOnSet(w, D) = b1 + y
    BY <1>14, <2>2, <2>8
  <2> HIDE DEF b1, y, A
  <2>9. (b1 + y) * d - y * d = b1 * d
    BY <2>5, <2>7
  <2>10. QED
    BY <2>6, <2>7, <2>9 DEF b1
<1>18. cash' * J + SumFunctionOnSet(v, E) = (StartingCash - FeesPaid') * J + r1
  <2> DEFINE b == SumFunctionOnSet(w, D)
             f == FeesPaid
             c == cash
             S == StartingCash
             e == 0
  <2>1. /\ b \in Int /\ f \in Int /\ e \in Int /\ c \in Int /\ S \in Int
        /\ c * K + b = (S - f) * K + r
    BY <1>6, <1>8, <1>10, PaperAssumption
  <2>2. o \in Int /\ q \in Int /\ a \in Int /\ d \in Int /\ K \in Int
    BY <1>1, <1>3, <1>5
  <2>3. SumFunctionOnSet(v, E) = b * d - (a * K) * q
    BY <1>17
  <2>4. o * q \in Int
    BY <2>2
  <2>5. cash' = c + o * q - e /\ FeesPaid' = f + e
    <3> DEFINE y == o * q
    <3>1. y \in Int /\ cash' = c + y /\ FeesPaid' = f
      BY <1>2, <1>6, <2>4
    <3> HIDE DEF y, c, f
    <3>2. cash' = c + y - e /\ FeesPaid' = f + e
      BY <2>1, <3>1
    <3>3. QED
      BY <3>2 DEF y
  <2> HIDE DEF b, f, e, c, S, v, E
  <2>6. (c + o * q - e) * (K * d) + (b * d - (a * K) * q)
          = (S - (f + e)) * (K * d) + (r * d + (o * (K * d) - a * K) * q)
    BY <2>1, <2>2, BalanceAfter
  <2>7. QED
    BY <2>3, <2>5, <2>6 DEF S
<1> HIDE DEF J, A, v, r1, E
<1>19. Balanced(cash', positions', FeesPaid', realized_pnl', J, r1, v)
  BY <1>7, <1>12, <1>16, <1>18 DEF Balanced
<1>20. QED
  BY <1>7, <1>11, <1>12, <1>15, <1>19 DEF Balances

LEMMA LedgerHolds == PaperSpec => []Ledger
<1>1. PaperInit => Ledger
  <2> SUFFICES ASSUME PaperInit PROVE Ledger
    OBVIOUS
  <2> DEFINE w == [m \in {} |-> 0]
  <2>1. DOMAIN positions = {} /\ fills = <<>> /\ realized_pnl = Whole(0) /\ cash = StartingCash
    BY DEF PaperInit
  <2>2. FeesPaid = 0
    <3> DEFINE F == [i \in DOMAIN fills |-> fills[i].fee]
    <3>1. DOMAIN F = {}
      BY <2>1
    <3>2. FeesPaid = SumFunctionOnSet(F, {})
      BY <3>1 DEF FeesPaid, SumFunction
    <3> HIDE DEF F
    <3>3. QED
      BY <3>2, EmptySum
  <2>3. SumFunctionOnSet(w, {}) = 0
    BY EmptySum
  <2>4. Stands(Whole(0), 0, 1)
    BY DEF Whole, Stands
  <2>5. w \in [{} -> Nat]
    OBVIOUS
  <2> HIDE DEF w
  <2>6. cash * 1 + SumFunctionOnSet(w, DOMAIN positions) = (StartingCash - FeesPaid) * 1 + 0
    BY <2>1, <2>2, <2>3, PaperAssumption
  <2>7. Balanced(cash, positions, FeesPaid, realized_pnl, 1, 0, w)
    BY <2>1, <2>4, <2>6 DEF Balanced
  <2>8. 1 \in Nat \ {0} /\ 0 \in Int /\ w \in [DOMAIN positions -> Nat]
    BY <2>1, <2>5
  <2>9. Balances(cash, positions, FeesPaid, realized_pnl)
    BY <2>7, <2>8 DEF Balances
  <2>10. QED
    BY <2>9 DEF Ledger
<1>2. PaperType /\ Covered /\ Ledger /\ [PaperNext]_paperVars => Ledger'
  <2> SUFFICES ASSUME PaperType, Covered, Ledger, [PaperNext]_paperVars PROVE Ledger'
    OBVIOUS
  <2>1. ASSUME UNCHANGED paperVars PROVE Ledger'
    <3>1. /\ oversold' = oversold /\ cash' = cash /\ positions' = positions
          /\ realized_pnl' = realized_pnl /\ fills' = fills
      BY <2>1 DEF paperVars
    <3>2. FeesPaid' = FeesPaid
      BY <3>1 DEF FeesPaid
    <3>3. QED
      BY <3>1, <3>2 DEF Ledger
  <2>2. ASSUME NEW order \in Order, NEW book \in Book, Buy(order, book)
        PROVE  Ledger'
    BY <2>2, BuyKeepsLedger
  <2>3. ASSUME NEW order \in Order, NEW book \in Book, Sell(order, book)
        PROVE  Ledger'
    BY <2>3, SellKeepsLedger
  <2>4. ASSUME NEW m \in Market, NEW outcome \in {0, Payout}, Settle(m, outcome)
        PROVE  Ledger'
    BY <2>4, SettleKeepsLedger
  <2>5. QED
    BY <2>1, <2>2, <2>3, <2>4, PaperSteps
<1>3. QED
  BY <1>1, <1>2, PaperTypeHolds, CoveredHolds, PTL DEF PaperSpec

\* However buys, partial sales, re-entries and settlements of several markets
\* interleave, portfolio_value without marks (cash, and each open position at
\* its entry) is the stake less the fees of every fill plus the profit realised,
\* to the last fraction of a tick, unless more was sold than was held.
THEOREM PaperBooksReconcile == PaperSpec => []BooksReconcile
<1>1. PaperType /\ Ledger => BooksReconcile
  <2> SUFFICES ASSUME PaperType, Ledger, ~oversold
               PROVE  Same(PortfolioValue(<<>>), Plus(Whole(StartingCash - FeesPaid), realized_pnl))
    BY DEF BooksReconcile
  <2> DEFINE D == DOMAIN positions
             F == [m \in D |-> Multiple(positions[m].avg_price, positions[m].quantity)]
             base == Whole(cash)
             left == StartingCash - FeesPaid
  <2>1. PICK K \in Nat \ {0}, r \in Int : \E w \in [D -> Nat] :
          /\ \A k \in D : Stands(Multiple(positions[k].avg_price, positions[k].quantity), w[k], K)
          /\ Stands(realized_pnl, r, K)
          /\ cash * K + SumFunctionOnSet(w, D) = (StartingCash - FeesPaid) * K + r
          /\ SumFunctionOnSet(w, D) \in Nat
    BY LedgerUnfolds DEF Ledger
  <2>2. PICK w \in [D -> Nat] :
          /\ \A k \in D : Stands(Multiple(positions[k].avg_price, positions[k].quantity), w[k], K)
          /\ Stands(realized_pnl, r, K)
          /\ cash * K + SumFunctionOnSet(w, D) = (StartingCash - FeesPaid) * K + r
          /\ SumFunctionOnSet(w, D) \in Nat
    BY <2>1
  <2>3. PortfolioValue(<<>>) = FoldFunction(Plus, base, F)
    <3>1. DOMAIN <<>> = {}
      OBVIOUS
    <3>2. \A m \in D : (IF m \in DOMAIN <<>> THEN <<>>[m] ELSE positions[m].avg_price)
                         = positions[m].avg_price
      BY <3>1
    <3>3. QED
      BY <3>2 DEF PortfolioValue
  <2>4. \A k \in D : F[k] \in Fraction /\ w[k] \in Nat /\ Stands(F[k], w[k], K)
    <3> SUFFICES ASSUME NEW k \in D
                 PROVE  F[k] \in Fraction /\ w[k] \in Nat /\ Stands(F[k], w[k], K)
      OBVIOUS
    <3>1. positions[k].avg_price \in Fraction /\ positions[k].quantity \in Int
      BY DEF PaperType, Held
    <3>2. QED
      BY <2>2, <3>1, MultipleIsFraction
  <2>5. /\ IsFiniteSet(D) /\ DOMAIN F = D /\ cash \in Int /\ left \in Int
        /\ realized_pnl \in Fraction
    BY PaperAssumption, FeesAdd DEF PaperType
  <2> HIDE DEF D, F, base, left
  <2>6. base \in Fraction /\ Stands(base, cash * K, K) /\ cash * K \in Int
    <3>1. cash * K \in Int
      BY <2>5
    <3>2. QED
      BY <2>5, <3>1, WholeStands DEF base
  <2> DEFINE b == cash * K
             t == SumFunctionOnSet(w, D)
             l == left * K
  <2> HIDE DEF b
  <2>7. /\ FoldFunction(Plus, base, F) \in Fraction
        /\ Stands(FoldFunction(Plus, base, F), b + t, K)
    <3>1. base \in Fraction /\ Stands(base, b, K) /\ b \in Int
      BY <2>6 DEF b
    <3>2. QED
      BY <2>4, <2>5, <3>1, FoldStands
  <2>8. Whole(left) \in Fraction /\ Stands(Whole(left), l, K) /\ l \in Int
    <3>1. l \in Int
      BY <2>5
    <3>2. QED
      BY <2>5, <3>1, WholeStands
  <2>9. b + t = l + r /\ l + r \in Int
    BY <2>2, <2>8 DEF b, left
  <2> HIDE DEF t, l
  <2>10. /\ Plus(Whole(left), realized_pnl) \in Fraction
         /\ Stands(Plus(Whole(left), realized_pnl), l + r, K)
    BY <2>2, <2>5, <2>8, PlusStands
  <2>11. Same(FoldFunction(Plus, base, F), Plus(Whole(left), realized_pnl))
    <3> DEFINE n == l + r
               y == FoldFunction(Plus, base, F)
               z == Plus(Whole(left), realized_pnl)
    <3>1. n \in Int /\ y \in Fraction /\ z \in Fraction /\ Stands(y, n, K) /\ Stands(z, n, K)
      BY <2>7, <2>9, <2>10
    <3> HIDE DEF n, y, z
    <3>2. Same(y, z)
      BY <3>1, StandAlike
    <3>3. QED
      BY <3>2 DEF y, z
  <2>12. QED
    BY <2>3, <2>11 DEF left
<1>2. QED
  BY <1>1, LedgerHolds, PaperTypeHolds, PTL
=============================================================================
