-------------------------- MODULE AllocatorProofs ---------------------------
(***************************************************************************)
(* The allocator's limits for every bankroll, every set of caps and every  *)
(* list of opportunities.  Products of two variables are never left to the *)
(* provers except as terms: each step names the one fact it needs.         *)
(***************************************************************************)
EXTENDS Allocator, SortAndSumProofs

LEMMA CandidateFields ==
  ASSUME NEW o \in Candidate
  PROVE  /\ o.effective_ask \in Nat /\ o.effective_ask <= Payout
         /\ o.probability \in Nat /\ o.probability <= Payout
         /\ o.liquidity \in Nat
         /\ DriverKey(o) \in Key
<1>1. o \in Opportunity /\ Payout \in Nat
  BY AllocatorAssumption
<1>2. QED
  BY <1>1 DEF Opportunity, DriverKey, Key

LEMMA CostType ==
  ASSUME NEW o \in Candidate, NEW n \in Nat
  PROVE  /\ Cost(o, n) \in Nat
         /\ Cost(o, n + 1) = Cost(o, n) + o.effective_ask
<1>1. o.effective_ask \in Nat
  BY CandidateFields
<1>2. \A a \in Nat : n * a \in Nat /\ (n + 1) * a = n * a + a
  OBVIOUS
<1>3. QED
  BY <1>1, <1>2 DEF Cost

\* A step passes an opportunity over, takes it, or does nothing.
LEMMA StepCases ==
  ASSUME [Next]_vars
  PROVE  \/ \E o \in Candidate : PassOver(o)
         \/ \E o \in Candidate : \E n \in Nat \ {0} : Take(o, n)
         \/ UNCHANGED vars
<1>1. \A o \in Candidate : 1..o.liquidity \subseteq Nat \ {0}
  BY CandidateFields
<1>2. QED
  BY <1>1 DEF Next

\* What a Take adds to the books.
Taken(o, n) ==
  /\ Cost(o, n) \in Nat
  /\ DriverKey(o) \in Key
  /\ positions' \in Seq(Position)
  /\ Len(positions') = Len(positions) + 1
  /\ positions'[Len(positions) + 1] = [opp |-> o, contracts |-> n]
  /\ \A i \in 1..Len(positions) : positions'[i] = positions[i]
  /\ total_stake' = total_stake + Cost(o, n)
  /\ driver_used' \in [Key -> Nat]
  /\ \A k \in Key : driver_used'[k] = IF k = DriverKey(o)
                                      THEN driver_used[k] + Cost(o, n)
                                      ELSE driver_used[k]

LEMMA TakeFacts ==
  ASSUME TypeOK, NEW o \in Candidate, NEW n \in Nat \ {0}, Take(o, n)
  PROVE  Taken(o, n)
<1>1. DriverKey(o) \in Key
  BY CandidateFields
<1>2. Cost(o, n) \in Nat
  BY <1>1, CostType
<1>3. [opp |-> o, contracts |-> n] \in Position
  BY <1>1 DEF Position
<1>4. positions \in Seq(Position) /\ driver_used \in [Key -> Nat]
  BY DEF TypeOK
<1>5. positions' = Append(positions, [opp |-> o, contracts |-> n])
  BY DEF Take
<1>6. /\ positions' \in Seq(Position)
      /\ Len(positions') = Len(positions) + 1
      /\ positions'[Len(positions) + 1] = [opp |-> o, contracts |-> n]
      /\ \A i \in 1..Len(positions) : positions'[i] = positions[i]
  BY <1>3, <1>4, <1>5
<1>7. /\ driver_used' \in [Key -> Nat]
      /\ \A k \in Key : driver_used'[k] = IF k = DriverKey(o)
                                          THEN driver_used[k] + Cost(o, n)
                                          ELSE driver_used[k]
  <2>1. driver_used' = [driver_used EXCEPT ![DriverKey(o)]
                          = driver_used[DriverKey(o)] + Cost(o, n)]
    BY DEF Take
  <2>2. driver_used[DriverKey(o)] + Cost(o, n) \in Nat
    BY <1>1, <1>2, <1>4
  <2>3. QED
    BY <1>1, <1>4, <2>1, <2>2
<1>8. QED
  BY <1>1, <1>2, <1>6, <1>7 DEF Take, Taken

\* Every decision keeps the types.
LEMMA TypeStep ==
  ASSUME TypeOK, [Next]_vars
  PROVE  TypeOK'
<1>1. ASSUME NEW o \in Candidate, PassOver(o)
      PROVE  TypeOK'
  BY <1>1 DEF PassOver, TypeOK
<1>2. ASSUME NEW o \in Candidate, NEW n \in Nat \ {0}, Take(o, n)
      PROVE  TypeOK'
  <2>1. Taken(o, n)
    BY <1>2, TakeFacts
  <2>2. ranked' = ranked /\ at' = at + 1 /\ at < Len(ranked)
    BY <1>2 DEF Take
  <2>3. total_stake' \in Nat
    BY <2>1 DEF Taken, TypeOK
  <2>4. QED
    BY <2>1, <2>2, <2>3 DEF Taken, TypeOK
<1>3. CASE UNCHANGED vars
  BY <1>3 DEF vars, TypeOK
<1>4. QED
  BY <1>1, <1>2, <1>3, StepCases

\* Type correctness of the allocator.
THEOREM AllocatorTypeCorrect == Spec => []TypeOK
<1>1. Init => TypeOK
  <2> SUFFICES ASSUME Init PROVE TypeOK
    OBVIOUS
  <2>1. ranked \in Seq(Candidate)
    BY DEF Init
  <2>2. QED
    BY <2>1 DEF Init, TypeOK
<1>2. QED
  BY <1>1, TypeStep, PTL DEF Spec

\* Every decision keeps within the caps.
LEMMA CapsStep ==
  ASSUME TypeOK, CapsHold, [Next]_vars
  PROVE  CapsHold'
<1>1. ASSUME NEW o \in Candidate, PassOver(o)
      PROVE  CapsHold'
  BY <1>1 DEF PassOver, CapsHold
<1>2. ASSUME NEW o \in Candidate, NEW n \in Nat \ {0}, Take(o, n)
      PROVE  CapsHold'
  <2> DEFINE cost == Cost(o, n)
             used == driver_used[DriverKey(o)]
  <2>1. /\ cost <= PerMarketCap /\ cost <= MaxTotal - total_stake
        /\ cost <= DriverCap - used /\ cost <= ClusterCap - used
        /\ n <= o.liquidity
    BY <1>2 DEF Take, Floor, Fits
  <2>2. /\ used \in Nat /\ total_stake \in Nat
        /\ MaxTotal \in Int /\ DriverCap \in Nat /\ ClusterCap \in Nat
        /\ Taken(o, n)
    <3>1. Taken(o, n)
      BY <1>2, TakeFacts
    <3>2. QED
      BY <3>1, AllocatorAssumption DEF TypeOK, Taken
  <2>3. total_stake' <= MaxTotal
    BY <2>1, <2>2 DEF Taken
  <2>4. \A k \in Key : driver_used'[k] <= DriverCap /\ driver_used'[k] <= ClusterCap
    <3> SUFFICES ASSUME NEW k \in Key
                 PROVE  driver_used'[k] <= DriverCap /\ driver_used'[k] <= ClusterCap
      OBVIOUS
    <3>1. driver_used[k] <= DriverCap /\ driver_used[k] <= ClusterCap
      BY DEF CapsHold
    <3>2. driver_used'[k] = IF k = DriverKey(o) THEN driver_used[k] + Cost(o, n)
                            ELSE driver_used[k]
      BY <2>2 DEF Taken
    <3>3. Cost(o, n) \in Nat
      BY <2>2 DEF Taken
    <3>4. CASE k = DriverKey(o)
      BY <2>1, <2>2, <3>2, <3>3, <3>4
    <3>5. CASE k # DriverKey(o)
      BY <3>1, <3>2, <3>5
    <3>6. QED
      BY <3>4, <3>5
  <2>5. ASSUME NEW i \in DOMAIN positions'
        PROVE  /\ Stake(positions'[i]) <= PerMarketCap
               /\ positions'[i].contracts <= positions'[i].opp.liquidity
    <3>1. CASE i = Len(positions) + 1
      BY <2>1, <2>2, <3>1 DEF Taken, Stake
    <3>2. CASE i # Len(positions) + 1
      <4>1. i \in DOMAIN positions /\ positions'[i] = positions[i]
        BY <2>2, <3>2 DEF Taken, TypeOK
      <4>2. QED
        BY <4>1 DEF CapsHold
    <3>3. QED
      BY <3>1, <3>2
  <2>6. QED
    BY <2>3, <2>4, <2>5 DEF CapsHold
<1>3. CASE UNCHANGED vars
  BY <1>3 DEF vars, CapsHold
<1>4. QED
  BY <1>1, <1>2, <1>3, StepCases

\* CapsHold for every set of caps: no order of the opportunities and no
\* sequence of decisions breaks the deployment, driver, cluster or market cap.
THEOREM CapsAlwaysHold == Spec => []CapsHold
<1>1. Init => CapsHold
  BY AllocatorAssumption DEF Init, CapsHold
<1>2. QED
  BY <1>1, CapsStep, AllocatorTypeCorrect, PTL DEF Spec

\* A position within the tolerance's share is within a quarter of full Kelly.
LEMMA ShareIsAtMostAQuarter ==
  ASSUME NEW o \in Candidate, NEW n \in Nat, HasEdge(o), WithinKelly(o, n, KellyShare)
  PROVE  WithinKelly(o, n, 25)
<1> DEFINE d == o.probability - o.effective_ask
           x == Cost(o, n) * (Payout - o.effective_ask) * 100
<1>1. KellyShare \in Nat /\ KellyShare <= 25 /\ Bankroll \in Nat /\ Payout \in Nat
  BY AllocatorAssumption DEF KellyShare
<1>2. d \in Nat /\ Cost(o, n) \in Nat /\ Payout - o.effective_ask \in Nat
  <2>1. /\ o.effective_ask \in Nat /\ o.probability \in Nat
        /\ o.probability > o.effective_ask /\ o.effective_ask <= Payout
    BY CandidateFields DEF HasEdge
  <2>2. QED
    BY <1>1, <2>1, CostType
<1>3. x \in Int
  <2>1. \A a, b \in Nat : a * b * 100 \in Int
    OBVIOUS
  <2>2. QED
    BY <1>2, <2>1
<1>4. x <= d * KellyShare * Bankroll
  BY DEF WithinKelly
<1>5. d * KellyShare * Bankroll <= d * 25 * Bankroll
  <2>1. \A a, b, s \in Nat : s <= 25 => a * s \in Nat /\ a * s <= a * 25
    OBVIOUS
  <2>2. \A a, b, c \in Nat : a <= c => a * b \in Nat /\ c * b \in Nat /\ a * b <= c * b
    OBVIOUS
  <2> HIDE DEF d
  <2>3. d * KellyShare \in Nat /\ d * 25 \in Nat /\ d * KellyShare <= d * 25
    BY <1>1, <1>2, <2>1
  <2>4. QED
    BY <1>1, <2>2, <2>3
<1>6. d * KellyShare * Bankroll \in Int /\ d * 25 * Bankroll \in Int
  <2>1. \A a, b, c \in Nat : a * b * c \in Int
    OBVIOUS
  <2> HIDE DEF d
  <2>2. QED
    BY <1>1, <1>2, <2>1
<1>7. x <= d * 25 * Bankroll
  <2> HIDE DEF x, d
  <2>1. QED
    BY <1>3, <1>4, <1>5, <1>6
<1>8. QED
  BY <1>7 DEF WithinKelly

\* NeverAboveQuarterKelly for every configured fraction: a position is only
\* ever taken with an edge, and never for more than a quarter of full Kelly.
THEOREM QuarterKelly == Spec => []NeverAboveQuarterKelly
<1>1. Init => NeverAboveQuarterKelly
  BY DEF Init, NeverAboveQuarterKelly
<1>2. TypeOK /\ NeverAboveQuarterKelly /\ [Next]_vars => NeverAboveQuarterKelly'
  <2> SUFFICES ASSUME TypeOK, NeverAboveQuarterKelly, [Next]_vars
               PROVE  NeverAboveQuarterKelly'
    OBVIOUS
  <2>1. ASSUME NEW o \in Candidate, PassOver(o)
        PROVE  NeverAboveQuarterKelly'
    BY <2>1 DEF PassOver, NeverAboveQuarterKelly
  <2>2. ASSUME NEW o \in Candidate, NEW n \in Nat \ {0}, Take(o, n)
        PROVE  NeverAboveQuarterKelly'
    <3>1. Taken(o, n)
      BY <2>2, TakeFacts
    <3>2. HasEdge(o) /\ WithinKelly(o, n, KellyShare)
      BY <2>2 DEF Take, Floor, Fits
    <3>3. WithinKelly(o, n, 25)
      BY <3>2, ShareIsAtMostAQuarter
    <3>4. ASSUME NEW i \in DOMAIN positions'
          PROVE  /\ HasEdge(positions'[i].opp)
                 /\ WithinKelly(positions'[i].opp, positions'[i].contracts, 25)
      <4>1. CASE i = Len(positions) + 1
        BY <3>1, <3>2, <3>3, <4>1 DEF Taken
      <4>2. CASE i # Len(positions) + 1
        <5>1. /\ Len(positions) \in Nat /\ DOMAIN positions = 1..Len(positions)
              /\ DOMAIN positions' = 1..(Len(positions) + 1)
              /\ \A j \in 1..Len(positions) : positions'[j] = positions[j]
          BY <3>1 DEF Taken, TypeOK
        <5>2. i \in DOMAIN positions /\ positions'[i] = positions[i]
          BY <4>2, <5>1
        <5>3. QED
          BY <5>2 DEF NeverAboveQuarterKelly
      <4>3. QED
        BY <4>1, <4>2
    <3>5. QED
      BY <3>4 DEF NeverAboveQuarterKelly
  <2>3. CASE UNCHANGED vars
    BY <2>3 DEF vars, NeverAboveQuarterKelly
  <2>4. QED
    BY <2>1, <2>2, <2>3, StepCases
<1>3. QED
  BY <1>1, <1>2, AllocatorTypeCorrect, PTL DEF Spec

-----------------------------------------------------------------------------
(* The books. *)

\* What is booked in total and for each driver key is what the positions stake.
Booked ==
  /\ total_stake = StakedOn(Key)
  /\ \A k \in Key : driver_used[k] = StakedOn({k})

\* Stakes are natural numbers, one for each of finitely many positions.
LEMMA StakesType ==
  ASSUME TypeOK
  PROVE  /\ DOMAIN positions = 1..Len(positions) /\ Len(positions) \in Nat
         /\ IsFiniteSet(DOMAIN positions)
         /\ \A i \in DOMAIN positions : /\ positions[i].opp \in Candidate
                                        /\ positions[i].contracts \in Nat
                                        /\ DriverKey(positions[i].opp) \in Key
                                        /\ Stakes[i] \in Nat
<1>1. DOMAIN positions = 1..Len(positions) /\ Len(positions) \in Nat
  BY DEF TypeOK
<1>2. IsFiniteSet(DOMAIN positions)
  BY <1>1, FS_Interval
<1>3. ASSUME NEW i \in DOMAIN positions
      PROVE  /\ positions[i].opp \in Candidate /\ positions[i].contracts \in Nat
             /\ DriverKey(positions[i].opp) \in Key /\ Stakes[i] \in Nat
  <2>1. positions[i] \in Position
    BY DEF TypeOK
  <2>2. positions[i].opp \in Candidate /\ positions[i].contracts \in Nat
    BY <2>1 DEF Position
  <2>3. Stakes[i] = Cost(positions[i].opp, positions[i].contracts)
    BY DEF Stakes, Stake
  <2>4. QED
    BY <2>2, <2>3, CandidateFields, CostType
<1>4. QED
  BY <1>1, <1>2, <1>3

LEMMA NothingStaked ==
  ASSUME positions = <<>>, NEW keys
  PROVE  StakedOn(keys) = 0
<1>1. {i \in DOMAIN positions : DriverKey(positions[i].opp) \in keys} = {}
  OBVIOUS
<1>2. QED
  BY <1>1, EmptySum DEF StakedOn

\* A position more adds its stake to the keys it is booked under.
LEMMA OneMoreStake ==
  ASSUME TypeOK, TypeOK', NEW o \in Candidate, NEW n \in Nat \ {0}, Taken(o, n), NEW keys
  PROVE  StakedOn(keys)' = IF DriverKey(o) \in keys THEN StakedOn(keys) + Cost(o, n)
                           ELSE StakedOn(keys)
<1> DEFINE new == Len(positions) + 1
           old == {i \in DOMAIN positions : DriverKey(positions[i].opp) \in keys}
           now == {i \in DOMAIN positions' : DriverKey(positions'[i].opp) \in keys}
           f == Stakes
           g == Stakes'
<1>1. /\ DOMAIN positions = 1..Len(positions) /\ Len(positions) \in Nat
      /\ IsFiniteSet(DOMAIN positions) /\ \A i \in DOMAIN positions : Stakes[i] \in Nat
  BY StakesType
<1>2. /\ DOMAIN positions' = 1..new /\ positions'[new] = [opp |-> o, contracts |-> n]
      /\ \A i \in DOMAIN positions : positions'[i] = positions[i]
      /\ Cost(o, n) \in Nat
  BY <1>1 DEF Taken
<1>3. /\ IsFiniteSet(old) /\ new \notin old
      /\ \A i \in old : f[i] \in Nat
  BY <1>1, FS_Subset
<1>4. \A i \in old : f[i] = g[i]
  BY <1>1, <1>2 DEF Stakes
<1>5. g[new] = Cost(o, n)
  <2>1. new \in DOMAIN positions'
    BY <1>1, <1>2
  <2>2. QED
    BY <1>2, <2>1 DEF Stakes, Stake
<1>6. StakedOn(keys) = SumFunctionOnSet(f, old) /\ StakedOn(keys)' = SumFunctionOnSet(g, now)
  BY DEF StakedOn
<1>7. now = IF DriverKey(o) \in keys THEN old \cup {new} ELSE old
  <2>1. \A i : i \in 1..new <=> i \in DOMAIN positions \/ i = new
    BY <1>1
  <2>2. DriverKey(positions'[new].opp) = DriverKey(o)
    BY <1>2
  <2>3. \A i : i \in now <=> i \in old \/ (i = new /\ DriverKey(o) \in keys)
    BY <1>2, <2>1, <2>2
  <2> HIDE DEF now, old, new
  <2>4. CASE DriverKey(o) \in keys
    <3>1. now = old \cup {new}
      BY <2>3, <2>4
    <3>2. QED
      BY <2>4, <3>1
  <2>5. CASE DriverKey(o) \notin keys
    <3>1. now = old
      BY <2>3, <2>5
    <3>2. QED
      BY <2>5, <3>1
  <2>6. QED
    BY <2>4, <2>5
<1> HIDE DEF f, g, old, now, new
<1>8. SumFunctionOnSet(f, old) = SumFunctionOnSet(g, old)
  BY <1>3, <1>4, SumsAgree
<1>9. CASE DriverKey(o) \in keys
  <2>1. \A i \in old \cup {new} : g[i] \in Nat
    BY <1>2, <1>3, <1>4, <1>5
  <2>2. SumFunctionOnSet(g, old \cup {new}) = SumFunctionOnSet(g, old) + g[new]
    BY <1>3, <2>1, SumOfOneMore
  <2>3. QED
    BY <1>5, <1>6, <1>7, <1>8, <1>9, <2>2
<1>10. CASE DriverKey(o) \notin keys
  BY <1>6, <1>7, <1>8, <1>10
<1>11. QED
  BY <1>9, <1>10

\* Positions whose odds are better than their price are expected to pay for
\* their stakes, taken together.
LEMMA ExpectationPaysTheStakes ==
  ASSUME TypeOK, Booked,
         \A i \in DOMAIN positions :
           /\ positions[i].opp.model_probability \in Nat
           /\ positions[i].opp.model_probability >= positions[i].opp.effective_ask
  PROVE  PortfolioRisk.expected_portfolio_value >= Bankroll
<1>1. total_stake \in Nat /\ Bankroll \in Nat
  BY AllocatorAssumption DEF TypeOK
<1>2. CASE positions = <<>>
  BY <1>1, <1>2 DEF PortfolioRisk
<1>3. CASE positions # <<>>
  <2> DEFINE all == DOMAIN positions
             s == Stakes
             g == Payoffs
  <2>1. IsFiniteSet(all) /\ DOMAIN s = all /\ DOMAIN g = all
    BY StakesType DEF Stakes, Payoffs
  <2>2. ASSUME NEW i \in all
        PROVE  s[i] \in Nat /\ g[i] \in Nat /\ s[i] <= g[i]
    <3> DEFINE n == positions[i].contracts
               a == positions[i].opp.effective_ask
               b == positions[i].opp.model_probability
    <3>1. s[i] = n * a /\ g[i] = n * b
      BY DEF Stakes, Stake, Cost, Payoffs
    <3>2. n \in Nat /\ a \in Nat /\ b \in Nat /\ a <= b
      BY StakesType, CandidateFields
    <3>3. \A x, y, z \in Nat : y <= z => x * y \in Nat /\ x * z \in Nat /\ x * y <= x * z
      OBVIOUS
    <3> HIDE DEF n, a, b
    <3>4. QED
      BY <3>1, <3>2, <3>3
  <2>3. PortfolioRisk.expected_portfolio_value = Bankroll - total_stake + SumFunction(g)
    BY <1>3 DEF PortfolioRisk
  <2>4. total_stake = SumFunctionOnSet(s, all)
    <3>1. {i \in DOMAIN positions : DriverKey(positions[i].opp) \in Key} = all
      BY StakesType
    <3>2. QED
      BY <3>1 DEF Booked, StakedOn
  <2>5. SumFunction(g) = SumFunctionOnSet(g, all)
    BY <2>1 DEF SumFunction
  <2> HIDE DEF all, s, g
  <2>6. SumFunctionOnSet(s, all) <= SumFunctionOnSet(g, all)
    BY <2>1, <2>2, SumGrows
  <2>7. SumFunctionOnSet(g, all) \in Nat
    BY <2>1, <2>2, SumIsNatural
  <2>8. QED
    BY <1>1, <2>3, <2>4, <2>5, <2>6, <2>7
<1>4. QED
  BY <1>2, <1>3

LEMMA BookedStep ==
  ASSUME TypeOK, TypeOK', Booked, [Next]_vars
  PROVE  Booked'
<1>1. CASE UNCHANGED <<positions, total_stake, driver_used>>
  BY <1>1 DEF Booked, StakedOn, Stakes
<1>2. ASSUME NEW o \in Candidate, NEW n \in Nat \ {0}, Take(o, n)
      PROVE  Booked'
  <2>1. Taken(o, n)
    BY <1>2, TakeFacts
  <2>2. DriverKey(o) \in Key /\ total_stake' = total_stake + Cost(o, n)
    BY <2>1 DEF Taken
  <2>3. StakedOn(Key)' = StakedOn(Key) + Cost(o, n)
    BY <2>1, <2>2, OneMoreStake
  <2>4. ASSUME NEW k \in Key
        PROVE  driver_used'[k] = StakedOn({k})'
    <3>1. driver_used'[k] = IF k = DriverKey(o) THEN driver_used[k] + Cost(o, n)
                            ELSE driver_used[k]
      BY <2>1 DEF Taken
    <3>2. StakedOn({k})' = IF DriverKey(o) \in {k} THEN StakedOn({k}) + Cost(o, n)
                           ELSE StakedOn({k})
      BY <2>1, OneMoreStake
    <3>3. QED
      BY <3>1, <3>2 DEF Booked
  <2>5. QED
    BY <2>2, <2>3, <2>4 DEF Booked
<1>3. QED
  BY <1>1, <1>2, StepCases DEF PassOver, vars

\* The summary follows from what is booked.
LEMMA BookedBalances ==
  ASSUME TypeOK, Booked
  PROVE  BooksBalance
<1>1. StakedOn(Key) = SumFunction(Stakes)
  <2>1. {i \in DOMAIN positions : DriverKey(positions[i].opp) \in Key} = DOMAIN positions
    BY StakesType
  <2>2. DOMAIN Stakes = DOMAIN positions
    BY DEF Stakes
  <2>3. QED
    BY <2>1, <2>2 DEF StakedOn, SumFunction
<1>2. {driver_used[k] : k \in Key} = {StakedOn({k}) : k \in Key}
  BY DEF Booked
<1>3. total_stake \in Nat /\ Bankroll \in Nat
  BY AllocatorAssumption DEF TypeOK
<1>4. CASE positions = <<>>
  <2>1. /\ PortfolioRisk.total_max_loss = 0 /\ PortfolioRisk.cash_retained = Bankroll
        /\ PortfolioRisk.largest_exposure = 0
    BY <1>4 DEF PortfolioRisk
  <2>2. \A keys : StakedOn(keys) = 0
    BY <1>4, NothingStaked
  <2>3. {StakedOn({k}) : k \in Key} = {0}
    <3>1. \A x : x \in {StakedOn({k}) : k \in Key} <=> \E k \in Key : x = StakedOn({k})
      OBVIOUS
    <3>2. \A k : StakedOn({k}) = 0
      BY <2>2
    <3>3. \E k : k \in Key
      BY DEF Key
    <3>4. \A x : x \in {StakedOn({k}) : k \in Key} <=> x = 0
      BY <3>1, <3>2, <3>3
    <3>5. QED
      BY <3>4
  <2>4. Max({0}) = 0
    <3>1. {0} \in SUBSET Nat /\ {0} # {} /\ \A x \in {0} : 0 >= x
      OBVIOUS
    <3>2. Max({0}) \in {0}
      BY <3>1 DEF Max
    <3>3. QED
      BY <3>2
  <2>5. PortfolioRisk.largest_exposure = Max({StakedOn({k}) : k \in Key})
    BY <2>1, <2>3, <2>4
  <2>6. PortfolioRisk.total_max_loss + PortfolioRisk.cash_retained = Bankroll
    BY <1>3, <2>1
  <2>7. QED
    BY <2>5, <2>6 DEF BooksBalance, Booked
<1>5. CASE positions # <<>>
  <2>1. /\ PortfolioRisk.total_max_loss = SumFunction(Stakes)
        /\ PortfolioRisk.cash_retained = Bankroll - total_stake
        /\ PortfolioRisk.largest_exposure = Max({driver_used[k] : k \in Key})
    BY <1>5 DEF PortfolioRisk
  <2>2. SumFunction(Stakes) = total_stake
    BY <1>1 DEF Booked
  <2>3. PortfolioRisk.total_max_loss + PortfolioRisk.cash_retained = Bankroll
    BY <1>3, <2>1, <2>2
  <2>4. QED
    BY <1>2, <2>1, <2>3 DEF BooksBalance, Booked
<1>6. QED
  BY <1>4, <1>5

\* BooksBalance for every list of opportunities: what the caps were compared
\* with is what the reported positions stake, and the summary accounts for the
\* whole bankroll (141-143 against 122-140, 155-192).
THEOREM BooksAlwaysBalance == Spec => []BooksBalance
<1>1. Init => TypeOK /\ Booked
  <2> SUFFICES ASSUME Init PROVE TypeOK /\ Booked
    OBVIOUS
  <2>1. \A keys : StakedOn(keys) = 0
    BY NothingStaked DEF Init
  <2>2. ranked \in Seq(Candidate)
    BY DEF Init
  <2>3. QED
    BY <2>1, <2>2 DEF Init, Booked, TypeOK
<1>2. TypeOK /\ Booked /\ [Next]_vars => (TypeOK /\ Booked)'
  BY TypeStep, BookedStep
<1>3. QED
  BY <1>1, <1>2, BookedBalances, PTL DEF Spec

-----------------------------------------------------------------------------
(* Greedy is maximal. *)

\* What the argument needs besides GreedyIsMaximal: an opportunity is decided
\* once, and every position is of an opportunity already decided.
DecidedOnce ==
  /\ IsInjective(ranked)
  /\ \A p \in DOMAIN positions : \E i \in 1..at : positions[p].opp = ranked[i]

\* Room only shrinks: what did not fit before a Take does not fit after it.
LEMMA RoomShrinks ==
  ASSUME TypeOK, NEW o \in Candidate, NEW n \in Nat \ {0}, Taken(o, n),
         NEW q \in Candidate, NEW m \in Nat, ~RoomForMore(q, m)
  PROVE  ~RoomForMore(q, m)'
<1>1. /\ q.effective_ask \in Nat /\ DriverKey(q) \in Key
      /\ MaxTotal \in Int /\ DriverCap \in Nat /\ ClusterCap \in Nat
  BY CandidateFields, AllocatorAssumption
<1>2. /\ total_stake \in Nat /\ driver_used[DriverKey(q)] \in Nat
  BY <1>1 DEF TypeOK
<1>3. /\ Cost(o, n) \in Nat /\ total_stake' = total_stake + Cost(o, n)
      /\ \/ driver_used'[DriverKey(q)] = driver_used[DriverKey(q)] + Cost(o, n)
         \/ driver_used'[DriverKey(q)] = driver_used[DriverKey(q)]
  BY <1>1 DEF Taken
<1>4. QED
  BY <1>1, <1>2, <1>3 DEF RoomForMore

\* The floor leaves no room for one contract more.
LEMMA FloorLeavesNoRoom ==
  ASSUME TypeOK, NEW o \in Candidate, NEW n \in Nat \ {0}, Take(o, n)
  PROVE  ~RoomForMore(o, n)'
<1>1. Taken(o, n)
  BY TakeFacts
<1>2. /\ Cost(o, n) \in Nat /\ o.effective_ask \in Nat
      /\ Cost(o, n + 1) = Cost(o, n) + o.effective_ask
      /\ DriverKey(o) \in Key
      /\ MaxTotal \in Int /\ DriverCap \in Nat /\ ClusterCap \in Nat
  BY CandidateFields, CostType, AllocatorAssumption
<1>3. total_stake \in Nat /\ driver_used[DriverKey(o)] \in Nat
  BY <1>2 DEF TypeOK
<1>4. /\ total_stake' = total_stake + Cost(o, n)
      /\ driver_used'[DriverKey(o)] = driver_used[DriverKey(o)] + Cost(o, n)
  BY <1>1, <1>2 DEF Taken
<1>5. ~Fits(o, n + 1)
  BY DEF Take, Floor
<1>6. QED
  BY <1>2, <1>3, <1>4, <1>5 DEF RoomForMore, Fits

\* Passing over means that there was no room for a first contract.
LEMMA PassedOverHasNoRoom ==
  ASSUME TypeOK, NEW o \in Candidate, PassOver(o)
  PROVE  ~RoomForMore(o, 0)
<1>1. /\ o.effective_ask \in Nat /\ Cost(o, 1) = o.effective_ask /\ DriverKey(o) \in Key
      /\ MaxTotal \in Int /\ DriverCap \in Nat /\ ClusterCap \in Nat
  BY CandidateFields, AllocatorAssumption DEF Cost
<1>2. total_stake \in Nat /\ driver_used[DriverKey(o)] \in Nat
  BY <1>1 DEF TypeOK
<1>3. ~HasEdge(o) \/ o.effective_ask <= 0 \/ ~Fits(o, 1)
  BY DEF PassOver
<1>4. 0 + 1 = 1
  OBVIOUS
<1>5. QED
  BY <1>1, <1>2, <1>3, <1>4 DEF RoomForMore, Fits

Exhausted(i) ==
  LET held == {p \in DOMAIN positions : positions[p].opp = ranked[i]}
  IN  /\ held = {} => ~RoomForMore(ranked[i], 0)
      /\ \A p \in held : ~RoomForMore(ranked[i], positions[p].contracts)

\* GreedyIsMaximal for every list and every set of caps: an opportunity that
\* the loop has left behind never again has room for one more contract.
THEOREM GreedyMaximal == Spec => []GreedyIsMaximal
<1>1. Init => DecidedOnce /\ GreedyIsMaximal
  BY DEF Init, DecidedOnce, GreedyIsMaximal
<1>2. TypeOK /\ DecidedOnce /\ GreedyIsMaximal /\ [Next]_vars
        => (DecidedOnce /\ GreedyIsMaximal)'
  <2> SUFFICES ASSUME TypeOK, DecidedOnce, GreedyIsMaximal, [Next]_vars
               PROVE  DecidedOnce' /\ GreedyIsMaximal'
    OBVIOUS
  <2>1. \A i \in 1..at : ranked[i] \in Candidate /\ Exhausted(i)
    BY DEF GreedyIsMaximal, Exhausted, TypeOK
  <2>2. \A p \in DOMAIN positions : positions[p].contracts \in Nat
    <3>1. \A p \in DOMAIN positions : positions[p] \in Position
      BY DEF TypeOK
    <3>2. \A x \in Position : x.contracts \in Nat
      BY DEF Position
    <3>3. QED
      BY <3>1, <3>2
  <2>3. ASSUME NEW o \in Candidate, PassOver(o)
        PROVE  DecidedOnce' /\ GreedyIsMaximal'
    <3>1. /\ ranked' = ranked /\ positions' = positions /\ at' = at + 1
          /\ total_stake' = total_stake /\ driver_used' = driver_used
          /\ at < Len(ranked) /\ o = ranked[at + 1] /\ at \in Nat
      BY <2>3 DEF PassOver, TypeOK
    <3>2. DecidedOnce'
      BY <3>1 DEF DecidedOnce
    <3>3. \A q, m : RoomForMore(q, m)' <=> RoomForMore(q, m)
      BY <3>1 DEF RoomForMore
    <3>4. ASSUME NEW i \in 1..at'
          PROVE  Exhausted(i)'
      <4>1. CASE i = at + 1
        <5>1. \A p \in DOMAIN positions : positions[p].opp # ranked[i]
          BY <3>1, <4>1 DEF DecidedOnce, IsInjective, TypeOK
        <5>2. ~RoomForMore(ranked[i], 0)
          BY <2>3, <3>1, <4>1, PassedOverHasNoRoom
        <5>3. QED
          BY <3>1, <3>3, <5>1, <5>2 DEF Exhausted
      <4>2. CASE i \in 1..at
        BY <2>1, <3>1, <3>3, <4>2 DEF Exhausted
      <4>3. QED
        BY <3>1, <4>1, <4>2
    <3>5. QED
      BY <3>2, <3>4 DEF GreedyIsMaximal, Exhausted
  <2>4. ASSUME NEW o \in Candidate, NEW n \in Nat \ {0}, Take(o, n)
        PROVE  DecidedOnce' /\ GreedyIsMaximal'
    <3>1. /\ ranked' = ranked /\ at' = at + 1 /\ at \in Nat
          /\ at < Len(ranked) /\ o = ranked[at + 1]
      BY <2>4 DEF Take, TypeOK
    <3>2. Taken(o, n)
      BY <2>4, TakeFacts
    <3> DEFINE new == Len(positions) + 1
    <3>3. /\ DOMAIN positions' = (DOMAIN positions) \cup {new}
          /\ new \notin DOMAIN positions
          /\ positions'[new].opp = o /\ positions'[new].contracts = n
          /\ \A p \in DOMAIN positions : positions'[p] = positions[p]
      <4>1. Len(positions) \in Nat /\ DOMAIN positions = 1..Len(positions)
        BY DEF TypeOK
      <4>2. DOMAIN positions' = 1..(Len(positions) + 1)
        BY <3>2 DEF Taken
      <4>3. QED
        BY <3>2, <4>1, <4>2 DEF Taken
    <3> HIDE DEF new
    <3>4. DecidedOnce'
      BY <3>1, <3>3 DEF DecidedOnce
    <3>5. ASSUME NEW i \in 1..at'
          PROVE  Exhausted(i)'
      <4>1. CASE i = at + 1
        <5>1. \A p \in DOMAIN positions : positions[p].opp # o
          BY <3>1 DEF DecidedOnce, IsInjective, TypeOK
        <5>2. ~RoomForMore(o, n)'
          BY <2>4, FloorLeavesNoRoom
        <5>3. \A p \in DOMAIN positions' : positions'[p].opp = o <=> p = new
          BY <3>3, <5>1
        <5>4. QED
          BY <3>1, <3>3, <4>1, <5>2, <5>3 DEF Exhausted
      <4>2. CASE i \in 1..at
        <5>1. PICK q \in Candidate : q = ranked[i]
          BY <2>1, <4>2
        <5>2. q # o /\ ranked'[i] = q
          BY <3>1, <4>2, <5>1 DEF DecidedOnce, IsInjective, TypeOK
        <5>3. \A m \in Nat : ~RoomForMore(q, m) => ~RoomForMore(q, m)'
          BY <3>2, RoomShrinks
        <5> DEFINE held == {p \in DOMAIN positions : positions[p].opp = q}
        <5>4. {p \in DOMAIN positions' : positions'[p].opp = q} = held
          BY <3>3, <5>2
        <5>5. /\ held = {} => ~RoomForMore(q, 0)
              /\ \A p \in held : ~RoomForMore(q, positions[p].contracts)
          BY <2>1, <4>2, <5>1 DEF Exhausted
        <5>6. \A p \in held : /\ positions[p].contracts \in Nat
                               /\ positions'[p] = positions[p]
          BY <2>2, <3>3
        <5> HIDE DEF held
        <5>7. /\ held = {} => ~RoomForMore(q, 0)'
              /\ \A p \in held : \A m \in Nat :
                   m = positions[p].contracts => ~RoomForMore(q, m)'
          BY <5>3, <5>5
        <5>8. \A p \in held : ~RoomForMore(q, positions[p].contracts)'
          BY <5>6, <5>7
        <5>9. QED
          BY <5>2, <5>4, <5>7, <5>8 DEF Exhausted
      <4>3. QED
        BY <3>1, <4>1, <4>2
    <3>6. QED
      BY <3>4, <3>5 DEF GreedyIsMaximal, Exhausted
  <2>5. CASE UNCHANGED vars
    BY <2>5 DEF vars, DecidedOnce, GreedyIsMaximal, RoomForMore
  <2>6. QED
    BY <2>3, <2>4, <2>5, StepCases
<1>3. QED
  BY <1>1, <1>2, AllocatorTypeCorrect, PTL DEF Spec
=============================================================================
