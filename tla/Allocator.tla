----------------------------- MODULE Allocator ------------------------------
(***************************************************************************)
(* allocation/optimizer.py: the greedy allocator walks the opportunities   *)
(* from the best score down, sizes each by fractional Kelly clipped to     *)
(* every cap that is left, and buys a whole number of contracts or none.   *)
(*                                                                         *)
(* Money and probabilities are integers: a contract pays Payout ticks, so  *)
(* an effective ask and a conservative probability both lie in 0..Payout,  *)
(* and bankroll and caps are ticks.  probability is the conservative one,  *)
(* which decides the size; the summary expects with model_probability.     *)
(* Scores are abstracted to the order they induce: Init starts from every  *)
(* order of every set of candidates.                                       *)
(* A driver's contracts form a cluster of their own (_cluster equals       *)
(* driver_key), so driver_used stands for cluster_used as well.            *)
(***************************************************************************)
EXTENDS Integers, Sequences, FiniteSets, FiniteSetsExt

CONSTANTS Driver, None,   \* None: a race-level contract, no driver
          Candidate,      \* the opportunities a scan can report
          Payout,         \* ticks one winning contract pays
          Bankroll,
          MaxTotal,       \* bankroll * max_total_deployment, or its override
          PerMarketCap,   \* bankroll * max_per_market
          DriverCap,      \* bankroll * max_driver_exposure
          ClusterCap,     \* bankroll * max_correlated_cluster_exposure
          KellyPercent    \* configured kelly_fraction of the tolerance

Key == Driver \cup {"race"}

Opportunity ==
  [market_id : STRING, driver_id : Driver \cup {None},
   effective_ask : 0..Payout, probability : 0..Payout, model_probability : 0..Payout,
   liquidity : Nat]

ASSUME AllocatorAssumption ==
  /\ Payout \in Nat \ {0}
  /\ Bankroll \in Nat /\ KellyPercent \in Nat
  /\ MaxTotal \in 0..Bankroll  \* the API takes a deployment in (0, 1]
  /\ PerMarketCap \in Nat /\ DriverCap \in Nat /\ ClusterCap \in Nat
  /\ Candidate \subseteq Opportunity
  /\ None \notin Driver

VARIABLES ranked,       \* opportunities, best score first
          at,           \* how many the loop has passed
          positions,    \* [opp, contracts], in the order taken
          total_stake,
          driver_used   \* stake per driver key

vars == <<ranked, at, positions, total_stake, driver_used>>

Position == [opp : Candidate, contracts : Nat \ {0}]
Cost(o, n) == n * o.effective_ask
Stake(p) == Cost(p.opp, p.contracts)

\* Stakes are natural numbers of ticks, and only candidates are taken.
TypeOK ==
  /\ ranked \in Seq(Candidate)
  /\ at \in 0..Len(ranked)
  /\ positions \in Seq(Position)
  /\ total_stake \in Nat
  /\ driver_used \in [Key -> Nat]

-----------------------------------------------------------------------------
\* Mutant: the configured fraction as it is.
KellyShareUncapped == KellyPercent

\* RiskLimits.kelly: whatever is configured, never more than a quarter.
KellyShare == IF KellyPercent < 25 THEN KellyPercent ELSE 25

\* full_kelly_fraction is positive.
HasEdge(o) == o.probability > o.effective_ask /\ o.effective_ask < Payout

DriverKey(o) == IF o.driver_id = None THEN "race" ELSE o.driver_id

\* n contracts of o cost no more than full Kelly * share * bankroll, that is
\* (probability - ask) / (Payout - ask) of KellyShare percent of the bankroll.
WithinKelly(o, n, share) ==
  Cost(o, n) * (Payout - o.effective_ask) * 100
    <= (o.probability - o.effective_ask) * share * Bankroll

\* Mutant: the driver cap is compared with this stake alone.
FitsAloneForDriver(o, n) ==
  LET cost == Cost(o, n)
      used == driver_used[DriverKey(o)]
  IN  /\ WithinKelly(o, n, KellyShare)
      /\ cost <= PerMarketCap
      /\ cost <= MaxTotal - total_stake
      /\ cost <= DriverCap
      /\ cost <= ClusterCap - used
      /\ n <= o.liquidity

\* n contracts of o fit under the clipped target.
Fits(o, n) ==
  LET cost == Cost(o, n)
      used == driver_used[DriverKey(o)]
  IN  /\ WithinKelly(o, n, KellyShare)
      /\ cost <= PerMarketCap
      /\ cost <= MaxTotal - total_stake
      /\ cost <= DriverCap - used
      /\ cost <= ClusterCap - used
      /\ n <= o.liquidity

\* contracts = floor(target / ask)
Floor(o, n) == Fits(o, n) /\ ~Fits(o, n + 1)

Init ==
  /\ ranked \in UNION {[1..n -> Candidate] : n \in 0..Cardinality(Candidate)}
  /\ IsInjective(ranked)
  /\ at = 0
  /\ positions = <<>>
  /\ total_stake = 0
  /\ driver_used = [k \in Key |-> 0]

\* Mutant: the loop breaks where it should continue.
PassOverRest(o) ==
  /\ at < Len(ranked) /\ o = ranked[at + 1]
  /\ ~HasEdge(o) \/ o.effective_ask <= 0 \/ ~Fits(o, 1)
  /\ at' = Len(ranked)
  /\ UNCHANGED <<ranked, positions, total_stake, driver_used>>

\* The loop's continue: no edge, no price, or not one whole contract fits.
PassOver(o) ==
  /\ at < Len(ranked) /\ o = ranked[at + 1]
  /\ ~HasEdge(o) \/ o.effective_ask <= 0 \/ ~Fits(o, 1)
  /\ at' = at + 1
  /\ UNCHANGED <<ranked, positions, total_stake, driver_used>>

\* Mutant: a race-level stake is not booked.
TakeUnbooked(o, n) ==
  /\ at < Len(ranked) /\ o = ranked[at + 1]
  /\ HasEdge(o) /\ o.effective_ask > 0
  /\ Floor(o, n)
  /\ at' = at + 1
  /\ positions' = Append(positions, [opp |-> o, contracts |-> n])
  /\ total_stake' = total_stake + Cost(o, n)
  /\ driver_used' = IF o.driver_id = None THEN driver_used
                    ELSE [driver_used EXCEPT ![o.driver_id] = @ + Cost(o, n)]
  /\ UNCHANGED ranked

Take(o, n) ==
  /\ at < Len(ranked) /\ o = ranked[at + 1]
  /\ HasEdge(o) /\ o.effective_ask > 0
  /\ Floor(o, n)
  /\ at' = at + 1
  /\ positions' = Append(positions, [opp |-> o, contracts |-> n])
  /\ total_stake' = total_stake + Cost(o, n)
  /\ driver_used' = [driver_used EXCEPT ![DriverKey(o)] = @ + Cost(o, n)]
  /\ UNCHANGED ranked

Next ==
  \/ \E o \in Candidate : PassOver(o)
  \/ \E o \in Candidate : \E n \in 1..o.liquidity : Take(o, n)

Spec == Init /\ [][Next]_vars

\* What each position stakes, and what it pays in expectation.
Stakes == [i \in DOMAIN positions |-> Stake(positions[i])]
Payoffs == [i \in DOMAIN positions |-> positions[i].contracts * positions[i].opp.model_probability]

\* _portfolio_risk, but for its quantiles over the simulated paths.
PortfolioRisk ==
  IF positions = <<>>
  THEN [total_stake |-> 0, cash_retained |-> Bankroll, total_max_loss |-> 0,
        expected_portfolio_value |-> Bankroll, largest_exposure |-> 0]
  ELSE [total_stake |-> total_stake, cash_retained |-> Bankroll - total_stake,
        total_max_loss |-> SumFunction(Stakes),
        expected_portfolio_value |->
          Bankroll - total_stake + SumFunction(Payoffs),
        largest_exposure |-> Max({driver_used[k] : k \in Key})]

-----------------------------------------------------------------------------
(* Every cap holds after every decision, whatever order the scores put the   *)
(* opportunities in: deployment, each driver and its cluster, each market,   *)
(* the depth on offer (allocate 107-115).                                    *)
CapsHold ==
  /\ total_stake <= MaxTotal
  /\ \A k \in Key : driver_used[k] <= DriverCap /\ driver_used[k] <= ClusterCap
  /\ \A i \in DOMAIN positions :
       /\ Stake(positions[i]) <= PerMarketCap
       /\ positions[i].contracts <= positions[i].opp.liquidity

(* No position is larger than a quarter of full Kelly, whatever the config   *)
(* says of the tolerance, and none is taken without an edge (constraints     *)
(* 51-53, kelly 11-15).                                                      *)
NeverAboveQuarterKelly ==
  \A i \in DOMAIN positions :
    /\ HasEdge(positions[i].opp)
    /\ WithinKelly(positions[i].opp, positions[i].contracts, 25)

\* What is staked on the positions whose driver key is in keys.
StakedOn(keys) ==
  SumFunctionOnSet(Stakes, {i \in DOMAIN positions : DriverKey(positions[i].opp) \in keys})

(* The running totals the caps are checked against are the stakes of the     *)
(* positions actually reported, and the summary's account for the bankroll,  *)
(* whether or not anything was bought (141-143 against 122-140, 155-192).    *)
BooksBalance ==
  /\ total_stake = StakedOn(Key)
  /\ \A k \in Key : driver_used[k] = StakedOn({k})
  /\ PortfolioRisk.total_max_loss + PortfolioRisk.cash_retained = Bankroll
  /\ PortfolioRisk.largest_exposure = Max({StakedOn({k}) : k \in Key})

\* A holder of n contracts of o could buy one more within every limit.
RoomForMore(o, n) ==
  LET used == driver_used[DriverKey(o)]
  IN  /\ HasEdge(o) /\ o.effective_ask > 0
      /\ WithinKelly(o, n + 1, KellyShare)
      /\ Cost(o, n + 1) <= PerMarketCap
      /\ n + 1 <= o.liquidity
      /\ total_stake + o.effective_ask <= MaxTotal
      /\ used + o.effective_ask <= DriverCap
      /\ used + o.effective_ask <= ClusterCap

(* Greedy leaves no room unused: of no opportunity the loop has passed,      *)
(* taken or not, could one more contract be bought within the limits, then   *)
(* or after any later decision (floor and continue, 101-120).                 *)
GreedyIsMaximal ==
  \A i \in 1..at :
    LET held == {p \in DOMAIN positions : positions[p].opp = ranked[i]}
    IN  /\ held = {} => ~RoomForMore(ranked[i], 0)
        /\ \A p \in held : ~RoomForMore(ranked[i], positions[p].contracts)
=============================================================================
