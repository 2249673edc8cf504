----------------------------- MODULE Portfolio ------------------------------
(***************************************************************************)
(* services/portfolio_service.py: one request for an allocation.  The      *)
(* model's prices are scanned against the venue's books (MarketScan), and  *)
(* what the scan returns is sized by the greedy allocator (Allocator).     *)
(* The allocator runs without an await; books still move while it does, as *)
(* they do at a venue.  Money is counted in the ticks of the prices.       *)
(***************************************************************************)
EXTENDS MarketScan

CONSTANTS Bankroll, MaxTotal, PerMarketCap, DriverCap, ClusterCap, KellyPercent

ASSUME PortfolioAssumption ==
  /\ Bankroll \in Nat /\ KellyPercent \in Nat /\ MaxTotal \in 0..Bankroll
  /\ PerMarketCap \in Nat /\ DriverCap \in Nat /\ ClusterCap \in Nat

VARIABLES allocating,  \* the scan has been handed to the allocator
          ranked, passed, positions, total_stake, driver_used

allocVars == <<ranked, passed, positions, total_stake, driver_used>>
portfolioVars == <<vars, allocating, allocVars>>

\* The fields of an opportunity the allocator reads.
Sized(o) ==
  [market_id |-> o.market_id, driver_id |-> o.driver_id,
   effective_ask |-> o.effective_ask, probability |-> o.conservative_probability,
   model_probability |-> o.model_probability, liquidity |-> o.liquidity]

\* Every offer some listed market and some quote can make.
Listed == UNION {{l[i] : i \in DOMAIN l} : l \in Listings}
Offers ==
  {Sized(Offer(t[1], t[2], t[3])) :
     t \in {u \in Exchange \X Listed \X Quote :
              /\ Mapped(u[2]) /\ u[3] # <<>>
              /\ u[1] = "synthetic" => Len(u[3]) = 1}}

A == INSTANCE Allocator WITH
       at <- passed, Candidate <- Offers

PortfolioInit ==
  /\ Init
  /\ allocating = FALSE
  /\ ranked = <<>> /\ passed = 0 /\ positions = <<>> /\ total_stake = 0
  /\ driver_used = [k \in A!Key |-> 0]

Scan == ScanNext /\ UNCHANGED <<allocating, allocVars>>

\* Mutant: the scan's list read where it stops, whether or not it is finished.
AllocateFound ==
  /\ status \in {"done", "failed"} /\ ~allocating
  /\ allocating' = TRUE
  /\ ranked' = [k \in DOMAIN found |-> Sized(found[k])]
  /\ UNCHANGED <<vars, passed, positions, total_stake, driver_used>>

\* allocate(scan.opportunities, ...): only a scan that returned.
StartAllocating ==
  /\ status = "done" /\ ~allocating
  /\ allocating' = TRUE
  /\ ranked' = [k \in DOMAIN ranking |-> Sized(ranking[k])]
  /\ UNCHANGED <<vars, passed, positions, total_stake, driver_used>>

\* One turn of the allocator's loop (A!Next, with the candidate at hand).
Allocate ==
  /\ allocating /\ passed < Len(ranked)
  /\ LET o == ranked[passed + 1]
     IN  A!PassOver(o) \/ \E n \in 1..o.liquidity : A!Take(o, n)
  /\ UNCHANGED <<vars, allocating>>

PortfolioNext == Scan \/ StartAllocating \/ Allocate

\* The coroutine's own steps: requests move on or time out, the rest just runs.
Progress ==
  \/ RequestMoves /\ UNCHANGED <<allocating, allocVars>>
  \/ StartAllocating
  \/ Allocate

PortfolioSpec ==
  PortfolioInit /\ [][PortfolioNext]_portfolioVars /\ WF_portfolioVars(Progress)

-----------------------------------------------------------------------------
(* The scan's threshold and the allocator's Kelly rule agree: nothing that   *)
(* the scan ranks is without an edge for the allocator, so an opportunity is *)
(* only passed over for a cap or for being too dear for one contract, and    *)
(* the summary, which expects with the unreduced probability, never expects  *)
(* to end below the bankroll (opportunity_service 107, optimizer 101-103,    *)
(* 182-187).                                                                 *)
RankedHasEdge ==
  /\ \A k \in DOMAIN ranked : A!HasEdge(ranked[k])
  /\ A!PortfolioRisk.expected_portfolio_value >= Bankroll

(* The two halves of a request together: the stakes are a subsequence of one *)
(* finished ranking, in its order, each market taken once, and within every  *)
(* cap of this bankroll (portfolio_service 36-51).                           *)
StakesComeFromTheScan ==
  /\ A!CapsHold
  /\ positions # <<>> => status = "done"
  /\ \E place \in [DOMAIN positions -> DOMAIN ranking] :
       /\ \A p, r \in DOMAIN positions : p < r => place[p] < place[r]
       /\ \A p \in DOMAIN positions : Sized(ranking[place[p]]) = positions[p].opp

(* A request whose scan begins ends: it fails, or every opportunity has been *)
(* taken or passed over.  The adapters' timeouts and the loop's bound are    *)
(* what the fairness stands for.                                             *)
RequestAnswered ==
  (status = "scanning") ~> (status = "failed" \/ (allocating /\ passed = Len(ranked)))
=============================================================================
