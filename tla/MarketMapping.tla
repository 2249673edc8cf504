--------------------------- MODULE MarketMapping ----------------------------
(***************************************************************************)
(* What a scan computes from one market and one book, without the network: *)
(* pricing/market_mapper.py maps a market to a contract and says how sure  *)
(* it is, the adapters turn a venue's answer into a book, and              *)
(* opportunity_service.py turns the two into an offer with a score.        *)
(*                                                                         *)
(* Prices and probabilities are ticks, Payout of them a certainty,         *)
(* confidences percent, sizes contracts.                                   *)
(*                                                                         *)
(* A market's text is abstracted to what the mapper finds in it: the       *)
(* contract families whose keywords it holds, the drivers it mentions, how *)
(* its rules read, what its outcomes are called.  A quote is a venue's     *)
(* answer about one side: the price levels a Yes is bought at, in whatever *)
(* terms and order the venue states them.                                  *)
(***************************************************************************)
EXTENDS Integers, Sequences, FiniteSets, FiniteSetsExt

CONSTANTS Driver, None,
          Quote,          \* the answers a venue may give, sequences of levels
          DriverPrice,    \* the model: driver -> contract -> probability
          RacePrice,      \* the model's probability of a safety car
          StandardError,  \* probability -> Monte Carlo haircut
          Payout,         \* ticks one winning contract pays
          Fee, Slippage,
          HalfSpread, LevelStep,  \* of a synthetic book
          MinEdge, MinConfidence, MinLiquidity

\* Driver contracts a simulation prices, and those it does not.
PricedContract == {"win", "podium", "points", "dnf", "fastest_lap",
                   "positions_gained", "pit_before_lap"}
ContractType == PricedContract \cup
                {"safety_car", "head_to_head", "constructor_points"}
Exchange == {"kalshi", "polymarket", "synthetic"}

ASSUME MappingAssumption ==
  /\ None \notin Driver /\ None \notin ContractType /\ None \notin Int
  /\ Payout \in Nat \ {0}
  /\ Quote \subseteq Seq([price : 0..Payout, size : Nat]) /\ Quote # {}
  /\ DriverPrice \in [DOMAIN DriverPrice -> [PricedContract -> 0..Payout]]
  /\ DOMAIN DriverPrice \subseteq Driver
  /\ RacePrice \in 0..Payout
  /\ StandardError \in [0..Payout -> Nat]
  /\ Fee \in Nat /\ Slippage \in Nat /\ HalfSpread \in Nat /\ LevelStep \in Nat
  /\ MinEdge \in Int /\ MinConfidence \in 0..100 /\ MinLiquidity \in Nat \ {0}

Market ==
  [market_id     : STRING,
   contract_type : ContractType \cup {None},  \* structured, if the venue has it
   driver_id     : Driver \cup {None},
   named         : SUBSET ContractType,       \* families whose keywords it holds
   mentions      : SUBSET Driver,             \* drivers title and rules mention
   rules         : {"none", "bare", "settling"},
   settled       : BOOLEAN,                   \* has a settlement_source
   labels        : {"none", "yes/no", "other"}]

-----------------------------------------------------------------------------
(* The mapper.                                                             *)

Keywords == <<"safety_car", "fastest_lap", "pit_before_lap", "positions_gained",
              "head_to_head", "podium", "points", "dnf", "win">>

\* The structured type, else the first family with a keyword in the text.
DetectContract(m) ==
  LET hits == {k \in DOMAIN Keywords : Keywords[k] \in m.named}
  IN  IF m.contract_type # None THEN m.contract_type
      ELSE IF hits = {} THEN None ELSE Keywords[Min(hits)]

Ambiguous(m) == m.driver_id = None /\ Cardinality(m.mentions) > 1

\* The structured driver, else the only one the text mentions.
MappedDriver(m) ==
  IF m.driver_id # None THEN m.driver_id
  ELSE IF Cardinality(m.mentions) = 1 THEN CHOOSE d \in m.mentions : TRUE
  ELSE None

SettlingRules(m) == m.rules = "settling" \/ (m.rules = "bare" /\ m.settled)

Confidence(m) ==
  LET points ==
        50 + (IF DetectContract(m) # None THEN 25 ELSE 0)
           - (IF Ambiguous(m) THEN 20 ELSE 0)
           + (IF MappedDriver(m) # None \/ DetectContract(m) = "safety_car" THEN 20 ELSE 0)
           + (IF SettlingRules(m) THEN 15 ELSE -30)
           - (IF m.labels = "other" THEN 30 ELSE 0)
  IN  IF points > 100 THEN 100 ELSE IF points < 0 THEN 0 ELSE points

\* The model's probability of the mapped contract, None if it has no price.
ModelProb(m) ==
  LET contract == DetectContract(m)
  IN  IF contract = "safety_car" THEN RacePrice
      ELSE IF MappedDriver(m) \in DOMAIN DriverPrice /\ contract \in PricedContract
           THEN DriverPrice[MappedDriver(m)][contract]
           ELSE None

\* The market is not put aside for review.
Mapped(m) == Confidence(m) >= MinConfidence /\ ModelProb(m) # None

-----------------------------------------------------------------------------
(* The book.                                                               *)

Clip(p) == IF p < 0 THEN 0 ELSE IF p > Payout THEN Payout ELSE p

\* Three levels above a synthetic venue's middle price.
SpreadAbove(mid) ==
  [i \in 1..3 |-> [price |-> Clip(mid.price + HalfSpread + LevelStep * (i - 1)),
                   size |-> mid.size]]

\* The asks a quote stands for.  Kalshi quotes bids for No; Polymarket quotes
\* asks.
Asks(exchange, quote) ==
  CASE exchange = "kalshi" ->
         [i \in DOMAIN quote |-> [price |-> Clip(Payout - quote[i].price), size |-> quote[i].size]]
    [] exchange = "polymarket" -> quote
    [] exchange = "synthetic" ->
         SpreadAbove(quote[1])

\* Sorted, the first ask is the lowest.
BestAsk(asks) ==
  IF asks = <<>> THEN None ELSE Min({asks[i].price : i \in DOMAIN asks})

AskLiquidity(asks) == SumFunction([i \in DOMAIN asks |-> asks[i].size])

\* A synthetic book is built around one middle price.
QuoteOf(exchange) == {q \in Quote : exchange = "synthetic" => Len(q) = 1}

-----------------------------------------------------------------------------
(* The offer.                                                              *)

\* Buying one Yes.
EffectiveAsk(ask) == IF ask + Fee + Slippage > Payout THEN Payout ELSE ask + Fee + Slippage

Conservative(p) == IF p > StandardError[p] THEN p - StandardError[p] ELSE 0

LeastOf(a, b) == IF a < b THEN a ELSE b

\* An entry of the scan's list; its score is in units of 1/(100 * 2 * MinLiquidity).
Offer(exchange, m, quote) ==
  LET asks == Asks(exchange, quote)
      ask  == EffectiveAsk(BestAsk(asks))
      p    == Conservative(ModelProb(m))
      liq  == AskLiquidity(asks)
  IN  [market_id |-> m.market_id, driver_id |-> MappedDriver(m),
       contract_type |-> DetectContract(m), effective_ask |-> ask,
       model_probability |-> ModelProb(m), conservative_probability |-> p,
       conservative_edge |-> p - ask, liquidity |-> liq,
       score |-> (p - ask) * Confidence(m) * LeastOf(2 * MinLiquidity, liq)]

\* Mutants: the edge is not asked for, or is taken before the haircut.
ClearsAnyEdge(exchange, m, quote) ==
  /\ BestAsk(Asks(exchange, quote)) # None
  /\ Offer(exchange, m, quote).liquidity >= MinLiquidity
ClearsRaw(exchange, m, quote) ==
  /\ BestAsk(Asks(exchange, quote)) # None
  /\ LET o == Offer(exchange, m, quote)
     IN  o.model_probability - o.effective_ask >= MinEdge /\ o.liquidity >= MinLiquidity

\* The book has an ask, enough edge and enough depth.
Clears(exchange, m, quote) ==
  /\ BestAsk(Asks(exchange, quote)) # None
  /\ LET o == Offer(exchange, m, quote)
     IN  o.conservative_edge >= MinEdge /\ o.liquidity >= MinLiquidity
=============================================================================
