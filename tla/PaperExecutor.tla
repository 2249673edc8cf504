---------------------------- MODULE PaperExecutor ----------------------------
(***************************************************************************)
(* execution/paper.py: simulated fills against the book handed in with the *)
(* order, and the cash, positions and realised profit they leave.          *)
(*                                                                         *)
(* Prices are whole ticks, Payout of them to a settled Yes contract, and   *)
(* sizes are whole contracts.  An average price is kept exactly, as a      *)
(* fraction of ticks <<numerator, denominator>> in lowest terms, where the *)
(* code rounds a float.  The book is its best bid and best ask: submit     *)
(* looks at nothing else of it.                                            *)
(***************************************************************************)
EXTENDS Integers, Sequences, FiniteSetsExt, Functions

CONSTANTS Market, Price, Size, Payout,
          NoPrice,       \* None, for a price that is not there
          Fee,           \* taker_fee, in ticks per contract
          StartingCash,
          MaxFills       \* bound: fills in the log

ASSUME PaperAssumption ==
  /\ Price \subseteq 0..Payout /\ NoPrice \notin Price
  /\ Payout \in Nat /\ Size \subseteq Nat \ {0}
  /\ Fee \in Nat /\ StartingCash \in Nat /\ MaxFills \in Nat

VARIABLES cash, positions, fills, realized_pnl,
          oversold   \* history: a sale has gone beyond what was held

paperVars == <<cash, positions, fills, realized_pnl, oversold>>

Side == {"buy_yes", "sell_yes"}
Order == [market_id : Market, side : Side, size : Size, limit_price : Price \cup {NoPrice}]
Book == [best_bid : Price \cup {NoPrice}, best_ask : Price \cup {NoPrice}]
Fill == [market_id : Market, side : Side, size : Size, price : Price, fee : Nat]

-----------------------------------------------------------------------------
(* Fractions. *)
Magnitude(n) == IF n < 0 THEN -n ELSE n
Lowest(n, d) ==
  LET common == Max({k \in 1..Magnitude(d) : n % k = 0 /\ Magnitude(d) % k = 0})
      sign == IF d < 0 THEN -1 ELSE 1
  IN  <<sign * (n \div common), Magnitude(d) \div common>>
Whole(n) == <<n, 1>>
Plus(x, y) == Lowest(x[1] * y[2] + y[1] * x[2], x[2] * y[2])
Multiple(x, n) == Lowest(x[1] * n, x[2])
Over(x, n) == Lowest(x[1], x[2] * n)
Same(x, y) == x[1] * y[2] = y[1] * x[2]

-----------------------------------------------------------------------------
Position(m) ==
  IF m \in DOMAIN positions THEN positions[m] ELSE [quantity |-> 0, avg_price |-> Whole(0)]

WithPosition(m, p) == [k \in DOMAIN positions \cup {m} |-> IF k = m THEN p ELSE positions[k]]

PaperInit ==
  /\ cash = StartingCash
  /\ positions = <<>>
  /\ fills = <<>>
  /\ realized_pnl = Whole(0)
  /\ oversold = FALSE

FillPrice(order, book) == IF order.side = "buy_yes" THEN book.best_ask ELSE book.best_bid

Marketable(order, book) ==
  LET price == FillPrice(order, book)
  IN  /\ price # NoPrice
      /\ order.limit_price # NoPrice =>
           IF order.side = "buy_yes" THEN price <= order.limit_price
                                     ELSE price >= order.limit_price

\* submit returns None.
Decline(order, book) == ~Marketable(order, book) /\ UNCHANGED paperVars

FillOf(order, book) ==
  [market_id |-> order.market_id, side |-> order.side, size |-> order.size,
   price |-> FillPrice(order, book), fee |-> Fee * order.size]

\* Mutant: the entry price of the last buy.
LastEntry(pos, fill) == Whole(fill.price)

\* Mutant: the new contracts alone divide the cost.
EntryOverAdded(pos, fill) ==
  Over(Plus(Multiple(pos.avg_price, pos.quantity), Whole(fill.price * fill.size)), fill.size)

\* The weighted average across adds; nought when the buy closes the position.
AverageEntry(pos, fill) ==
  LET held == pos.quantity + fill.size
  IN  IF held = 0 THEN Whole(0)
      ELSE Over(Plus(Multiple(pos.avg_price, pos.quantity), Whole(fill.price * fill.size)), held)

Buy(order, book) ==
  LET fill == FillOf(order, book)
      pos == Position(order.market_id)
  IN  /\ order.side = "buy_yes" /\ Marketable(order, book) /\ Len(fills) < MaxFills
      /\ positions' = WithPosition(order.market_id,
                        [quantity |-> pos.quantity + fill.size,
                         avg_price |-> AverageEntry(pos, fill)])
      /\ cash' = cash - (fill.price * fill.size + fill.fee)
      /\ fills' = Append(fills, fill)
      /\ UNCHANGED <<realized_pnl, oversold>>

\* No check that the contracts are held: configs/risk_limits.yaml has
\* allow_short: false, which is the caller's to obey.
Sell(order, book) ==
  LET fill == FillOf(order, book)
      pos == Position(order.market_id)
  IN  /\ order.side = "sell_yes" /\ Marketable(order, book) /\ Len(fills) < MaxFills
      /\ oversold' = (oversold \/ fill.size > pos.quantity)
      /\ realized_pnl' = Plus(realized_pnl,
                              Multiple(Plus(Whole(fill.price), Multiple(pos.avg_price, -1)), fill.size))
      /\ positions' = WithPosition(order.market_id,
                        [pos EXCEPT !.quantity = @ - fill.size])
      /\ cash' = cash + fill.price * fill.size - fill.fee
      /\ fills' = Append(fills, fill)

Settle(m, outcome) ==
  LET pos == Position(m)
  IN  /\ m \in DOMAIN positions
      /\ positions' = Restrict(positions, DOMAIN positions \ {m})
      /\ realized_pnl' = Plus(realized_pnl,
                              Multiple(Plus(Whole(outcome), Multiple(pos.avg_price, -1)), pos.quantity))
      /\ cash' = cash + outcome * pos.quantity
      /\ UNCHANGED <<fills, oversold>>

PaperNext ==
  \/ \E order \in Order, book \in Book :
       Decline(order, book) \/ Buy(order, book) \/ Sell(order, book)
  \/ \E m \in Market, outcome \in {0, Payout} : Settle(m, outcome)

PaperSpec == PaperInit /\ [][PaperNext]_paperVars

-----------------------------------------------------------------------------
\* portfolio_value(marks): a market without a mark is held at its entry.
PortfolioValue(marks) ==
  FoldFunction(Plus, Whole(cash),
    [m \in DOMAIN positions |->
       Multiple(IF m \in DOMAIN marks THEN marks[m] ELSE positions[m].avg_price,
             positions[m].quantity)])

FeesPaid == SumFunction([i \in DOMAIN fills |-> fills[i].fee])

\* However buys, partial sales, re-entries and settlements of several markets
\* interleave, the money is accounted for: cash plus the holdings at entry is
\* the stake plus the profit realised less the fees paid (paper.py's tracking
\* of cash, positions and realised P&L), unless more was sold than was held.
BooksReconcile ==
  oversold \/ Same(PortfolioValue(<<>>), Plus(Whole(StartingCash - FeesPaid), realized_pnl))

\* An open position's entry is a price one could have paid.
EntryIsAPrice ==
  \A m \in DOMAIN positions :
    LET entry == positions[m].avg_price
    IN  oversold \/ (0 <= entry[1] /\ entry[1] <= Payout * entry[2])
=============================================================================
