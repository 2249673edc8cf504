---------------------------- MODULE MCAllocator -----------------------------
(* Two drivers and the race itself; every cap, the Kelly share and the depth *)
(* each bind for some order of the candidates.                               *)
EXTENDS Allocator

CONSTANTS ver, ham

Opp(id, driver, ask, probability, liquidity) ==
  [market_id |-> id, driver_id |-> driver, effective_ask |-> ask,
   probability |-> probability,
   model_probability |-> Min({probability + 1, Payout}), liquidity |-> liquidity]

Candidates ==
  {Opp("ver win", ver, 4, 5, 100),      \* the Kelly share binds
   Opp("ver podium", ver, 7, 8, 100),   \* the market cap binds
   Opp("ham win", ham, 3, 9, 100),
   Opp("ham top ten", ham, 5, 6, 100),  \* the driver cap binds after "ham win"
   Opp("safety car", None, 6, 7, 1),    \* the depth binds
   Opp("red flag", None, 0, 1, 50),     \* free
   Opp("ham dnf", ham, 9, 9, 100)}      \* no edge
=============================================================================
