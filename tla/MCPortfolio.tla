---------------------------- MODULE MCPortfolio -----------------------------
(* Two drivers and a venue that lists up to three of five markets: one with  *)
(* structured fields, one recognised from its text, a race-level one, and    *)
(* two that must be put aside.  Quotes make every gate decide: no ask, too   *)
(* little depth, too little edge before or after the haircut.                *)
EXTENDS Portfolio

CONSTANTS ver, ham

Text(id, named, mentions, rules) ==
  [market_id |-> id, contract_type |-> None, driver_id |-> None, named |-> named,
   mentions |-> mentions, rules |-> rules, settled |-> FALSE, labels |-> "yes/no"]

VerWin    == Text("ver win", {"win", "positions_gained"}, {ver}, "settling")
Duel      == Text("ver ahead of ham", {"head_to_head"}, {ver, ham}, "settling")
TitleOnly == Text("ham to win", {"win"}, {ham}, "none")
SafetyCar == [Text("safety car", {"safety_car", "points"}, {}, "bare") EXCEPT !.settled = TRUE]
HamPodium == [Text("ham podium", {}, {}, "settling") EXCEPT
                !.contract_type = "podium", !.driver_id = ham, !.labels = "other"]

MCListings == {<<VerWin, TitleOnly, HamPodium>>, <<Duel, SafetyCar, VerWin>>, <<TitleOnly>>}

Level(price, size) == [price |-> price, size |-> size]
MCQuote == {<<>>, <<Level(106, 250)>>, <<Level(90, 60), Level(103, 60)>>}

MCDriverPrice ==
  [d \in {ver, ham} |-> [c \in PricedContract |->
     IF d = ham THEN 112 ELSE IF c = "positions_gained" THEN 123 ELSE 60]]
MCStandardError == [p \in 0..200 |-> IF p \in 20..180 THEN 3 ELSE 1]
=============================================================================
