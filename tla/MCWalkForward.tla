--------------------------- MODULE MCWalkForward ----------------------------
(* Seven races of three drivers, one of them without a date in FastF1, named *)
(* in order or with the later season first.  The table has a car classified  *)
(* though it retired, one that is not, a driver who changes teams in a race  *)
(* that does not name them, one who starts late and inherits a prior, a race *)
(* with one finisher and one with none.                                      *)
EXTENDS WalkForward

CONSTANTS ver, ham, alo

Fin(driver, team, position) ==
  [driver |-> driver, team |-> team, position |-> position, classified |-> TRUE, finished |-> TRUE]
Out(driver, team) ==
  [driver |-> driver, team |-> team, position |-> 3, classified |-> FALSE, finished |-> FALSE]
LateOut(driver, team, position) == [Fin(driver, team, position) EXCEPT !.finished = FALSE]

Changing ==
  <<  <<Fin(ver, "bull", 1), Fin(ham, "merc", 2)>>,
      <<Fin(ham, "merc", 1), LateOut(ver, "bull", 2)>>,
      <<Fin(alo, "bull", 1), Fin(ver, None, 2), Fin(None, "merc", 3)>>,
      <<Fin(ham, "bull", 1), Out(ver, "merc")>>,
      <<Fin(ver, None, 1), Fin(ham, None, 2), Out(alo, "merc")>>,
      <<Out(ver, "merc"), Out(ham, "bull"), [Out(alo, None) EXCEPT !.finished = TRUE]>>,
      <<Fin(alo, "merc", 1), Fin(ver, "merc", 2), Fin(ham, "bull", None)>>  >>

Steady ==
  [r \in 1..7 |-> IF r = 4 THEN <<>>
                  ELSE <<Fin(ver, "bull", 1), Fin(ham, "merc", 2)>>]

MCTables == {Changing, Steady}
MCOrders == {<<1, 2, 3, 4, 5, 6, 7>>, <<5, 6, 7, 1, 2, 3, 4>>}
=============================================================================
