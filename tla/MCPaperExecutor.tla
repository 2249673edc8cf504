-------------------------- MODULE MCPaperExecutor --------------------------
(* Two markets of which one may stay untouched, cheap and dear prices, and  *)
(* sizes whose averages do not come out whole.                              *)
EXTENDS PaperExecutor

Markets == {"win", "podium"}
Prices == {3, 7}
Sizes == {1, 2}
=============================================================================
