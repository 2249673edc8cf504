---------------------------- MODULE ScanPromise -----------------------------
(***************************************************************************)
(* What a caller of scan_opportunities may rely on, without requests,      *)
(* answers or an availability flag.  A scan ends with a ranking or with    *)
(* none at all.  A ranking is complete and honest for one quote per        *)
(* market, a quote the market showed at some time during the scan, but not *)
(* necessarily the same time for two markets.                              *)
(***************************************************************************)
EXTENDS MarketMapping

VARIABLES exchange,  \* the venue
          quotes,    \* its current quote of each market
          shown,     \* the quotes each market has shown since the scan began
          status,    \* "idle", "scanning", "done" or "failed"
          listed,    \* the markets a finished scan was about
          reviewed,  \* how many of them were put aside for review
          ranking    \* its opportunities, best score first

promiseVars == <<exchange, quotes, shown, status, listed, reviewed, ranking>>

PromiseInit ==
  /\ exchange \in Exchange
  /\ quotes \in [DOMAIN quotes -> Quote]
  /\ shown = [m \in DOMAIN quotes |-> {}]
  /\ status = "idle" /\ listed = <<>> /\ reviewed = 0 /\ ranking = <<>>

\* Books move whenever they like; those of before and after do not matter.
BookMoves ==
  /\ status = "scanning"
  /\ quotes' \in [DOMAIN quotes -> Quote]
  /\ shown' = [m \in DOMAIN quotes |-> shown[m] \cup {quotes'[m]}]
  /\ UNCHANGED <<exchange, status, listed, reviewed, ranking>>

ScanBegins ==
  /\ status = "idle" /\ status' = "scanning"
  /\ shown' = [m \in DOMAIN quotes |-> {quotes[m]}]
  /\ UNCHANGED <<exchange, quotes, listed, reviewed, ranking>>

\* list is the offers that clear, each once, by score and then in listing order.
IsRanking(list, markets, pick) ==
  LET clearing == {i \in DOMAIN markets :
                     Mapped(markets[i]) /\ Clears(exchange, markets[i], pick[i])}
      place(o) == CHOOSE i \in clearing : markets[i].market_id = o.market_id
  IN  /\ Len(list) = Cardinality(clearing)
      /\ {list[k] : k \in DOMAIN list} = {Offer(exchange, markets[i], pick[i]) : i \in clearing}
      /\ \A k, l \in DOMAIN list :
           k < l => \/ list[k].score > list[l].score
                    \/ list[k].score = list[l].score /\ place(list[k]) < place(list[l])

ScanPublishes ==
  /\ status = "scanning" /\ status' = "done"
  /\ \E pick \in [DOMAIN listed' -> Quote] :
       /\ \A i \in DOMAIN listed' :
            Mapped(listed'[i]) => pick[i] \in shown[listed'[i].market_id]
       /\ IsRanking(ranking', listed', pick)
  /\ reviewed' = Cardinality({i \in DOMAIN listed' : ~Mapped(listed'[i])})
  /\ UNCHANGED <<exchange, quotes, shown>>

ScanFails ==
  /\ status \in {"idle", "scanning"} /\ status' = "failed"
  /\ UNCHANGED <<exchange, quotes, shown, listed, reviewed, ranking>>

PromiseNext == BookMoves \/ ScanBegins \/ ScanPublishes \/ ScanFails

PromiseSpec == PromiseInit /\ [][PromiseNext]_promiseVars
=============================================================================
