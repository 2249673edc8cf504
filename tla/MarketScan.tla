----------------------------- MODULE MarketScan -----------------------------
(***************************************************************************)
(* services/opportunity_service.py: one scan over a read-only adapter.     *)
(* The scan is a coroutine.  It asks the venue for the list of markets,    *)
(* then for the book of each mapped market in turn, and between asking and *)
(* being answered anything else may run: books move, and a probe of the    *)
(* Polymarket adapter may be sent or answered.  What runs between two      *)
(* awaits is one step: Answer takes the answer in, passes the markets that *)
(* need review, checks the adapter's flag and sends the next request, or   *)
(* sorts and publishes.                                                    *)
(*                                                                         *)
(* shown and unwelcome are history variables: no code keeps them.          *)
(***************************************************************************)
EXTENDS MarketMapping, StableSort

CONSTANTS Listings,   \* the lists of markets a venue may hold
          MaxMoves,   \* bound on the times a book moves
          MaxProbes   \* bound on the availability probes sent

ASSUME ScanAssumption ==
  /\ Listings \subseteq Seq(Market)
  /\ \A l \in Listings : \A i, j \in DOMAIN l : i # j => l[i].market_id # l[j].market_id
  /\ MaxMoves \in Nat /\ MaxProbes \in Nat

VARIABLES exchange,     \* whose adapter the scan was given
          listing,      \* the venue's markets
          quotes,       \* market_id -> its current quote, of markets worth asking about
          moves,        \* times a book has moved
          available,    \* the adapter's flag
          probes,       \* availability probes sent
          probing,      \* availability probes not yet answered
          status,       \* "idle", "scanning", "done" or "failed"
          waiting,      \* the awaited request: "no", "sent" or "served"
          answer,       \* what it was served
          markets,      \* the list the scan walks
          at,           \* its market whose book is awaited, 0 for the list itself
          found,        \* the opportunities appended so far
          n_reviewed_out,
          ranking,      \* the opportunities the scan returned
          shown,        \* market_id -> quotes it has shown since the scan began
          unwelcome     \* requests served since the flag went down

venueVars == <<exchange, listing>>
bookVars == <<quotes, moves, shown>>
flagVars == <<available, probes, probing>>
scanVars == <<status, waiting, answer, markets, at, found, n_reviewed_out, ranking>>
vars == <<exchange, listing, quotes, moves, shown, available, probes, probing, status,
          waiting, answer, markets, at, found, n_reviewed_out, ranking, unwelcome>>

Init ==
  /\ exchange \in Exchange
  /\ listing \in Listings
  /\ quotes \in [{listing[i].market_id : i \in {j \in DOMAIN listing : Mapped(listing[j])}}
                 -> QuoteOf(exchange)]
  /\ available \in (IF exchange = "polymarket" THEN BOOLEAN ELSE {TRUE})
  /\ moves = 0 /\ probes = 0 /\ probing = 0
  /\ status = "idle" /\ waiting = "no" /\ answer = <<>>
  /\ markets = <<>> /\ at = 0 /\ found = <<>> /\ n_reviewed_out = 0 /\ ranking = <<>>
  /\ shown = [m \in DOMAIN quotes |-> {}]
  /\ unwelcome = 0

-----------------------------------------------------------------------------
(* The venue and the probes.                                               *)

\* A synthetic book is built once; a real one moves at any time.  Before the
\* scan a move is another initial state, and after it nothing reads the books.
BookMoves(m, q) ==
  /\ status = "scanning" /\ moves < MaxMoves /\ exchange # "synthetic" /\ q # quotes[m]
  /\ moves' = moves + 1
  /\ quotes' = [quotes EXCEPT ![m] = q]
  /\ shown' = [shown EXCEPT ![m] = @ \cup {q}]
  /\ UNCHANGED <<venueVars, flagVars, scanVars, unwelcome>>

\* check_availability up to its await.
SendProbe ==
  /\ status = "scanning" /\ exchange = "polymarket" /\ probes < MaxProbes
  /\ probes' = probes + 1 /\ probing' = probing + 1
  /\ UNCHANGED <<venueVars, bookVars, available, scanVars, unwelcome>>

\* An answer below 400 raises the flag; any other, or none in ten seconds, lowers it.
ProbeAnswered(ok) ==
  /\ status = "scanning" /\ probing > 0
  /\ probing' = probing - 1
  /\ available' = ok
  /\ unwelcome' = IF ok THEN 0 ELSE unwelcome
  /\ UNCHANGED <<venueVars, bookVars, probes, scanVars>>

-----------------------------------------------------------------------------
(* The scan.                                                               *)

\* _ensure_available raises unless this holds; the other adapters have no flag.
MayAsk == exchange = "polymarket" => available

\* Mutant: the flag is only checked when the scan begins.
MayAskOnce == TRUE

\* MayAsk, as the scan's later requests ask it.
MayAskAgain == MayAsk

\* The first mapped market after place i of list, or one past its end.
NextMapped(list, i) ==
  Min({j \in (i + 1)..Len(list) : Mapped(list[j])} \cup {Len(list) + 1})

\* Mutant: the opportunities as they were found.
AsFound(list) == list

\* opportunities.sort(key=score, reverse=True), a stable sort.
SortByScore(list) ==
  LET turns == ArgSort([i \in DOMAIN list |-> -list[i].score])
  IN  [k \in 1..Len(list) |-> list[turns[k]]]

\* After place i of the list: on to the next await, or to the end.
Continue(i) ==
  /\ at' = NextMapped(markets', i)
  /\ n_reviewed_out' = n_reviewed_out + (at' - i - 1)
  /\ answer' = <<>>
  /\ IF at' > Len(markets')
     THEN status' = "done" /\ waiting' = "no" /\ ranking' = SortByScore(found')
     ELSE /\ IF MayAskAgain
             THEN status' = status /\ waiting' = "sent"
             ELSE status' = "failed" /\ waiting' = "no"
          /\ ranking' = ranking

\* scan_opportunities up to its first await.
Ask ==
  /\ status = "idle"
  /\ IF MayAsk
     THEN status' = "scanning" /\ waiting' = "sent"
     ELSE status' = "failed" /\ waiting' = "no"
  /\ shown' = [m \in DOMAIN quotes |-> IF MayAsk THEN {quotes[m]} ELSE {}]
  /\ UNCHANGED <<venueVars, quotes, moves, flagVars, answer, markets, at, found,
                 n_reviewed_out, ranking, unwelcome>>

\* The venue reads its book and answers.
Serve ==
  /\ waiting = "sent"
  /\ waiting' = "served"
  /\ answer' = IF at = 0 THEN <<>> ELSE quotes[markets[at].market_id]
  /\ unwelcome' = IF MayAsk THEN unwelcome ELSE unwelcome + 1
  /\ UNCHANGED <<venueVars, bookVars, flagVars, status, markets, at, found,
                 n_reviewed_out, ranking>>

\* The list arrives; an answer of another shape counts as an empty list.
ListArrives(list) ==
  /\ waiting = "served" /\ at = 0
  /\ exchange = "synthetic" => list = listing
  /\ markets' = list /\ found' = found
  /\ Continue(0)
  /\ UNCHANGED <<venueVars, bookVars, flagVars, unwelcome>>

\* The book of market at arrives and is considered.
BookArrives ==
  /\ waiting = "served" /\ at > 0
  /\ markets' = markets
  /\ found' = IF Clears(exchange, markets[at], answer)
              THEN Append(found, Offer(exchange, markets[at], answer))
              ELSE found
  /\ Continue(at)
  /\ UNCHANGED <<venueVars, bookVars, flagVars, unwelcome>>

\* Mutant: the error is swallowed and the scan left where it was.
RequestFailsQuietly ==
  /\ waiting # "no" /\ exchange # "synthetic"
  /\ status' = status /\ waiting' = "no" /\ answer' = <<>>
  /\ UNCHANGED <<venueVars, bookVars, flagVars, markets, at, found, n_reviewed_out,
                 ranking, unwelcome>>

\* An HTTP error, or no answer within fifteen seconds, ends the scan.
RequestFails ==
  /\ waiting # "no" /\ exchange # "synthetic"
  /\ status' = "failed" /\ waiting' = "no" /\ answer' = <<>>
  /\ UNCHANGED <<venueVars, bookVars, flagVars, markets, at, found, n_reviewed_out,
                 ranking, unwelcome>>

ScanNext ==
  \/ \E m \in DOMAIN quotes, q \in Quote : BookMoves(m, q)
  \/ SendProbe
  \/ \E ok \in BOOLEAN : ProbeAnswered(ok)
  \/ Ask
  \/ Serve
  \/ \E list \in {listing, <<>>} : ListArrives(list)
  \/ BookArrives
  \/ RequestFails

\* A request is served, and it is answered or times out.
RequestMoves ==
  Serve \/ (\E list \in {listing, <<>>} : ListArrives(list)) \/ BookArrives \/ RequestFails

ScanSpec == Init /\ [][ScanNext]_vars /\ WF_vars(RequestMoves)

-----------------------------------------------------------------------------
\* The market at i was offered to the caller as o, for a quote it showed.
WasOffered(o, i) ==
  \E q \in shown[markets[i].market_id] :
    /\ BestAsk(Asks(exchange, q)) # None
    /\ o = Offer(exchange, markets[i], q)

(* Whatever moves while the scan waits, each opportunity it returns is one   *)
(* market above the mapping gate, priced by a book the venue showed during   *)
(* the scan, with the edge left after the haircut, fee and slippage and the  *)
(* depth that the thresholds ask for; and a failed scan returns none         *)
(* (scan_opportunities 86-110).                                              *)
RankedIsHonest ==
  /\ ranking # <<>> => status = "done"
  /\ \A k \in DOMAIN ranking :
       /\ ranking[k].conservative_edge >= MinEdge
       /\ ranking[k].liquidity >= MinLiquidity
       /\ \E i \in DOMAIN markets : Mapped(markets[i]) /\ WasOffered(ranking[k], i)

(* The detailed scan does what ScanPromise promises: it publishes the whole  *)
(* ranking of the listed markets, stably sorted, for quotes shown during the *)
(* scan, or fails and publishes nothing (scan_opportunities 73-147).         *)
Promise == INSTANCE ScanPromise WITH
             listed <- IF status = "done" THEN markets ELSE <<>>,
             reviewed <- IF status = "done" THEN n_reviewed_out ELSE 0
ScanKeepsPromise == Promise!PromiseSpec

(* The flag is checked before an await and may go down during it.  Of all    *)
(* the requests of a scan at most one reaches the venue after that, however  *)
(* probes and requests interleave (polymarket_adapter 54-69, 83-94).         *)
AtMostOneUnwelcome == unwelcome <= 1
=============================================================================
