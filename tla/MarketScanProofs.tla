--------------------------- MODULE MarketScanProofs ---------------------------
(***************************************************************************)
(* What holds of a scan at every venue, for every list of markets, every   *)
(* quote and any number of probes and moves of a book.                     *)
(***************************************************************************)
EXTENDS Portfolio, SortAndSumProofs

\* The count is reset by an answer that raises the flag, and a request is only
\* sent while the flag is up: so one on its way is the first since it went down.
FlagWasUp ==
  /\ unwelcome \in {0, 1}
  /\ MayAsk => unwelcome = 0
  /\ waiting = "sent" => unwelcome = 0

\* From one await to the next: the flag is read between the two.
LEMMA ContinueAsksFirst ==
  ASSUME NEW i, Continue(i), FlagWasUp, UNCHANGED <<exchange, available, unwelcome>>
  PROVE  FlagWasUp'
<1>1. waiting' = "sent" => MayAsk
  BY DEF Continue, MayAskAgain
<1>2. MayAsk' = MayAsk
  BY DEF MayAsk
<1>3. QED
  BY <1>1, <1>2 DEF FlagWasUp

\* No step lets a second one through.
LEMMA FlagWasUpStep ==
  ASSUME FlagWasUp, [ScanNext]_vars
  PROVE  FlagWasUp'
<1> USE DEF FlagWasUp, MayAsk, venueVars, bookVars, flagVars, scanVars
<1>1. CASE \E m \in DOMAIN quotes, q \in Quote : BookMoves(m, q)
  BY <1>1 DEF BookMoves
<1>2. CASE SendProbe
  BY <1>2 DEF SendProbe
<1>3. ASSUME NEW ok \in BOOLEAN, ProbeAnswered(ok)
      PROVE  FlagWasUp'
  BY <1>3 DEF ProbeAnswered
<1>4. CASE Ask
  BY <1>4 DEF Ask
<1>5. CASE Serve
  BY <1>5 DEF Serve
<1>6. ASSUME NEW list, ListArrives(list)
      PROVE  FlagWasUp'
  BY <1>6, ContinueAsksFirst DEF ListArrives
<1>7. CASE BookArrives
  BY <1>7, ContinueAsksFirst DEF BookArrives
<1>8. CASE RequestFails
  BY <1>8 DEF RequestFails
<1>9. CASE UNCHANGED vars
  BY <1>9 DEF vars
<1>10. QED
  BY <1>1, <1>2, <1>3, <1>4, <1>5, <1>6, <1>7, <1>8, <1>9 DEF ScanNext

(* At most one request of a scan reaches the venue after the flag has gone   *)
(* down, whatever probes are answered meanwhile (polymarket_adapter 54-69).  *)
THEOREM OneUnwelcomeRequest == ScanSpec => []AtMostOneUnwelcome
<1>1. Init => FlagWasUp
  BY DEF Init, FlagWasUp
<1>2. FlagWasUp => AtMostOneUnwelcome
  BY DEF FlagWasUp, AtMostOneUnwelcome
<1>3. QED
  BY <1>1, <1>2, FlagWasUpStep, PTL DEF ScanSpec

-----------------------------------------------------------------------------
(* That the scan does what ScanPromise promises.  Considered is the heart of *)
(* the invariant: what has been found is the offers that clear among the     *)
(* markets passed, for quotes they have shown, in the order of the list.     *)

\* With e the venue, ms its list, sh what it has shown: f is what was found in
\* the first n markets, f[k] at place[k] for the quote pick[place[k]].
ConsideredBy(e, ms, sh, f, n, pick, place) ==
  /\ pick \in [DOMAIN ms -> Quote] /\ place \in [1..Len(f) -> DOMAIN ms]
  /\ \A i \in DOMAIN ms :
       Mapped(ms[i]) => pick[i] \in QuoteOf(e) /\ pick[i] \in sh[ms[i].market_id]
  /\ \A k \in 1..Len(f) : f[k] = Offer(e, ms[place[k]], pick[place[k]])
  /\ \A k, l \in 1..Len(f) : k < l => place[k] < place[l]
  /\ \A i \in DOMAIN ms :
       (\E k \in 1..Len(f) : place[k] = i)
         <=> i <= n /\ Mapped(ms[i]) /\ Clears(e, ms[i], pick[i])

OffersOf(e) == {Offer(e, m, q) : m \in Market, q \in Quote}

Considered(e, ms, sh, f, n) ==
  f \in Seq(OffersOf(e)) /\ \E pick, place : ConsideredBy(e, ms, sh, f, n, pick, place)

\* How many of the first n markets are put aside.
Reviewed(ms, n) == Cardinality({i \in 1..n : ~Mapped(ms[i])})

\* Everything in list is the offer of a mapped market that clears, for a quote shown.
Honest(e, ms, sh, list) ==
  /\ \E n \in Nat : DOMAIN list = 1..n
  /\ \A k \in DOMAIN list : \E i \in DOMAIN ms : \E q \in sh[ms[i].market_id] :
     Mapped(ms[i]) /\ Clears(e, ms[i], q) /\ list[k] = Offer(e, ms[i], q)

\* The venue's books, and what the scan knows of them.
VenueInv ==
  /\ exchange \in Exchange /\ listing \in Listings
  /\ DOMAIN quotes = {listing[i].market_id : i \in {j \in DOMAIN listing : Mapped(listing[j])}}
  /\ quotes \in [DOMAIN quotes -> QuoteOf(exchange)]
  /\ shown \in [DOMAIN quotes -> SUBSET QuoteOf(exchange)]
  /\ status = "idle" => shown = [m \in DOMAIN quotes |-> {}]
  /\ status = "scanning" => \A m \in DOMAIN quotes : quotes[m] \in shown[m]

\* Where the scan stands.
PhaseInv ==
  /\ status \in {"idle", "scanning", "done", "failed"}
  /\ waiting \in {"no", "sent", "served"}
  /\ waiting # "no" => status = "scanning"
  /\ markets \in {listing, <<>>} /\ at \in Nat
  /\ status = "idle" => at = 0
  /\ status \in {"idle", "scanning"} /\ at = 0 =>
       markets = <<>> /\ found = <<>> /\ n_reviewed_out = 0
  /\ status = "scanning" /\ at > 0 => at \in DOMAIN markets /\ Mapped(markets[at])
  /\ waiting = "served" /\ at > 0 => answer \in shown[markets[at].market_id]

\* What it has found and put aside so far.
ProgressInv ==
  status = "scanning" /\ at > 0 =>
    /\ Considered(exchange, markets, shown, found, at - 1)
    /\ n_reviewed_out = Reviewed(markets, at - 1)

\* What it has returned.
ResultInv ==
  /\ status # "done" => ranking = <<>>
  /\ status = "done" => Honest(exchange, markets, shown, ranking)

ScanInv == VenueInv /\ PhaseInv /\ ProgressInv

\* The scan's next await is at the next mapped market.
LEMMA NextMappedFacts ==
  ASSUME NEW ms \in Seq(Market), NEW i \in 0..Len(ms)
  PROVE  /\ NextMapped(ms, i) \in (i + 1)..(Len(ms) + 1)
         /\ \A j \in (i + 1)..(NextMapped(ms, i) - 1) : ~Mapped(ms[j])
         /\ NextMapped(ms, i) <= Len(ms) => Mapped(ms[NextMapped(ms, i)])
<1> DEFINE S == {j \in (i + 1)..Len(ms) : Mapped(ms[j])} \cup {Len(ms) + 1}
<1>1. Len(ms) \in Nat /\ i \in Nat
  OBVIOUS
<1>2. S \in SUBSET Nat /\ S # {}
  BY <1>1
<1>3. NextMapped(ms, i) \in S /\ \A y \in S : NextMapped(ms, i) <= y
  <2>1. NextMapped(ms, i) = Min(S)
    BY DEF NextMapped
  <2> HIDE DEF S
  <2>2. QED
    BY <1>2, <2>1, LeastNatural
<1>4. NextMapped(ms, i) \in (i + 1)..(Len(ms) + 1)
  BY <1>1, <1>3
<1>5. ASSUME NEW j \in (i + 1)..(NextMapped(ms, i) - 1), Mapped(ms[j]) PROVE FALSE
  <2>1. j \in (i + 1)..Len(ms) /\ j < NextMapped(ms, i)
    BY <1>1, <1>4
  <2>2. j \in S
    BY <1>5, <2>1
  <2>3. QED
    BY <1>1, <1>3, <1>4, <2>1, <2>2
<1>6. QED
  BY <1>1, <1>3, <1>4, <1>5

\* What is skipped on the way is what is put aside.
LEMMA ReviewedGrows ==
  ASSUME NEW ms \in Seq(Market), NEW i \in 0..Len(ms), i > 0 => Mapped(ms[i])
  PROVE  /\ Reviewed(ms, NextMapped(ms, i) - 1) = Reviewed(ms, i - 1) + (NextMapped(ms, i) - i - 1)
         /\ Reviewed(ms, i - 1) \in Nat
<1> DEFINE n == NextMapped(ms, i)
           old == {j \in 1..(i - 1) : ~Mapped(ms[j])}
           new == (i + 1)..(n - 1)
<1>1. i \in Nat /\ n \in Nat /\ n >= i + 1 /\ \A j \in new : ~Mapped(ms[j])
  BY NextMappedFacts
<1> HIDE DEF n
<1>2. {j \in 1..(n - 1) : ~Mapped(ms[j])} = old \cup new
  BY <1>1
<1>3. IsFiniteSet(1..(i - 1)) /\ IsFiniteSet(new) /\ Cardinality(new) = n - i - 1
  <2>1. IsFiniteSet(1..(i - 1))
    BY <1>1, FS_Interval
  <2>2. i + 1 \in Int /\ n - 1 \in Int
    BY <1>1
  <2>3. \A a, b \in Int : /\ IsFiniteSet(a..b)
                         /\ Cardinality(a..b) = IF a > b THEN 0 ELSE b - a + 1
    BY FS_Interval
  <2>4. IsFiniteSet(new) /\ Cardinality(new) = IF i + 1 > n - 1 THEN 0 ELSE n - 1 - (i + 1) + 1
    BY <2>2, <2>3
  <2>5. QED
    BY <1>1, <2>1, <2>4
<1>4. IsFiniteSet(old) /\ Cardinality(old) \in Nat
  BY <1>3, FS_Subset, FS_CardinalityType
<1>5. old \cap new = {}
  BY <1>1
<1>6. Cardinality(old \cup new) = Cardinality(old) + Cardinality(new)
  <2> HIDE DEF old, new
  <2>1. Cardinality(old \cap new) = 0
    BY <1>5, FS_EmptySet
  <2>2. Cardinality(old \cup new) = Cardinality(old) + Cardinality(new) - Cardinality(old \cap new)
    BY <1>3, <1>4, FS_Union
  <2>3. Cardinality(new) \in Nat
    BY <1>3, FS_CardinalityType
  <2>4. QED
    BY <1>4, <2>1, <2>2, <2>3
<1>7. QED
  BY <1>1, <1>2, <1>3, <1>4, <1>6 DEF Reviewed, n

-----------------------------------------------------------------------------
\* Nothing is found in the first 0 markets; any quotes shown will do.
LEMMA NothingConsidered ==
  ASSUME NEW e, NEW ms \in Seq(Market), NEW sh, NEW qs,
         \A i \in DOMAIN ms : Mapped(ms[i]) =>
           qs[ms[i].market_id] \in QuoteOf(e) /\ qs[ms[i].market_id] \in sh[ms[i].market_id]
  PROVE  Considered(e, ms, sh, <<>>, 0)
<1> DEFINE pick == [i \in DOMAIN ms |-> IF Mapped(ms[i]) THEN qs[ms[i].market_id]
                                        ELSE CHOOSE q \in Quote : TRUE]
           place == [k \in 1..0 |-> CHOOSE i \in DOMAIN ms : TRUE]
<1>1. pick \in [DOMAIN ms -> Quote]
  BY MappingAssumption DEF QuoteOf
<1>2. place \in [1..Len(<<>>) -> DOMAIN ms] /\ Len(<<>>) = 0
  OBVIOUS
<1>3. \A i \in DOMAIN ms : i \in Nat /\ ~(i <= 0)
  OBVIOUS
<1>4. /\ \A i \in DOMAIN ms :
            Mapped(ms[i]) => pick[i] \in QuoteOf(e) /\ pick[i] \in sh[ms[i].market_id]
  OBVIOUS
<1> HIDE DEF pick, place
<1>5. ConsideredBy(e, ms, sh, <<>>, 0, pick, place)
  BY <1>1, <1>2, <1>3, <1>4 DEF ConsideredBy
<1>6. QED
  BY <1>5 DEF Considered

\* Quotes shown later take nothing away.
LEMMA ConsideredStays ==
  ASSUME NEW e, NEW ms, NEW sh, NEW f, NEW n, Considered(e, ms, sh, f, n),
         NEW more, \A i \in DOMAIN ms :
                     Mapped(ms[i]) => sh[ms[i].market_id] \subseteq more[ms[i].market_id]
  PROVE  Considered(e, ms, more, f, n)
<1>1. PICK pick, place : ConsideredBy(e, ms, sh, f, n, pick, place)
  BY DEF Considered
<1>2. ConsideredBy(e, ms, more, f, n, pick, place)
  BY <1>1 DEF ConsideredBy
<1>3. QED
  BY <1>2 DEF Considered

\* Markets put aside are passed with nothing to consider.
LEMMA SkippedAreConsidered ==
  ASSUME NEW e, NEW ms \in Seq(Market), NEW sh, NEW f, NEW n \in Nat, NEW o \in Nat,
         Considered(e, ms, sh, f, n), n <= o, \A j \in (n + 1)..o : ~Mapped(ms[j])
  PROVE  Considered(e, ms, sh, f, o)
<1>1. PICK pick, place : ConsideredBy(e, ms, sh, f, n, pick, place)
  BY DEF Considered
<1>2. \A i \in DOMAIN ms : (i <= n /\ Mapped(ms[i])) <=> (i <= o /\ Mapped(ms[i]))
  OBVIOUS
<1>3. ConsideredBy(e, ms, sh, f, o, pick, place)
  BY <1>1, <1>2 DEF ConsideredBy
<1>4. QED
  BY <1>3 DEF Considered

\* A market whose book was answered with q is considered by that quote.
LEMMA OneMoreConsidered ==
  ASSUME NEW e, NEW ms \in Seq(Market), NEW sh, NEW f, NEW a \in DOMAIN ms,
         Considered(e, ms, sh, f, a - 1), Mapped(ms[a]),
         NEW q \in QuoteOf(e), q \in sh[ms[a].market_id],
         NEW g, g = IF Clears(e, ms[a], q) THEN Append(f, Offer(e, ms[a], q)) ELSE f
  PROVE  Considered(e, ms, sh, g, a)
<1>1. PICK old, place : ConsideredBy(e, ms, sh, f, a - 1, old, place)
  BY DEF Considered
<1> DEFINE pick == [old EXCEPT ![a] = q]
<1>2. /\ pick \in [DOMAIN ms -> Quote] /\ pick[a] = q
      /\ \A i \in DOMAIN ms : i # a => pick[i] = old[i]
  BY <1>1 DEF ConsideredBy, QuoteOf
<1> HIDE DEF pick
<1>3. \A i \in DOMAIN ms :
        Mapped(ms[i]) => pick[i] \in QuoteOf(e) /\ pick[i] \in sh[ms[i].market_id]
  BY <1>1, <1>2 DEF ConsideredBy
<1>4. f \in Seq(OffersOf(e)) /\ Len(f) \in Nat
  BY DEF Considered
<1>5. a \in Nat /\ DOMAIN ms \subseteq Nat /\ \A i \in DOMAIN ms : ms[i] \in Market
  OBVIOUS
<1>6. \A k \in 1..Len(f) : place[k] \in DOMAIN ms /\ place[k] <= a - 1 /\ place[k] # a
  BY <1>1, <1>5 DEF ConsideredBy
<1>7. \A k \in 1..Len(f) : f[k] = Offer(e, ms[place[k]], pick[place[k]])
  BY <1>1, <1>2, <1>6 DEF ConsideredBy
<1>8. \A i \in DOMAIN ms : i # a =>
        ((\E k \in 1..Len(f) : place[k] = i)
           <=> i <= a /\ Mapped(ms[i]) /\ Clears(e, ms[i], pick[i]))
  <2>1. \A i \in DOMAIN ms : i # a => (i <= a - 1 <=> i <= a)
    BY <1>5
  <2>2. QED
    BY <1>1, <1>2, <2>1 DEF ConsideredBy
<1>9. CASE ~Clears(e, ms[a], q)
  <2>1. g = f
    BY <1>9
  <2>2. \A i \in DOMAIN ms :
          (\E k \in 1..Len(f) : place[k] = i)
            <=> i <= a /\ Mapped(ms[i]) /\ Clears(e, ms[i], pick[i])
    <3>1. ~(\E k \in 1..Len(f) : place[k] = a)
      BY <1>6
    <3>2. ~Clears(e, ms[a], pick[a])
      BY <1>2, <1>9
    <3>3. QED
      BY <1>8, <3>1, <3>2
  <2>3. ConsideredBy(e, ms, sh, f, a, pick, place)
    BY <1>1, <1>2, <1>3, <1>7, <2>2 DEF ConsideredBy
  <2>4. QED
    BY <1>4, <2>1, <2>3 DEF Considered
<1>10. CASE Clears(e, ms[a], q)
  <2>1. g = Append(f, Offer(e, ms[a], q))
    BY <1>10
  <2>2. Offer(e, ms[a], q) \in OffersOf(e)
    BY <1>5 DEF QuoteOf, OffersOf
  <2> DEFINE o == Offer(e, ms[a], q)
             at2 == [k \in 1..Len(g) |-> IF k = Len(g) THEN a ELSE place[k]]
  <2> HIDE DEF o
  <2>3. /\ g \in Seq(OffersOf(e)) /\ Len(g) = Len(f) + 1 /\ g[Len(g)] = o
        /\ \A k \in 1..Len(f) : g[k] = f[k]
    BY <1>4, <2>1, <2>2 DEF o
  <2>4. /\ \A k \in 1..Len(g) : k = Len(g) \/ k \in 1..Len(f)
        /\ \A k \in 1..Len(f) : k # Len(g) /\ k \in 1..Len(g)
        /\ Len(g) \in 1..Len(g)
    BY <1>4, <2>3
  <2>5. /\ at2 \in [1..Len(g) -> DOMAIN ms] /\ at2[Len(g)] = a
        /\ \A k \in 1..Len(f) : at2[k] = place[k]
    BY <1>6, <2>4
  <2> HIDE DEF at2
  <2>6. \A k \in 1..Len(g) : g[k] = Offer(e, ms[at2[k]], pick[at2[k]])
    <3>1. g[Len(g)] = Offer(e, ms[at2[Len(g)]], pick[at2[Len(g)]])
      BY <1>2, <2>3, <2>5 DEF o
    <3>2. \A k \in 1..Len(f) : g[k] = Offer(e, ms[at2[k]], pick[at2[k]])
      BY <1>7, <2>3, <2>5
    <3>3. QED
      BY <2>4, <3>1, <3>2
  <2>7. \A k, l \in 1..Len(g) : k < l => at2[k] < at2[l]
    <3> SUFFICES ASSUME NEW k \in 1..Len(g), NEW l \in 1..Len(g), k < l PROVE at2[k] < at2[l]
      OBVIOUS
    <3>1. k \in 1..Len(f)
      BY <1>4, <2>3
    <3>2. CASE l = Len(g)
      BY <1>5, <1>6, <2>5, <3>1, <3>2
    <3>3. CASE l \in 1..Len(f)
      BY <1>1, <2>5, <3>1, <3>3 DEF ConsideredBy
    <3>4. QED
      BY <2>4, <3>2, <3>3
  <2>8. \A i \in DOMAIN ms :
          (\E k \in 1..Len(g) : at2[k] = i)
            <=> i <= a /\ Mapped(ms[i]) /\ Clears(e, ms[i], pick[i])
    <3>1. Clears(e, ms[a], pick[a]) /\ a <= a /\ \E k \in 1..Len(g) : at2[k] = a
      BY <1>2, <1>5, <1>10, <2>4, <2>5
    <3>2. \A i \in DOMAIN ms : i # a =>
            ((\E k \in 1..Len(g) : at2[k] = i) <=> (\E k \in 1..Len(f) : place[k] = i))
      BY <2>4, <2>5
    <3>3. QED
      BY <1>8, <3>1, <3>2
  <2>9. ConsideredBy(e, ms, sh, g, a, pick, at2)
    BY <1>2, <1>3, <2>5, <2>6, <2>7, <2>8 DEF ConsideredBy
  <2>10. QED
    BY <2>3, <2>9 DEF Considered
<1>11. QED
  BY <1>9, <1>10

-----------------------------------------------------------------------------
\* A book with an ask has a price to buy at.
LEMMA AskType ==
  ASSUME NEW e \in Exchange, NEW q \in QuoteOf(e), Asks(e, q) # <<>>
  PROVE  BestAsk(Asks(e, q)) \in 0..Payout
<1> DEFINE asks == Asks(e, q)
<1>1. /\ q \in Seq([price : 0..Payout, size : Nat]) /\ Payout \in Nat
      /\ e = "synthetic" => Len(q) = 1
  BY MappingAssumption DEF QuoteOf
<1>2. /\ \A i \in DOMAIN q : q[i].price \in 0..Payout
      /\ Len(q) \in Nat /\ DOMAIN q = 1..Len(q)
  <2> DEFINE Level == [price : 0..Payout, size : Nat]
  <2>1. q \in Seq(Level)
    BY <1>1
  <2>2. \A l \in Level : l.price \in 0..Payout
    OBVIOUS
  <2> HIDE DEF Level
  <2>3. QED
    BY <2>1, <2>2
<1>3. \A p \in Int : Clip(p) \in 0..Payout
  BY <1>1 DEF Clip
<1>4. \A i \in DOMAIN asks : asks[i].price \in 0..Payout
  <2>1. CASE e = "kalshi"
    <3>1. \A i \in DOMAIN q : Payout - q[i].price \in Int
      BY <1>1, <1>2
    <3>2. asks = [i \in DOMAIN q |-> [price |-> Clip(Payout - q[i].price), size |-> q[i].size]]
      BY <2>1 DEF Asks
    <3>3. QED
      BY <1>3, <3>1, <3>2
  <2>2. CASE e = "polymarket"
    BY <1>1, <1>2, <2>2 DEF Asks
  <2>3. CASE e = "synthetic"
    <3>1. q[1].price \in Int /\ HalfSpread \in Int /\ LevelStep \in Int
      <4>1. 1 \in DOMAIN q
        BY <1>1, <1>2, <2>3
      <4>2. q[1].price \in 0..Payout
        BY <1>2, <4>1
      <4>3. QED
        BY <1>1, <4>2, MappingAssumption
    <3> DEFINE up(i) == q[1].price + HalfSpread + LevelStep * (i - 1)
    <3>2. \A i \in 1..3 : up(i) \in Int
      BY <3>1
    <3>3. asks = [i \in 1..3 |-> [price |-> Clip(up(i)), size |-> q[1].size]]
      BY <2>3 DEF Asks, SpreadAbove
    <3> HIDE DEF asks, up
    <3>4. \A i \in 1..3 : Clip(up(i)) \in 0..Payout
      BY <1>3, <3>2
    <3>5. QED
      BY <3>3, <3>4
  <2> HIDE DEF asks
  <2>4. QED
    BY <2>1, <2>2, <2>3 DEF Exchange
<1>5. BestAsk(asks) \in 0..Payout
  <2> DEFINE prices == {asks[i].price : i \in DOMAIN asks}
  <2>1. asks # <<>> /\ BestAsk(asks) = Min(prices)
    BY DEF BestAsk
  <2>2. prices \in SUBSET (0..Payout) /\ prices \in SUBSET Nat
    BY <1>1, <1>4
  <2>3. prices # {}
    <3>1. \E n \in Nat : DOMAIN asks = 1..n /\ asks = [k \in 1..n |-> asks[k]]
      <4>1. CASE e = "kalshi"
        BY <1>2, <4>1 DEF Asks
      <4>2. CASE e = "polymarket"
        BY <1>1, <1>2, <4>2 DEF Asks
      <4>3. CASE e = "synthetic"
        BY <4>3 DEF Asks, SpreadAbove
      <4>4. QED
        BY <4>1, <4>2, <4>3 DEF Exchange
    <3>2. DOMAIN asks # {}
      BY <2>1, <3>1
    <3>3. QED
      BY <3>2
  <2> HIDE DEF asks, prices
  <2>4. Min(prices) \in prices
    BY <2>2, <2>3, LeastNatural
  <2>5. QED
    BY <2>1, <2>2, <2>4
<1>6. QED
  BY <1>5

\* The depth of a book is a number of contracts.
LEMMA DepthType ==
  ASSUME NEW e \in Exchange, NEW q \in QuoteOf(e)
  PROVE  AskLiquidity(Asks(e, q)) \in Nat
<1> DEFINE asks == Asks(e, q)
           sizes == [i \in DOMAIN asks |-> asks[i].size]
<1>1. /\ \A i \in DOMAIN q : q[i].size \in Nat
      /\ Len(q) \in Nat /\ DOMAIN q = 1..Len(q)
      /\ e = "synthetic" => 1 \in DOMAIN q
  <2> DEFINE Level == [price : 0..Payout, size : Nat]
  <2>1. q \in Seq(Level) /\ (e = "synthetic" => Len(q) = 1)
    BY MappingAssumption DEF QuoteOf
  <2>2. \A l \in Level : l.size \in Nat
    OBVIOUS
  <2> HIDE DEF Level
  <2>3. QED
    BY <2>1, <2>2
<1>2. IsFiniteSet(DOMAIN asks) /\ \A i \in DOMAIN asks : asks[i].size \in Nat
  <2>1. \A n \in Nat : IsFiniteSet(1..n)
    BY FS_Interval
  <2>2. CASE e = "kalshi"
    BY <1>1, <2>1, <2>2 DEF Asks
  <2>3. CASE e = "polymarket"
    BY <1>1, <2>1, <2>3 DEF Asks
  <2>4. CASE e = "synthetic"
    <3>1. 3 \in Nat /\ q[1].size \in Nat
      BY <1>1, <2>4
    <3>2. QED
      BY <2>1, <2>4, <3>1 DEF Asks, SpreadAbove
  <2>5. QED
    BY <2>2, <2>3, <2>4 DEF Exchange
<1>3. DOMAIN sizes = DOMAIN asks /\ \A i \in DOMAIN asks : sizes[i] \in Nat
  BY <1>2
<1>4. AskLiquidity(asks) = SumFunctionOnSet(sizes, DOMAIN asks)
  BY <1>3 DEF AskLiquidity, SumFunction
<1> HIDE DEF sizes, asks
<1>5. SumFunctionOnSet(sizes, DOMAIN asks) \in Nat
  BY <1>2, <1>3, SumIsNatural
<1>6. QED
  BY <1>4, <1>5 DEF asks

\* What the allocator reads of an offer: tickets it can size.
LEMMA OfferType ==
  ASSUME NEW e \in Exchange, NEW m \in Market, Mapped(m), NEW q \in QuoteOf(e),
         Asks(e, q) # <<>>
  PROVE  /\ Offer(e, m, q).market_id = m.market_id
         /\ Offer(e, m, q).driver_id \in Driver \cup {None}
         /\ Offer(e, m, q).effective_ask \in 0..Payout
         /\ Offer(e, m, q).model_probability \in 0..Payout
         /\ Offer(e, m, q).conservative_probability \in 0..Payout
         /\ Offer(e, m, q).conservative_probability <= Offer(e, m, q).model_probability
         /\ Offer(e, m, q).liquidity \in Nat
         /\ Offer(e, m, q).conservative_edge =
              Offer(e, m, q).conservative_probability - Offer(e, m, q).effective_ask
<1>1. Payout \in Nat /\ Fee \in Nat /\ Slippage \in Nat
  BY MappingAssumption
<1>2. EffectiveAsk(BestAsk(Asks(e, q))) \in 0..Payout
  <2>1. \A p \in 0..Payout : EffectiveAsk(p) \in 0..Payout
    BY <1>1 DEF EffectiveAsk
  <2>2. QED
    BY <2>1, AskType
<1>3. ModelProb(m) \in 0..Payout
  BY MappingAssumption DEF Mapped, ModelProb
<1>4. Conservative(ModelProb(m)) \in 0..Payout /\ Conservative(ModelProb(m)) <= ModelProb(m)
  <2>1. StandardError[ModelProb(m)] \in Nat
    BY <1>3, MappingAssumption
  <2>2. QED
    BY <1>1, <1>3, <2>1 DEF Conservative
<1>5. AskLiquidity(Asks(e, q)) \in Nat
  BY DepthType
<1>6. MappedDriver(m) \in Driver \cup {None}
  <2>1. m.driver_id \in Driver \cup {None} /\ m.mentions \subseteq Driver
    BY DEF Market
  <2>2. Cardinality(m.mentions) = 1 => m.mentions # {}
    <3>1. Cardinality({}) = 0
      BY FS_EmptySet
    <3>2. ASSUME m.mentions = {} PROVE Cardinality(m.mentions) = 0
      BY <3>1, <3>2, Zenon
    <3>3. QED
      BY <3>2
  <2>3. QED
    BY <2>1, <2>2 DEF MappedDriver
<1>7. QED
  BY <1>2, <1>3, <1>4, <1>5, <1>6 DEF Offer

\* The score of an offer that clears is a number.
LEMMA ScoreType ==
  ASSUME NEW e \in Exchange, NEW m \in Market, Mapped(m), NEW q \in QuoteOf(e),
         Clears(e, m, q)
  PROVE  Offer(e, m, q).score \in Int /\ Offer(e, m, q).market_id = m.market_id
<1> DEFINE o == Offer(e, m, q)
<1>1. Asks(e, q) # <<>>
  BY DEF Clears, BestAsk
<1>2. /\ o.market_id = m.market_id
      /\ o.effective_ask \in Int /\ o.conservative_probability \in Int /\ o.liquidity \in Int
  BY <1>1, OfferType
<1>3. Confidence(m) \in Int /\ LeastOf(2 * MinLiquidity, o.liquidity) \in Int
  BY <1>2, MappingAssumption DEF Confidence, LeastOf
<1>4. o.score = (o.conservative_probability - o.effective_ask) * Confidence(m)
                  * LeastOf(2 * MinLiquidity, o.liquidity)
  BY DEF Offer
<1> HIDE DEF o
<1>5. \A x, y, z, w \in Int : (x - y) * z * w \in Int
  OBVIOUS
<1>6. o.score \in Int
  BY <1>2, <1>3, <1>4, <1>5
<1>7. QED
  BY <1>2, <1>6 DEF o

\* What ScanPromise takes from MarketMapping is what the scan takes from it.
LEMMA SameCardinality == \A S : Promise!Cardinality(S) = Cardinality(S)
  BY DEF Promise!Cardinality, Cardinality

\* The same market maps to the same contract.
LEMMA SameMapping ==
  ASSUME NEW m
  PROVE  /\ Promise!Mapped(m) = Mapped(m) /\ Promise!DetectContract(m) = DetectContract(m)
         /\ Promise!MappedDriver(m) = MappedDriver(m) /\ Promise!ModelProb(m) = ModelProb(m)
         /\ Promise!Confidence(m) = Confidence(m)
<1>1. Promise!DetectContract(m) = DetectContract(m)
  BY DEF Promise!DetectContract, DetectContract, Promise!Keywords, Keywords, Promise!Min, Min
<1>2. Promise!MappedDriver(m) = MappedDriver(m)
  BY SameCardinality DEF Promise!MappedDriver, MappedDriver
<1>3. Promise!Confidence(m) = Confidence(m)
  BY <1>1, <1>2, SameCardinality
  DEF Promise!Confidence, Confidence, Promise!Ambiguous, Ambiguous,
      Promise!SettlingRules, SettlingRules
<1>4. Promise!ModelProb(m) = ModelProb(m)
  BY <1>1, <1>2 DEF Promise!ModelProb, ModelProb, Promise!PricedContract, PricedContract
<1>5. QED
  BY <1>1, <1>2, <1>3, <1>4 DEF Promise!Mapped, Mapped

\* The same quote makes the same offer.
LEMMA SameOffer ==
  ASSUME NEW e, NEW m, NEW q
  PROVE  Promise!Offer(e, m, q) = Offer(e, m, q) /\ Promise!Clears(e, m, q) = Clears(e, m, q)
<1>1. Promise!Asks(e, q) = Asks(e, q)
  BY DEF Promise!Asks, Asks, Promise!SpreadAbove, SpreadAbove, Promise!Clip, Clip
<1>2. \A a : Promise!BestAsk(a) = BestAsk(a)
  BY DEF Promise!BestAsk, BestAsk, Promise!Min, Min
<1>3. \A a : Promise!AskLiquidity(a) = AskLiquidity(a)
  BY DEF Promise!AskLiquidity, AskLiquidity, Promise!SumFunction, SumFunction,
         Promise!SumFunctionOnSet, SumFunctionOnSet, Promise!FoldFunctionOnSet, FoldFunctionOnSet,
         Promise!MapThenFoldSet, MapThenFoldSet
<1>4. \A p, a, b : /\ Promise!Conservative(p) = Conservative(p)
                   /\ Promise!EffectiveAsk(p) = EffectiveAsk(p)
                   /\ Promise!LeastOf(a, b) = LeastOf(a, b)
  BY DEF Promise!Conservative, Conservative, Promise!EffectiveAsk, EffectiveAsk,
         Promise!LeastOf, LeastOf
<1>5. Promise!Offer(e, m, q) = Offer(e, m, q)
  BY <1>1, <1>2, <1>3, <1>4, SameMapping DEF Promise!Offer, Offer
<1>6. QED
  BY <1>1, <1>2, <1>5 DEF Promise!Clears, Clears

\* When the whole list has been considered, what was found, sorted, is its ranking.
LEMMA SortedIsRanking ==
  ASSUME NEW ms \in Seq(Market), NEW sh, NEW f, exchange \in Exchange,
         \A i, j \in DOMAIN ms : i # j => ms[i].market_id # ms[j].market_id,
         Considered(exchange, ms, sh, f, Len(ms))
  PROVE  \E pick \in [DOMAIN ms -> Quote] :
           /\ \A i \in DOMAIN ms : Mapped(ms[i]) => pick[i] \in sh[ms[i].market_id]
           /\ Promise!IsRanking(SortByScore(f), ms, pick)
           /\ Honest(exchange, ms, sh, SortByScore(f))
<1> DEFINE e == exchange
<1>1. PICK pick, place : ConsideredBy(e, ms, sh, f, Len(ms), pick, place)
  BY DEF Considered
<1> DEFINE clearing == {i \in DOMAIN ms :
                         Promise!Mapped(ms[i]) /\ Promise!Clears(exchange, ms[i], pick[i])}
           placeOf(o) == CHOOSE i \in clearing : ms[i].market_id = o.market_id
           keys == [i \in DOMAIN f |-> -f[i].score]
           turns == ArgSort(keys)
           list == SortByScore(f)
<1>2. /\ Len(f) \in Nat /\ DOMAIN f = 1..Len(f)
      /\ place \in [1..Len(f) -> DOMAIN ms] /\ DOMAIN ms = 1..Len(ms) /\ Len(ms) \in Nat
  BY <1>1 DEF Considered, ConsideredBy
<1>3. clearing = {place[k] : k \in 1..Len(f)}
  <2>1. \A i \in DOMAIN ms : i \in clearing <=> \E k \in 1..Len(f) : place[k] = i
    BY <1>1, <1>2, SameMapping, SameOffer DEF ConsideredBy
  <2>2. clearing \subseteq DOMAIN ms
    OBVIOUS
  <2> HIDE DEF clearing
  <2>3. QED
    BY <1>2, <2>1, <2>2
<1>4. \A k, l \in 1..Len(f) : place[k] = place[l] => k = l
  BY <1>1, <1>2 DEF ConsideredBy
<1>5. \A k \in 1..Len(f) :
        /\ f[k] = Offer(e, ms[place[k]], pick[place[k]])
        /\ f[k].score \in Int /\ f[k].market_id = ms[place[k]].market_id
  <2> SUFFICES ASSUME NEW k \in 1..Len(f)
               PROVE  /\ f[k] = Offer(e, ms[place[k]], pick[place[k]])
                      /\ f[k].score \in Int /\ f[k].market_id = ms[place[k]].market_id
    OBVIOUS
  <2> DEFINE i == place[k]
  <2>1. i \in clearing /\ i \in DOMAIN ms
    BY <1>2, <1>3
  <2>2. Mapped(ms[i]) /\ Clears(e, ms[i], pick[i]) /\ ms[i] \in Market
    BY <2>1, SameMapping, SameOffer
  <2>3. pick[i] \in QuoteOf(e) /\ f[k] = Offer(e, ms[i], pick[i])
    BY <1>1, <2>1, <2>2 DEF ConsideredBy
  <2> HIDE DEF i
  <2>4. Offer(e, ms[i], pick[i]).score \in Int
        /\ Offer(e, ms[i], pick[i]).market_id = ms[i].market_id
    BY <2>2, <2>3, ScoreType
  <2>5. QED
    BY <2>3, <2>4 DEF i
<1> HIDE DEF clearing
<1>6. /\ keys \in Seq(Int) /\ Len(keys) = Len(f) /\ DOMAIN keys = 1..Len(f)
      /\ \A k \in 1..Len(f) : keys[k] = -f[k].score
  <2>1. \A k \in 1..Len(f) : -f[k].score \in Int
    BY <1>5
  <2>2. keys \in [1..Len(f) -> Int]
    BY <1>2, <2>1
  <2>3. QED
    BY <1>2, <2>2
<1>7. /\ turns \in [1..Len(f) -> 1..Len(f)]
      /\ \A j \in 1..Len(f) : \E k \in 1..Len(f) : turns[k] = j
      /\ \A k, l \in 1..Len(f) : k < l =>
           /\ keys[turns[k]] <= keys[turns[l]]
           /\ keys[turns[k]] = keys[turns[l]] => turns[k] < turns[l]
  <2> HIDE DEF keys
  <2>1. turns \in [1..Len(keys) -> DOMAIN keys]
    BY <1>6, ArgSortPermutes
  <2>2. \A j \in DOMAIN keys : \E k \in 1..Len(keys) : turns[k] = j
    BY <1>6, EveryPlaceVisited
  <2>3. \A k, l \in 1..Len(keys) : k < l =>
           /\ keys[turns[k]] <= keys[turns[l]]
           /\ keys[turns[k]] = keys[turns[l]] => turns[k] < turns[l]
    BY <1>6, ArgSortAscends, ArgSortIsStable
  <2>4. QED
    BY <1>6, <2>1, <2>2, <2>3
<1>8. list = [k \in 1..Len(f) |-> f[turns[k]]]
  BY DEF SortByScore
<1> HIDE DEF turns, keys, list
<1>9. /\ Len(list) = Len(f) /\ DOMAIN list = 1..Len(f)
      /\ \A k \in 1..Len(f) : list[k] = f[turns[k]] /\ turns[k] \in 1..Len(f)
  BY <1>2, <1>7, <1>8
<1>10. Len(list) = Cardinality(clearing)
  <2>1. place \in Surjection(1..Len(f), clearing)
    BY <1>2, <1>3 DEF Surjection
  <2>2. place \in Injection(1..Len(f), clearing)
    BY <1>2, <1>3, <1>4 DEF Injection, IsInjective
  <2>3. IsFiniteSet(1..Len(f)) /\ Cardinality(1..Len(f)) = Len(f)
    <3>1. Len(f) \in Nat
      BY <1>2
    <3> DEFINE len == Len(f)
    <3>2. len \in Nat
      BY <3>1
    <3> HIDE DEF len
    <3>3. IsFiniteSet(1..len) /\ Cardinality(1..len) = IF 1 > len THEN 0 ELSE len - 1 + 1
      BY <3>2, FS_Interval
    <3>4. IsFiniteSet(1..len) /\ Cardinality(1..len) = len
      BY <3>2, <3>3
    <3>5. QED
      BY <3>4 DEF len
  <2>4. Cardinality(clearing) = Cardinality(1..Len(f))
    BY <2>1, <2>2, <2>3, FS_Surjection
  <2>5. QED
    BY <1>9, <2>3, <2>4
<1>11. {list[k] : k \in DOMAIN list} = {Offer(e, ms[i], pick[i]) : i \in clearing}
  <2>1. \A k \in DOMAIN list : \E i \in clearing : list[k] = Offer(e, ms[i], pick[i])
    <3> SUFFICES ASSUME NEW k \in DOMAIN list
                 PROVE  \E i \in clearing : list[k] = Offer(e, ms[i], pick[i])
      OBVIOUS
    <3>1. PICK j \in 1..Len(f) : list[k] = f[j]
      BY <1>9
    <3>2. place[j] \in clearing /\ list[k] = Offer(e, ms[place[j]], pick[place[j]])
      BY <1>3, <1>5, <3>1
    <3>3. QED
      BY <3>2
  <2>2. \A i \in clearing : \E k \in DOMAIN list : list[k] = Offer(e, ms[i], pick[i])
    <3> SUFFICES ASSUME NEW i \in clearing
                 PROVE  \E k \in DOMAIN list : list[k] = Offer(e, ms[i], pick[i])
      OBVIOUS
    <3>1. PICK j \in 1..Len(f) : place[j] = i
      BY <1>3
    <3>2. PICK k \in 1..Len(f) : turns[k] = j
      BY <1>7
    <3>3. k \in DOMAIN list /\ list[k] = Offer(e, ms[i], pick[i])
      BY <1>5, <1>9, <3>1, <3>2
    <3>4. QED
      BY <3>3
  <2>3. QED
    BY <2>1, <2>2
<1>12. \A k \in 1..Len(f) : placeOf(list[k]) = place[turns[k]]
  <2> SUFFICES ASSUME NEW k \in 1..Len(f) PROVE placeOf(list[k]) = place[turns[k]]
    OBVIOUS
  <2>1. place[turns[k]] \in clearing /\ list[k].market_id = ms[place[turns[k]]].market_id
    BY <1>3, <1>5, <1>9
  <2>2. \A i \in clearing : ms[i].market_id = list[k].market_id => i = place[turns[k]]
    <3>1. clearing \subseteq DOMAIN ms
      BY DEF clearing
    <3>2. QED
      BY <2>1, <3>1
  <2>3. QED
    BY <2>1, <2>2
<1>13. \A k, l \in DOMAIN list : k < l =>
         \/ list[k].score > list[l].score
         \/ list[k].score = list[l].score /\ place[turns[k]] < place[turns[l]]
  <2> SUFFICES ASSUME NEW k \in 1..Len(f), NEW l \in 1..Len(f), k < l
               PROVE  \/ list[k].score > list[l].score
                      \/ list[k].score = list[l].score /\ place[turns[k]] < place[turns[l]]
    BY <1>9
  <2>1. /\ turns[k] \in 1..Len(f) /\ turns[l] \in 1..Len(f)
        /\ list[k] = f[turns[k]] /\ list[l] = f[turns[l]]
        /\ keys[turns[k]] = -f[turns[k]].score /\ keys[turns[l]] = -f[turns[l]].score
        /\ f[turns[k]].score \in Int /\ f[turns[l]].score \in Int
    BY <1>5, <1>6, <1>9
  <2>2. /\ keys[turns[k]] <= keys[turns[l]]
        /\ keys[turns[k]] = keys[turns[l]] => turns[k] < turns[l]
    BY <1>7
  <2>3. turns[k] < turns[l] => place[turns[k]] < place[turns[l]]
    BY <1>1, <2>1 DEF ConsideredBy
  <2>4. QED
    BY <2>1, <2>2, <2>3
<1>14. Promise!IsRanking(list, ms, pick)
  <2>1. {list[k] : k \in DOMAIN list} = {Promise!Offer(exchange, ms[i], pick[i]) : i \in clearing}
    BY <1>11, SameOffer
  <2> HIDE DEF placeOf
  <2>2. \A k, l \in DOMAIN list : k < l =>
          \/ list[k].score > list[l].score
          \/ list[k].score = list[l].score /\ placeOf(list[k]) < placeOf(list[l])
    BY <1>9, <1>12, <1>13
  <2>3. Len(list) = Promise!Cardinality(clearing)
    BY <1>10, SameCardinality
  <2>4. QED
    BY <2>1, <2>2, <2>3, Zenon DEF Promise!IsRanking, placeOf, clearing
<1>15. /\ pick \in [DOMAIN ms -> Quote]
       /\ \A i \in DOMAIN ms : Mapped(ms[i]) => pick[i] \in sh[ms[i].market_id]
  BY <1>1 DEF ConsideredBy
<1>16. Honest(e, ms, sh, list)
  <2> SUFFICES ASSUME NEW k \in DOMAIN list
               PROVE  \E i \in DOMAIN ms : \E q \in sh[ms[i].market_id] :
                        Mapped(ms[i]) /\ Clears(e, ms[i], q) /\ list[k] = Offer(e, ms[i], q)
    BY <1>2, <1>9 DEF Honest
  <2>1. PICK i \in clearing : list[k] = Promise!Offer(exchange, ms[i], pick[i])
    BY <1>11, SameOffer
  <2>2. i \in DOMAIN ms /\ Mapped(ms[i]) /\ Clears(e, ms[i], pick[i])
    BY SameMapping, SameOffer DEF clearing
  <2>3. pick[i] \in sh[ms[i].market_id] /\ list[k] = Offer(e, ms[i], pick[i])
    BY <1>15, <2>1, <2>2, SameOffer
  <2>4. QED
    BY <2>2, <2>3
<1>17. QED
  BY <1>14, <1>15, <1>16 DEF list

-----------------------------------------------------------------------------
\* Every market of the venue has a place of its own, and every mapped one a quote.
LEMMA ListFacts ==
  ASSUME VenueInv, NEW ms \in {listing, <<>>}
  PROVE  /\ ms \in Seq(Market)
         /\ \A i, j \in DOMAIN ms : i # j => ms[i].market_id # ms[j].market_id
         /\ \A i \in DOMAIN ms : Mapped(ms[i]) => ms[i].market_id \in DOMAIN quotes
<1>1. CASE ms = <<>>
  BY <1>1
<1>2. CASE ms = listing
  <2>1. ms \in Seq(Market) /\ \A i, j \in DOMAIN ms : i # j => ms[i].market_id # ms[j].market_id
    BY <1>2, ScanAssumption DEF VenueInv
  <2>2. \A i \in DOMAIN ms : Mapped(ms[i]) => ms[i].market_id \in DOMAIN quotes
    BY <1>2 DEF VenueInv
  <2>3. QED
    BY <2>1, <2>2
<1>3. QED
  BY <1>1, <1>2

\* From one await to the next: the invariant goes on, and a scan that ends
\* publishes the ranking of the whole list.
LEMMA ContinuePublishes ==
  ASSUME ScanInv, NEW i \in Nat, Continue(i), status = "scanning",
         markets' \in {listing, <<>>}, i <= Len(markets'), i > 0 => Mapped(markets'[i]),
         Considered(exchange, markets', shown, found', i),
         n_reviewed_out = Reviewed(markets', i - 1),
         UNCHANGED <<exchange, listing, quotes, shown>>
  PROVE  /\ ScanInv'
         /\ status' \in {"scanning", "done", "failed"}
         /\ status' = "done" =>
              Promise!ScanPublishes /\ Honest(exchange, markets', shown, ranking')
         /\ status' # "done" => ranking' = ranking
<1> DEFINE ms == markets'
           n == NextMapped(ms, i)
<1>1. /\ ms \in Seq(Market) /\ Len(ms) \in Nat /\ i \in 0..Len(ms)
      /\ \A k, l \in DOMAIN ms : k # l => ms[k].market_id # ms[l].market_id
  <2>1. ms \in {listing, <<>>} /\ i <= Len(ms)
    OBVIOUS
  <2> HIDE DEF ms
  <2>2. /\ ms \in Seq(Market)
        /\ \A k, l \in DOMAIN ms : k # l => ms[k].market_id # ms[l].market_id
    BY <2>1, ListFacts DEF ScanInv
  <2>3. QED
    BY <2>1, <2>2
<1> HIDE DEF ms
<1>2. /\ n \in (i + 1)..(Len(ms) + 1)
      /\ \A j \in (i + 1)..(n - 1) : ~Mapped(ms[j])
      /\ n <= Len(ms) => Mapped(ms[n])
  BY <1>1, NextMappedFacts
<1>3. i > 0 => Mapped(ms[i])
  BY DEF ms
<1>4. Reviewed(ms, n - 1) = Reviewed(ms, i - 1) + (n - i - 1)
  BY <1>1, <1>3, ReviewedGrows
<1>5. /\ at' = n /\ n_reviewed_out' = Reviewed(ms, i - 1) + (n - i - 1)
      /\ n > Len(ms) => status' = "done" /\ waiting' = "no" /\ ranking' = SortByScore(found')
      /\ ~(n > Len(ms)) => /\ ranking' = ranking
                           /\ \/ status' = status /\ waiting' = "sent"
                              \/ status' = "failed" /\ waiting' = "no"
  BY DEF Continue, ms
<1>6. n_reviewed_out' = Reviewed(ms, n - 1)
  BY <1>4, <1>5
<1>7. Considered(exchange, ms, shown, found', n - 1)
  <2>1. n - 1 \in Nat /\ i <= n - 1
    BY <1>1, <1>2
  <2>2. Considered(exchange, ms, shown, found', i)
    BY DEF ms
  <2>3. QED
    BY <1>1, <1>2, <2>1, <2>2, SkippedAreConsidered
<1> HIDE DEF n
<1>8. n \in Nat /\ n > 0 /\ (n > Len(ms) \/ n \in DOMAIN ms)
  BY <1>1, <1>2
<1>9. VenueInv'
  <2>1. VenueInv /\ status = "scanning" /\ status' # "idle"
    BY <1>5 DEF ScanInv
  <2>2. QED
    BY <2>1 DEF VenueInv
<1>10. PhaseInv'
  <2>1. ms \in {listing, <<>>}'
    BY DEF ms
  <2>2. QED
    BY <1>2, <1>5, <1>8, <2>1 DEF PhaseInv, ms
<1>11. ProgressInv'
  BY <1>5, <1>6, <1>7, <1>8 DEF ProgressInv, ms
<1>12. ASSUME status' = "done"
       PROVE  Promise!ScanPublishes /\ Honest(exchange, markets', shown, ranking')
  <2>1. n = Len(ms) + 1 /\ ranking' = SortByScore(found')
    BY <1>1, <1>2, <1>5, <1>8, <1>12
  <2>2. Considered(exchange, ms, shown, found', Len(ms)) /\ n_reviewed_out' = Reviewed(ms, Len(ms))
    BY <1>1, <1>6, <1>7, <2>1
  <2>3. exchange \in Exchange
    BY DEF ScanInv, VenueInv
  <2>4. PICK pick \in [DOMAIN ms -> Quote] :
          /\ \A j \in DOMAIN ms : Mapped(ms[j]) => pick[j] \in shown[ms[j].market_id]
          /\ Promise!IsRanking(SortByScore(found'), ms, pick)
          /\ Honest(exchange, ms, shown, SortByScore(found'))
    BY <1>1, <2>2, <2>3, SortedIsRanking
  <2>5. n_reviewed_out' = Promise!Cardinality({j \in DOMAIN ms : ~Promise!Mapped(ms[j])})
    <3>1. {j \in DOMAIN ms : ~Promise!Mapped(ms[j])} = {j \in 1..Len(ms) : ~Mapped(ms[j])}
      BY <1>1, SameMapping
    <3>2. QED
      BY <2>2, <3>1, SameCardinality DEF Reviewed
  <2>6. \A j \in DOMAIN ms : Promise!Mapped(ms[j]) => pick[j] \in shown[ms[j].market_id]
    BY <2>4, SameMapping
  <2>7. Promise!IsRanking(ranking', ms, pick)
    BY <2>1, <2>4
  <2>8. status = "scanning" /\ UNCHANGED <<exchange, quotes, shown>>
    OBVIOUS
  <2>9. (IF status = "done" THEN markets ELSE <<>>)' = ms
        /\ (IF status = "done" THEN n_reviewed_out ELSE 0)' = n_reviewed_out'
    BY <1>12 DEF ms
  <2>10. Honest(exchange, markets', shown, ranking')
    BY <2>1, <2>4 DEF ms
  <2>11. QED
    BY <1>12, <2>5, <2>6, <2>7, <2>8, <2>9, <2>10 DEF Promise!ScanPublishes
<1>13. QED
  BY <1>5, <1>9, <1>10, <1>11, <1>12 DEF ScanInv

\* A step of the promise, or nothing that a caller can see.
Kept == Promise!PromiseNext \/ UNCHANGED Promise!promiseVars

\* Before the scan is over nothing of the list is promised.
LEMMA NothingPromised ==
  ASSUME status # "done", status' # "done", ranking' = ranking,
         UNCHANGED <<exchange, quotes, shown>>,
         status' = status \/ (status \in {"idle", "scanning"} /\ status' = "failed")
  PROVE  Kept
<1>1. /\ (IF status = "done" THEN markets ELSE <<>>)' = (IF status = "done" THEN markets ELSE <<>>)
      /\ (IF status = "done" THEN n_reviewed_out ELSE 0)'
           = (IF status = "done" THEN n_reviewed_out ELSE 0)
  OBVIOUS
<1>2. CASE status' = status
  BY <1>1, <1>2 DEF Kept, Promise!promiseVars
<1>3. CASE status \in {"idle", "scanning"} /\ status' = "failed"
  BY <1>1, <1>3 DEF Kept, Promise!PromiseNext, Promise!ScanFails
<1>4. QED
  BY <1>2, <1>3

\* A book that moves is a quote shown.
LEMMA BookMovesKept ==
  ASSUME ScanInv, NEW m \in DOMAIN quotes, NEW q \in Quote, BookMoves(m, q)
  PROVE  ScanInv' /\ Kept
<1>1. /\ status = "scanning" /\ exchange # "synthetic"
      /\ quotes' = [quotes EXCEPT ![m] = q] /\ shown' = [shown EXCEPT ![m] = @ \cup {q}]
      /\ UNCHANGED <<exchange, listing, status, waiting, answer, markets, at, found,
                     n_reviewed_out, ranking>>
  BY DEF BookMoves, venueVars, scanVars
<1>2. /\ quotes \in [DOMAIN quotes -> QuoteOf(exchange)] /\ QuoteOf(exchange) = Quote
      /\ shown \in [DOMAIN quotes -> SUBSET QuoteOf(exchange)]
      /\ \A k \in DOMAIN quotes : quotes[k] \in shown[k]
  BY <1>1 DEF ScanInv, VenueInv, QuoteOf
<1>3. /\ quotes' \in [DOMAIN quotes -> Quote] /\ DOMAIN quotes' = DOMAIN quotes
      /\ shown' \in [DOMAIN quotes -> SUBSET Quote]
      /\ \A k \in DOMAIN quotes : shown'[k] = shown[k] \cup {quotes'[k]}
  BY <1>1, <1>2
<1>4. VenueInv'
  BY <1>1, <1>2, <1>3 DEF ScanInv, VenueInv
<1>5. \A i \in DOMAIN markets : Mapped(markets[i]) => markets[i].market_id \in DOMAIN quotes
  BY ListFacts DEF ScanInv, PhaseInv
<1>6. PhaseInv'
  <2>1. waiting = "served" /\ at > 0 => answer \in shown'[markets[at].market_id]
    BY <1>1, <1>3, <1>5 DEF ScanInv, PhaseInv
  <2>2. QED
    BY <1>1, <2>1 DEF ScanInv, PhaseInv
<1>7. ProgressInv'
  <2>1. \A i \in DOMAIN markets :
          Mapped(markets[i]) => shown[markets[i].market_id] \subseteq shown'[markets[i].market_id]
    BY <1>3, <1>5
  <2>2. ASSUME at > 0 PROVE Considered(exchange, markets, shown', found, at - 1)
    BY <1>1, <2>1, <2>2, ConsideredStays DEF ScanInv, ProgressInv
  <2>3. QED
    BY <1>1, <2>2 DEF ScanInv, ProgressInv
<1>8. Promise!BookMoves
  <2>1. shown' = [k \in DOMAIN quotes |-> shown[k] \cup {quotes'[k]}]
    BY <1>3
  <2>2. /\ (IF status = "done" THEN markets ELSE <<>>)' = (IF status = "done" THEN markets ELSE <<>>)
        /\ (IF status = "done" THEN n_reviewed_out ELSE 0)'
             = (IF status = "done" THEN n_reviewed_out ELSE 0)
    BY <1>1
  <2>3. QED
    BY <1>1, <1>3, <2>1, <2>2 DEF Promise!BookMoves
<1>9. QED
  BY <1>4, <1>6, <1>7, <1>8 DEF ScanInv, Kept, Promise!PromiseNext

\* The scan begins, or fails at once because the flag is down.
LEMMA AskKept ==
  ASSUME ScanInv, Ask
  PROVE  ScanInv' /\ Kept
<1>1. /\ status = "idle" /\ UNCHANGED <<exchange, listing, quotes, markets, at, found,
                                        n_reviewed_out, ranking>>
      /\ markets = <<>> /\ found = <<>> /\ n_reviewed_out = 0 /\ at = 0
  <2>1. /\ status = "idle" /\ UNCHANGED <<exchange, listing, quotes, markets, at, found,
                                          n_reviewed_out, ranking>>
    BY DEF Ask, venueVars
  <2>2. at = 0
    BY <2>1 DEF ScanInv, PhaseInv
  <2>3. QED
    BY <2>1, <2>2 DEF ScanInv, PhaseInv
<1>2. CASE MayAsk
  <2>1. status' = "scanning" /\ waiting' = "sent" /\ shown' = [m \in DOMAIN quotes |-> {quotes[m]}]
    BY <1>2 DEF Ask
  <2>2. ScanInv'
    BY <1>1, <2>1 DEF ScanInv, VenueInv, PhaseInv, ProgressInv
  <2>3. Promise!ScanBegins
    BY <1>1, <2>1 DEF Promise!ScanBegins
  <2>4. QED
    BY <2>2, <2>3 DEF Kept, Promise!PromiseNext
<1>3. CASE ~MayAsk
  <2>1. status' = "failed" /\ waiting' = "no" /\ shown' = [m \in DOMAIN quotes |-> {}]
    BY <1>3 DEF Ask
  <2>2. shown' = shown
    BY <1>1, <2>1 DEF ScanInv, VenueInv
  <2>3. ScanInv'
    BY <1>1, <2>1, <2>2 DEF ScanInv, VenueInv, PhaseInv, ProgressInv
  <2>4. Kept
    BY <1>1, <2>1, <2>2, NothingPromised
  <2>5. QED
    BY <2>3, <2>4
<1>4. QED
  BY <1>2, <1>3

\* The list arrives, or is taken for an empty one.
LEMMA ListArrivesKept ==
  ASSUME ScanInv, NEW list \in {listing, <<>>}, ListArrives(list)
  PROVE  /\ ScanInv' /\ Kept
         /\ status' = "done" => Honest(exchange, markets', shown, ranking')
         /\ status' # "done" => ranking' = ranking
<1>1. /\ waiting = "served" /\ at = 0 /\ markets' = list /\ found' = found /\ Continue(0)
      /\ UNCHANGED <<exchange, listing, quotes, shown>>
  BY DEF ListArrives, venueVars, bookVars
<1>2. status = "scanning" /\ found = <<>> /\ n_reviewed_out = 0
  BY <1>1 DEF ScanInv, PhaseInv
<1>3. /\ list \in Seq(Market)
      /\ \A i \in DOMAIN list : Mapped(list[i]) =>
           quotes[list[i].market_id] \in QuoteOf(exchange)
           /\ quotes[list[i].market_id] \in shown[list[i].market_id]
  <2>1. /\ list \in Seq(Market)
        /\ \A i \in DOMAIN list : Mapped(list[i]) => list[i].market_id \in DOMAIN quotes
    BY ListFacts DEF ScanInv
  <2>2. \A m \in DOMAIN quotes : quotes[m] \in QuoteOf(exchange) /\ quotes[m] \in shown[m]
    BY <1>2 DEF ScanInv, VenueInv
  <2>3. QED
    BY <2>1, <2>2
<1>4. Considered(exchange, list, shown, <<>>, 0)
  BY <1>3, NothingConsidered
<1>5. Reviewed(list, 0 - 1) = 0
  <2>1. {i \in 1..(0 - 1) : ~Mapped(list[i])} = {}
    OBVIOUS
  <2>2. QED
    BY <2>1, FS_EmptySet DEF Reviewed
<1>6. 0 <= Len(list) /\ ~(0 > 0)
  BY <1>3
<1>7. /\ ScanInv' /\ status' \in {"scanning", "done", "failed"}
      /\ status' = "done" =>
           Promise!ScanPublishes /\ Honest(exchange, markets', shown, ranking')
      /\ status' # "done" => ranking' = ranking
  <2>1. /\ markets' \in {listing, <<>>}' /\ markets' = list /\ 0 <= Len(markets')
        /\ Considered(exchange, markets', shown, found', 0)
        /\ n_reviewed_out = Reviewed(markets', 0 - 1)
    BY <1>1, <1>2, <1>4, <1>5, <1>6
  <2>2. markets' \in {listing, <<>>}
    BY <1>1, <2>1
  <2>3. QED
    BY <1>1, <1>2, <1>6, <2>1, <2>2, ContinuePublishes
<1>8. Kept
  <2>1. CASE status' = "done"
    BY <1>7, <2>1 DEF Kept, Promise!PromiseNext
  <2>2. CASE status' # "done"
    BY <1>1, <1>2, <1>7, <2>2, NothingPromised
  <2>3. QED
    BY <2>1, <2>2
<1>9. QED
  BY <1>7, <1>8

\* A book arrives, and its offer is appended if it clears.
LEMMA BookArrivesKept ==
  ASSUME ScanInv, BookArrives
  PROVE  /\ ScanInv' /\ Kept
         /\ status' = "done" => Honest(exchange, markets', shown, ranking')
         /\ status' # "done" => ranking' = ranking
<1>1. /\ waiting = "served" /\ at > 0 /\ markets' = markets /\ Continue(at)
      /\ found' = IF Clears(exchange, markets[at], answer)
                  THEN Append(found, Offer(exchange, markets[at], answer)) ELSE found
      /\ UNCHANGED <<exchange, listing, quotes, shown>>
  BY DEF BookArrives, venueVars, bookVars
<1>2. /\ status = "scanning" /\ at \in DOMAIN markets /\ Mapped(markets[at]) /\ at \in Nat
      /\ answer \in shown[markets[at].market_id] /\ markets \in {listing, <<>>}
      /\ Considered(exchange, markets, shown, found, at - 1)
      /\ n_reviewed_out = Reviewed(markets, at - 1)
  BY <1>1 DEF ScanInv, PhaseInv, ProgressInv
<1>3. /\ markets \in Seq(Market) /\ at <= Len(markets)
      /\ markets[at].market_id \in DOMAIN quotes
  BY <1>2, ListFacts DEF ScanInv
<1>4. answer \in QuoteOf(exchange)
  BY <1>2, <1>3 DEF ScanInv, VenueInv
<1>5. Considered(exchange, markets, shown, found', at)
  BY <1>1, <1>2, <1>3, <1>4, OneMoreConsidered
<1>6. /\ ScanInv' /\ status' \in {"scanning", "done", "failed"}
      /\ status' = "done" =>
           Promise!ScanPublishes /\ Honest(exchange, markets', shown, ranking')
      /\ status' # "done" => ranking' = ranking
  <2>1. /\ markets' \in {listing, <<>>} /\ at <= Len(markets') /\ Mapped(markets'[at])
        /\ Considered(exchange, markets', shown, found', at)
        /\ n_reviewed_out = Reviewed(markets', at - 1)
    BY <1>1, <1>2, <1>3, <1>5
  <2>2. QED
    BY <1>1, <1>2, <2>1, ContinuePublishes
<1>7. Kept
  <2>1. CASE status' = "done"
    BY <1>6, <2>1 DEF Kept, Promise!PromiseNext
  <2>2. CASE status' # "done"
    BY <1>1, <1>2, <1>6, <2>2, NothingPromised
  <2>3. QED
    BY <2>1, <2>2
<1>8. QED
  BY <1>6, <1>7

\* Every step of the scan, and of what goes on around it, keeps the promise.
LEMMA StepKept ==
  ASSUME ScanInv, [ScanNext]_vars
  PROVE  ScanInv' /\ Kept
<1>1. ASSUME NEW m \in DOMAIN quotes, NEW q \in Quote, BookMoves(m, q) PROVE ScanInv' /\ Kept
  BY <1>1, BookMovesKept
<1>2. CASE SendProbe \/ (\E ok \in BOOLEAN : ProbeAnswered(ok)) \/ UNCHANGED vars
  <2>1. UNCHANGED <<exchange, listing, quotes, shown, status, waiting, answer, markets, at,
                    found, n_reviewed_out, ranking>>
    BY <1>2 DEF SendProbe, ProbeAnswered, venueVars, bookVars, scanVars, vars
  <2>2. ScanInv'
    BY <2>1 DEF ScanInv, VenueInv, PhaseInv, ProgressInv
  <2>3. Kept
    BY <2>1 DEF Kept, Promise!promiseVars
  <2>4. QED
    BY <2>2, <2>3
<1>3. CASE Ask
  BY <1>3, AskKept
<1>4. CASE Serve
  <2>1. /\ waiting = "sent" /\ waiting' = "served"
        /\ answer' = IF at = 0 THEN <<>> ELSE quotes[markets[at].market_id]
        /\ UNCHANGED <<exchange, listing, quotes, shown, status, markets, at, found,
                       n_reviewed_out, ranking>>
    BY <1>4 DEF Serve, venueVars, bookVars
  <2>2. at > 0 => answer' \in shown[markets[at].market_id]
    <3>1. ASSUME at > 0
          PROVE  at \in DOMAIN markets /\ Mapped(markets[at]) /\ status = "scanning"
      BY <2>1, <3>1 DEF ScanInv, PhaseInv
    <3>2. ASSUME at > 0
          PROVE  markets[at].market_id \in DOMAIN quotes
      BY <3>1, <3>2, ListFacts DEF ScanInv, PhaseInv
    <3>3. QED
      BY <2>1, <3>1, <3>2 DEF ScanInv, VenueInv
  <2>3. ScanInv'
    BY <2>1, <2>2 DEF ScanInv, VenueInv, PhaseInv, ProgressInv
  <2>4. Kept
    BY <2>1 DEF Kept, Promise!promiseVars
  <2>5. QED
    BY <2>3, <2>4
<1>5. ASSUME NEW list \in {listing, <<>>}, ListArrives(list) PROVE ScanInv' /\ Kept
  BY <1>5, ListArrivesKept
<1>6. CASE BookArrives
  BY <1>6, BookArrivesKept
<1>7. CASE RequestFails
  <2>1. /\ status = "scanning" /\ status' = "failed" /\ waiting' = "no"
        /\ UNCHANGED <<exchange, listing, quotes, shown, markets, at, found, n_reviewed_out,
                       ranking>>
    BY <1>7 DEF RequestFails, venueVars, bookVars, ScanInv, PhaseInv
  <2>2. ScanInv'
    BY <2>1 DEF ScanInv, VenueInv, PhaseInv, ProgressInv
  <2>3. Kept
    BY <2>1, NothingPromised
  <2>4. QED
    BY <2>2, <2>3
<1>8. QED
  BY <1>1, <1>2, <1>3, <1>4, <1>5, <1>6, <1>7 DEF ScanNext

(* The scan implements ScanPromise at every venue and for every list: what   *)
(* it publishes is the whole ranking of the listed markets, sorted stably,   *)
(* for quotes they have shown since it began, and a scan that fails          *)
(* publishes nothing (scan_opportunities 73-147).                            *)
THEOREM ScanImplementsPromise == ScanSpec => ScanKeepsPromise
<1>1. Init => ScanInv
  BY DEF Init, ScanInv, VenueInv, PhaseInv, ProgressInv
<1>2. ScanInv /\ [ScanNext]_vars => ScanInv' /\ [Promise!PromiseNext]_(Promise!promiseVars)
  BY StepKept DEF Kept
<1>3. Init => Promise!PromiseInit
  BY DEF Init, Promise!PromiseInit, QuoteOf, Promise!Exchange, Exchange
<1>4. QED
  BY <1>1, <1>2, <1>3, PTL DEF ScanSpec, ScanKeepsPromise, Promise!PromiseSpec

\* A ranking is honest when it is published, and is not touched afterwards.
LEMMA ResultStep ==
  ASSUME ScanInv, ResultInv, [ScanNext]_vars
  PROVE  ResultInv'
<1>1. CASE \E list \in {listing, <<>>} : ListArrives(list)
  <2>1. PICK list \in {listing, <<>>} : ListArrives(list)
    BY <1>1
  <2>2. status = "scanning" /\ UNCHANGED <<exchange, shown>>
    BY <2>1 DEF ListArrives, venueVars, bookVars, ScanInv, PhaseInv
  <2>3. QED
    BY <2>1, <2>2, ListArrivesKept DEF ResultInv
<1>2. CASE BookArrives
  <2>1. status = "scanning" /\ UNCHANGED <<exchange, shown>>
    BY <1>2 DEF BookArrives, venueVars, bookVars, ScanInv, PhaseInv
  <2>2. QED
    BY <1>2, <2>1, BookArrivesKept DEF ResultInv
<1>3. ASSUME NEW m \in DOMAIN quotes, NEW q \in Quote, BookMoves(m, q) PROVE ResultInv'
  BY <1>3 DEF BookMoves, scanVars, ResultInv
<1>4. CASE Ask
  BY <1>4 DEF Ask, ResultInv
<1>5. CASE SendProbe \/ (\E ok \in BOOLEAN : ProbeAnswered(ok)) \/ Serve \/ UNCHANGED vars
  <2>1. UNCHANGED <<exchange, status, markets, shown, ranking>>
    BY <1>5 DEF SendProbe, ProbeAnswered, Serve, venueVars, bookVars, scanVars, vars
  <2>2. QED
    BY <2>1 DEF ResultInv
<1>6. CASE RequestFails
  BY <1>6 DEF RequestFails, ScanInv, PhaseInv, ResultInv
<1>7. QED
  BY <1>1, <1>2, <1>3, <1>4, <1>5, <1>6 DEF ScanNext

\* An invariant result is an honest one.
LEMMA HonestRanking ==
  ASSUME ResultInv
  PROVE  RankedIsHonest
<1>1. ranking # <<>> => status = "done"
  BY DEF ResultInv
<1>2. ASSUME NEW k \in DOMAIN ranking
      PROVE  /\ ranking[k].conservative_edge >= MinEdge
             /\ ranking[k].liquidity >= MinLiquidity
             /\ \E i \in DOMAIN markets : Mapped(markets[i]) /\ WasOffered(ranking[k], i)
  <2>1. status = "done"
    BY <1>2 DEF ResultInv
  <2>2. PICK i \in DOMAIN markets : \E q \in shown[markets[i].market_id] :
          /\ Mapped(markets[i]) /\ Clears(exchange, markets[i], q)
          /\ ranking[k] = Offer(exchange, markets[i], q)
    BY <1>2, <2>1 DEF ResultInv, Honest
  <2>3. PICK q \in shown[markets[i].market_id] :
          /\ Mapped(markets[i]) /\ Clears(exchange, markets[i], q)
          /\ ranking[k] = Offer(exchange, markets[i], q)
    BY <2>2
  <2>4. WasOffered(ranking[k], i)
    BY <2>3 DEF WasOffered, Clears
  <2>5. ranking[k].conservative_edge >= MinEdge /\ ranking[k].liquidity >= MinLiquidity
    BY <2>3 DEF Clears
  <2>6. QED
    BY <2>3, <2>4, <2>5
<1>3. QED
  BY <1>1, <1>2 DEF RankedIsHonest

(* Every opportunity returned is one mapped market at a price it has shown   *)
(* since the scan began, with enough edge and depth, for any list of         *)
(* markets, any quotes and any number of moves (scan_opportunities 86-110).  *)
THEOREM RankedAlwaysHonest == ScanSpec => []RankedIsHonest
<1>1. Init => ScanInv /\ ResultInv
  BY DEF Init, ScanInv, VenueInv, PhaseInv, ProgressInv, ResultInv
<1>2. ScanInv /\ ResultInv /\ [ScanNext]_vars => ScanInv' /\ ResultInv'
  BY StepKept, ResultStep
<1>3. QED
  BY <1>1, <1>2, HonestRanking, PTL DEF ScanSpec

-----------------------------------------------------------------------------
(* The allocator is handed what a scan returned.  AP is the allocator with   *)
(* its own theorems, over the offers the listed markets can make.            *)
AP == INSTANCE AllocatorProofs WITH at <- passed, Candidate <- Offers

\* A venue's answer holds an ask unless it is empty.
LEMMA QuoteHasAsks ==
  ASSUME NEW e \in Exchange, NEW q \in QuoteOf(e)
  PROVE  Asks(e, q) # <<>> <=> q # <<>>
<1>1. q \in Seq([price : 0..Payout, size : Nat]) /\ (e = "synthetic" => Len(q) = 1)
  BY MappingAssumption DEF QuoteOf
<1>2. Len(q) \in Nat /\ DOMAIN q = 1..Len(q) /\ (q # <<>> <=> Len(q) # 0)
  BY <1>1
<1>3. CASE e = "kalshi"
  <2>1. DOMAIN Asks(e, q) = 1..Len(q)
    BY <1>2, <1>3 DEF Asks
  <2>2. Asks(e, q) \in Seq({Asks(e, q)[i] : i \in 1..Len(q)})
    BY <1>2, <1>3 DEF Asks
  <2>3. Len(Asks(e, q)) = Len(q) /\ (Asks(e, q) # <<>> <=> Len(Asks(e, q)) # 0)
    BY <1>2, <2>1, <2>2
  <2>4. QED
    BY <1>2, <2>3
<1>4. CASE e = "polymarket"
  BY <1>4 DEF Asks
<1>5. CASE e = "synthetic"
  <2>1. DOMAIN Asks(e, q) = 1..3
    BY <1>5 DEF Asks, SpreadAbove
  <2>2. Asks(e, q) # <<>>
    BY <2>1
  <2>3. QED
    BY <1>1, <1>2, <1>5, <2>2
<1>6. QED
  BY <1>3, <1>4, <1>5 DEF Exchange

\* An offer that clears is one the allocator may be handed.
LEMMA ClearedIsOffered ==
  ASSUME NEW e \in Exchange, NEW m \in Listed, Mapped(m), NEW q \in QuoteOf(e), Clears(e, m, q)
  PROVE  Sized(Offer(e, m, q)) \in Offers
<1>1. Asks(e, q) # <<>>
  BY DEF Clears, BestAsk
<1>2. q # <<>>
  BY <1>1, QuoteHasAsks
<1>3. q \in Quote /\ (e = "synthetic" => Len(q) = 1)
  BY DEF QuoteOf
<1> DEFINE t == <<e, m, q>>
<1>4. t \in {u \in Exchange \X Listed \X Quote :
                         /\ Mapped(u[2]) /\ u[3] # <<>>
                         /\ u[1] = "synthetic" => Len(u[3]) = 1}
  BY <1>2, <1>3
<1>5. Sized(Offer(t[1], t[2], t[3])) \in Offers
  <2> HIDE DEF t
  <2>1. QED
    BY <1>4 DEF Offers
<1>6. QED
  BY <1>5

\* The allocator can size every offer.
LEMMA OfferIsOpportunity ==
  ASSUME NEW o \in Offers
  PROVE  o \in AP!Opportunity
<1>1. PICK t \in Exchange \X Listed \X Quote :
        /\ Mapped(t[2]) /\ t[3] # <<>> /\ (t[1] = "synthetic" => Len(t[3]) = 1)
        /\ o = Sized(Offer(t[1], t[2], t[3]))
  BY DEF Offers
<1>2. PICK e \in Exchange, m \in Listed, q \in Quote :
        /\ Mapped(m) /\ q # <<>> /\ (e = "synthetic" => Len(q) = 1)
        /\ o = Sized(Offer(e, m, q))
  BY <1>1
<1>3. m \in Market /\ q \in QuoteOf(e)
  BY <1>2, ScanAssumption DEF Listed, QuoteOf
<1>4. Asks(e, q) # <<>>
  BY <1>2, <1>3, QuoteHasAsks
<1> DEFINE offer == Offer(e, m, q)
<1>5. /\ offer.market_id = m.market_id /\ m.market_id \in STRING
      /\ offer.driver_id \in Driver \cup {None}
      /\ offer.effective_ask \in 0..Payout /\ offer.model_probability \in 0..Payout
      /\ offer.conservative_probability \in 0..Payout /\ offer.liquidity \in Nat
  BY <1>2, <1>3, <1>4, OfferType DEF Market
<1> HIDE DEF offer
<1>6. o = Sized(offer)
  BY <1>2 DEF offer
<1>7. QED
  BY <1>5, <1>6 DEF Sized, AP!Opportunity

LEMMA AllocatorAssumed == AP!AllocatorAssumption
  BY PortfolioAssumption, MappingAssumption, OfferIsOpportunity DEF AP!AllocatorAssumption

\* The allocator of the portfolio is the one those theorems are about.
LEMMA SameAllocator ==
  /\ \A o : A!PassOver(o) <=> AP!PassOver(o)
  /\ \A o, n : A!Take(o, n) <=> AP!Take(o, n)
  /\ A!CapsHold <=> AP!CapsHold
  /\ A!Key = AP!Key
  /\ A!PortfolioRisk = AP!PortfolioRisk
<1>1. \A o : A!DriverKey(o) = AP!DriverKey(o) /\ (A!HasEdge(o) <=> AP!HasEdge(o))
  BY DEF A!DriverKey, AP!DriverKey, A!HasEdge, AP!HasEdge
<1>2. \A o, n : A!Cost(o, n) = AP!Cost(o, n)
  BY DEF A!Cost, AP!Cost
<1>3. \A o, n : A!Fits(o, n) <=> AP!Fits(o, n)
  BY <1>1, <1>2 DEF A!Fits, AP!Fits, A!WithinKelly, AP!WithinKelly, A!KellyShare, AP!KellyShare
<1>4. \A o : A!PassOver(o) <=> AP!PassOver(o)
  BY <1>1, <1>3 DEF A!PassOver, AP!PassOver
<1>5. \A o, n : A!Take(o, n) <=> AP!Take(o, n)
  BY <1>1, <1>2, <1>3 DEF A!Take, AP!Take, A!Floor, AP!Floor
<1>6. A!Key = AP!Key
  BY DEF A!Key, AP!Key
<1>7. A!CapsHold <=> AP!CapsHold
  BY <1>2, <1>6 DEF A!CapsHold, AP!CapsHold, A!Stake, AP!Stake
<1>8. A!PortfolioRisk = AP!PortfolioRisk
  <2>1. A!Stakes = AP!Stakes /\ A!Payoffs = AP!Payoffs
    BY <1>2 DEF A!Stakes, AP!Stakes, A!Stake, AP!Stake, A!Payoffs, AP!Payoffs
  <2>2. \A f : A!SumFunction(f) = AP!SumFunction(f)
    BY DEF A!SumFunction, AP!SumFunction, A!SumFunctionOnSet, AP!SumFunctionOnSet,
           A!FoldFunctionOnSet, AP!FoldFunctionOnSet, A!MapThenFoldSet, AP!MapThenFoldSet
  <2>3. \A S : A!Max(S) = AP!Max(S)
    BY DEF A!Max, AP!Max
  <2>4. QED
    BY <1>6, <2>1, <2>2, <2>3 DEF A!PortfolioRisk, AP!PortfolioRisk
<1>9. QED
  BY <1>4, <1>5, <1>6, <1>7, <1>8

-----------------------------------------------------------------------------
\* place says where in the ranking each position was found.
Placed(place) ==
  /\ place \in [DOMAIN positions -> 1..passed]
  /\ \A p, r \in DOMAIN positions : p < r => place[p] < place[r]
  /\ \A p \in DOMAIN positions : positions[p].opp = ranked[place[p]]

\* Nothing is allocated before the ranking is there, and then it is the ranking.
Handed ==
  IF allocating
  THEN status = "done" /\ ranked = [k \in DOMAIN ranking |-> Sized(ranking[k])]
  ELSE ranked = <<>> /\ positions = <<>>

AllocInv ==
  AP!TypeOK /\ AP!CapsHold /\ AP!Booked /\ Handed /\ \E place : Placed(place)

PortfolioInv == ScanInv /\ ResultInv /\ FlagWasUp /\ AllocInv

\* Once the scan is over nothing of it moves.
LEMMA FinishedScanRests ==
  ASSUME ScanInv, status = "done", ScanNext
  PROVE  FALSE
<1>1. waiting = "no"
  BY DEF ScanInv, PhaseInv
<1>2. QED
  BY <1>1 DEF ScanNext, BookMoves, SendProbe, ProbeAnswered, Ask, Serve, ListArrives,
              BookArrives, RequestFails

\* What a finished scan returned, the allocator may be handed.
LEMMA RankingIsOffered ==
  ASSUME ScanInv, ResultInv, status = "done"
  PROVE  [k \in DOMAIN ranking |-> Sized(ranking[k])] \in Seq(Offers)
<1>1. PICK n \in Nat : DOMAIN ranking = 1..n
  BY DEF ResultInv, Honest
<1>2. ASSUME NEW k \in DOMAIN ranking PROVE Sized(ranking[k]) \in Offers
  <2>1. PICK i \in DOMAIN markets : \E q \in shown[markets[i].market_id] :
          /\ Mapped(markets[i]) /\ Clears(exchange, markets[i], q)
          /\ ranking[k] = Offer(exchange, markets[i], q)
    BY <1>2 DEF ResultInv, Honest
  <2>2. PICK q \in shown[markets[i].market_id] :
          /\ Mapped(markets[i]) /\ Clears(exchange, markets[i], q)
          /\ ranking[k] = Offer(exchange, markets[i], q)
    BY <2>1
  <2>3. markets \in {listing, <<>>} /\ listing \in Listings /\ exchange \in Exchange
    BY DEF ScanInv, VenueInv, PhaseInv
  <2>4. markets[i] \in Listed
    BY <2>3 DEF Listed
  <2>5. markets[i].market_id \in DOMAIN quotes
    BY <2>2, <2>3, ListFacts DEF ScanInv
  <2>6. q \in QuoteOf(exchange)
    BY <2>5 DEF ScanInv, VenueInv
  <2>7. QED
    BY <2>2, <2>3, <2>4, <2>6, ClearedIsOffered
<1>3. QED
  BY <1>1, <1>2

\* The hand-over: nothing has been passed or taken.
LEMMA StartKept ==
  ASSUME PortfolioInv, StartAllocating
  PROVE  PortfolioInv'
<1>1. /\ status = "done" /\ ~allocating /\ allocating' = TRUE
      /\ ranked' = [k \in DOMAIN ranking |-> Sized(ranking[k])]
      /\ UNCHANGED <<vars, passed, positions, total_stake, driver_used>>
  BY DEF StartAllocating
<1>2. ranked = <<>> /\ positions = <<>> /\ passed = 0
  BY <1>1 DEF PortfolioInv, AllocInv, Handed, AP!TypeOK
<1>3. ScanInv' /\ ResultInv' /\ FlagWasUp'
  BY <1>1, StepKept, ResultStep, FlagWasUpStep DEF PortfolioInv
<1>4. ranked' \in Seq(Offers)
  BY <1>1, RankingIsOffered DEF PortfolioInv
<1>5. AP!TypeOK'
  BY <1>1, <1>2, <1>4 DEF PortfolioInv, AllocInv, AP!TypeOK
<1>6. AP!CapsHold' /\ AP!Booked'
  BY <1>1 DEF PortfolioInv, AllocInv, AP!CapsHold, AP!Stake, AP!Cost, AP!Booked, AP!StakedOn, AP!Stakes
<1>7. Handed'
  BY <1>1 DEF Handed, vars
<1>8. (\E place : Placed(place))'
  <2>1. PICK place : Placed(place)
    BY DEF PortfolioInv, AllocInv
  <2>2. DOMAIN positions = {}
    BY <1>2
  <2>3. Placed(place)'
    BY <1>1, <2>1, <2>2 DEF Placed
  <2>4. QED
    BY <2>3
<1>9. QED
  BY <1>3, <1>5, <1>6, <1>7, <1>8 DEF PortfolioInv, AllocInv

\* A decision of the allocator: one more place passed, and perhaps a position at it.
LEMMA AllocateKept ==
  ASSUME PortfolioInv, Allocate
  PROVE  PortfolioInv'
<1> DEFINE o == ranked[passed + 1]
<1>1. /\ allocating /\ allocating' = allocating /\ passed < Len(ranked) /\ UNCHANGED vars
      /\ A!PassOver(o) \/ \E n \in 1..o.liquidity : A!Take(o, n)
  BY DEF Allocate
<1>2. AP!TypeOK /\ AP!CapsHold /\ AP!Booked /\ AP!AllocatorAssumption
  BY AllocatorAssumed DEF PortfolioInv, AllocInv
<1>3. /\ ranked \in Seq(Offers) /\ passed \in Nat /\ Len(positions) \in Nat
      /\ DOMAIN positions = 1..Len(positions)
  BY <1>2 DEF AP!TypeOK
<1>4. o \in Offers
  BY <1>1, <1>3
<1> HIDE DEF o
<1>5. AP!PassOver(o) \/ \E n \in 1..o.liquidity : AP!Take(o, n)
  BY <1>1, SameAllocator
<1>6. AP!Next
  BY <1>4, <1>5 DEF AP!Next
<1>7. AP!TypeOK'
  BY <1>2, <1>6, AP!TypeStep
<1>8. AP!CapsHold' /\ AP!Booked'
  BY <1>2, <1>6, <1>7, AP!CapsStep, AP!BookedStep
<1>9. ScanInv' /\ ResultInv' /\ FlagWasUp'
  BY <1>1, StepKept, ResultStep, FlagWasUpStep DEF PortfolioInv
<1>10. passed' = passed + 1 /\ ranked' = ranked
  BY <1>5 DEF AP!PassOver, AP!Take
<1>11. Handed'
  BY <1>1, <1>10 DEF PortfolioInv, AllocInv, Handed, vars
<1>12. PICK place : Placed(place)
  BY DEF PortfolioInv, AllocInv
<1>13. CASE AP!PassOver(o)
  <2>1. positions' = positions
    BY <1>13 DEF AP!PassOver
  <2>2. Placed(place)'
    BY <1>3, <1>10, <1>12, <2>1 DEF Placed
  <2>3. QED
    BY <1>7, <1>8, <1>9, <1>11, <2>2 DEF PortfolioInv, AllocInv
<1>14. ASSUME NEW n \in 1..o.liquidity, AP!Take(o, n)
       PROVE  PortfolioInv'
  <2>1. positions' = Append(positions, [opp |-> o, contracts |-> n])
    BY <1>14 DEF AP!Take
  <2> DEFINE new == Len(positions) + 1
             longer == [p \in 1..new |-> IF p = new THEN passed + 1 ELSE place[p]]
  <2>2. /\ DOMAIN positions' = 1..new /\ positions'[new].opp = o
        /\ \A p \in 1..Len(positions) : positions'[p] = positions[p]
    <3>1. positions \in Seq(AP!Position) /\ [opp |-> o, contracts |-> n].opp = o
      BY <1>2 DEF AP!TypeOK
    <3>2. QED
      BY <2>1, <3>1
  <2>3. \A p \in 1..new : p = new \/ p \in DOMAIN positions
    BY <1>3
  <2>4. /\ place \in [DOMAIN positions -> 1..passed]
        /\ \A p \in DOMAIN positions : p \in Nat /\ p < new /\ place[p] \in 1..passed
    BY <1>3, <1>12 DEF Placed
  <2>5. /\ longer[new] = passed + 1 /\ DOMAIN longer = 1..new
        /\ \A p \in DOMAIN positions : longer[p] = place[p] /\ p \in 1..new
    BY <1>3, <2>4
  <2>6. longer \in [1..new -> 1..(passed + 1)]
    BY <1>3, <2>3, <2>4
  <2> HIDE DEF longer
  <2>7. PICK l : l = longer
    OBVIOUS
  <2>8. \A p, r \in 1..new : p < r => longer[p] < longer[r]
    <3> SUFFICES ASSUME NEW p \in 1..new, NEW r \in 1..new, p < r PROVE longer[p] < longer[r]
      OBVIOUS
    <3>1. p \in DOMAIN positions
      BY <1>3
    <3>2. CASE r = new
      BY <1>3, <2>4, <2>5, <3>1, <3>2
    <3>3. CASE r \in DOMAIN positions
      BY <1>12, <2>5, <3>1, <3>3 DEF Placed
    <3>4. QED
      BY <2>3, <3>2, <3>3
  <2>9. \A p \in 1..new : positions'[p].opp = ranked[longer[p]]
    <3>1. positions'[new].opp = ranked[longer[new]]
      BY <2>2, <2>5 DEF o
    <3>2. \A p \in DOMAIN positions : positions'[p].opp = ranked[longer[p]]
      BY <1>3, <1>12, <2>2, <2>5 DEF Placed
    <3>3. QED
      BY <2>3, <3>1, <3>2
  <2>10. Placed(l)'
    BY <1>10, <2>2, <2>6, <2>8, <2>9, <2>7 DEF Placed
  <2>11. QED
    BY <1>7, <1>8, <1>9, <1>11, <2>10 DEF PortfolioInv, AllocInv
<1>15. QED
  BY <1>5, <1>13, <1>14

\* Every step of a request keeps it.
LEMMA PortfolioStep ==
  ASSUME PortfolioInv, [PortfolioNext]_portfolioVars
  PROVE  PortfolioInv'
<1>1. CASE Scan \/ UNCHANGED portfolioVars
  <2>1. [ScanNext]_vars /\ UNCHANGED <<allocating, allocVars>>
    BY <1>1 DEF Scan, portfolioVars
  <2>2. ScanInv' /\ ResultInv' /\ FlagWasUp'
    BY <2>1, StepKept, ResultStep, FlagWasUpStep DEF PortfolioInv
  <2>3. UNCHANGED AP!vars
    BY <2>1 DEF allocVars, AP!vars
  <2>4. AP!TypeOK' /\ AP!CapsHold' /\ AP!Booked'
    <3>1. AP!TypeOK'
      BY <2>3, AllocatorAssumed, AP!TypeStep DEF PortfolioInv, AllocInv
    <3>2. QED
      BY <2>3, <3>1, AllocatorAssumed, AP!CapsStep, AP!BookedStep DEF PortfolioInv, AllocInv
  <2>5. Handed'
    <3>1. CASE allocating
      <4>1. UNCHANGED vars
        BY <2>1, <3>1, FinishedScanRests DEF PortfolioInv, AllocInv, Handed
      <4>2. QED
        BY <2>1, <3>1, <4>1 DEF PortfolioInv, AllocInv, Handed, vars, allocVars
    <3>2. CASE ~allocating
      BY <2>1, <3>2 DEF PortfolioInv, AllocInv, Handed, allocVars
    <3>3. QED
      BY <3>1, <3>2
  <2>6. (\E place : Placed(place))'
    BY <2>1 DEF PortfolioInv, AllocInv, Placed, allocVars
  <2>7. QED
    BY <2>2, <2>4, <2>5, <2>6 DEF PortfolioInv, AllocInv
<1>2. CASE StartAllocating
  BY <1>2, StartKept
<1>3. CASE Allocate
  BY <1>3, AllocateKept
<1>4. QED
  BY <1>1, <1>2, <1>3 DEF PortfolioNext

LEMMA PortfolioStarts ==
  ASSUME PortfolioInit
  PROVE  PortfolioInv
<1>1. ScanInv /\ ResultInv /\ FlagWasUp
  BY DEF PortfolioInit, Init, ScanInv, VenueInv, PhaseInv, ProgressInv, ResultInv, FlagWasUp
<1>2. /\ allocating = FALSE /\ ranked = <<>> /\ passed = 0 /\ positions = <<>>
      /\ total_stake = 0 /\ driver_used = [k \in AP!Key |-> 0]
  BY SameAllocator DEF PortfolioInit
<1>3. AP!TypeOK
  BY <1>2 DEF AP!TypeOK
<1>4. AP!CapsHold /\ AP!Booked
  <2>1. AP!CapsHold
    BY <1>2, PortfolioAssumption DEF AP!CapsHold
  <2>2. \A keys : AP!StakedOn(keys) = 0
    BY <1>2, AllocatorAssumed, AP!NothingStaked
  <2>3. QED
    BY <1>2, <2>1, <2>2 DEF AP!Booked
<1>5. \E place : Placed(place)
  <2>1. <<>> \in [DOMAIN positions -> 1..passed] /\ DOMAIN positions = {}
    BY <1>2
  <2>2. Placed(<<>>)
    BY <2>1 DEF Placed
  <2>3. QED
    BY <2>2
<1>6. QED
  BY <1>1, <1>2, <1>3, <1>4, <1>5 DEF PortfolioInv, AllocInv, Handed

\* What the run checks, from the invariant.
LEMMA StakesFromInv ==
  ASSUME PortfolioInv
  PROVE  StakesComeFromTheScan
<1>1. A!CapsHold
  BY SameAllocator DEF PortfolioInv, AllocInv
<1>2. positions # <<>> => status = "done"
  BY DEF PortfolioInv, AllocInv, Handed
<1>3. \E place \in [DOMAIN positions -> DOMAIN ranking] :
        /\ \A p, r \in DOMAIN positions : p < r => place[p] < place[r]
        /\ \A p \in DOMAIN positions : Sized(ranking[place[p]]) = positions[p].opp
  <2>1. PICK place : Placed(place)
    BY DEF PortfolioInv, AllocInv
  <2>2. ranked \in Seq(Offers) /\ passed \in 0..Len(ranked) /\ positions \in Seq(AP!Position)
    BY DEF PortfolioInv, AllocInv, AP!TypeOK
  <2>3. CASE allocating
    <3>1. ranked = [k \in DOMAIN ranking |-> Sized(ranking[k])]
      BY <2>3 DEF PortfolioInv, AllocInv, Handed
    <3>2. DOMAIN ranked = DOMAIN ranking /\ DOMAIN ranked = 1..Len(ranked)
      BY <2>2, <3>1
    <3>3. \A p \in DOMAIN positions : place[p] \in DOMAIN ranking
      BY <2>1, <2>2, <3>2 DEF Placed
    <3>4. place \in [DOMAIN positions -> DOMAIN ranking]
      BY <2>1, <3>3 DEF Placed
    <3>5. \A p \in DOMAIN positions : Sized(ranking[place[p]]) = positions[p].opp
      BY <2>1, <3>1, <3>3 DEF Placed
    <3>6. QED
      BY <2>1, <3>4, <3>5 DEF Placed
  <2>4. CASE ~allocating
    <3>1. DOMAIN positions = {}
      BY <2>4 DEF PortfolioInv, AllocInv, Handed
    <3>2. <<>> \in [DOMAIN positions -> DOMAIN ranking]
      BY <3>1
    <3>3. QED
      BY <3>1, <3>2
  <2>5. QED
    BY <2>3, <2>4
<1>4. QED
  BY <1>1, <1>2, <1>3 DEF StakesComeFromTheScan

LEMMA PortfolioInvHolds == PortfolioSpec => []PortfolioInv
<1>1. PortfolioInit => PortfolioInv
  BY PortfolioStarts
<1>2. PortfolioInv /\ [PortfolioNext]_portfolioVars => PortfolioInv'
  BY PortfolioStep
<1>3. QED
  BY <1>1, <1>2, PTL DEF PortfolioSpec

(* For every venue, list, bankroll and set of caps: the stakes are a         *)
(* subsequence of one finished ranking, in its order, and within every cap   *)
(* (portfolio_service 36-51).                                                *)
THEOREM StakesAlwaysFromTheScan == PortfolioSpec => []StakesComeFromTheScan
  BY PortfolioInvHolds, StakesFromInv, PTL

\* As long as the configured threshold asks for an edge at all, what the scan
\* ranks has one by the allocator's own rule, before and after the haircut.
LEMMA RankedEdge ==
  ASSUME PortfolioInv, MinEdge > 0, NEW k \in DOMAIN ranked
  PROVE  /\ A!HasEdge(ranked[k])
         /\ ranked[k].model_probability \in Nat
         /\ ranked[k].model_probability >= ranked[k].effective_ask
<1>1. /\ status = "done" /\ k \in DOMAIN ranking /\ ranked[k] = Sized(ranking[k])
  BY DEF PortfolioInv, AllocInv, Handed
<1>2. PICK i \in DOMAIN markets : \E q \in shown[markets[i].market_id] :
        /\ Mapped(markets[i]) /\ Clears(exchange, markets[i], q)
        /\ ranking[k] = Offer(exchange, markets[i], q)
  BY <1>1 DEF PortfolioInv, ResultInv, Honest
<1>3. PICK q \in shown[markets[i].market_id] :
        /\ Mapped(markets[i]) /\ Clears(exchange, markets[i], q)
        /\ ranking[k] = Offer(exchange, markets[i], q)
  BY <1>2
<1>4. markets \in {listing, <<>>} /\ exchange \in Exchange
  BY DEF PortfolioInv, ScanInv, VenueInv, PhaseInv
<1>5. markets[i] \in Market /\ markets[i].market_id \in DOMAIN quotes
  BY <1>3, <1>4, ListFacts DEF PortfolioInv, ScanInv
<1>6. q \in QuoteOf(exchange)
  BY <1>5 DEF PortfolioInv, ScanInv, VenueInv
<1>7. Asks(exchange, q) # <<>> /\ ranking[k].conservative_edge >= MinEdge
  BY <1>3 DEF Clears, BestAsk
<1>8. /\ ranking[k].effective_ask \in 0..Payout
      /\ ranking[k].model_probability \in 0..Payout
      /\ ranking[k].conservative_probability \in 0..Payout
      /\ ranking[k].conservative_probability <= ranking[k].model_probability
      /\ ranking[k].conservative_edge =
           ranking[k].conservative_probability - ranking[k].effective_ask
  BY <1>3, <1>4, <1>5, <1>6, <1>7, OfferType
<1>9. /\ ranking[k].conservative_probability > ranking[k].effective_ask
      /\ ranking[k].effective_ask < Payout
      /\ ranking[k].model_probability >= ranking[k].effective_ask
      /\ ranking[k].model_probability \in Nat
  <2>1. Payout \in Nat /\ MinEdge \in Int
    BY MappingAssumption
  <2>2. \A p, a, m \in 0..Payout :
          p - a >= MinEdge /\ p <= m => p > a /\ a < Payout /\ m >= a /\ m \in Nat
    BY <2>1
  <2>3. QED
    BY <1>7, <1>8, <2>2
<1>10. QED
  BY <1>1, <1>9 DEF A!HasEdge, Sized

(* RankedHasEdge for every venue, list, fee and bankroll, as long as the     *)
(* configured threshold asks for an edge at all: nothing the scan ranks is   *)
(* without one by the allocator's own rule, which reads other fields, and    *)
(* the summary never expects to end below the bankroll (opportunity_service  *)
(* 107, optimizer 101-103, 182-187).                                         *)
THEOREM RankedAlwaysHasEdge == PortfolioSpec => [](MinEdge > 0 => RankedHasEdge)
<1>1. PortfolioInv => (MinEdge > 0 => RankedHasEdge)
  <2> SUFFICES ASSUME PortfolioInv, MinEdge > 0 PROVE RankedHasEdge
    OBVIOUS
  <2>1. \A k \in DOMAIN ranked : A!HasEdge(ranked[k])
    BY RankedEdge
  <2>2. ASSUME NEW p \in DOMAIN positions
        PROVE  /\ positions[p].opp.model_probability \in Nat
               /\ positions[p].opp.model_probability >= positions[p].opp.effective_ask
    <3>1. PICK place : Placed(place)
      BY DEF PortfolioInv, AllocInv
    <3>2. ranked \in Seq(Offers) /\ passed \in 0..Len(ranked)
      BY DEF PortfolioInv, AllocInv, AP!TypeOK
    <3>3. place[p] \in DOMAIN ranked /\ positions[p].opp = ranked[place[p]]
      BY <3>1, <3>2 DEF Placed
    <3>4. QED
      BY <3>3, RankedEdge
  <2>3. AP!PortfolioRisk.expected_portfolio_value >= Bankroll
    BY <2>2, AllocatorAssumed, AP!ExpectationPaysTheStakes DEF PortfolioInv, AllocInv
  <2>4. A!PortfolioRisk.expected_portfolio_value >= Bankroll
    BY <2>3, SameAllocator
  <2>5. QED
    BY <2>1, <2>4 DEF RankedHasEdge
<1>2. QED
  BY <1>1, PortfolioInvHolds, PTL

(* What a scan promises on its own it keeps inside a request, the allocator  *)
(* running after it (portfolio_service 36-51).                               *)
THEOREM RequestKeepsPromise ==
  PortfolioSpec => ScanKeepsPromise /\ []RankedIsHonest /\ []AtMostOneUnwelcome
<1>1. PortfolioInit => Promise!PromiseInit
  BY DEF PortfolioInit, Init, Promise!PromiseInit, QuoteOf, Promise!Exchange, Exchange
<1>2. [PortfolioNext]_portfolioVars => [ScanNext]_vars
  BY DEF PortfolioNext, Scan, StartAllocating, Allocate, portfolioVars
<1>3. PortfolioInv /\ [PortfolioNext]_portfolioVars
        => [Promise!PromiseNext]_(Promise!promiseVars)
  BY <1>2, StepKept DEF PortfolioInv, Kept
<1>4. PortfolioInv => RankedIsHonest /\ AtMostOneUnwelcome
  BY HonestRanking DEF PortfolioInv, FlagWasUp, AtMostOneUnwelcome
<1>5. QED
  BY <1>1, <1>3, <1>4, PortfolioInvHolds, PTL
     DEF PortfolioSpec, ScanKeepsPromise, Promise!PromiseSpec
=============================================================================
