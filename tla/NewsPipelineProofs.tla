------------------------- MODULE NewsPipelineProofs -------------------------
(***************************************************************************)
(* Theorems about NewsPipeline for every set of documents, every order of  *)
(* their arrival, and every sequence of runs as of any moment.             *)
(***************************************************************************)
EXTENDS NewsPipeline, SortAndSumProofs

-----------------------------------------------------------------------------
(* The archive and the order of first sight. *)

LEMMA PlaceFields ==
  ASSUME documents \in Seq(Document), NEW p \in Places
  PROVE  /\ p = <<p[1], p[2]>> /\ p[1] \in DOMAIN documents /\ p[1] \in Nat /\ p[2] \in Nat
         /\ Extracted[p].first_seen_at \in Nat
         /\ Extracted[p].is_confirmed \in BOOLEAN
         /\ Extracted[p].event_confidence \in Int
<1>1. PICK n \in DOMAIN documents : p \in {n} \X Extract(documents[n])
  BY DEF Places
<1>2. p = <<p[1], p[2]>> /\ p[1] = n /\ p[2] \in Extract(documents[n])
  BY <1>1
<1>3. documents[n] \in Document /\ n \in Nat
  BY <1>1
<1>4. documents[n].matched \in Seq(DOMAIN GridPrior)
  BY <1>3, NewsAssumption
<1>5. p[2] \in Nat
  BY <1>2, <1>4 DEF Extract
<1>6. Extracted[p] = ExtractedEvent(documents[n], documents[n].matched[p[2]])
  BY <1>2 DEF Extracted
<1>7. Extracted[p].first_seen_at \in Nat
  <2>1. documents[n].first_seen_at \in Nat
    BY <1>3, NewsAssumption
  <2>2. QED
    BY <1>6, <2>1 DEF ExtractedEvent
<1>8. Extracted[p].is_confirmed \in BOOLEAN
  BY <1>6 DEF ExtractedEvent, IsConfirmed
<1>9. Extracted[p].event_confidence \in Int
  <2>1. Reliability[documents[n].source] \in Nat
    BY <1>3, NewsAssumption
  <2>2. Extracted[p].event_confidence
          = Reliability[documents[n].source] * (IF IsConfirmed(documents[n]) THEN 10 ELSE 6)
    BY <1>6 DEF ExtractedEvent
  <2>3. QED
    BY <2>1, <2>2
<1>10. QED
  BY <1>2, <1>1, <1>3, <1>5, <1>7, <1>8, <1>9

LEMMA PlacesFinite ==
  ASSUME documents \in Seq(Document)
  PROVE  IsFiniteSet(Places)
<1> DEFINE D == 1..Len(documents)
           f == [n \in D |-> {n} \X Extract(documents[n])]
           T == {{n} \X Extract(documents[n]) : n \in D}
<1>1. D = DOMAIN documents /\ Len(documents) \in Nat
  OBVIOUS
<1>2. f \in Surjection(D, T)
  BY DEF Surjection
<1>3. IsFiniteSet(D)
  BY <1>1, FS_Interval
<1>4. IsFiniteSet(T)
  <2> HIDE DEF T, f, D
  <2>1. QED
    BY <1>2, <1>3, FS_Surjection
<1>5. ASSUME NEW n \in D
      PROVE  IsFiniteSet({n} \X Extract(documents[n]))
  <2>1. documents[n].matched \in Seq(DOMAIN GridPrior)
    BY <1>1, NewsAssumption
  <2>2. IsFiniteSet(DOMAIN documents[n].matched)
    <3> DEFINE l == Len(documents[n].matched)
    <3>1. DOMAIN documents[n].matched = 1..l /\ l \in Nat
      BY <2>1
    <3> HIDE DEF l
    <3>2. QED
      BY <3>1, FS_Interval
  <2>3. IsFiniteSet(Extract(documents[n]))
    BY <2>2, FS_Subset DEF Extract
  <2>4. QED
    BY <2>3, FS_Singleton, FS_Product
<1>6. \A t \in T : IsFiniteSet(t)
  BY <1>5
<1>7. Places = UNION T
  BY <1>1 DEF Places
<1> HIDE DEF T
<1>8. QED
  BY <1>4, <1>6, <1>7, FS_UNION

SeenBefore(p, q) == p # q /\ SeenNoLater(p, q)

\* First sight, ties in the order of the archive, is a strict total order.
LEMMA SeenInOrder ==
  ASSUME documents \in Seq(Document)
  PROVE  \A p, q, r \in Places :
           /\ ~SeenBefore(p, p)
           /\ SeenBefore(p, q) /\ SeenBefore(q, r) => SeenBefore(p, r)
           /\ p # q => SeenBefore(p, q) \/ SeenBefore(q, p)
           /\ ~(SeenBefore(p, q) /\ SeenBefore(q, p))
<1> SUFFICES ASSUME NEW p \in Places, NEW q \in Places, NEW r \in Places
    PROVE  /\ ~SeenBefore(p, p)
           /\ SeenBefore(p, q) /\ SeenBefore(q, r) => SeenBefore(p, r)
           /\ p # q => SeenBefore(p, q) \/ SeenBefore(q, p)
           /\ ~(SeenBefore(p, q) /\ SeenBefore(q, p))
  OBVIOUS
<1>1. \A x \in {p, q, r} : /\ x = <<x[1], x[2]>> /\ x[1] \in Nat /\ x[2] \in Nat
                           /\ Extracted[x].first_seen_at \in Nat
  BY PlaceFields
<1>2. \A x, y \in {p, q, r} : x = y <=> x[1] = y[1] /\ x[2] = y[2]
  BY <1>1
<1>3. QED
  BY <1>1, <1>2 DEF SeenBefore, SeenNoLater

\* Listed in order, a set of places is listed whole, each place once.
LEMMA ListedInOrder ==
  ASSUME documents \in Seq(Document), NEW S \in SUBSET Places
  PROVE  /\ InOrder(S) \in Seq(S)
         /\ Range(InOrder(S)) = S
         /\ \A i, j \in DOMAIN InOrder(S) : i < j => SeenBefore(InOrder(S)[i], InOrder(S)[j])
<1> DEFINE R == {e \in S \X S : SeenBefore(e[1], e[2])}
           rank == [p \in S |-> Cardinality(Preceding(R, S, p)) + 1]
           n == Cardinality(S)
<1>1. IsFiniteSet(S) /\ n \in Nat
  BY PlacesFinite, FS_Subset, FS_CardinalityType
<1>2. \A p, q \in S : <<p, q>> \in R <=> SeenBefore(p, q)
  OBVIOUS
<1>3. StrictTotalOrder(R, S)
  <2>1. \A p, q, r \in S : /\ ~SeenBefore(p, p)
                           /\ SeenBefore(p, q) /\ SeenBefore(q, r) => SeenBefore(p, r)
                           /\ p # q => SeenBefore(p, q) \/ SeenBefore(q, p)
    BY SeenInOrder
  <2> HIDE DEF R
  <2>2. QED
    BY <1>2, <2>1 DEF StrictTotalOrder
<1>4. \A p \in S : Preceding(R, S, p) = {q \in S \ {p} : SeenNoLater(q, p)}
  BY <1>2 DEF Preceding, SeenBefore
<1> HIDE DEF R
<1>5. rank \in Bijection(S, 1..n) /\ \A p, q \in S : <<p, q>> \in R <=> rank[p] < rank[q]
  BY <1>1, <1>3, Ranking
<1>6. \A p \in S : rank[p] = Cardinality({q \in S \ {p} : SeenNoLater(q, p)}) + 1
  BY <1>4
<1> HIDE DEF rank
<1>7. \A k \in 1..n : InOrder(S)[k] \in S /\ rank[InOrder(S)[k]] = k
  <2>1. \A k \in 1..n : \E p \in S : rank[p] = k
    BY <1>5 DEF Bijection, Surjection
  <2>2. QED
    BY <1>6, <2>1 DEF InOrder
<1>8. InOrder(S) \in [1..n -> S]
  BY <1>7 DEF InOrder
<1> HIDE DEF n
<1>9. \A p \in S : rank[p] \in 1..n /\ InOrder(S)[rank[p]] = p
  <2>1. \A p \in S : rank[p] \in 1..n
    BY <1>5 DEF Bijection, Surjection
  <2>2. \A p, q \in S : rank[p] = rank[q] => p = q
    BY <1>5 DEF Bijection, Injection, IsInjective
  <2>3. QED
    BY <2>1, <2>2, <1>7
<1>10. InOrder(S) \in Seq(S) /\ DOMAIN InOrder(S) = 1..n
  BY <1>1, <1>8
<1>11. Range(InOrder(S)) = S
  BY <1>7, <1>9, <1>10 DEF Range
<1>12. \A i, j \in 1..n : i < j => SeenBefore(InOrder(S)[i], InOrder(S)[j])
  BY <1>2, <1>5, <1>7
<1>13. QED
  BY <1>10, <1>11, <1>12

-----------------------------------------------------------------------------
(* One event tells the story of a cluster. *)

LEMMA CanonicalLeads ==
  ASSUME documents \in Seq(Document), NEW C \in SUBSET Places, C # {}
  PROVE  /\ Canonical(C) \in C
         /\ \A q \in C : Extracted[q].is_confirmed => Extracted[Canonical(C)].is_confirmed
<1> DEFINE Leads(p, q) == /\ ~MoreAuthoritative(Extracted[q], Extracted[p])
                          /\ MoreAuthoritative(Extracted[p], Extracted[q]) \/ SeenNoLater(p, q)
           R == {e \in C \X C : e[1] # e[2] /\ Leads(e[1], e[2])}
<1>1. IsFiniteSet(C)
  BY PlacesFinite, FS_Subset
<1>2. \A p, q \in C : <<p, q>> \in R <=> p # q /\ Leads(p, q)
  OBVIOUS
<1>3. StrictTotalOrder(R, C)
  <2>1. \A p, q, r \in C : /\ p # q /\ Leads(p, q) /\ q # r /\ Leads(q, r) => p # r /\ Leads(p, r)
                           /\ p # q => Leads(p, q) \/ Leads(q, p)
    <3> SUFFICES ASSUME NEW p \in C, NEW q \in C, NEW r \in C
        PROVE  /\ p # q /\ Leads(p, q) /\ q # r /\ Leads(q, r) => p # r /\ Leads(p, r)
               /\ p # q => Leads(p, q) \/ Leads(q, p)
      OBVIOUS
    <3>1. \A x \in {p, q, r} : /\ Extracted[x].first_seen_at \in Nat
                               /\ Extracted[x].is_confirmed \in BOOLEAN
                               /\ Extracted[x].event_confidence \in Int
      BY PlaceFields
    <3>2. \A x, y, z \in {p, q, r} :
            /\ x # y => SeenNoLater(x, y) \/ SeenNoLater(y, x)
            /\ SeenNoLater(x, y) /\ SeenNoLater(y, x) => x = y
            /\ x # y /\ SeenNoLater(x, y) /\ y # z /\ SeenNoLater(y, z) => SeenNoLater(x, z)
      BY SeenInOrder DEF SeenBefore
    <3>3. QED
      BY <3>1, <3>2 DEF MoreAuthoritative
  <2> HIDE DEF R, Leads
  <2>2. QED
    BY <1>2, <2>1 DEF StrictTotalOrder
<1> HIDE DEF R
<1>4. \E m \in C : \A b \in C \ {m} : <<m, b>> \in R
  BY <1>1, <1>3, FirstOfAll
<1>5. \E m \in C : \A b \in C \ {m} : Leads(m, b)
  <2> HIDE DEF Leads
  <2>1. QED
    BY <1>2, <1>4
<1>6. Canonical(C) \in C /\ \A b \in C \ {Canonical(C)} : Leads(Canonical(C), b)
  BY <1>5 DEF Canonical
<1>7. ASSUME NEW q \in C, Extracted[q].is_confirmed
      PROVE  Extracted[Canonical(C)].is_confirmed
  BY <1>6, <1>7 DEF MoreAuthoritative
<1>8. QED
  BY <1>6, <1>7

KeyOf(p) == ClusterKey(Extracted[p])

\* The stories told of a set of reports, as ClustersPartitionActive has them.
StoriesOf(told, reports) ==
  /\ \A c, d \in told : KeyOf(c.event) = KeyOf(d.event) => c = d
  /\ {KeyOf(c.event) : c \in told} = {KeyOf(p) : p \in reports}
  /\ \A c \in told :
       /\ c.event \in reports
       /\ c.evidence_count = Cardinality({p \in reports : KeyOf(p) = KeyOf(c.event)})
  /\ \A c \in told, p \in reports :
       KeyOf(p) = KeyOf(c.event) /\ Extracted[p].is_confirmed
         => Extracted[c.event].is_confirmed

LEMMA EachClusterTold ==
  ASSUME documents \in Seq(Document), NEW active \in Seq(Places)
  PROVE  StoriesOf(Range(Deduplicate(active)), Range(active))
<1> DEFINE S == Range(active)
           tellers == {Canonical(Cluster(active, p)) : p \in S}
           told == Range(Deduplicate(active))
           Counted(p) == Cardinality(Cluster(active, p))
<1>1. S \subseteq Places
  BY DEF Range
<1>2. \A p \in S : p \in Cluster(active, p) /\ Cluster(active, p) \subseteq S
  BY DEF Cluster
<1>3. ASSUME NEW p \in S
      PROVE  /\ Canonical(Cluster(active, p)) \in Cluster(active, p)
             /\ \A q \in Cluster(active, p) :
                  Extracted[q].is_confirmed => Extracted[Canonical(Cluster(active, p))].is_confirmed
  <2>1. Cluster(active, p) \subseteq Places /\ Cluster(active, p) # {}
    BY <1>1, <1>2
  <2>2. QED
    BY <2>1, CanonicalLeads
<1>4. \A p \in S, q \in S : q \in Cluster(active, p) <=> KeyOf(q) = KeyOf(p)
  BY DEF Cluster, KeyOf
<1>5. \A p, q \in S : KeyOf(p) = KeyOf(q) => Cluster(active, p) = Cluster(active, q)
  BY DEF Cluster, KeyOf
<1>6. tellers \subseteq S
  BY <1>2, <1>3
<1> HIDE DEF S
<1>7. told = {[event |-> t, evidence_count |-> Counted(t)] : t \in tellers}
  <2>1. InOrder(tellers) \in Seq(tellers) /\ Range(InOrder(tellers)) = tellers
    <3>1. tellers \in SUBSET Places
      BY <1>1, <1>6
    <3> HIDE DEF tellers
    <3>2. QED
      BY <3>1, ListedInOrder
  <2>2. Deduplicate(active) = [k \in DOMAIN InOrder(tellers) |->
           [event |-> InOrder(tellers)[k], evidence_count |-> Counted(InOrder(tellers)[k])]]
    BY DEF Deduplicate, S
  <2> HIDE DEF tellers, Counted
  <2>3. QED
    BY <2>1, <2>2 DEF Range
<1>8. \A t \in tellers : \E p \in S : t = Canonical(Cluster(active, p)) /\ KeyOf(t) = KeyOf(p)
  BY <1>2, <1>3, <1>4
<1>9. \A p \in S : \E t \in tellers : t = Canonical(Cluster(active, p)) /\ KeyOf(t) = KeyOf(p)
  BY <1>2, <1>3, <1>4
<1> HIDE DEF tellers, told
<1>10. \A c \in told : c.event \in tellers /\ c = [event |-> c.event, evidence_count |-> Counted(c.event)]
  BY <1>7
<1>11. ASSUME NEW t \in tellers
       PROVE  \E c \in told : c.event = t
  <2>1. [event |-> t, evidence_count |-> Counted(t)] \in told
    BY <1>7
  <2>2. [event |-> t, evidence_count |-> Counted(t)].event = t
    OBVIOUS
  <2>3. QED
    BY <2>1, <2>2
<1>12. ASSUME NEW c \in told, NEW d \in told, KeyOf(c.event) = KeyOf(d.event)
       PROVE  c = d
  <2>1. c.event = d.event
    <3>1. PICK p \in S : c.event = Canonical(Cluster(active, p)) /\ KeyOf(c.event) = KeyOf(p)
      BY <1>8, <1>10
    <3>2. PICK q \in S : d.event = Canonical(Cluster(active, q)) /\ KeyOf(d.event) = KeyOf(q)
      BY <1>8, <1>10
    <3>3. Cluster(active, p) = Cluster(active, q)
      BY <1>5, <1>12, <3>1, <3>2
    <3>4. QED
      BY <3>1, <3>2, <3>3
  <2>2. QED
    BY <1>10, <2>1
<1>13. {KeyOf(c.event) : c \in told} = {KeyOf(p) : p \in S}
  BY <1>6, <1>9, <1>10, <1>11
<1>14. ASSUME NEW c \in told
       PROVE  /\ c.event \in S
              /\ c.evidence_count = Cardinality({p \in S : KeyOf(p) = KeyOf(c.event)})
              /\ \A p \in S : KeyOf(p) = KeyOf(c.event) /\ Extracted[p].is_confirmed
                                => Extracted[c.event].is_confirmed
  <2>1. c.event \in S
    BY <1>6, <1>10
  <2>2. Cluster(active, c.event) = {p \in S : KeyOf(p) = KeyOf(c.event)}
    BY DEF Cluster, KeyOf, S
  <2>3. c.evidence_count = Counted(c.event)
    BY <1>10
  <2>4. PICK p \in S : c.event = Canonical(Cluster(active, p)) /\ KeyOf(c.event) = KeyOf(p)
    BY <1>8, <1>10
  <2>5. QED
    BY <1>3, <1>4, <2>1, <2>2, <2>3, <2>4
<1>15. QED
  BY <1>12, <1>13, <1>14 DEF StoriesOf, told, S

-----------------------------------------------------------------------------
(* A run: what supersession has looked at, and what it has made of it. *)

Passed == {ordered[j] : j \in 1..at}

\* q comes after the rumour p and confirms it.
Overtakes(q, p) ==
  /\ SeenBefore(p, q)
  /\ SameStory(Extracted[p], Extracted[q])
  /\ Extracted[q].is_confirmed /\ ~Extracted[p].is_confirmed

\* Each rumour that an event among those passed confirms is dropped and is
\* claimed by one such event, and by no other.
RunInv ==
  as_of # None =>
    /\ ordered \in Seq(Places) /\ Range(ordered) = Seen(as_of)
    /\ \A i, j \in DOMAIN ordered : i < j => SeenBefore(ordered[i], ordered[j])
    /\ at \in 0..Len(ordered)
    /\ superseded = {p \in Passed : \E q \in Passed : Overtakes(q, p)}
    /\ supersedes \in [Places -> SUBSET Places]
    /\ \A q \in Places : \A p \in supersedes[q] :
         p \in superseded /\ q \in Passed /\ Overtakes(q, p)
    /\ \A p \in superseded : \E q \in Places : p \in supersedes[q]
    /\ \A q, r \in Places : supersedes[q] \cap supersedes[r] # {} => q = r

ResultInv ==
  /\ result.as_of = None => result.canonical = <<>> /\ result.active = <<>>
  /\ result.as_of # None => /\ result.as_of \in Time /\ Told \subseteq Places
                            /\ result.active \in Seq(Places)

NewsInv ==
  /\ documents \in Seq(Document)
  /\ as_of \in Time \cup {None}
  /\ RunInv
  /\ ResultInv
  /\ ActiveIsExact
  /\ SupersededOnce
  /\ ClustersPartitionActive

\* Nothing of the archive changes while the documents stay as they are.
LEMMA SameArchive ==
  ASSUME documents' = documents
  PROVE  /\ Places' = Places /\ Extracted' = Extracted
         /\ \A p, q : /\ SeenNoLater(p, q)' <=> SeenNoLater(p, q)
                      /\ SeenBefore(p, q)' <=> SeenBefore(p, q)
                      /\ Overtakes(p, q)' <=> Overtakes(p, q)
         /\ \A when : Seen(when)' = Seen(when)
<1>1. Places' = Places
  BY DEF Places
<1>2. Extracted' = Extracted
  BY <1>1 DEF Extracted
<1>3. QED
  BY <1>1, <1>2 DEF SeenNoLater, SeenBefore, Overtakes, Seen

LEMMA RunStarts ==
  ASSUME NewsInv, NEW when \in Time, RunPipeline(when)
  PROVE  RunInv'
<1>1. documents \in Seq(Document) /\ documents' = documents
  BY DEF NewsInv, RunPipeline
<1>2. /\ as_of' = when /\ ordered' = InOrder(Seen(when)) /\ at' = 0
      /\ superseded' = {} /\ supersedes' = [p \in Places |-> {}]
  BY DEF RunPipeline
<1>3. Seen(when) \subseteq Places
  BY DEF Seen
<1>4. /\ ordered' \in Seq(Seen(when)) /\ Range(ordered') = Seen(when)
      /\ \A i, j \in DOMAIN ordered' : i < j => SeenBefore(ordered'[i], ordered'[j])
  BY <1>1, <1>2, <1>3, ListedInOrder
<1>5. ordered' \in Seq(Places)
  BY <1>3, <1>4
<1>6. Passed' = {}
  BY <1>2 DEF Passed
<1>7. at' \in 0..Len(ordered')
  BY <1>2, <1>5
<1>8. /\ Places' = Places /\ Seen(when)' = Seen(when)
      /\ \A p, q : SeenBefore(p, q)' <=> SeenBefore(p, q)
  BY <1>1, SameArchive
<1>9. superseded' = {p \in Passed' : \E q \in Passed' : Overtakes(q, p)'}
  BY <1>2, <1>6
<1>10. /\ supersedes' \in [Places -> SUBSET Places]
       /\ \A q \in Places : supersedes'[q] = {}
  BY <1>2
<1>11. QED
  BY <1>2, <1>4, <1>5, <1>7, <1>8, <1>9, <1>10 DEF RunInv

\* The event at the next position comes after all that were passed: it claims
\* the rumours it confirms and nobody has claimed, and nobody claims it.
LEMMA RunGoesOn ==
  ASSUME NewsInv, Supersede
  PROVE  RunInv'
<1> DEFINE x == ordered[at + 1]
           taken == Replaced(at + 1)
<1>1. /\ documents \in Seq(Document) /\ documents' = documents
      /\ as_of # None /\ as_of' = as_of /\ ordered' = ordered /\ at' = at + 1
      /\ superseded' = superseded \cup taken
      /\ supersedes' = [supersedes EXCEPT ![x] = taken]
      /\ at < Len(ordered)
  BY DEF NewsInv, Supersede
<1>2. /\ ordered \in Seq(Places) /\ Range(ordered) = Seen(as_of)
      /\ \A i, j \in DOMAIN ordered : i < j => SeenBefore(ordered[i], ordered[j])
      /\ at \in 0..Len(ordered)
      /\ superseded = {p \in Passed : \E q \in Passed : Overtakes(q, p)}
      /\ supersedes \in [Places -> SUBSET Places]
      /\ \A q \in Places : \A p \in supersedes[q] :
           p \in superseded /\ q \in Passed /\ Overtakes(q, p)
      /\ \A p \in superseded : \E q \in Places : p \in supersedes[q]
      /\ \A q, r \in Places : supersedes[q] \cap supersedes[r] # {} => q = r
  BY <1>1 DEF NewsInv, RunInv
<1>3. /\ at \in Nat /\ Len(ordered) \in Nat /\ at + 1 \in DOMAIN ordered
      /\ 1..at \subseteq DOMAIN ordered /\ \A j \in 1..at : j < at + 1
  BY <1>1, <1>2
<1>4. x \in Places /\ Passed \subseteq Places /\ \A p \in Passed : SeenBefore(p, x)
  BY <1>2, <1>3 DEF Passed
<1>5. x \notin Passed /\ \A p \in Passed : ~SeenBefore(x, p)
  BY <1>1, <1>4, SeenInOrder
<1>6. Passed' = Passed \cup {x}
  <2>1. 1..(at + 1) = 1..at \cup {at + 1}
    BY <1>3
  <2>2. QED
    BY <1>1, <2>1 DEF Passed
<1>7. taken = {p \in Passed \ superseded : Overtakes(x, p)}
  <2>1. 1..((at + 1) - 1) = 1..at
    BY <1>3
  <2>2. Passed = {ordered[j] : j \in 1..((at + 1) - 1)}
    BY <2>1 DEF Passed
  <2>3. QED
    BY <1>4, <2>2 DEF Replaced, Overtakes
<1>8. /\ Places' = Places
      /\ \A p, q : /\ SeenBefore(p, q)' <=> SeenBefore(p, q)
                   /\ Overtakes(p, q)' <=> Overtakes(p, q)
  BY <1>1, SameArchive
<1>9. Seen(as_of)' = Seen(as_of)
  BY <1>1, SameArchive
<1> HIDE DEF x, taken
<1>10. \A q \in Passed' : ~Overtakes(q, x)
  BY <1>5, <1>6 DEF Overtakes, SeenBefore
<1>11. superseded' = {p \in Passed' : \E q \in Passed' : Overtakes(q, p)}
  <2>1. superseded' \subseteq {p \in Passed' : \E q \in Passed' : Overtakes(q, p)}
    BY <1>1, <1>2, <1>6, <1>7
  <2>2. ASSUME NEW p \in Passed', NEW q \in Passed', Overtakes(q, p)
        PROVE  p \in superseded'
    <3>1. p \in Passed
      BY <1>6, <1>10, <2>2
    <3>2. CASE q \in Passed
      BY <1>1, <1>2, <2>2, <3>1, <3>2
    <3>3. CASE q = x
      BY <1>1, <1>7, <2>2, <3>1, <3>3
    <3>4. QED
      BY <1>6, <3>2, <3>3
  <2>3. QED
    BY <2>1, <2>2
<1>12. supersedes[x] = {}
  BY <1>2, <1>4, <1>5
<1>13. /\ supersedes' \in [Places -> SUBSET Places]
       /\ supersedes'[x] = taken
       /\ \A q \in Places \ {x} : supersedes'[q] = supersedes[q]
  BY <1>1, <1>2, <1>4, <1>7
<1>14. ASSUME NEW q \in Places, NEW p \in supersedes'[q]
       PROVE  p \in superseded' /\ q \in Passed' /\ Overtakes(q, p)
  BY <1>1, <1>2, <1>6, <1>7, <1>13, <1>14
<1>15. ASSUME NEW p \in superseded'
       PROVE  \E q \in Places : p \in supersedes'[q]
  <2>1. CASE p \in superseded
    <3>1. PICK q \in Places : p \in supersedes[q]
      BY <1>2, <2>1
    <3>2. q # x
      BY <1>12, <3>1
    <3>3. QED
      BY <1>13, <3>1, <3>2
  <2>2. CASE p \in taken
    BY <1>4, <1>13, <2>2
  <2>3. QED
    BY <1>1, <2>1, <2>2
<1>16. ASSUME NEW q \in Places, NEW r \in Places, NEW p \in supersedes'[q] \cap supersedes'[r]
       PROVE  q = r
  <2>1. p \notin taken => q # x /\ r # x
    BY <1>13
  <2>2. p \in taken => q = x /\ r = x
    BY <1>2, <1>7, <1>13
  <2>3. QED
    BY <1>2, <1>13, <2>1, <2>2
<1>17. at' \in 0..Len(ordered')
  BY <1>1, <1>3
<1>18. /\ ordered' \in Seq(Places) /\ Range(ordered') = Seen(as_of)
       /\ \A i, j \in DOMAIN ordered' : i < j => SeenBefore(ordered'[i], ordered'[j])
  BY <1>1, <1>2
<1>19. QED
  BY <1>1, <1>8, <1>9, <1>11, <1>13, <1>14, <1>15, <1>16, <1>17, <1>18 DEF RunInv

-----------------------------------------------------------------------------
(* The end of a run, and what later documents do to its result. *)

LEMMA ConfirmsIsOvertakes ==
  ASSUME NEW p, NEW q
  PROVE  Confirms(q, p) <=> q \in Known /\ Overtakes(q, p)
BY DEF Confirms, Overtakes, SeenBefore

\* The result of a run is made of what was seen and what supersession left.
LEMMA WhatFinishes ==
  ASSUME NewsInv, Finish
  PROVE  /\ documents \in Seq(Document) /\ documents' = documents
         /\ result'.as_of = as_of /\ as_of \in Time /\ as_of # None
         /\ Told' = Places /\ Known' = Seen(as_of) /\ Known' = Passed
         /\ result'.supersedes = supersedes
         /\ result'.active \in Seq(Places) /\ Active' = Passed \ superseded
         /\ result'.canonical = Deduplicate(result'.active)
<1> DEFINE active == InOrder(Range(ordered) \ superseded)
<1>1. /\ documents \in Seq(Document) /\ documents' = documents
      /\ as_of # None /\ at = Len(ordered)
      /\ result' = [as_of          |-> as_of,
                    active         |-> active,
                    supersedes     |-> supersedes,
                    canonical      |-> Deduplicate(active),
                    contradictions |-> FindContradictions(active),
                    impacts        |-> Aggregate(active, as_of),
                    sentiment      |-> DOMAIN documents]
  BY DEF NewsInv, Finish
<1>2. as_of \in Time /\ as_of \in Nat
  BY <1>1, NewsAssumption DEF NewsInv
<1>3. /\ ordered \in Seq(Places) /\ Range(ordered) = Seen(as_of)
      /\ supersedes \in [Places -> SUBSET Places]
  BY <1>1 DEF NewsInv, RunInv
<1>4. Passed = Range(ordered)
  BY <1>1, <1>3 DEF Passed, Range
<1>5. Range(ordered) \ superseded \subseteq Places
  BY <1>3 DEF Seen
<1>6. active \in Seq(Places) /\ Range(active) = Passed \ superseded
  <2> DEFINE left == Range(ordered) \ superseded
  <2>1. left \subseteq Places /\ left = Passed \ superseded
    BY <1>4, <1>5
  <2>2. active \in Seq(left) /\ Range(active) = left
    BY <1>1, <2>1, ListedInOrder
  <2> HIDE DEF left, active
  <2>3. QED
    BY <2>1, <2>2
<1> HIDE DEF active
<1>7. /\ result'.as_of = as_of /\ result'.active = active /\ result'.supersedes = supersedes
      /\ result'.canonical = Deduplicate(active)
  BY <1>1
<1>8. Told' = Places
  BY <1>3, <1>7 DEF Told
<1>9. Active' = Passed \ superseded
  BY <1>6, <1>7 DEF Active
<1>10. Known' = Seen(as_of)
  <2>1. Extracted' = Extracted
    BY <1>1, SameArchive
  <2>2. \A p \in Places : Extracted[p].first_seen_at \in Nat
    BY <1>1, PlaceFields
  <2>3. \A p \in Places : Extracted[p].first_seen_at <= as_of <=> IsAvailableAt(Extracted[p], as_of)
    BY <1>2, <2>2 DEF IsAvailableAt
  <2>4. Known' = {p \in Places : Extracted[p].first_seen_at <= as_of}
    BY <1>7, <1>8, <2>1 DEF Known
  <2>5. QED
    BY <2>3, <2>4 DEF Seen
<1>11. QED
  BY <1>1, <1>2, <1>3, <1>4, <1>6, <1>7, <1>8, <1>9, <1>10

LEMMA ResultIsExact ==
  ASSUME NewsInv, Finish
  PROVE  ResultInv' /\ ActiveIsExact' /\ SupersededOnce' /\ ClustersPartitionActive'
<1>1. /\ documents \in Seq(Document) /\ documents' = documents
      /\ result'.as_of = as_of /\ as_of \in Time /\ as_of # None
      /\ Told' = Places /\ Known' = Passed
      /\ result'.supersedes = supersedes
      /\ result'.active \in Seq(Places) /\ Active' = Passed \ superseded
      /\ result'.canonical = Deduplicate(result'.active)
  BY WhatFinishes
<1>2. /\ superseded = {p \in Passed : \E q \in Passed : Overtakes(q, p)}
      /\ supersedes \in [Places -> SUBSET Places]
      /\ \A q \in Places : \A p \in supersedes[q] :
           p \in superseded /\ q \in Passed /\ Overtakes(q, p)
      /\ \A p \in superseded : \E q \in Places : p \in supersedes[q]
      /\ \A q, r \in Places : supersedes[q] \cap supersedes[r] # {} => q = r
  BY <1>1 DEF NewsInv, RunInv
<1>3. /\ Places' = Places /\ Extracted' = Extracted
      /\ \A p, q : SeenNoLater(p, q)' <=> SeenNoLater(p, q)
  BY <1>1, SameArchive
<1>4. \A p, q : Confirms(q, p)' <=> q \in Passed /\ Overtakes(q, p)
  BY <1>1, <1>3 DEF Confirms, Overtakes, SeenBefore
<1>5. ResultInv'
  <2>1. result'.as_of # None
    BY <1>1
  <2>2. QED
    BY <1>1, <1>3, <2>1 DEF ResultInv
<1>6. ActiveIsExact'
  BY <1>1, <1>2, <1>4 DEF ActiveIsExact
<1>7. SupersededOnce'
  <2> SUFFICES ASSUME NEW p \in Passed
      PROVE  LET claims == {q \in Places : p \in supersedes[q]}
             IN  /\ p \in Active' <=> claims = {}
                 /\ Cardinality(claims) <= 1
                 /\ \A q \in claims : q \in Active' /\ Confirms(q, p)'
    BY <1>1 DEF SupersededOnce
  <2> DEFINE claims == {q \in Places : p \in supersedes[q]}
  <2>1. p \in Active' <=> claims = {}
    BY <1>1, <1>2
  <2>2. \A q, r \in claims : q = r
    BY <1>2
  <2>3. Cardinality(claims) <= 1
    <3>1. claims = {} \/ \E q : claims = {q}
      BY <2>2
    <3> HIDE DEF claims
    <3>2. Cardinality(claims) \in {0, 1}
      BY <3>1, FS_EmptySet, FS_Singleton
    <3>3. QED
      BY <3>2
  <2>4. ASSUME NEW q \in claims
        PROVE  q \in Active' /\ Confirms(q, p)'
    <3>1. q \in Passed /\ Overtakes(q, p)
      BY <1>2
    <3>2. q \notin superseded
      BY <1>2, <3>1 DEF Overtakes
    <3>3. QED
      BY <1>1, <1>4, <3>1, <3>2
  <2>5. QED
    BY <2>1, <2>3, <2>4
<1>8. ClustersPartitionActive'
  <2>1. StoriesOf(Range(result'.canonical), Active')
    BY <1>1, EachClusterTold DEF Active
  <2>2. QED
    BY <1>3, <2>1 DEF ClustersPartitionActive, StoriesOf, KeyOf
<1>9. QED
  BY <1>5, <1>6, <1>7, <1>8

LEMMA DocumentsOnlyAdd ==
  ASSUME NewsInv, NEW doc \in Document, Receive(doc)
  PROVE  NewsInv'
<1>1. /\ documents \in Seq(Document) /\ documents' = Append(documents, doc)
      /\ as_of = None /\ as_of' = None /\ result' = result
  BY DEF NewsInv, Receive
<1>2. /\ documents' \in Seq(Document) /\ DOMAIN documents \subseteq DOMAIN documents'
      /\ \A n \in DOMAIN documents : documents'[n] = documents[n]
  BY <1>1
<1>3. Places \subseteq Places'
  BY <1>2 DEF Places
<1>4. \A p \in Places : Extracted'[p] = Extracted[p]
  <2>1. \A p \in Places : p[1] \in DOMAIN documents
    BY <1>1, PlaceFields
  <2>2. QED
    BY <1>2, <1>3, <2>1 DEF Extracted
<1>5. RunInv'
  BY <1>1 DEF RunInv
<1>6. CASE result.as_of = None
  <2>1. /\ ResultInv' /\ ActiveIsExact' /\ SupersededOnce'
    BY <1>1, <1>6 DEF NewsInv, ResultInv, ActiveIsExact, SupersededOnce
  <2>2. result'.canonical = <<>> /\ result'.active = <<>>
    BY <1>1, <1>6 DEF NewsInv, ResultInv
  <2>3. Range(<<>>) = {}
    BY DEF Range
  <2>4. ClustersPartitionActive'
    BY <2>2, <2>3 DEF ClustersPartitionActive, Active
  <2>5. QED
    BY <1>1, <1>2, <1>5, <2>1, <2>4 DEF NewsInv
<1>7. CASE result.as_of # None
  <2>1. /\ result.as_of \in Time /\ Told \subseteq Places /\ Told' = Told
        /\ result.active \in Seq(Places) /\ Active' = Active /\ Active \subseteq Places
    BY <1>1, <1>7 DEF NewsInv, ResultInv, Told, Active, Range
  <2>2. Known' = Known /\ Known \subseteq Places
    BY <1>1, <1>4, <2>1 DEF Known
  <2>3. \A p, q \in Places : /\ SeenNoLater(p, q)' <=> SeenNoLater(p, q)
                             /\ SameStory(Extracted[p], Extracted[q])'
                                   <=> SameStory(Extracted[p], Extracted[q])
    BY <1>4 DEF SeenNoLater, SameStory
  <2>4. \A p \in Places, q \in Told : Confirms(q, p)' <=> Confirms(q, p)
    BY <1>4, <2>1, <2>2, <2>3 DEF Confirms
  <2>5. ResultInv'
    BY <1>1, <1>3, <1>7, <2>1 DEF ResultInv
  <2>6. ActiveIsExact'
    <3>1. Active = {p \in Known : ~\E q \in Known : Confirms(q, p)}
      BY <1>7 DEF NewsInv, ActiveIsExact
    <3>2. \A p, q \in Known : Confirms(q, p)' <=> Confirms(q, p)
      BY <2>2, <2>4 DEF Known
    <3>3. QED
      BY <2>1, <2>2, <3>1, <3>2 DEF ActiveIsExact
  <2>7. SupersededOnce'
    <3> SUFFICES ASSUME NEW p \in Known
        PROVE  LET claims == {q \in Told : p \in result.supersedes[q]}
               IN  /\ p \in Active <=> claims = {}
                   /\ Cardinality(claims) <= 1
                   /\ \A q \in claims : q \in Active /\ Confirms(q, p)'
      BY <1>1, <2>1, <2>2 DEF SupersededOnce
    <3> DEFINE claims == {q \in Told : p \in result.supersedes[q]}
    <3>1. /\ p \in Active <=> claims = {}
          /\ Cardinality(claims) <= 1
          /\ \A q \in claims : q \in Active /\ Confirms(q, p)
      BY <1>7 DEF NewsInv, SupersededOnce
    <3>2. \A q \in claims : Confirms(q, p)' <=> Confirms(q, p)
      BY <2>2, <2>4
    <3>3. QED
      BY <3>1, <3>2
  <2>8. ClustersPartitionActive'
    <3>1. \A p \in Active : KeyOf(p)' = KeyOf(p)
      BY <1>4, <2>1 DEF KeyOf
    <3>2. StoriesOf(Range(result.canonical), Active)
      BY DEF NewsInv, ClustersPartitionActive, StoriesOf, KeyOf
    <3>3. \A c \in Range(result.canonical) : /\ c.event \in Active
                                             /\ Extracted'[c.event] = Extracted[c.event]
      BY <1>4, <2>1, <3>2 DEF StoriesOf
    <3> DEFINE told == Range(result.canonical)
    <3> HIDE DEF told
    <3>4. StoriesOf(told, Active)'
      BY <1>1, <1>4, <2>1, <3>1, <3>2, <3>3 DEF StoriesOf, told
    <3>5. QED
      BY <3>4 DEF ClustersPartitionActive, StoriesOf, KeyOf, told
  <2>9. QED
    BY <1>1, <1>2, <1>5, <2>5, <2>6, <2>7, <2>8 DEF NewsInv
<1>8. QED
  BY <1>6, <1>7

-----------------------------------------------------------------------------
LEMMA NewsInvHolds ==
  Spec => []NewsInv
<1>1. Init => NewsInv
  <2> SUFFICES ASSUME Init PROVE NewsInv
    OBVIOUS
  <2>1. /\ documents = <<>> /\ as_of = None
        /\ result.as_of = None /\ result.active = <<>> /\ result.canonical = <<>>
    BY DEF Init, NoResult
  <2>2. Range(<<>>) = {}
    BY DEF Range
  <2>3. documents \in Seq(Document)
    BY <2>1
  <2>4. ClustersPartitionActive
    BY <2>1, <2>2 DEF ClustersPartitionActive, Active
  <2>5. QED
    BY <2>1, <2>3, <2>4 DEF NewsInv, RunInv, ResultInv, ActiveIsExact, SupersededOnce
<1>2. NewsInv /\ [Next]_vars => NewsInv'
  <2> SUFFICES ASSUME NewsInv, [Next]_vars PROVE NewsInv'
    OBVIOUS
  <2>1. CASE \E doc \in Document : Receive(doc)
    BY <2>1, DocumentsOnlyAdd
  <2>2. ASSUME documents' = documents, result' = result, as_of' \in Time \cup {None}, RunInv'
        PROVE  NewsInv'
    <3>1. Places' = Places /\ Extracted' = Extracted
      BY <2>2, SameArchive
    <3>2. /\ ResultInv' /\ Told' = Told /\ Known' = Known /\ Active' = Active
      BY <2>2, <3>1 DEF NewsInv, ResultInv, Told, Known, Active
    <3>3. \A p, q : Confirms(q, p)' <=> Confirms(q, p)
      BY <3>1, <3>2 DEF Confirms, SeenNoLater
    <3>4. ActiveIsExact'
      BY <2>2, <3>2, <3>3 DEF NewsInv, ActiveIsExact
    <3>5. SupersededOnce'
      BY <2>2, <3>2, <3>3 DEF NewsInv, SupersededOnce
    <3>6. ClustersPartitionActive'
      BY <2>2, <3>1, <3>2 DEF NewsInv, ClustersPartitionActive
    <3>7. QED
      BY <2>2, <3>2, <3>4, <3>5, <3>6 DEF NewsInv
  <2>3. CASE \E when \in Time : RunPipeline(when)
    <3>1. PICK when \in Time : RunPipeline(when)
      BY <2>3
    <3>2. documents' = documents /\ result' = result /\ as_of' \in Time \cup {None}
      BY <3>1 DEF RunPipeline
    <3>3. RunInv'
      BY <3>1, RunStarts
    <3>4. QED
      BY <2>2, <3>2, <3>3
  <2>4. CASE Supersede
    <3>1. documents' = documents /\ result' = result /\ as_of' \in Time \cup {None}
      BY <2>4 DEF Supersede, NewsInv
    <3>2. RunInv'
      BY <2>4, RunGoesOn
    <3>3. QED
      BY <2>2, <3>1, <3>2
  <2>5. CASE Finish
    <3>1. documents' = documents /\ as_of' = None /\ documents \in Seq(Document)
      BY <2>5 DEF Finish, NewsInv
    <3>2. RunInv'
      BY <3>1 DEF RunInv
    <3>3. QED
      BY <2>5, <3>1, <3>2, ResultIsExact DEF NewsInv
  <2>6. CASE UNCHANGED vars
    <3>1. /\ documents' = documents /\ as_of' = as_of /\ ordered' = ordered /\ at' = at
          /\ superseded' = superseded /\ supersedes' = supersedes /\ result' = result
      BY <2>6 DEF vars
    <3>2. /\ Places' = Places /\ Passed' = Passed
          /\ \A p, q : /\ SeenBefore(p, q)' <=> SeenBefore(p, q)
                       /\ Overtakes(p, q)' <=> Overtakes(p, q)
          /\ Seen(as_of)' = Seen(as_of)
      BY <3>1, SameArchive DEF Passed
    <3>3. RunInv'
      BY <3>1, <3>2 DEF NewsInv, RunInv
    <3>4. QED
      BY <2>2, <3>1, <3>3 DEF NewsInv
  <2>7. QED
    BY <2>1, <2>3, <2>4, <2>5, <2>6 DEF Next
<1>3. QED
  BY <1>1, <1>2, PTL DEF Spec

(* A finished run is active on exactly the events seen by its as_of that no  *)
(* confirmation seen by then replaces (run_pipeline).                        *)
THEOREM ActiveAlwaysExact ==
  Spec => []ActiveIsExact
<1>1. NewsInv => ActiveIsExact
  BY DEF NewsInv
<1>2. QED
  BY <1>1, NewsInvHolds, PTL

(* Every event seen is active, or is recorded as superseded by exactly one   *)
(* event, an active confirmation of its story (apply_supersession).          *)
THEOREM AlwaysSupersededOnce ==
  Spec => []SupersededOnce
<1>1. NewsInv => SupersededOnce
  BY DEF NewsInv
<1>2. QED
  BY <1>1, NewsInvHolds, PTL

(* One canonical event per type, drivers and meeting, with its count, and    *)
(* never a rumour for a story with a confirmation (deduplicate).             *)
THEOREM ClustersAlwaysPartition ==
  Spec => []ClustersPartitionActive
<1>1. NewsInv => ClustersPartitionActive
  BY DEF NewsInv
<1>2. QED
  BY <1>1, NewsInvHolds, PTL

(* From one run to the next, if its moment is no earlier: a rumour once      *)
(* superseded stays out and a story once told as confirmed stays confirmed,  *)
(* whatever arrived in between.                                              *)
THEOREM NewsSticks ==
  Spec => ConfirmedNewsSticks
<1>1. ASSUME NewsInv, [Next]_vars, result' # result,
             result.as_of # None, result'.as_of >= result.as_of
      PROVE  /\ \A p \in Known : p \notin Active => p \notin Range(result'.active)
             /\ \A c \in Range(result.canonical) :
                  Extracted[c.event].is_confirmed =>
                    \E d \in Range(result'.canonical) :
                      /\ ClusterKey(Extracted[d.event]) = ClusterKey(Extracted[c.event])
                      /\ Extracted[d.event].is_confirmed
  <2>1. Finish
    BY <1>1 DEF Next, Receive, RunPipeline, Supersede, vars
  <2>2. /\ documents \in Seq(Document) /\ documents' = documents
        /\ result'.as_of = as_of /\ as_of \in Time /\ Told' = Places
        /\ result'.as_of # None
    BY <1>1, <2>1, WhatFinishes
  <2>3. /\ Extracted' = Extracted
        /\ \A p, q : SeenNoLater(p, q)' <=> SeenNoLater(p, q)
    BY <2>2, SameArchive
  <2>4. ActiveIsExact' /\ ClustersPartitionActive'
    BY <1>1, <2>1, ResultIsExact
  <2>5. result.as_of \in Nat /\ result'.as_of \in Nat /\ Told \subseteq Places
    BY <1>1, <2>2, NewsAssumption DEF NewsInv, ResultInv
  <2>6. Known \subseteq Known'
    <3>1. \A p \in Told : Extracted[p].first_seen_at \in Nat
      BY <2>2, <2>5, PlaceFields
    <3>2. \A p \in Told : Extracted[p].first_seen_at <= result.as_of
                            => Extracted[p].first_seen_at <= result'.as_of
      BY <1>1, <2>5, <3>1
    <3>3. QED
      BY <2>2, <2>3, <2>5, <3>2 DEF Known
  <2>7. \A p, q : Confirms(q, p) => Confirms(q, p)'
    BY <2>3, <2>6 DEF Confirms
  <2>8. Active = {p \in Known : ~\E q \in Known : Confirms(q, p)}
    BY <1>1 DEF NewsInv, ActiveIsExact
  <2>9. Active' = {p \in Known' : ~\E q \in Known' : Confirms(q, p)'}
    BY <2>2, <2>4 DEF ActiveIsExact
  <2>10. ASSUME NEW p \in Known, p \notin Active
         PROVE  p \notin Range(result'.active)
    BY <2>6, <2>7, <2>8, <2>9, <2>10 DEF Active
  <2>11. ASSUME NEW c \in Range(result.canonical), Extracted[c.event].is_confirmed
         PROVE  \E d \in Range(result'.canonical) :
                  /\ ClusterKey(Extracted[d.event]) = ClusterKey(Extracted[c.event])
                  /\ Extracted[d.event].is_confirmed
    <3>1. c.event \in Active
      BY <1>1 DEF NewsInv, ClustersPartitionActive
    <3>2. c.event \in Active'
      <4>1. c.event \in Known'
        BY <2>6, <2>8, <3>1
      <4>2. ~\E q \in Known' : Confirms(q, c.event)'
        BY <2>3, <2>11 DEF Confirms
      <4>3. QED
        BY <2>9, <4>1, <4>2
    <3>3. PICK d \in Range(result'.canonical) :
            ClusterKey(Extracted[d.event]) = ClusterKey(Extracted[c.event])
      BY <2>3, <2>4, <3>2 DEF ClustersPartitionActive
    <3>4. Extracted[d.event].is_confirmed
      BY <2>3, <2>4, <2>11, <3>2, <3>3 DEF ClustersPartitionActive
    <3>5. QED
      BY <3>3, <3>4
  <2>12. QED
    BY <2>10, <2>11
<1>2. NewsInv /\ [Next]_vars =>
        [result.as_of # None /\ result'.as_of >= result.as_of =>
           /\ \A p \in Known : p \notin Active => p \notin Range(result'.active)
           /\ \A c \in Range(result.canonical) :
                Extracted[c.event].is_confirmed =>
                  \E d \in Range(result'.canonical) :
                    /\ ClusterKey(Extracted[d.event]) = ClusterKey(Extracted[c.event])
                    /\ Extracted[d.event].is_confirmed]_result
  BY <1>1
<1>3. QED
  BY <1>2, NewsInvHolds, PTL DEF Spec, ConfirmedNewsSticks
=============================================================================
