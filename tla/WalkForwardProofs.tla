-------------------------- MODULE WalkForwardProofs --------------------------
(***************************************************************************)
(* No strength or failure rate in a prediction comes from its own race or  *)
(* a later one, for every table of results, every order of download, every *)
(* pattern of rounds that fail to load, any number of races and any        *)
(* holdout.  And the isotonic calibrator is the monotone fit of the record *)
(* it is given, equal probabilities taken in the order recorded.           *)
(***************************************************************************)
EXTENDS WalkForward, SortAndSumProofs

-----------------------------------------------------------------------------
(* What ratings and a prediction made from them can depend on. *)

\* The entries of a race, by row: finitely many, one for each driver.
Entries ==
  {entries \in UNION {[D -> Entry] : D \in SUBSET Nat} :
     /\ IsFiniteSet(DOMAIN entries)
     /\ \A i, j \in DOMAIN entries : entries[i].driver_id = entries[j].driver_id => i = j}

\* The rows of a classification, each driver's once.
Rows ==
  {rows \in Seq(Row) : \A i, j \in DOMAIN rows :
     rows[i].driver = rows[j].driver /\ rows[i].driver # None => i = j}

\* The fields that a prediction reads.
HasFields(r) ==
  /\ DOMAIN r = {"driver", "constructor", "driver_constructor", "entry_count",
                 "dnf_count", "counted", "races_seen", "first_seen"}
  /\ r = [f \in DOMAIN r |-> r[f]]

\* All that ratings know comes from the races of S.
KnownWithin(r, S) ==
  /\ HasFields(r)
  /\ \A d \in DOMAIN r.driver : r.driver[d].known \subseteq S
  /\ \A c \in DOMAIN r.constructor : r.constructor[c].known \subseteq S
  /\ \A k \in Keys : r.counted[k] \subseteq S
  /\ r.first_seen \subseteq S

\* Entries are booked under a team, or under no team.
LEMMA EntryFacts ==
  ASSUME NEW entries \in Entries, NEW e \in EntriesOf(entries)
  PROVE  e \in Entry /\ Key(e) \in Keys
<1>1. e \in Entry
  <2>1. PICK D \in SUBSET Nat : entries \in [D -> Entry]
    BY DEF Entries
  <2>2. PICK i \in DOMAIN entries : e = entries[i]
    BY DEF EntriesOf
  <2>3. QED
    BY <2>1, <2>2
<1>2. e.constructor_id \in Team \cup {None}
  BY <1>1 DEF Entry
<1>3. QED
  BY <1>1, <1>2 DEF Key, Keys

\* Nothing is known before the first race.
LEMMA NothingKnown == KnownWithin(NoRatings, {})
  BY DEF KnownWithin, NoRatings, HasFields

\* A driver's strength depends on nothing else, whether rated, new or inherited.
LEMMA StrengthWithin ==
  ASSUME NEW r, NEW S, NEW e, KnownWithin(r, S)
  PROVE  Strength(r, e) \subseteq S
  BY DEF KnownWithin, Strength

\* A prediction depends on what the ratings know.
LEMMA EvidenceWithin ==
  ASSUME NEW r, NEW S, NEW entries \in Entries, KnownWithin(r, S)
  PROVE  Evidence(r, entries) \subseteq S
<1>1. \A e \in EntriesOf(entries) :
        Strength(r, e) \subseteq S /\ r.counted[Key(e)] \subseteq S /\ r.first_seen \subseteq S
  BY StrengthWithin, EntryFacts DEF KnownWithin
<1>2. QED
  BY <1>1 DEF Evidence

\* Decay draws a rating to the mean because the race was held.
LEMMA DecayWithin ==
  ASSUME NEW r, NEW S, NEW race, KnownWithin(r, S)
  PROVE  KnownWithin(Decay(r, race), S \cup {race})
<1>1. CASE DOMAIN r.driver = {}
  <2>1. Decay(r, race) = r
    BY <1>1 DEF Decay
  <2>2. QED
    BY <2>1 DEF KnownWithin
<1>2. CASE DOMAIN r.driver # {}
  <2> DEFINE drawn(x) == [moved |-> x.moved, known |-> x.known \cup {race}]
             drivers == [d \in DOMAIN r.driver |-> drawn(r.driver[d])]
             constructors == [c \in DOMAIN r.constructor |-> drawn(r.constructor[c])]
             n == Decay(r, race)
  <2>1. n = [r EXCEPT !.driver = drivers, !.constructor = constructors]
    BY <1>2 DEF Decay
  <2>2. /\ HasFields(n) /\ n.driver = drivers /\ n.constructor = constructors
        /\ n.counted = r.counted /\ n.first_seen = r.first_seen
    <3> HIDE DEF drivers, constructors, n
    <3>1. QED
      BY <2>1 DEF KnownWithin, HasFields
  <2>3. /\ \A d \in DOMAIN drivers : drivers[d].known = r.driver[d].known \cup {race}
        /\ \A c \in DOMAIN constructors : constructors[c].known = r.constructor[c].known \cup {race}
        /\ DOMAIN drivers = DOMAIN r.driver /\ DOMAIN constructors = DOMAIN r.constructor
    OBVIOUS
  <2> HIDE DEF drivers, constructors, n
  <2>4. KnownWithin(n, S \cup {race})
    BY <2>2, <2>3 DEF KnownWithin
  <2>5. QED
    BY <2>4 DEF n
<1>3. QED
  BY <1>1, <1>2

\* Who is new starts from what is known, and is rated from then on.
LEMMA IntroduceWithin ==
  ASSUME NEW r, NEW S, NEW entries \in Entries, KnownWithin(r, S)
  PROVE  /\ KnownWithin(Introduce(r, entries), S)
         /\ Drivers(entries) \subseteq DOMAIN Introduce(r, entries).driver
<1> DEFINE named == {e \in EntriesOf(entries) : e.constructor_id # None}
           constructors ==
             [c \in DOMAIN r.constructor \cup {e.constructor_id : e \in named} |->
                IF c \in DOMAIN r.constructor THEN r.constructor[c] ELSE Fresh]
           entryOf(d) == CHOOSE e \in EntriesOf(entries) : e.driver_id = d
           with == [r EXCEPT !.constructor = constructors]
           inherited(d) == [moved |-> {}, known |-> Strength(with, entryOf(d))]
           drivers == [d \in DOMAIN r.driver \cup Drivers(entries) |->
                         IF d \in DOMAIN r.driver THEN r.driver[d] ELSE inherited(d)]
           i == Introduce(r, entries)
<1>1. \A c \in DOMAIN constructors : constructors[c].known \subseteq S
  BY DEF KnownWithin, Fresh
<1>2. HasFields(with) /\ with.driver = r.driver /\ with.counted = r.counted
      /\ with.constructor = constructors /\ with.first_seen = r.first_seen
  BY DEF KnownWithin, HasFields
<1>3. KnownWithin(with, S)
  BY <1>1, <1>2 DEF KnownWithin
<1>4. \A d \in DOMAIN drivers : drivers[d].known \subseteq S
  <2>1. \A d : inherited(d).known \subseteq S
    BY <1>3, StrengthWithin
  <2>2. QED
    BY <2>1 DEF KnownWithin
<1>5. /\ HasFields(i) /\ i.driver = drivers /\ i.constructor = constructors
      /\ i.counted = r.counted /\ i.first_seen = r.first_seen
  BY DEF Introduce, KnownWithin, HasFields
<1>6. QED
  BY <1>1, <1>4, <1>5 DEF KnownWithin

\* The reliability counts of a race come from it alone.
LEMMA CountWithin ==
  ASSUME NEW r, NEW S, NEW race, NEW entries, KnownWithin(r, S)
  PROVE  /\ KnownWithin(CountEntries(r, race, entries), S \cup {race})
         /\ CountEntries(r, race, entries).driver = r.driver
<1> DEFINE n == CountEntries(r, race, entries)
<1>1. /\ HasFields(n) /\ n.driver = r.driver /\ n.constructor = r.constructor
      /\ n.first_seen = r.first_seen
      /\ \A k \in Keys : n.counted[k] \subseteq r.counted[k] \cup {race}
  BY DEF CountEntries, KnownWithin, HasFields
<1>2. QED
  BY <1>1 DEF KnownWithin

\* Finishers learn from one another, and teams from the race.
LEMMA EloWithin ==
  ASSUME NEW r, NEW S, NEW race, NEW entries, KnownWithin(r, S \cup {race}),
         Drivers(entries) \subseteq DOMAIN r.driver
  PROVE  KnownWithin(EloUpdate(r, race, entries), S \cup {race})
<1> DEFINE finishers == Finishers(entries)
           pooled == {race} \cup UNION {r.driver[d].known : d \in finishers}
           n == EloUpdate(r, race, entries)
<1>1. finishers \subseteq DOMAIN r.driver
  BY DEF Finishers, Drivers
<1>2. pooled \subseteq S \cup {race}
  BY <1>1 DEF KnownWithin
<1>3. /\ HasFields(n) /\ n.counted = r.counted /\ n.first_seen = r.first_seen
      /\ DOMAIN n.driver = DOMAIN r.driver
      /\ \A d \in DOMAIN r.driver : n.driver[d].known \subseteq r.driver[d].known \cup pooled
      /\ DOMAIN n.constructor = DOMAIN r.constructor
      /\ \A c \in DOMAIN r.constructor :
           n.constructor[c].known \subseteq r.constructor[c].known \cup {race}
  BY DEF EloUpdate, KnownWithin, HasFields
<1>4. QED
  BY <1>2, <1>3 DEF KnownWithin

(* An update adds its own race, and no other, to what the ratings know:      *)
(* through opponents, an inherited prior, a constructor or the reliability   *)
(* counts nothing else comes in (DriverRatings.update 80-134).               *)
THEOREM UpdateWithin ==
  ASSUME NEW r, NEW S, NEW race, NEW entries \in Entries, KnownWithin(r, S)
  PROVE  KnownWithin(Update(r, race, entries), S \cup {race})
<1> DEFINE decayed == Decay(r, race)
           counted == CountEntries(Introduce(decayed, entries), race, entries)
           rated == IF Cardinality(Finishers(entries)) >= 2
                    THEN EloUpdate(counted, race, entries) ELSE counted
           n == Update(r, race, entries)
<1>1. /\ KnownWithin(counted, S \cup {race})
      /\ Drivers(entries) \subseteq DOMAIN counted.driver
  <2> DEFINE introduced == Introduce(decayed, entries)
  <2>1. KnownWithin(decayed, S \cup {race})
    BY DecayWithin
  <2> HIDE DEF decayed
  <2>2. /\ KnownWithin(introduced, S \cup {race})
        /\ Drivers(entries) \subseteq DOMAIN introduced.driver
    BY <2>1, IntroduceWithin
  <2> HIDE DEF introduced
  <2>3. /\ KnownWithin(CountEntries(introduced, race, entries), (S \cup {race}) \cup {race})
        /\ CountEntries(introduced, race, entries).driver = introduced.driver
    BY <2>2, CountWithin
  <2>4. (S \cup {race}) \cup {race} = S \cup {race}
    OBVIOUS
  <2>5. QED
    BY <2>2, <2>3, <2>4 DEF introduced
<1>2. KnownWithin(rated, S \cup {race})
  BY <1>1, EloWithin
<1>3. /\ HasFields(n) /\ n.driver = rated.driver /\ n.constructor = rated.constructor
      /\ n.counted = rated.counted
      /\ n.first_seen = IF rated.first_seen = {} THEN {race} ELSE rated.first_seen
  BY <1>2 DEF Update, KnownWithin, HasFields
<1>4. QED
  BY <1>2, <1>3 DEF KnownWithin

-----------------------------------------------------------------------------
(* What a job knows when it predicts. *)

Result == [race : Race, date : Nat, entries : Entries]
Prediction == [race : Race, evidence : SUBSET Race, columns : {Columns(e) : e \in Entries}]

\* The races of the first n results.
Passed(n) == {results[i].race : i \in 1..n}

\* The inputs of a job, and where it stands.
JobOK ==
  /\ job \in Job /\ table \in [Race -> Rows]
  /\ order \in [Race -> Race] /\ IsInjective(order)
  /\ job \in {"next", "hungary"} => order = InOrder
  /\ phase \in {"loading", "walking", "writing", "done", "exit", "crashed"}
  /\ round \in 1..(Cardinality(Race) + 1)

\* A race is loaded once, with its own date or, lacking one, a later date than any.
LoadedOnce ==
  /\ results \in Seq(Result)
  /\ \A i \in 1..Len(results) :
       /\ results[i].race \notin Undated => results[i].date = results[i].race
       /\ results[i].race \in Undated => results[i].date > Cardinality(Race)
       /\ job = "hungary" => results[i].race < GridRound
       /\ phase = "loading" => \E r \in 1..(round - 1) : results[i].race = order[r]
  /\ \A i, j \in 1..Len(results) : results[i].race = results[j].race => i = j

\* After loading, the results ascend by date.
Sorted ==
  phase # "loading" =>
    /\ \A i, j \in 1..Len(results) : i < j => results[i].date <= results[j].date
    /\ phase # "exit" /\ job = "train" => Len(results) >= 6

\* The model knows the races passed, and each record those before its own.
Walked ==
  /\ at \in 0..Len(results)
  /\ phase = "loading" => at = 0
  /\ phase = "writing" =>
       at = Len(results) /\ job # "recent" /\ (job = "next" => results # <<>>)
  /\ KnownWithin(ratings, Passed(at))
  /\ records \in Seq(Prediction)
  /\ \A i \in 1..Len(records) : \E j \in 1..at :
       records[i].race = results[j].race /\ records[i].evidence \subseteq Passed(j - 1)
  /\ job = "train" =>
       /\ Len(records) = at
       /\ \A i \in 1..at : records[i].race = results[i].race
                           /\ records[i].evidence \subseteq Passed(i - 1)

WalkInv == JobOK /\ LoadedOnce /\ Sorted /\ Walked

-----------------------------------------------------------------------------
\* The races are counted by a number.
LEMMA RaceCount == Cardinality(Race) \in Nat /\ Race = 1..Cardinality(Race) /\ Race \subseteq Nat
  BY JobAssumption, FS_CardinalityType

\* A row with a driver makes an entry.
LEMMA LoadedEntries ==
  ASSUME NEW rows \in Rows
  PROVE  LoadSessionResult(rows) \in Entries
<1> DEFINE D == {j \in DOMAIN rows : rows[j].driver # None}
           entries == LoadSessionResult(rows)
<1>1. /\ rows \in Seq(Row)
      /\ \A i, j \in DOMAIN rows : rows[i].driver = rows[j].driver /\ rows[i].driver # None => i = j
  BY DEF Rows
<1>2. D \subseteq Nat /\ IsFiniteSet(D)
  <2>1. Len(rows) \in Nat /\ DOMAIN rows = 1..Len(rows)
    BY <1>1
  <2>2. IsFiniteSet(1..Len(rows)) /\ D \subseteq 1..Len(rows)
    BY <2>1, FS_Interval
  <2>3. QED
    BY <2>2, FS_Subset
<1>3. \A i \in D : rows[i] \in Row /\ rows[i].driver # None
  BY <1>1
<1>4. \A i \in D : EntryOf(rows[i]) \in Entry
  BY <1>3 DEF EntryOf, Row, Entry
<1>5. entries \in [D -> Entry] /\ DOMAIN entries = D
  BY <1>4 DEF LoadSessionResult
<1>6. \A i \in D : entries[i].driver_id = rows[i].driver
  BY DEF LoadSessionResult, EntryOf
<1>7. \A i, j \in D : entries[i].driver_id = entries[j].driver_id => i = j
  BY <1>1, <1>6
<1> HIDE DEF entries, D
<1>8. entries \in Entries
  BY <1>2, <1>5, <1>7 DEF Entries
<1>9. QED
  BY <1>8 DEF entries

\* What has been passed is some of the races.
LEMMA PassedAreRaces ==
  ASSUME LoadedOnce, NEW n \in 0..Len(results)
  PROVE  Passed(n) \subseteq Race
<1>1. Len(results) \in Nat /\ \A i \in 1..Len(results) : results[i] \in Result
  BY DEF LoadedOnce
<1>2. \A i \in 1..n : i \in 1..Len(results)
  BY <1>1
<1>3. \A i \in 1..n : results[i].race \in Race
  BY <1>1, <1>2 DEF Result
<1>4. QED
  BY <1>3 DEF Passed

\* Of two results sorted by date the earlier is of an earlier race, unless the
\* later one has no date.
LEMMA EarlierResultEarlierRace ==
  ASSUME LoadedOnce, Sorted, phase # "loading",
         NEW i \in 1..Len(results), NEW j \in 1..Len(results), i < j,
         results[j].race \notin Undated
  PROVE  results[i].race \in Race /\ results[i].race < results[j].race
<1>1. /\ results[i] \in Result /\ results[j] \in Result
      /\ results[i].date <= results[j].date
  BY DEF LoadedOnce, Sorted
<1>2. /\ results[i].race \in Race /\ results[j].race \in Race
      /\ results[i].date \in Nat /\ results[j].date \in Nat
  BY <1>1 DEF Result
<1>3. results[j].date = results[j].race
  BY DEF LoadedOnce
<1>4. results[j].race <= Cardinality(Race) /\ results[j].race \in Nat /\ results[i].race \in Nat
  BY <1>2, RaceCount
<1>5. results[i].race \notin Undated
  BY <1>1, <1>2, <1>3, <1>4, RaceCount DEF LoadedOnce
<1>6. results[i].date = results[i].race
  BY <1>5 DEF LoadedOnce
<1>7. results[i].race # results[j].race
  BY DEF LoadedOnce
<1>8. QED
  BY <1>1, <1>2, <1>3, <1>4, <1>6, <1>7

-----------------------------------------------------------------------------
\* The invariant holds before the first download.
LEMMA InitWalk == Init => WalkInv
<1> SUFFICES ASSUME Init PROVE WalkInv
  OBVIOUS
<1>1. InOrder \in [Race -> Race] /\ IsInjective(InOrder)
  BY DEF InOrder, IsInjective
<1>2. JobOK
  <2>1. order \in [Race -> Race] /\ IsInjective(order)
    BY <1>1, JobAssumption DEF Init
  <2>2. job \in {"next", "hungary"} => order = InOrder
    BY DEF Init
  <2>3. round \in 1..(Cardinality(Race) + 1)
    BY RaceCount DEF Init
  <2>5. table \in [Race -> Rows]
    BY JobAssumption DEF Init, Rows
  <2>4. QED
    BY <2>1, <2>2, <2>3, <2>5 DEF Init, JobOK
<1>3. LoadedOnce /\ Sorted
  BY DEF Init, LoadedOnce, Sorted
<1>4. Passed(0) = {}
  BY DEF Passed
<1>5. Walked
  <2>1. at = 0 /\ Len(results) = 0 /\ Len(records) = 0 /\ records = <<>>
    BY DEF Init
  <2>2. KnownWithin(ratings, Passed(at))
    BY <1>4, <2>1, NothingKnown DEF Init
  <2>3. QED
    BY <2>1, <2>2 DEF Init, Walked
<1>6. QED
  BY <1>2, <1>3, <1>5 DEF WalkInv

\* A race is loaded at most once, since no round is asked for twice.
LEMMA LoadRoundWalk ==
  ASSUME WalkInv, NEW ok \in BOOLEAN, LoadRound(ok)
  PROVE  WalkInv'
<1> DEFINE race == order[round]
           new == [race |-> race, date |-> Date(race),
                   entries |-> LoadSessionResult(table[race])]
<1>1. /\ round \in 1..(Cardinality(Race) + 1) /\ round <= LastRound /\ LastRound <= Cardinality(Race)
      /\ round \in Race
  <2>1. round \in 1..(Cardinality(Race) + 1) /\ round <= LastRound
    BY DEF WalkInv, JobOK, LoadRound
  <2>2. Cardinality(Race) \in Nat /\ Race = 1..Cardinality(Race) /\ GridRound \in Race
    BY RaceCount, JobAssumption
  <2>3. LastRound \in Int /\ LastRound <= Cardinality(Race)
    BY <2>2 DEF LastRound
  <2>4. round \in 1..Cardinality(Race)
    BY <2>1, <2>2, <2>3
  <2>5. QED
    BY <2>1, <2>2, <2>3, <2>4
<1>2. race \in Race /\ table[race] \in Rows
  BY <1>1 DEF WalkInv, JobOK
<1>3. /\ new \in Result
      /\ race \notin Undated => new.date = race
      /\ race \in Undated => new.date > Cardinality(Race)
  BY <1>1, <1>2, LoadedEntries, RaceCount DEF Result, Date
<1>4. job = "hungary" => race < GridRound
  BY <1>1, RaceCount, JobAssumption DEF WalkInv, JobOK, LastRound, InOrder
<1>5. /\ phase = "loading" /\ phase' = "loading" /\ round' = round + 1
      /\ results' = results \/ results' = Append(results, new)
      /\ UNCHANGED <<job, table, order, phase, at, ratings, records, report, shown>>
  BY DEF LoadRound
<1>6. JobOK'
  BY <1>1, <1>5, RaceCount DEF WalkInv, JobOK
<1>7. LoadedOnce'
  <2>1. CASE results' = results
    BY <2>1, <1>1, <1>5 DEF WalkInv, LoadedOnce
  <2>2. CASE results' = Append(results, new)
    <3>1. /\ results' \in Seq(Result) /\ Len(results') = Len(results) + 1
          /\ results'[Len(results) + 1] = new
          /\ \A i \in 1..Len(results) : results'[i] = results[i]
          /\ Len(results) \in Nat
      BY <2>2, <1>3 DEF WalkInv, LoadedOnce
    <3>2. \A i \in 1..Len(results) : results[i].race # race
      <4>1. SUFFICES ASSUME NEW i \in 1..Len(results), results[i].race = race PROVE FALSE
        OBVIOUS
      <4>2. PICK r \in 1..(round - 1) : results[i].race = order[r]
        BY <1>5 DEF WalkInv, LoadedOnce
      <4>3. r \in Race /\ r # round
        BY <1>1, RaceCount
      <4>4. QED
        BY <1>1, <4>1, <4>2, <4>3 DEF WalkInv, JobOK, IsInjective
    <3>3. \A i \in 1..Len(results') : i \in 1..Len(results) \/ i = Len(results) + 1
      BY <3>1
    <3>4. \A i \in 1..Len(results') :
            /\ results'[i].race \notin Undated => results'[i].date = results'[i].race
            /\ results'[i].race \in Undated => results'[i].date > Cardinality(Race)
            /\ job = "hungary" => results'[i].race < GridRound
      BY <3>1, <3>3, <1>3, <1>4 DEF WalkInv, LoadedOnce
    <3>5. \A i \in 1..Len(results') : \E r \in 1..(round' - 1) : results'[i].race = order[r]
      <4>1. round \in 1..(round' - 1) /\ 1..(round - 1) \subseteq 1..(round' - 1)
        BY <1>1, <1>5
      <4>2. QED
        BY <3>1, <3>3, <4>1, <1>5 DEF WalkInv, LoadedOnce
    <3>6. \A i, j \in 1..Len(results') : results'[i].race = results'[j].race => i = j
      BY <3>1, <3>2, <3>3 DEF WalkInv, LoadedOnce
    <3>7. QED
      BY <3>1, <3>4, <3>5, <3>6, <1>5 DEF LoadedOnce
  <2>3. QED
    BY <1>5, <2>1, <2>2
<1>8. Sorted'
  BY <1>5 DEF Sorted
<1>9. Walked'
  <2>1. at = 0 /\ at' = 0 /\ Passed(0) = {} /\ Passed(0)' = {} /\ Len(results') \in Nat
    BY <1>5, <1>7 DEF WalkInv, Walked, Passed, LoadedOnce
  <2>2. Passed(at)' = Passed(at)
    BY <2>1
  <2>3. KnownWithin(ratings, Passed(at))'
    BY <1>5, <2>2 DEF WalkInv, Walked
  <2>4. QED
    BY <1>5, <2>1, <2>3 DEF WalkInv, Walked
<1>10. QED
  BY <1>6, <1>7, <1>8, <1>9 DEF WalkInv

\* Sorting keeps the results and puts them in order.
LEMMA StartWalkWalk ==
  ASSUME WalkInv, StartWalk
  PROVE  WalkInv'
<1> DEFINE keys == [i \in DOMAIN results |-> results[i].date]
           turns == ArgSort(keys)
<1>1. /\ phase = "loading" /\ phase' \in {"walking", "exit"}
      /\ results' = SortByDate(results)
      /\ UNCHANGED <<job, table, order, round, at, ratings, records>>
  BY DEF StartWalk
<1>2. results \in Seq(Result) /\ Len(results) \in Nat
  BY DEF WalkInv, LoadedOnce
<1>3. keys \in Seq(Int) /\ Len(keys) = Len(results) /\ DOMAIN keys = 1..Len(results)
      /\ \A i \in 1..Len(results) : keys[i] = results[i].date
  <2>1. DOMAIN results = 1..Len(results) /\ \A i \in 1..Len(results) : results[i] \in Result
    BY <1>2
  <2>2. \A i \in 1..Len(results) : results[i].date \in Int
    BY <2>1 DEF Result
  <2>3. keys \in [1..Len(results) -> Int]
    BY <2>1, <2>2
  <2>4. QED
    BY <1>2, <2>1, <2>3
<1>4. /\ turns \in [1..Len(results) -> 1..Len(results)]
      /\ \A k, l \in 1..Len(results) : turns[k] = turns[l] => k = l
      /\ \A k, l \in 1..Len(results) : k < l => keys[turns[k]] <= keys[turns[l]]
  <2>1. /\ turns \in [1..Len(keys) -> DOMAIN keys]
        /\ \A k, l \in 1..Len(keys) : turns[k] = turns[l] => k = l
    BY <1>3, ArgSortPermutes
  <2>2. \A k, l \in 1..Len(keys) : k < l => keys[turns[k]] <= keys[turns[l]]
    BY <1>3, ArgSortAscends
  <2>3. QED
    BY <1>3, <2>1, <2>2
<1>5. /\ results' \in Seq(Result) /\ Len(results') = Len(results)
      /\ \A k \in 1..Len(results) : results'[k] = results[turns[k]]
  <2>1. results' = [k \in 1..Len(results) |-> results[turns[k]]]
    BY <1>1 DEF SortByDate
  <2>2. \A k \in 1..Len(results) : results[turns[k]] \in Result
    BY <1>2, <1>4
  <2>3. QED
    BY <1>2, <2>1, <2>2
<1>6. JobOK'
  BY <1>1 DEF WalkInv, JobOK
<1>7. LoadedOnce'
  <2>1. \A k \in 1..Len(results') :
          /\ results'[k].race \notin Undated => results'[k].date = results'[k].race
          /\ results'[k].race \in Undated => results'[k].date > Cardinality(Race)
          /\ job = "hungary" => results'[k].race < GridRound
    BY <1>4, <1>5 DEF WalkInv, LoadedOnce
  <2>2. \A k, l \in 1..Len(results') : results'[k].race = results'[l].race => k = l
    <3>1. \A k, l \in 1..Len(results) :
            results[turns[k]].race = results[turns[l]].race => turns[k] = turns[l]
      BY <1>4 DEF WalkInv, LoadedOnce
    <3>2. QED
      BY <1>4, <1>5, <3>1
  <2>3. QED
    BY <1>1, <1>5, <2>1, <2>2 DEF LoadedOnce
<1>8. Sorted'
  <2>1. \A i, j \in 1..Len(results') : i < j => results'[i].date <= results'[j].date
    BY <1>3, <1>4, <1>5
  <2>2. phase' # "exit" /\ job = "train" => Len(results) >= 6
    BY DEF StartWalk, Enough
  <2>3. QED
    BY <1>1, <1>5, <2>1, <2>2 DEF Sorted
<1>9. Walked'
  <2>1. at = 0 /\ at' = 0 /\ Passed(0) = {} /\ Passed(0)' = {}
    BY <1>1 DEF WalkInv, Walked, Passed
  <2>2. KnownWithin(ratings, Passed(at))'
    BY <1>1, <2>1 DEF WalkInv, Walked
  <2>3. Len(records) = 0 \/ Len(records) \in Nat
    BY DEF WalkInv, Walked
  <2>4. \A i \in 1..Len(records) : FALSE
    BY <2>1 DEF WalkInv, Walked
  <2>5. QED
    BY <1>1, <1>2, <1>5, <2>1, <2>2, <2>4 DEF WalkInv, Walked
<1>10. QED
  BY <1>6, <1>7, <1>8, <1>9 DEF WalkInv

\* A record is made before the model is updated on its race.
LEMMA PredictThenUpdateWalk ==
  ASSUME WalkInv, PredictThenUpdate
  PROVE  WalkInv'
<1> DEFINE r == results[at + 1]
           new == Record(ratings, r)
<1>1. /\ phase = "walking" /\ at < Len(results) /\ at' = at + 1
      /\ records' = IF Predicted(at + 1) THEN Append(records, new) ELSE records
      /\ ratings' = Update(ratings, r.race, r.entries)
      /\ UNCHANGED <<job, table, order, phase, round, results, report, shown>>
  BY DEF PredictThenUpdate
<1>2. /\ at \in Nat /\ Len(results) \in Nat /\ at + 1 \in 1..Len(results)
      /\ r \in Result
  BY <1>1 DEF WalkInv, Walked, LoadedOnce
<1>3. r.race \in Race /\ r.entries \in Entries
  BY <1>2 DEF Result
<1>4. Passed(at + 1) = Passed(at) \cup {r.race} /\ \A n \in Nat : Passed(n)' = Passed(n)
  BY <1>1, <1>2 DEF Passed
<1>5. \A i \in 0..Len(results) : Passed(i) \subseteq Race
  BY PassedAreRaces DEF WalkInv
<1>6. /\ new \in Prediction
      /\ new.race = r.race /\ new.evidence \subseteq Passed(at)
  <2>1. Evidence(ratings, r.entries) \subseteq Passed(at)
    BY <1>3, EvidenceWithin DEF WalkInv, Walked
  <2>2. at \in 0..Len(results)
    BY DEF WalkInv, Walked
  <2>3. QED
    BY <1>3, <1>5, <2>1, <2>2 DEF Record, Forecast, Predict, Prediction
<1>7. JobOK' /\ LoadedOnce' /\ Sorted'
  BY <1>1 DEF WalkInv, JobOK, LoadedOnce, Sorted
<1>8. KnownWithin(ratings', Passed(at + 1))
  BY <1>1, <1>3, <1>4, UpdateWithin DEF WalkInv, Walked
<1>9. KnownWithin(ratings, Passed(at))'
  BY <1>1, <1>2, <1>4, <1>8
<1>10. /\ records' \in Seq(Prediction)
       /\ \A i \in 1..Len(records') : \E j \in 1..at' :
            records'[i].race = results[j].race /\ records'[i].evidence \subseteq Passed(j - 1)
       /\ job = "train" =>
            /\ Len(records') = at'
            /\ \A i \in 1..at' : records'[i].race = results[i].race
                                   /\ records'[i].evidence \subseteq Passed(i - 1)
  <2>1. CASE ~Predicted(at + 1)
    <3>1. job # "train" /\ records' = records
      BY <1>1, <2>1 DEF Predicted
    <3>2. 1..at \subseteq 1..at'
      BY <1>1, <1>2
    <3>3. QED
      BY <3>1, <3>2 DEF WalkInv, Walked
  <2>2. CASE Predicted(at + 1)
    <3>1. /\ records' \in Seq(Prediction)
          /\ Len(records) \in Nat /\ Len(records') = Len(records) + 1
          /\ records'[Len(records) + 1] = new
          /\ \A i \in 1..Len(records) : records'[i] = records[i]
      BY <1>1, <1>6, <2>2 DEF WalkInv, Walked
    <3>2. ASSUME NEW i \in 1..Len(records')
          PROVE  \E j \in 1..at' :
            records'[i].race = results[j].race /\ records'[i].evidence \subseteq Passed(j - 1)
      <4>1. CASE i = Len(records) + 1
        <5>1. PICK j \in 1..at' : j = at + 1
          BY <1>1, <1>2
        <5>2. j - 1 = at
          BY <1>2, <5>1
        <5>3. records'[i].race = results[j].race /\ records'[i].evidence \subseteq Passed(j - 1)
          BY <1>6, <3>1, <4>1, <5>1, <5>2
        <5>4. QED
          BY <5>3
      <4>2. CASE i \in 1..Len(records)
        <5>1. 1..at \subseteq 1..at'
          BY <1>1, <1>2
        <5>2. QED
          BY <3>1, <4>2, <5>1 DEF WalkInv, Walked
      <4>3. QED
        BY <3>1, <4>1, <4>2
    <3>3. ASSUME job = "train"
          PROVE  /\ Len(records') = at'
                 /\ \A i \in 1..at' : records'[i].race = results[i].race
                                        /\ records'[i].evidence \subseteq Passed(i - 1)
      <4>1. Len(records) = at
        BY <3>3 DEF WalkInv, Walked
      <4>2. ASSUME NEW i \in 1..at'
            PROVE  records'[i].race = results[i].race /\ records'[i].evidence \subseteq Passed(i - 1)
        <5>1. i = at + 1 \/ i \in 1..at
          BY <1>1, <1>2
        <5>2. CASE i = at + 1
          BY <1>2, <1>6, <3>1, <4>1, <5>2
        <5>3. CASE i \in 1..at
          BY <3>1, <3>3, <4>1, <5>3 DEF WalkInv, Walked
        <5>4. QED
          BY <5>1, <5>2, <5>3
      <4>3. QED
        BY <1>1, <3>1, <4>1, <4>2
    <3>4. QED
      BY <3>1, <3>2, <3>3
  <2>3. QED
    BY <2>1, <2>2
<1>11. Walked'
  <2>1. \A j \in 1..at' : Passed(j - 1)' = Passed(j - 1)
    BY <1>1, <1>2, <1>4
  <2>2. at' \in 0..Len(results)
    BY <1>1, <1>2
  <2>3. \A i \in 1..Len(records') : \E j \in 1..at' :
          records'[i].race = results'[j].race /\ records'[i].evidence \subseteq Passed(j - 1)'
    BY <1>1, <1>10, <2>1
  <2>4. job = "train" =>
          /\ Len(records') = at'
          /\ \A i \in 1..at' : records'[i].race = results'[i].race
                                 /\ records'[i].evidence \subseteq Passed(i - 1)'
    <3>1. results' = results
      BY <1>1
    <3>2. job = "train" =>
            /\ Len(records') = at'
            /\ \A i \in 1..at' : records'[i].race = results[i].race
                                   /\ records'[i].evidence \subseteq Passed(i - 1)
      BY <1>10
    <3>3. QED
      BY <2>1, <3>1, <3>2
  <2>5. QED
    BY <1>1, <1>9, <1>10, <2>2, <2>3, <2>4 DEF Walked
<1>12. QED
  BY <1>7, <1>11 DEF WalkInv

\* The report and its readers leave the walk as it was.
LEMMA ReportWalk ==
  ASSUME WalkInv, FinishWalk \/ WriteReport \/ LoadReport
  PROVE  WalkInv'
<1>1. UNCHANGED <<job, table, order, round, results, at, ratings, records>>
  BY DEF FinishWalk, WriteReport, LoadReport
<1>2. /\ phase # "loading" /\ phase' # "loading"
      /\ phase' \in {"writing", "done", "crashed"}
      /\ phase # "exit" /\ phase' # "exit"
      /\ phase' = "writing" =>
           at = Len(results) /\ job # "recent" /\ (job = "next" => results # <<>>)
  BY DEF FinishWalk, WriteReport, LoadReport, WalkInv, Walked
<1>3. JobOK' /\ LoadedOnce' /\ Sorted'
  BY <1>1, <1>2 DEF WalkInv, JobOK, LoadedOnce, Sorted
<1>4. \A n : Passed(n)' = Passed(n)
  BY <1>1 DEF Passed
<1>5. KnownWithin(ratings, Passed(at))'
  BY <1>1, <1>4 DEF WalkInv, Walked
<1>6. Walked'
  BY <1>1, <1>2, <1>4, <1>5 DEF WalkInv, Walked
<1>7. QED
  BY <1>3, <1>6 DEF WalkInv

\* Every step keeps the invariant.
LEMMA WalkStep == WalkInv /\ [Next]_vars => WalkInv'
<1> SUFFICES ASSUME WalkInv, [Next]_vars PROVE WalkInv'
  OBVIOUS
<1>1. ASSUME NEW ok \in BOOLEAN, LoadRound(ok) PROVE WalkInv'
  BY <1>1, LoadRoundWalk
<1>2. CASE StartWalk
  BY <1>2, StartWalkWalk
<1>3. CASE PredictThenUpdate
  BY <1>3, PredictThenUpdateWalk
<1>4. CASE FinishWalk \/ WriteReport \/ LoadReport
  BY <1>4, ReportWalk
<1>5. CASE UNCHANGED vars
  <2>1. \A n : Passed(n)' = Passed(n)
    BY <1>5 DEF vars, Passed
  <2>2. JobOK' /\ LoadedOnce' /\ Sorted'
    BY <1>5 DEF vars, WalkInv, JobOK, LoadedOnce, Sorted
  <2>3. Walked'
    BY <1>5, <2>1 DEF vars, WalkInv, Walked
  <2>4. QED
    BY <2>2, <2>3 DEF WalkInv
<1>6. QED
  BY <1>1, <1>2, <1>3, <1>4, <1>5 DEF Next

\* And so it holds throughout.
LEMMA WalkAlways == Spec => []WalkInv
<1>1. QED
  BY InitWalk, WalkStep, PTL DEF Spec

-----------------------------------------------------------------------------
\* What was passed before result j was held before its race, if that has a date.
LEMMA PassedIsPast ==
  ASSUME WalkInv, phase # "loading", NEW j \in 1..Len(results),
         results[j].race \notin Undated
  PROVE  Passed(j - 1) \subseteq {r \in Race : r < results[j].race}
<1>1. Len(results) \in Nat
  BY DEF WalkInv, LoadedOnce
<1>2. \A i \in 1..(j - 1) : results[i].race \in {r \in Race : r < results[j].race}
  <2>1. ASSUME NEW i \in 1..(j - 1)
        PROVE  results[i].race \in {r \in Race : r < results[j].race}
    <3>1. i \in 1..Len(results) /\ i < j
      BY <1>1
    <3>2. QED
      BY <3>1, EarlierResultEarlierRace DEF WalkInv
  <2>2. QED
    BY <2>1
<1>3. QED
  BY <1>2 DEF Passed

(* PredictionsLearnFromThePast, however many races there are, in whatever    *)
(* order their rounds are asked for and whichever fail to load: the          *)
(* strengths and failure rates a dated race is predicted with come from      *)
(* earlier races only.  Nothing is said of the columns it is dealt           *)
(* (collect_walk_forward 50-64, predict_recent 58-79).                       *)
THEOREM RecordsLearnFromThePast == Spec => []PredictionsLearnFromThePast
<1>1. WalkInv => PredictionsLearnFromThePast
  <2> SUFFICES ASSUME WalkInv, NEW i \in DOMAIN records, records[i].race \notin Undated
               PROVE  records[i].evidence \subseteq {r \in Race : r < records[i].race}
    BY DEF PredictionsLearnFromThePast, LearnedFromThePast
  <2>1. i \in 1..Len(records)
    BY DEF WalkInv, Walked
  <2>2. PICK j \in 1..at : records[i].race = results[j].race
                           /\ records[i].evidence \subseteq Passed(j - 1)
    BY <2>1 DEF WalkInv, Walked
  <2>3. phase # "loading" /\ j \in 1..Len(results)
    BY <2>2 DEF WalkInv, Walked, LoadedOnce
  <2>4. QED
    BY <2>2, <2>3, PassedIsPast
<1>2. QED
  BY <1>1, WalkAlways, PTL

\* RoundPercent is the nearest whole number.
LEMMA RoundPercentNearest ==
  ASSUME NEW n \in Nat, NEW percent \in Nat
  PROVE  /\ RoundPercent(n, percent) \in Int
         /\ RoundPercent(n, percent) * 100 - n * percent \in (-50)..50
<1> DEFINE x == n * percent
           whole == x \div 100
           rest == x % 100
<1>1. x \in Nat
  OBVIOUS
<1>2. /\ whole \in Int /\ rest \in 0..99 /\ x = 100 * whole + rest
  <2> HIDE DEF x
  <2>1. QED
    BY <1>1
<1>3. /\ RoundPercent(n, percent) \in {whole, whole + 1}
      /\ RoundPercent(n, percent) = whole => rest <= 50
      /\ RoundPercent(n, percent) = whole + 1 => rest >= 50
  <2>1. RoundPercent(n, percent) =
          IF rest > 50 \/ (rest = 50 /\ whole % 2 = 1) THEN whole + 1 ELSE whole
    BY DEF RoundPercent
  <2> HIDE DEF x, whole, rest
  <2>2. QED
    BY <1>2, <2>1
<1>4. QED
  <2> HIDE DEF x, whole, rest
  <2>1. RoundPercent(n, percent) * 100 - x \in (-50)..50
    BY <1>1, <1>2, <1>3
  <2>2. QED
    BY <1>2, <1>3, <2>1 DEF x

\* The bounds of the blocks, for as many races as the training script asks for.
LEMMA SplitFacts ==
  ASSUME NEW n \in Nat
  PROVE  /\ SplitBounds(n).test_start \in Int /\ SplitBounds(n).val_start \in Int
         /\ n >= 6 =>
              /\ 1 <= SplitBounds(n).val_start
              /\ SplitBounds(n).val_start < SplitBounds(n).test_start
              /\ SplitBounds(n).test_start < n
              /\ (n - SplitBounds(n).test_start) * 100 - n * 30 \in (-50)..50
<1> DEFINE test == RoundPercent(n, 30)
           val == RoundPercent(n, 20)
<1>1. /\ test \in Int /\ test * 100 - n * 30 \in (-50)..50
      /\ val \in Int /\ val * 100 - n * 20 \in (-50)..50
  BY RoundPercentNearest
<1>2. /\ SplitBounds(n).test_start = n - AtLeastOne(test)
      /\ SplitBounds(n).val_start =
           IF n - AtLeastOne(test) > AtLeastOne(val)
           THEN n - AtLeastOne(test) - AtLeastOne(val) ELSE 0
  BY DEF SplitBounds
<1> HIDE DEF test, val
<1>3. n >= 6 => AtLeastOne(test) = test /\ AtLeastOne(val) = val
  BY <1>1 DEF AtLeastOne
<1>4. AtLeastOne(test) \in Int /\ AtLeastOne(val) \in Int
  BY <1>1 DEF AtLeastOne
<1>5. n >= 6 => test >= 1 /\ val >= 1 /\ n - test > val + 1
  BY <1>1
<1>6. QED
  BY <1>1, <1>2, <1>3, <1>4, <1>5

(* The blocks of any number of races that the training script lets through   *)
(* are disjoint, in order and not empty, and leave a race before them        *)
(* (_split_bounds 83-88, train_models 87-92).                                *)
THEOREM AnySplitIsProper ==
  ASSUME NEW n \in Nat, n >= 6
  PROVE  ProperSplit(n)
<1> DEFINE vs == SplitBounds(n).val_start
           ts == SplitBounds(n).test_start
<1>1. /\ vs \in Int /\ ts \in Int /\ 1 <= vs /\ vs < ts /\ ts < n
      /\ (n - ts) * 100 - n * 30 \in (-50)..50
  BY SplitFacts
<1>2. /\ Validation(n) = {i \in 1..n : vs < i /\ i <= ts}
      /\ Test(n) = {i \in 1..n : i > ts}
  BY DEF Validation, Test
<1> HIDE DEF vs, ts
<1>3. ts \in Validation(n) /\ n \in Test(n) /\ Test(n) = (ts + 1)..n
  BY <1>1, <1>2
<1>4. Cardinality(Test(n)) = n - ts
  BY <1>1, <1>3, FS_Interval
<1>5. /\ 1 \notin Validation(n) \cup Test(n)
      /\ \A v \in Validation(n), t \in Test(n) : v < t
  BY <1>1, <1>2
<1>6. QED
  BY <1>1, <1>3, <1>4, <1>5 DEF ProperSplit

(* SplitIsProper for every evaluation, however many races it has.            *)
THEOREM SplitAlwaysProper == Spec => []SplitIsProper
<1>1. WalkInv => SplitIsProper
  <2> SUFFICES ASSUME WalkInv, phase = "writing", job = "train",
                      NEW n \in {Len(records)} \cup 6..110
               PROVE  ProperSplit(n)
    BY DEF SplitIsProper
  <2>1. Len(records) >= 6 /\ Len(records) \in Nat
    BY DEF WalkInv, Walked, Sorted
  <2>2. n = Len(records) \/ n \in 6..110
    OBVIOUS
  <2>3. n \in 6..110 => n \in Nat /\ n >= 6
    OBVIOUS
  <2>4. n = Len(records) => n \in Nat /\ n >= 6
    BY <2>1
  <2>5. QED
    BY <2>2, <2>3, <2>4, AnySplitIsProper
<1>2. QED
  BY <1>1, WalkAlways, PTL

-----------------------------------------------------------------------------
\* A calibrated test prediction adds the validation races, which are earlier.
LEMMA EvaluationIsPast ==
  ASSUME WalkInv, phase = "writing", job = "train", NEW p \in EvaluateModel
  PROVE  LearnedFromThePast(p)
<1> DEFINE n == Len(records)
           fitted == UNION {records[i].evidence \cup {records[i].race} : i \in Validation(n)}
<1>1. /\ n \in Nat /\ n = Len(results)
      /\ \A i \in 1..n : records[i].race = results[i].race
                           /\ records[i].evidence \subseteq Passed(i - 1)
  BY DEF WalkInv, Walked
<1>2. PICK t \in Test(n) : /\ p.race = records[t].race
                           /\ p.evidence = records[t].evidence \cup fitted
  <2>1. PICK t \in Test(n) : p = [records[t] EXCEPT !.evidence = @ \cup fitted]
    BY DEF EvaluateModel
  <2>2. t \in 1..n
    BY DEF Test
  <2>3. records[t] \in Prediction
    BY <2>2 DEF WalkInv, Walked
  <2> HIDE DEF fitted
  <2>4. /\ p.race = records[t].race
        /\ p.evidence = records[t].evidence \cup fitted
    BY <2>1, <2>3 DEF Prediction
  <2>5. QED
    BY <2>4
<1>3. t \in 1..n /\ \A v \in Validation(n) : v \in 1..n /\ v < t
  BY <1>1, SplitFacts DEF Test, Validation
<1>4. \A v \in Validation(n) : records[v].evidence \cup {records[v].race} \subseteq Passed(t - 1)
  <2> SUFFICES ASSUME NEW v \in Validation(n)
               PROVE  records[v].evidence \cup {records[v].race} \subseteq Passed(t - 1)
    OBVIOUS
  <2>1. v \in 1..n /\ v \in 1..(t - 1) /\ 1..(v - 1) \subseteq 1..(t - 1)
    BY <1>1, <1>3
  <2>2. Passed(v - 1) \subseteq Passed(t - 1) /\ results[v].race \in Passed(t - 1)
    BY <2>1 DEF Passed
  <2>3. QED
    BY <1>1, <2>1, <2>2
<1>5. p.race = results[t].race /\ p.evidence \subseteq Passed(t - 1)
  BY <1>1, <1>2, <1>3, <1>4
<1>6. p.race \notin Undated => Passed(t - 1) \subseteq {r \in Race : r < p.race}
  BY <1>1, <1>3, <1>5, PassedIsPast
<1>7. QED
  BY <1>5, <1>6 DEF LearnedFromThePast

\* A forecast depends on races loaded, and its race is after them all.
LEMMA ForecastIsPast ==
  ASSUME WalkInv, phase = "writing",
         NEW race, NEW card \in Entries,
         \A i \in 1..Len(results) : results[i].race < race
  PROVE  LearnedFromThePast(Forecast(ratings, race, card))
<1>1. Evidence(ratings, card) \subseteq Passed(Len(results))
  BY EvidenceWithin DEF WalkInv, Walked
<1>2. Len(results) \in Nat
  BY DEF WalkInv, LoadedOnce
<1>3. Passed(Len(results)) \subseteq Race
  BY <1>2, PassedAreRaces DEF WalkInv
<1>4. \A r \in Passed(Len(results)) : r < race
  BY DEF Passed
<1>5. /\ Forecast(ratings, race, card).race = race
      /\ Forecast(ratings, race, card).evidence = Evidence(ratings, card)
  BY DEF Forecast, Predict
<1>6. QED
  BY <1>1, <1>3, <1>4, <1>5 DEF LearnedFromThePast

(* ReportsLearnFromThePast in general: calibration is fitted on earlier      *)
(* races than it is applied to, the race of predict_hungary_2026 is later    *)
(* than all that it loads, and so is the one of predict_next if it is run in *)
(* time (evaluate_model 102-139, predict_next 55-70, predict_hungary_2026    *)
(* 48-75).                                                                   *)
THEOREM ReportsAlwaysLearnFromThePast == Spec => []ReportsLearnFromThePast
<1> DEFINE Unread == phase = "loading" => report = Unwritten /\ shown = Unwritten
<1>1. Init => ReportsLearnFromThePast /\ Unread
  BY DEF Init, Unwritten, ReportsLearnFromThePast
<1>2. ReportsLearnFromThePast /\ Unread /\ WalkInv /\ [Next]_vars => ReportsLearnFromThePast'
  <2> SUFFICES ASSUME ReportsLearnFromThePast, Unread, WalkInv, [Next]_vars, RunInTime'
               PROVE  \A p \in report'.predictions \cup shown'.predictions : LearnedFromThePast(p)
    BY DEF ReportsLearnFromThePast, LearnedFromThePast
  <2>0. UNCHANGED <<job, results>> =>
          \A p \in report.predictions \cup shown.predictions : LearnedFromThePast(p)
    BY DEF ReportsLearnFromThePast, RunInTime
  <2>1. CASE WriteReport
    <3>0. UNCHANGED <<job, results>>
      BY <2>1 DEF WriteReport
    <3>1. CASE UNCHANGED <<report, shown>>
      BY <2>0, <3>0, <3>1
    <3>2. ASSUME report'.state = "whole", phase' = "done"
          PROVE  \A p \in report'.predictions : LearnedFromThePast(p)
      <4>1. phase = "writing" /\ job \in {"train", "next", "hungary"}
        BY <2>1 DEF WriteReport, WalkInv, Walked, JobOK, Job
      <4>2. CASE job = "train"
        <5>1. report'.predictions = EvaluateModel
          BY <2>1, <3>2, <4>2 DEF WriteReport
        <5>2. QED
          BY <4>1, <4>2, <5>1, EvaluationIsPast
      <4>3. CASE job = "next"
        <5>1. report'.predictions = {Forecast(ratings, NextRace, NextCard)}
          BY <2>1, <3>2, <4>3 DEF WriteReport
        <5>2. \A i \in 1..Len(results) : results[i].race \in Race /\ results[i].entries \in Entries
          <6>1. \A i \in 1..Len(results) : results[i] \in Result
            BY DEF WalkInv, LoadedOnce
          <6>2. QED
            BY <6>1 DEF Result
        <5>3. NextCard \in Entries
          <6>1. Len(results) \in 1..Len(results)
            BY <4>1, <4>3 DEF WalkInv, Walked, LoadedOnce
          <6>2. QED
            BY <5>2, <6>1 DEF NextCard
        <5>4. \A i \in 1..Len(results) : results[i].race < NextRace
          BY <3>0, <4>3 DEF RunInTime
        <5>5. QED
          BY <4>1, <5>1, <5>3, <5>4, ForecastIsPast
      <4>4. CASE job = "hungary"
        <5>1. report'.predictions = {Forecast(ratings, GridRound, QualifyingCard)}
          BY <2>1, <3>2, <4>4 DEF WriteReport
        <5>2. QualifyingCard \in Entries
          <6> DEFINE session == LoadSessionResult(table[GridRound])
                     D == {j \in DOMAIN session : session[j].finish_position # None}
          <6>1. session \in Entries
            BY LoadedEntries, JobAssumption DEF WalkInv, JobOK
          <6>2. PICK S \in SUBSET Nat : session \in [S -> Entry]
            BY <6>1 DEF Entries
          <6> HIDE DEF session
          <6>3. D \in SUBSET Nat /\ [i \in D |-> session[i]] \in [D -> Entry]
            BY <6>2
          <6>4. [i \in D |-> session[i]] \in Entries
            <7> DEFINE card == [i \in D |-> session[i]]
            <7>1. DOMAIN card = D /\ D \subseteq DOMAIN session
              OBVIOUS
            <7>2. IsFiniteSet(D)
              BY <6>1, FS_Subset DEF Entries
            <7>3. \A i, j \in D : card[i].driver_id = card[j].driver_id => i = j
              BY <6>1 DEF Entries
            <7> HIDE DEF card
            <7>4. card \in Entries
              BY <6>3, <7>1, <7>2, <7>3 DEF Entries, card
            <7>5. QED
              BY <7>4 DEF card
          <6>5. QED
            BY <6>4 DEF QualifyingCard, session
        <5>3. \A i \in 1..Len(results) : results[i].race < GridRound
          BY <4>4 DEF WalkInv, LoadedOnce
        <5>4. QED
          BY <4>1, <5>1, <5>2, <5>3, ForecastIsPast
      <4>5. QED
        BY <4>1, <4>2, <4>3, <4>4
    <3>3. UNCHANGED shown /\ (UNCHANGED report \/ (report'.state = "whole" /\ phase' = "done"))
      BY <2>1 DEF WriteReport
    <3>4. QED
      BY <2>0, <3>0, <3>1, <3>2, <3>3
  <2>2. CASE LoadReport
    BY <2>0, <2>2 DEF LoadReport
  <2>3. CASE FinishWalk
    <3>1. /\ UNCHANGED shown /\ (UNCHANGED report \/ report'.predictions = {})
          /\ UNCHANGED <<job, results>>
      BY <2>3 DEF FinishWalk
    <3>2. QED
      BY <2>0, <3>1
  <2>4. CASE UNCHANGED vars \/ PredictThenUpdate
    BY <2>0, <2>4 DEF vars, PredictThenUpdate
  <2>5. CASE StartWalk \/ \E ok \in BOOLEAN : LoadRound(ok)
    <3>1. phase = "loading" /\ UNCHANGED <<report, shown>>
      BY <2>5 DEF StartWalk, LoadRound
    <3>2. QED
      BY <3>1 DEF Unwritten
  <2>6. QED
    BY <2>1, <2>2, <2>3, <2>4, <2>5 DEF Next
<1>3. Unread /\ [Next]_vars => Unread'
  <2> SUFFICES ASSUME Unread, [Next]_vars, phase' = "loading"
               PROVE  report' = Unwritten /\ shown' = Unwritten
    OBVIOUS
  <2>1. CASE \E ok \in BOOLEAN : LoadRound(ok)
    BY <2>1 DEF LoadRound
  <2>2. CASE StartWalk
    BY <2>2 DEF StartWalk
  <2>3. CASE PredictThenUpdate \/ FinishWalk \/ WriteReport \/ LoadReport
    BY <2>3 DEF PredictThenUpdate, FinishWalk, WriteReport, LoadReport
  <2>4. CASE UNCHANGED vars
    BY <2>4 DEF vars
  <2>5. QED
    BY <2>1, <2>2, <2>3, <2>4 DEF Next
<1>4. QED
  BY <1>1, <1>2, <1>3, WalkAlways, PTL DEF Spec
-----------------------------------------------------------------------------
(* What an update counts, and whom it moves. *)

\* Who is rated in a race, and who drove for whom in it.
Rated(entries) == IF Cardinality(Finishers(entries)) >= 2 THEN Finishers(entries) ELSE {}
Teams(entries) == {e.constructor_id : e \in {x \in EntriesOf(entries) : x.constructor_id # None}}
TeamsWith(entries, d) ==
  {e.constructor_id : e \in
     {x \in EntriesOf(entries) : x.driver_id = d /\ x.constructor_id # None}}

\* Moved in S, and by this race if it counts.
MovedBy(S, yes, race) == IF yes THEN S \cup {race} ELSE S

\* Decay changes a rating's value and not where it was moved.
LEMMA DecayFacts ==
  ASSUME NEW r, NEW race, HasFields(r)
  PROVE  LET n == Decay(r, race) IN
         /\ HasFields(n) /\ n.entry_count = r.entry_count /\ n.dnf_count = r.dnf_count
         /\ n.driver_constructor = r.driver_constructor
         /\ DOMAIN n.driver = DOMAIN r.driver
         /\ \A d \in DOMAIN r.driver : n.driver[d].moved = r.driver[d].moved
         /\ DOMAIN n.constructor = DOMAIN r.constructor
         /\ \A c \in DOMAIN r.constructor : n.constructor[c].moved = r.constructor[c].moved
<1>1. CASE DOMAIN r.driver = {}
  <2>1. Decay(r, race) = r
    BY <1>1 DEF Decay
  <2>2. QED
    BY <2>1
<1>2. CASE DOMAIN r.driver # {}
  <2> DEFINE drawn(x) == [moved |-> x.moved, known |-> x.known \cup {race}]
             drivers == [d \in DOMAIN r.driver |-> drawn(r.driver[d])]
             constructors == [c \in DOMAIN r.constructor |-> drawn(r.constructor[c])]
             n == Decay(r, race)
  <2>1. n = [r EXCEPT !.driver = drivers, !.constructor = constructors]
    BY <1>2 DEF Decay
  <2>2. /\ HasFields(n) /\ n.driver = drivers /\ n.constructor = constructors
        /\ n.entry_count = r.entry_count /\ n.dnf_count = r.dnf_count
        /\ n.driver_constructor = r.driver_constructor
    <3> HIDE DEF drivers, constructors, n
    <3>1. QED
      BY <2>1 DEF HasFields
  <2>3. /\ \A d \in DOMAIN r.driver : drivers[d].moved = r.driver[d].moved
        /\ \A c \in DOMAIN r.constructor : constructors[c].moved = r.constructor[c].moved
        /\ DOMAIN drivers = DOMAIN r.driver /\ DOMAIN constructors = DOMAIN r.constructor
    OBVIOUS
  <2> HIDE DEF drivers, constructors, n
  <2>4. QED
    BY <2>2, <2>3 DEF n
<1>3. QED
  BY <1>1, <1>2

LEMMA IntroduceFacts ==
  ASSUME NEW r, NEW entries \in Entries, HasFields(r)
  PROVE  LET n == Introduce(r, entries) IN
         /\ HasFields(n) /\ n.entry_count = r.entry_count /\ n.dnf_count = r.dnf_count
         /\ DOMAIN n.driver = DOMAIN r.driver \cup Drivers(entries)
         /\ \A d \in DOMAIN n.driver :
              n.driver[d].moved = IF d \in DOMAIN r.driver THEN r.driver[d].moved ELSE {}
         /\ DOMAIN n.constructor = DOMAIN r.constructor \cup Teams(entries)
         /\ \A c \in DOMAIN n.constructor :
              n.constructor[c].moved = IF c \in DOMAIN r.constructor THEN r.constructor[c].moved
                                       ELSE {}
<1>1. Teams(entries) = {e.constructor_id : e \in {x \in EntriesOf(entries) : x.constructor_id # None}}
  BY DEF Teams
<1>2. QED
  BY DEF Introduce, HasFields, Fresh, Teams

\* The team a driver was last entered with is remembered.
LEMMA RememberedTeam ==
  ASSUME NEW r, NEW entries \in Entries, HasFields(r), NEW d
  PROVE  LET n == Introduce(r, entries) IN
         /\ TeamsWith(entries, d) # {} =>
              /\ d \in DOMAIN n.driver_constructor
              /\ TeamsWith(entries, d) = {n.driver_constructor[d]}
         /\ TeamsWith(entries, d) = {} =>
              /\ d \in DOMAIN n.driver_constructor <=> d \in DOMAIN r.driver_constructor
              /\ d \in DOMAIN r.driver_constructor =>
                   n.driver_constructor[d] = r.driver_constructor[d]
<1> DEFINE named == {e \in EntriesOf(entries) : e.constructor_id # None}
           entryOf(x) == CHOOSE e \in EntriesOf(entries) : e.driver_id = x
           n == Introduce(r, entries)
<1>1. n.driver_constructor =
        [x \in DOMAIN r.driver_constructor \cup {e.driver_id : e \in named} |->
           IF \E e \in named : e.driver_id = x THEN entryOf(x).constructor_id
           ELSE r.driver_constructor[x]]
  BY DEF Introduce, HasFields
<1>2. \A e, f \in EntriesOf(entries) : e.driver_id = f.driver_id => e = f
  BY DEF EntriesOf, Entries
<1>3. ASSUME TeamsWith(entries, d) # {}
      PROVE  /\ d \in DOMAIN n.driver_constructor
             /\ TeamsWith(entries, d) = {n.driver_constructor[d]}
  <2>1. PICK e \in EntriesOf(entries) : e.driver_id = d /\ e.constructor_id # None
    BY <1>3 DEF TeamsWith
  <2>2. entryOf(d) = e
    BY <1>2, <2>1
  <2>3. d \in DOMAIN n.driver_constructor /\ n.driver_constructor[d] = e.constructor_id
    BY <1>1, <2>1, <2>2
  <2>4. \A t : t \in TeamsWith(entries, d) <=> t = e.constructor_id
    BY <1>2, <2>1 DEF TeamsWith
  <2>5. QED
    BY <2>3, <2>4
<1>4. ASSUME TeamsWith(entries, d) = {}
      PROVE  /\ d \in DOMAIN n.driver_constructor <=> d \in DOMAIN r.driver_constructor
             /\ d \in DOMAIN r.driver_constructor =>
                  n.driver_constructor[d] = r.driver_constructor[d]
  <2>1. ~\E e \in named : e.driver_id = d
    BY <1>4 DEF TeamsWith
  <2>2. d \notin {e.driver_id : e \in named}
    BY <2>1
  <2>3. QED
    BY <1>1, <2>1, <2>2
<1>5. QED
  BY <1>3, <1>4

LEMMA CountFacts ==
  ASSUME NEW r, NEW race, NEW entries, HasFields(r)
  PROVE  LET n == CountEntries(r, race, entries) IN
         /\ HasFields(n) /\ n.driver = r.driver /\ n.constructor = r.constructor
         /\ n.driver_constructor = r.driver_constructor
         /\ \A k \in Keys :
              /\ n.entry_count[k] = r.entry_count[k] + Tally(entries, k, EntriesOf(entries))
              /\ n.dnf_count[k] =
                   r.dnf_count[k] + Tally(entries, k, {e \in EntriesOf(entries) : Failed(e)})
BY DEF CountEntries, HasFields

LEMMA EloFacts ==
  ASSUME NEW r, NEW race, NEW entries, HasFields(r)
  PROVE  LET n == EloUpdate(r, race, entries)
             teams == {r.driver_constructor[d] :
                         d \in Finishers(entries) \cap DOMAIN r.driver_constructor}
         IN
         /\ HasFields(n) /\ n.entry_count = r.entry_count /\ n.dnf_count = r.dnf_count
         /\ n.driver_constructor = r.driver_constructor
         /\ DOMAIN n.driver = DOMAIN r.driver
         /\ \A d \in DOMAIN r.driver :
              n.driver[d].moved = MovedBy(r.driver[d].moved, d \in Finishers(entries), race)
         /\ DOMAIN n.constructor = DOMAIN r.constructor
         /\ \A c \in DOMAIN r.constructor :
              n.constructor[c].moved = MovedBy(r.constructor[c].moved, c \in teams, race)
BY DEF EloUpdate, HasFields, MovedBy

\* The whole update.
LEMMA UpdateFacts ==
  ASSUME NEW r, NEW race, NEW entries \in Entries, HasFields(r)
  PROVE  LET i == Introduce(Decay(r, race), entries)
             n == Update(r, race, entries)
             teams == {i.driver_constructor[d] :
                         d \in Rated(entries) \cap DOMAIN i.driver_constructor}
         IN
         /\ \A k \in Keys :
              /\ n.entry_count[k] = r.entry_count[k] + Tally(entries, k, EntriesOf(entries))
              /\ n.dnf_count[k] =
                   r.dnf_count[k] + Tally(entries, k, {e \in EntriesOf(entries) : Failed(e)})
         /\ n.driver_constructor = i.driver_constructor
         /\ DOMAIN n.driver = DOMAIN i.driver
         /\ \A d \in DOMAIN i.driver :
              n.driver[d].moved = MovedBy(i.driver[d].moved, d \in Rated(entries), race)
         /\ DOMAIN n.constructor = DOMAIN i.constructor
         /\ \A c \in DOMAIN i.constructor :
              n.constructor[c].moved = MovedBy(i.constructor[c].moved, c \in teams, race)
<1> DEFINE decayed == Decay(r, race)
           i == Introduce(decayed, entries)
           c == CountEntries(i, race, entries)
           rated == IF Cardinality(Finishers(entries)) >= 2
                    THEN EloUpdate(c, race, entries) ELSE c
           n == Update(r, race, entries)
<1>1. HasFields(i) /\ i.entry_count = r.entry_count /\ i.dnf_count = r.dnf_count
  <2>1. /\ HasFields(decayed)
        /\ decayed.entry_count = r.entry_count /\ decayed.dnf_count = r.dnf_count
    BY DecayFacts
  <2> HIDE DEF decayed
  <2>2. QED
    BY <2>1, IntroduceFacts
<1>2. /\ HasFields(c) /\ c.driver = i.driver /\ c.constructor = i.constructor
      /\ c.driver_constructor = i.driver_constructor
      /\ \A k \in Keys :
           /\ c.entry_count[k] = i.entry_count[k] + Tally(entries, k, EntriesOf(entries))
           /\ c.dnf_count[k] =
                i.dnf_count[k] + Tally(entries, k, {e \in EntriesOf(entries) : Failed(e)})
  BY <1>1, CountFacts
<1>3. n = [rated EXCEPT !.races_seen = @ + 1,
                        !.first_seen = IF @ = {} THEN {race} ELSE @]
  BY DEF Update
<1> HIDE DEF i, c, n
<1>4. CASE Cardinality(Finishers(entries)) >= 2
  <2> DEFINE u == EloUpdate(c, race, entries)
             teams == {c.driver_constructor[d] :
                         d \in Finishers(entries) \cap DOMAIN c.driver_constructor}
  <2>1. Rated(entries) = Finishers(entries) /\ rated = u
    BY <1>4 DEF Rated
  <2>2. /\ HasFields(u) /\ u.entry_count = c.entry_count /\ u.dnf_count = c.dnf_count
        /\ u.driver_constructor = c.driver_constructor
        /\ DOMAIN u.driver = DOMAIN c.driver
        /\ \A d \in DOMAIN c.driver :
             u.driver[d].moved = MovedBy(c.driver[d].moved, d \in Finishers(entries), race)
        /\ DOMAIN u.constructor = DOMAIN c.constructor
        /\ \A x \in DOMAIN c.constructor :
             u.constructor[x].moved = MovedBy(c.constructor[x].moved, x \in teams, race)
    BY <1>2, EloFacts
  <2> HIDE DEF u
  <2>3. /\ n.entry_count = u.entry_count /\ n.dnf_count = u.dnf_count
        /\ n.driver_constructor = u.driver_constructor
        /\ n.driver = u.driver /\ n.constructor = u.constructor
    BY <1>3, <2>1, <2>2 DEF HasFields
  <2> DEFINE moving == {i.driver_constructor[d] :
                          d \in Rated(entries) \cap DOMAIN i.driver_constructor}
  <2>4. teams = moving
    BY <1>2, <2>1
  <2> HIDE DEF teams, moving
  <2>5. /\ \A d \in DOMAIN i.driver :
             n.driver[d].moved = MovedBy(i.driver[d].moved, d \in Rated(entries), race)
        /\ \A x \in DOMAIN i.constructor :
             n.constructor[x].moved = MovedBy(i.constructor[x].moved, x \in moving, race)
    BY <1>2, <2>1, <2>2, <2>3, <2>4
  <2>6. \A k \in Keys :
          /\ n.entry_count[k] = r.entry_count[k] + Tally(entries, k, EntriesOf(entries))
          /\ n.dnf_count[k] =
               r.dnf_count[k] + Tally(entries, k, {e \in EntriesOf(entries) : Failed(e)})
    BY <1>1, <1>2, <2>2, <2>3
  <2>7. /\ n.driver_constructor = i.driver_constructor
        /\ DOMAIN n.driver = DOMAIN i.driver /\ DOMAIN n.constructor = DOMAIN i.constructor
    BY <1>2, <2>2, <2>3
  <2>8. QED
    BY <2>5, <2>6, <2>7 DEF i, n, moving
<1>5. CASE ~(Cardinality(Finishers(entries)) >= 2)
  <2>1. Rated(entries) = {} /\ rated = c
    BY <1>5 DEF Rated
  <2>2. /\ n.entry_count = c.entry_count /\ n.dnf_count = c.dnf_count
        /\ n.driver_constructor = c.driver_constructor
        /\ n.driver = c.driver /\ n.constructor = c.constructor
    BY <1>2, <1>3, <2>1 DEF HasFields
  <2> DEFINE teams == {i.driver_constructor[d] :
                         d \in Rated(entries) \cap DOMAIN i.driver_constructor}
  <2>3. Rated(entries) = {} /\ teams = {}
    BY <2>1
  <2> HIDE DEF teams
  <2>4. /\ \A d : n.driver[d].moved = MovedBy(i.driver[d].moved, d \in Rated(entries), race)
        /\ \A x : n.constructor[x].moved = MovedBy(i.constructor[x].moved, x \in teams, race)
    BY <1>2, <2>2, <2>3 DEF MovedBy
  <2>5. QED
    BY <1>1, <1>2, <2>2, <2>4 DEF i, n, teams
<1>6. QED
  BY <1>4, <1>5
-----------------------------------------------------------------------------
(* The reliability counts. *)

Counted ==
  \A k \in Keys :
    /\ ratings.entry_count[k] = SumFunction([i \in 1..at |-> Cardinality(Entered(k, i))])
    /\ ratings.dnf_count[k] = SumFunction([i \in 1..at |-> Cardinality(FailedIn(k, i))])

\* What is booked under a key is a constructor's entries, or those of none.
LEMMA TallyIsEntered ==
  ASSUME NEW i, results[i].entries \in Entries, NEW k \in Keys
  PROVE  LET entries == results[i].entries IN
         /\ Tally(entries, k, EntriesOf(entries)) = Cardinality(Entered(k, i))
         /\ Tally(entries, k, {e \in EntriesOf(entries) : Failed(e)}) = Cardinality(FailedIn(k, i))
         /\ Cardinality(Entered(k, i)) \in Nat /\ Cardinality(FailedIn(k, i)) \in Nat
<1> DEFINE entries == results[i].entries
<1>1. IsFiniteSet(DOMAIN entries) /\ \A j \in DOMAIN entries : entries[j] \in Entry
  <2>1. entries \in Entries
    OBVIOUS
  <2> HIDE DEF entries
  <2>2. PICK D \in SUBSET Nat : entries \in [D -> Entry]
    BY <2>1 DEF Entries
  <2>3. QED
    BY <2>1, <2>2 DEF Entries
<1>2. \A j \in DOMAIN entries : entries[j].constructor_id \in Team \cup {None}
  BY <1>1 DEF Entry
<1>3. \A j \in DOMAIN entries :
        Key(entries[j]) = k <=> entries[j].constructor_id = IF k = "" THEN None ELSE k
  BY <1>2, RatingsAssumption DEF Key, Keys
<1>4. {j \in DOMAIN entries : Key(entries[j]) = k /\ entries[j] \in EntriesOf(entries)} = Entered(k, i)
  BY <1>3 DEF Entered, EntriesOf
<1>5. {j \in DOMAIN entries : Key(entries[j]) = k
                              /\ entries[j] \in {e \in EntriesOf(entries) : Failed(e)}} = FailedIn(k, i)
  BY <1>3 DEF FailedIn, Entered, EntriesOf, Failed
<1>6. Entered(k, i) \subseteq DOMAIN entries /\ FailedIn(k, i) \subseteq DOMAIN entries
  BY DEF Entered, FailedIn
<1>7. Cardinality(Entered(k, i)) \in Nat /\ Cardinality(FailedIn(k, i)) \in Nat
  BY <1>1, <1>6, FS_Subset, FS_CardinalityType
<1>8. QED
  BY <1>4, <1>5, <1>7 DEF Tally

LEMMA ResultTypes ==
  ASSUME WalkInv, NEW i \in 1..Len(results)
  PROVE  results[i].race \in Race /\ results[i].entries \in Entries
<1>1. results[i] \in Result
  BY DEF WalkInv, LoadedOnce
<1>2. QED
  BY <1>1 DEF Result

\* The step every walk is made of.
LEMMA OneRaceWalked ==
  ASSUME WalkInv, PredictThenUpdate
  PROVE  /\ at \in Nat /\ at + 1 \in 1..Len(results) /\ 1..at \subseteq 1..Len(results)
         /\ at' = at + 1 /\ results' = results
         /\ ratings' = Update(ratings, results[at + 1].race, results[at + 1].entries)
         /\ HasFields(ratings) /\ results[at + 1].entries \in Entries
<1>1. /\ at \in 0..Len(results) /\ Len(results) \in Nat /\ HasFields(ratings)
  BY DEF WalkInv, LoadedOnce, Walked, KnownWithin
<1>2. /\ at < Len(results) /\ at' = at + 1 /\ results' = results
      /\ ratings' = Update(ratings, results[at + 1].race, results[at + 1].entries)
  BY Zenon DEF PredictThenUpdate
<1>3. at + 1 \in 1..Len(results) /\ 1..at \subseteq 1..Len(results)
  BY <1>1, <1>2
<1>4. QED
  BY <1>1, <1>2, <1>3, ResultTypes

\* Before and after the walk nothing is counted and nobody moved.
LEMMA OtherSteps ==
  ASSUME WalkInv, [Next]_vars, ~PredictThenUpdate
  PROVE  /\ UNCHANGED <<at, ratings>>
         /\ UNCHANGED results \/ at = 0
<1>1. phase = "loading" => at = 0
  BY DEF WalkInv, Walked
<1>2. QED
  BY <1>1 DEF Next, vars, LoadRound, StartWalk, FinishWalk, WriteReport, LoadReport

LEMMA CountedStep ==
  ASSUME WalkInv, Counted, [Next]_vars
  PROVE  Counted'
<1> SUFFICES ASSUME NEW k \in Keys
             PROVE  /\ ratings'.entry_count[k] =
                         SumFunction([i \in 1..at |-> Cardinality(Entered(k, i))])'
                    /\ ratings'.dnf_count[k] =
                         SumFunction([i \in 1..at |-> Cardinality(FailedIn(k, i))])'
  BY DEF Counted
<1>1. CASE PredictThenUpdate
  <2> DEFINE entries == results[at + 1].entries
             E == [i \in 1..at |-> Cardinality(Entered(k, i))]
             D == [i \in 1..at |-> Cardinality(FailedIn(k, i))]
             E1 == [i \in 1..(at + 1) |-> Cardinality(Entered(k, i))]
             D1 == [i \in 1..(at + 1) |-> Cardinality(FailedIn(k, i))]
  <2>1. /\ at \in Nat /\ at + 1 \in 1..Len(results) /\ 1..at \subseteq 1..Len(results)
        /\ at' = at + 1 /\ results' = results
        /\ ratings' = Update(ratings, results[at + 1].race, entries)
        /\ HasFields(ratings) /\ entries \in Entries
    BY <1>1, OneRaceWalked
  <2>2. \A i \in 1..(at + 1) : /\ Cardinality(Entered(k, i)) \in Nat
                               /\ Cardinality(FailedIn(k, i)) \in Nat
    <3>1. \A i \in 1..(at + 1) : i \in 1..Len(results)
      BY <2>1
    <3>2. \A i \in 1..(at + 1) : results[i].entries \in Entries
      BY <3>1, ResultTypes
    <3>3. QED
      BY <3>2, TallyIsEntered
  <2>3. /\ ratings'.entry_count[k] = ratings.entry_count[k] + Cardinality(Entered(k, at + 1))
        /\ ratings'.dnf_count[k] = ratings.dnf_count[k] + Cardinality(FailedIn(k, at + 1))
    <3>1. /\ ratings'.entry_count[k] = ratings.entry_count[k] + Tally(entries, k, EntriesOf(entries))
          /\ ratings'.dnf_count[k] =
               ratings.dnf_count[k] + Tally(entries, k, {e \in EntriesOf(entries) : Failed(e)})
      <4>1. \A race : LET n == Update(ratings, race, entries) IN
              /\ n.entry_count[k] = ratings.entry_count[k] + Tally(entries, k, EntriesOf(entries))
              /\ n.dnf_count[k] =
                   ratings.dnf_count[k] + Tally(entries, k, {e \in EntriesOf(entries) : Failed(e)})
        <5> HIDE DEF entries
        <5>1. QED
          BY <2>1, UpdateFacts
      <4>2. QED
        BY <2>1, <4>1
    <3>2. QED
      BY <2>1, <3>1, TallyIsEntered
  <2>4. /\ \A i : Entered(k, i)' = Entered(k, i) /\ FailedIn(k, i)' = FailedIn(k, i)
    BY <2>1 DEF Entered, FailedIn
  <2>5. /\ [i \in 1..at |-> Cardinality(Entered(k, i))]' = E1
        /\ [i \in 1..at |-> Cardinality(FailedIn(k, i))]' = D1
    BY <2>1, <2>4
  <2>6. /\ DOMAIN E = 1..at /\ DOMAIN D = 1..at
        /\ DOMAIN E1 = 1..(at + 1) /\ DOMAIN D1 = 1..(at + 1)
        /\ \A i \in 1..at : /\ E[i] = E1[i] /\ E[i] \in Nat
                            /\ D[i] = D1[i] /\ D[i] \in Nat
        /\ E1[at + 1] = Cardinality(Entered(k, at + 1)) /\ E1[at + 1] \in Nat
        /\ D1[at + 1] = Cardinality(FailedIn(k, at + 1)) /\ D1[at + 1] \in Nat
    BY <2>1, <2>2
  <2>7. ratings.entry_count[k] = SumFunction(E) /\ ratings.dnf_count[k] = SumFunction(D)
    BY DEF Counted
  <2> HIDE DEF E, D, E1, D1
  <2>8. SumFunction(E1) = SumFunction(E) + E1[at + 1] /\ SumFunction(D1) = SumFunction(D) + D1[at + 1]
    BY <2>1, <2>6, SumOfLonger
  <2>9. QED
    BY <2>3, <2>5, <2>6, <2>7, <2>8
<1>2. CASE ~PredictThenUpdate
  <2>1. at' = at /\ ratings' = ratings /\ (results' = results \/ at = 0)
    BY <1>2, OtherSteps
  <2>2. /\ [i \in 1..at |-> Cardinality(Entered(k, i))]' = [i \in 1..at |-> Cardinality(Entered(k, i))]
        /\ [i \in 1..at |-> Cardinality(FailedIn(k, i))]' = [i \in 1..at |-> Cardinality(FailedIn(k, i))]
    <3>1. CASE results' = results
      BY <2>1, <3>1 DEF Entered, FailedIn
    <3>2. CASE at = 0
      BY <2>1, <3>2
    <3>3. QED
      BY <2>1, <3>1, <3>2
  <2>3. QED
    BY <2>1, <2>2 DEF Counted
<1>3. QED
  BY <1>1, <1>2

(* ReliabilityCountsEntries for every table and any number of races: each    *)
(* entry of each race walked is counted once, under its constructor or under *)
(* none, and as a failure if it did not finish or was not classified, races  *)
(* that rate nobody included (update 89-98).                                 *)
THEOREM ReliabilityAlwaysCounts == Spec => []ReliabilityCountsEntries
<1>1. Init => Counted
  <2> SUFFICES ASSUME Init, NEW k \in Keys
               PROVE  /\ ratings.entry_count[k] = SumFunction([i \in 1..at |-> Cardinality(Entered(k, i))])
                      /\ ratings.dnf_count[k] = SumFunction([i \in 1..at |-> Cardinality(FailedIn(k, i))])
    BY DEF Counted
  <2>1. at = 0 /\ ratings.entry_count[k] = 0 /\ ratings.dnf_count[k] = 0
    BY DEF Init, NoRatings
  <2>2. \A F : DOMAIN F = {} => SumFunction(F) = 0
    BY EmptySum DEF SumFunction
  <2>3. /\ DOMAIN [i \in 1..at |-> Cardinality(Entered(k, i))] = {}
        /\ DOMAIN [i \in 1..at |-> Cardinality(FailedIn(k, i))] = {}
    BY <2>1
  <2>4. QED
    BY <2>1, <2>2, <2>3
<1>2. Counted => ReliabilityCountsEntries
  BY DEF Counted, ReliabilityCountsEntries
<1>3. QED
  BY <1>1, <1>2, CountedStep, WalkAlways, PTL DEF Spec
-----------------------------------------------------------------------------
(* Who moved. *)

\* The races of the first n that rate driver d, and that move constructor c.
RacesRating(d, n) == {results[i].race : i \in {j \in 1..n : d \in RatedIn(j)}}
RacesMoving(c, n) ==
  {results[i].race : i \in {j \in 1..n : \E d \in RatedIn(j) : c \in LastTeam(d, j)}}

\* Who has raced is known, a remembered team is the one last named, and what
\* moved a rating is what PaceMovedByFinishers says.
Paced ==
  /\ \A i \in 1..at : /\ Drivers(results[i].entries) \subseteq DOMAIN ratings.driver
                      /\ Teams(results[i].entries) \subseteq DOMAIN ratings.constructor
  /\ \A d : LastTeam(d, at) = IF d \in DOMAIN ratings.driver_constructor
                              THEN {ratings.driver_constructor[d]} ELSE {}
  /\ \A d \in DOMAIN ratings.driver : ratings.driver[d].moved = RacesRating(d, at)
  /\ \A c \in DOMAIN ratings.constructor : ratings.constructor[c].moved = RacesMoving(c, at)

LEMMA RatedFacts ==
  ASSUME NEW i
  PROVE  /\ RatedIn(i) = Rated(results[i].entries)
         /\ RatedIn(i) \subseteq Drivers(results[i].entries)
         /\ \A d : TeamsOf(d, i) = TeamsWith(results[i].entries, d)
         /\ \A d : TeamsOf(d, i) \subseteq Teams(results[i].entries)
<1> DEFINE finished == {results[i].entries[j].driver_id : j \in
                     {x \in DOMAIN results[i].entries :
                        results[i].entries[x].classified /\ results[i].entries[x].finish_position # None}}
<1>1. finished = Finishers(results[i].entries)
  BY DEF Finishers, EntriesOf
<1>2. Finishers(results[i].entries) \subseteq Drivers(results[i].entries)
  BY DEF Finishers, Drivers
<1>3. RatedIn(i) = IF Cardinality(finished) >= 2 THEN finished ELSE {}
  BY DEF RatedIn
<1>4. \A d : /\ TeamsOf(d, i) = TeamsWith(results[i].entries, d)
             /\ TeamsOf(d, i) \subseteq Teams(results[i].entries)
  BY DEF TeamsOf, TeamsWith, Teams
<1> HIDE DEF finished
<1>5. QED
  BY <1>1, <1>2, <1>3, <1>4 DEF Rated

\* The last race that names a team for d is the one just walked, or the same as before.
LEMMA LastTeamFacts ==
  ASSUME NEW n \in Nat, NEW d
  PROVE  /\ LastTeam(d, n + 1) = IF TeamsOf(d, n + 1) # {} THEN TeamsOf(d, n + 1) ELSE LastTeam(d, n)
         /\ \A t \in LastTeam(d, n) : \E j \in 1..n : t \in TeamsOf(d, j)
<1> DEFINE named(m) == {j \in 1..m : TeamsOf(d, j) # {}}
<1>1. \A m : LastTeam(d, m) = IF named(m) = {} THEN {} ELSE TeamsOf(d, Max(named(m)))
  BY DEF LastTeam
<1>2. ASSUME NEW m \in Nat, named(m) # {}
      PROVE  Max(named(m)) \in named(m) /\ \A y \in named(m) : Max(named(m)) >= y
  <2>1. named(m) \in SUBSET Nat /\ named(m) # {} /\ \A x \in named(m) : x <= m
    BY <1>2
  <2> DEFINE S == named(m)
  <2> HIDE DEF named
  <2>2. S \in SUBSET Nat /\ S # {} /\ \A x \in S : x <= m
    BY <2>1
  <2> HIDE DEF S
  <2>3. Max(S) \in S /\ \A y \in S : Max(S) >= y
    BY <2>2, GreatestNatural
  <2>4. QED
    BY <2>3 DEF S
<1>3. CASE TeamsOf(d, n + 1) # {}
  <2>1. n + 1 \in named(n + 1) /\ \A y \in named(n + 1) : y <= n + 1 /\ y \in Nat
    BY <1>3
  <2>2. Max(named(n + 1)) \in named(n + 1) /\ Max(named(n + 1)) >= n + 1
    <3>1. n + 1 \in Nat /\ named(n + 1) # {}
      BY <2>1
    <3> HIDE DEF named
    <3>2. QED
      BY <1>2, <2>1, <3>1
  <2> HIDE DEF named
  <2>3. Max(named(n + 1)) = n + 1
    BY <2>1, <2>2
  <2>4. LastTeam(d, n + 1) = TeamsOf(d, n + 1)
    BY <1>1, <2>1, <2>3
  <2>5. QED
    BY <1>3, <2>4, <1>1, <1>2 DEF named
<1>4. CASE TeamsOf(d, n + 1) = {}
  <2>1. named(n + 1) = named(n)
    <3>1. \A j : j \in 1..(n + 1) <=> j \in 1..n \/ j = n + 1
      OBVIOUS
    <3>2. \A j : j \in named(n + 1) <=> j \in named(n)
      BY <1>4, <3>1
    <3> HIDE DEF named
    <3>3. QED
      BY <3>2
  <2>2. LastTeam(d, n + 1) = LastTeam(d, n)
    BY <1>1, <2>1
  <2>3. QED
    BY <1>1, <1>2, <1>4, <2>2 DEF named
<1>5. QED
  BY <1>3, <1>4

\* One race more.
LEMMA OneRaceMore ==
  ASSUME NEW n \in Nat
  PROVE  /\ \A d : RacesRating(d, n + 1) =
              MovedBy(RacesRating(d, n), d \in RatedIn(n + 1), results[n + 1].race)
         /\ \A c : RacesMoving(c, n + 1) =
              MovedBy(RacesMoving(c, n), \E d \in RatedIn(n + 1) : c \in LastTeam(d, n + 1),
                      results[n + 1].race)
<1>1. \A j : j \in 1..(n + 1) <=> j \in 1..n \/ j = n + 1
  OBVIOUS
<1>2. ASSUME NEW d
      PROVE  RacesRating(d, n + 1) =
               MovedBy(RacesRating(d, n), d \in RatedIn(n + 1), results[n + 1].race)
  <2>1. \A x : x \in RacesRating(d, n + 1) <=>
          x \in RacesRating(d, n) \/ (d \in RatedIn(n + 1) /\ x = results[n + 1].race)
    BY <1>1 DEF RacesRating
  <2>2. QED
    BY <2>1 DEF MovedBy
<1>3. ASSUME NEW c
      PROVE  RacesMoving(c, n + 1) =
               MovedBy(RacesMoving(c, n), \E d \in RatedIn(n + 1) : c \in LastTeam(d, n + 1),
                       results[n + 1].race)
  <2> DEFINE moves(j) == \E d \in RatedIn(j) : c \in LastTeam(d, j)
  <2>1. \A m, x : x \in RacesMoving(c, m) <=> \E j \in 1..m : moves(j) /\ x = results[j].race
    BY DEF RacesMoving
  <2> HIDE DEF moves
  <2>2. \A x : x \in RacesMoving(c, n + 1) <=>
          x \in RacesMoving(c, n) \/ (moves(n + 1) /\ x = results[n + 1].race)
    BY <1>1, <2>1
  <2>3. RacesMoving(c, n + 1) = MovedBy(RacesMoving(c, n), moves(n + 1), results[n + 1].race)
    BY <2>2 DEF MovedBy
  <2>4. QED
    BY <2>3 DEF moves
<1>4. QED
  BY <1>2, <1>3

\* Whom the ratings do not know, no race has rated.
LEMMA UnknownUnmoved ==
  ASSUME Paced, at \in Nat
  PROVE  /\ \A d : d \notin DOMAIN ratings.driver => RacesRating(d, at) = {}
         /\ \A c : c \notin DOMAIN ratings.constructor => RacesMoving(c, at) = {}
<1>1. ASSUME NEW d, d \notin DOMAIN ratings.driver
      PROVE  RacesRating(d, at) = {}
  <2>1. \A j \in 1..at : d \notin RatedIn(j)
    BY <1>1, RatedFacts DEF Paced
  <2>2. QED
    BY <2>1 DEF RacesRating
<1>2. ASSUME NEW c, c \notin DOMAIN ratings.constructor
      PROVE  RacesMoving(c, at) = {}
  <2>1. ASSUME NEW j \in 1..at, NEW d, c \in LastTeam(d, j)
        PROVE  FALSE
    <3>1. j \in Nat /\ 1..j \subseteq 1..at
      OBVIOUS
    <3>2. PICK i \in 1..j : c \in TeamsOf(d, i)
      BY <2>1, <3>1, LastTeamFacts
    <3>3. i \in 1..at /\ c \in Teams(results[i].entries)
      BY <3>1, <3>2, RatedFacts
    <3>4. QED
      BY <1>2, <3>3 DEF Paced
  <2>2. QED
    BY <2>1 DEF RacesMoving
<1>3. QED
  BY <1>1, <1>2
\* Walking one race keeps what its update does in step with what the races say.
LEMMA PacedWalk ==
  ASSUME WalkInv, Paced, PredictThenUpdate
  PROVE  Paced'
<1> DEFINE n == at
           race == results[n + 1].race
           entries == results[n + 1].entries
           decayed == Decay(ratings, race)
           i == Introduce(decayed, entries)
           u == Update(ratings, race, entries)
           teams == {i.driver_constructor[d] :
                       d \in Rated(entries) \cap DOMAIN i.driver_constructor}
<1>1. /\ n \in Nat /\ at' = n + 1 /\ results' = results /\ ratings' = u
      /\ HasFields(ratings) /\ entries \in Entries
  BY OneRaceWalked
<1>2. /\ \A d, j : RatedIn(j)' = RatedIn(j) /\ LastTeam(d, j)' = LastTeam(d, j)
      /\ \A d, m : RacesRating(d, m)' = RacesRating(d, m)
      /\ \A c, m : RacesMoving(c, m)' = RacesMoving(c, m)
  BY <1>1 DEF RatedIn, LastTeam, TeamsOf, RacesRating, RacesMoving
<1>3. /\ DOMAIN i.driver = DOMAIN ratings.driver \cup Drivers(entries)
      /\ \A d \in DOMAIN i.driver :
           i.driver[d].moved = IF d \in DOMAIN ratings.driver THEN ratings.driver[d].moved ELSE {}
      /\ DOMAIN i.constructor = DOMAIN ratings.constructor \cup Teams(entries)
      /\ \A c \in DOMAIN i.constructor :
           i.constructor[c].moved = IF c \in DOMAIN ratings.constructor
                                    THEN ratings.constructor[c].moved ELSE {}
  <2>1. /\ HasFields(decayed)
        /\ DOMAIN decayed.driver = DOMAIN ratings.driver
        /\ \A d \in DOMAIN ratings.driver : decayed.driver[d].moved = ratings.driver[d].moved
        /\ DOMAIN decayed.constructor = DOMAIN ratings.constructor
        /\ \A c \in DOMAIN ratings.constructor :
             decayed.constructor[c].moved = ratings.constructor[c].moved
    <3> HIDE DEF race
    <3>1. QED
      BY <1>1, DecayFacts
  <2> HIDE DEF entries, decayed
  <2>2. /\ DOMAIN i.driver = DOMAIN decayed.driver \cup Drivers(entries)
        /\ \A d \in DOMAIN i.driver :
             i.driver[d].moved = IF d \in DOMAIN decayed.driver THEN decayed.driver[d].moved ELSE {}
        /\ DOMAIN i.constructor = DOMAIN decayed.constructor \cup Teams(entries)
        /\ \A c \in DOMAIN i.constructor :
             i.constructor[c].moved = IF c \in DOMAIN decayed.constructor
                                      THEN decayed.constructor[c].moved ELSE {}
    BY <1>1, <2>1, IntroduceFacts
  <2> HIDE DEF i
  <2>3. QED
    BY <2>1, <2>2
<1>4. /\ u.driver_constructor = i.driver_constructor
      /\ DOMAIN u.driver = DOMAIN i.driver
      /\ \A d \in DOMAIN i.driver :
           u.driver[d].moved = MovedBy(i.driver[d].moved, d \in Rated(entries), race)
      /\ DOMAIN u.constructor = DOMAIN i.constructor
      /\ \A c \in DOMAIN i.constructor :
           u.constructor[c].moved = MovedBy(i.constructor[c].moved, c \in teams, race)
  <2> HIDE DEF entries, race
  <2>1. QED
    BY <1>1, UpdateFacts
<1>5. RatedIn(n + 1) = Rated(entries) /\ \A d : TeamsOf(d, n + 1) = TeamsWith(entries, d)
  BY RatedFacts
<1>6. ASSUME NEW d
      PROVE  LastTeam(d, n + 1) = IF d \in DOMAIN i.driver_constructor
                                  THEN {i.driver_constructor[d]} ELSE {}
  <2>1. LastTeam(d, n) = IF d \in DOMAIN ratings.driver_constructor
                         THEN {ratings.driver_constructor[d]} ELSE {}
    BY DEF Paced
  <2>2. LastTeam(d, n + 1) = IF TeamsWith(entries, d) # {} THEN TeamsWith(entries, d)
                             ELSE LastTeam(d, n)
    BY <1>1, <1>5, LastTeamFacts
  <2>3. /\ TeamsWith(entries, d) # {} =>
              /\ d \in DOMAIN i.driver_constructor
              /\ TeamsWith(entries, d) = {i.driver_constructor[d]}
        /\ TeamsWith(entries, d) = {} =>
              /\ d \in DOMAIN i.driver_constructor <=> d \in DOMAIN ratings.driver_constructor
              /\ d \in DOMAIN ratings.driver_constructor =>
                   i.driver_constructor[d] = ratings.driver_constructor[d]
    <3>1. HasFields(decayed) /\ decayed.driver_constructor = ratings.driver_constructor
      <4> HIDE DEF race
      <4>1. QED
        BY <1>1, DecayFacts
    <3> HIDE DEF entries, decayed
    <3>2. QED
      BY <1>1, <3>1, RememberedTeam
  <2> HIDE DEF i, entries
  <2>4. QED
    BY <2>1, <2>2, <2>3
<1> HIDE DEF i, u, entries, race, n
<1>7. \A c : c \in teams <=> \E d \in RatedIn(n + 1) : c \in LastTeam(d, n + 1)
  BY <1>5, <1>6
<1> HIDE DEF teams
<1>8. \A d \in DOMAIN u.driver : u.driver[d].moved = RacesRating(d, n + 1)
  <2> SUFFICES ASSUME NEW d \in DOMAIN u.driver PROVE u.driver[d].moved = RacesRating(d, n + 1)
    OBVIOUS
  <2>1. i.driver[d].moved = RacesRating(d, n)
    BY <1>1, <1>3, <1>4, UnknownUnmoved DEF Paced, n
  <2>2. RacesRating(d, n + 1) = MovedBy(RacesRating(d, n), d \in RatedIn(n + 1), race)
    BY <1>1, OneRaceMore DEF race
  <2>3. QED
    BY <1>4, <1>5, <2>1, <2>2
<1>9. \A c \in DOMAIN u.constructor : u.constructor[c].moved = RacesMoving(c, n + 1)
  <2> SUFFICES ASSUME NEW c \in DOMAIN u.constructor
               PROVE  u.constructor[c].moved = RacesMoving(c, n + 1)
    OBVIOUS
  <2>1. i.constructor[c].moved = RacesMoving(c, n)
    BY <1>1, <1>3, <1>4, UnknownUnmoved DEF Paced, n
  <2> DEFINE moves == \E d \in RatedIn(n + 1) : c \in LastTeam(d, n + 1)
  <2>2. RacesMoving(c, n + 1) = MovedBy(RacesMoving(c, n), moves, race)
    BY <1>1, OneRaceMore DEF race
  <2>3. u.constructor[c].moved = MovedBy(i.constructor[c].moved, c \in teams, race)
    BY <1>4
  <2>4. c \in teams <=> moves
    BY <1>7
  <2> HIDE DEF moves
  <2>5. QED
    BY <2>1, <2>2, <2>3, <2>4 DEF MovedBy
<1>10. \A j \in 1..(n + 1) : /\ Drivers(results[j].entries) \subseteq DOMAIN u.driver
                             /\ Teams(results[j].entries) \subseteq DOMAIN u.constructor
  <2>1. \A j \in 1..n : /\ Drivers(results[j].entries) \subseteq DOMAIN ratings.driver
                        /\ Teams(results[j].entries) \subseteq DOMAIN ratings.constructor
    BY DEF Paced, n
  <2>2. \A j \in 1..(n + 1) : j \in 1..n \/ j = n + 1
    BY <1>1
  <2>3. QED
    BY <1>3, <1>4, <2>1, <2>2 DEF entries
<1>11. /\ \A j \in 1..at' : /\ Drivers(results'[j].entries) \subseteq DOMAIN ratings'.driver
                            /\ Teams(results'[j].entries) \subseteq DOMAIN ratings'.constructor
       /\ \A d : LastTeam(d, at)' = IF d \in DOMAIN ratings'.driver_constructor
                                    THEN {ratings'.driver_constructor[d]} ELSE {}
       /\ \A d \in DOMAIN ratings'.driver : ratings'.driver[d].moved = RacesRating(d, at)'
       /\ \A c \in DOMAIN ratings'.constructor :
            ratings'.constructor[c].moved = RacesMoving(c, at)'
  <2>1. /\ \A d : LastTeam(d, at)' = LastTeam(d, n + 1)
        /\ \A d : RacesRating(d, at)' = RacesRating(d, n + 1)
        /\ \A c : RacesMoving(c, at)' = RacesMoving(c, n + 1)
    BY <1>1, <1>2 DEF LastTeam, TeamsOf, RacesRating, RacesMoving
  <2>2. QED
    BY <1>1, <1>4, <1>6, <1>8, <1>9, <1>10, <2>1
<1>12. QED
  BY <1>11 DEF Paced

LEMMA PacedStep ==
  ASSUME WalkInv, Paced, [Next]_vars
  PROVE  Paced'
<1>1. CASE PredictThenUpdate
  BY <1>1, PacedWalk
<1>2. CASE ~PredictThenUpdate
  <2>1. at' = at /\ ratings' = ratings /\ (results' = results \/ at = 0)
    BY <1>2, OtherSteps
  <2>2. CASE results' = results
    <3>1. /\ \A d, j : RatedIn(j)' = RatedIn(j) /\ LastTeam(d, j)' = LastTeam(d, j)
          /\ \A d : LastTeam(d, at)' = LastTeam(d, at)
      BY <2>1, <2>2 DEF RatedIn, LastTeam, TeamsOf
    <3>2. /\ \A d : RacesRating(d, at)' = RacesRating(d, at)
          /\ \A c : RacesMoving(c, at)' = RacesMoving(c, at)
      BY <2>1, <2>2, <3>1 DEF RacesRating, RacesMoving
    <3>3. /\ \A j \in 1..at' : /\ Drivers(results'[j].entries) \subseteq DOMAIN ratings'.driver
                                /\ Teams(results'[j].entries) \subseteq DOMAIN ratings'.constructor
      BY <2>1, <2>2 DEF Paced
    <3>4. /\ \A d : LastTeam(d, at)' = IF d \in DOMAIN ratings'.driver_constructor
                                       THEN {ratings'.driver_constructor[d]} ELSE {}
          /\ \A d \in DOMAIN ratings'.driver : ratings'.driver[d].moved = RacesRating(d, at)'
          /\ \A c \in DOMAIN ratings'.constructor :
               ratings'.constructor[c].moved = RacesMoving(c, at)'
      BY <2>1, <3>1, <3>2 DEF Paced
    <3>5. QED
      BY <3>3, <3>4 DEF Paced
  <2>3. CASE at = 0
    <3>1. /\ \A d : LastTeam(d, at) = {} /\ LastTeam(d, at)' = {}
          /\ \A d : RacesRating(d, at) = {} /\ RacesRating(d, at)' = {}
          /\ \A c : RacesMoving(c, at) = {} /\ RacesMoving(c, at)' = {}
      BY <2>1, <2>3 DEF LastTeam, RacesRating, RacesMoving
    <3>2. 1..at' = {}
      BY <2>1, <2>3
    <3>3. /\ \A d : LastTeam(d, at)' = IF d \in DOMAIN ratings'.driver_constructor
                                       THEN {ratings'.driver_constructor[d]} ELSE {}
          /\ \A d \in DOMAIN ratings'.driver : ratings'.driver[d].moved = RacesRating(d, at)'
          /\ \A c \in DOMAIN ratings'.constructor :
               ratings'.constructor[c].moved = RacesMoving(c, at)'
      BY <2>1, <3>1 DEF Paced
    <3>4. QED
      BY <3>2, <3>3 DEF Paced
  <2>4. QED
    BY <2>1, <2>2, <2>3
<1>3. QED
  BY <1>1, <1>2

(* PaceMovedByFinishers for every table and any number of races: a driver's  *)
(* pace is moved by the races that rate it, a constructor's by those a       *)
(* driver last seen with it finished, however drivers change teams and       *)
(* whatever teams a result leaves out (update 83-105).                       *)
THEOREM PaceAlwaysMovedByFinishers == Spec => []PaceMovedByFinishers
<1>1. Init => Paced
  <2> SUFFICES ASSUME Init PROVE Paced
    OBVIOUS
  <2>1. at = 0 /\ ratings = NoRatings
    BY DEF Init
  <2>2. /\ DOMAIN ratings.driver = {} /\ DOMAIN ratings.constructor = {}
        /\ DOMAIN ratings.driver_constructor = {}
    BY <2>1 DEF NoRatings
  <2>3. \A d : LastTeam(d, at) = {}
    BY <2>1 DEF LastTeam
  <2>4. 1..at = {}
    BY <2>1
  <2>5. QED
    BY <2>2, <2>3, <2>4 DEF Paced
<1>2. Paced => PaceMovedByFinishers
  BY DEF Paced, PaceMovedByFinishers, RacesRating, RacesMoving
<1>3. QED
  BY <1>1, <1>2, PacedStep, WalkAlways, PTL DEF Spec

-----------------------------------------------------------------------------
(* Calibration.  Of the cumulative sums P of the outcomes, as a polygon, the *)
(* stack of pools is the lower convex hull: the line of a pool's mean through *)
(* the pool's ends runs below all of the polygon.                            *)

\* Inequalities are kept by a positive factor and by its removal.
LEMMA CancelLeq ==
  ASSUME NEW x \in Int, NEW y \in Int, NEW c \in Nat \ {0}, x * c <= y * c
  PROVE  x <= y
  OBVIOUS

LEMMA ScaleLeq ==
  ASSUME NEW x \in Int, NEW y \in Int, NEW c \in Nat, x <= y
  PROVE  x * c <= y * c
  OBVIOUS

\* No mean above a second that is not above a third is above the third.
LEMMA MeansTransitive ==
  ASSUME NEW a \in Int, NEW b \in Int, NEW c \in Int,
         NEW k \in Nat \ {0}, NEW l \in Nat \ {0}, NEW m \in Nat \ {0},
         a * l <= b * k, b * m <= c * l
  PROVE  a * m <= c * k
<1>1. (a * l) * m <= (b * k) * m
  <2> DEFINE x == a * l
             y == b * k
  <2>1. x \in Int /\ y \in Int /\ x <= y /\ m \in Nat
    OBVIOUS
  <2> HIDE DEF x, y
  <2>2. x * m <= y * m
    BY <2>1, ScaleLeq
  <2>3. QED
    BY <2>2 DEF x, y
<1>2. (b * m) * k <= (c * l) * k
  <2> DEFINE x == b * m
             y == c * l
  <2>1. x \in Int /\ y \in Int /\ x <= y /\ k \in Nat
    OBVIOUS
  <2> HIDE DEF x, y
  <2>2. x * k <= y * k
    BY <2>1, ScaleLeq
  <2>3. QED
    BY <2>2 DEF x, y
<1>3. (a * l) * m = (a * m) * l /\ (b * k) * m = (b * m) * k /\ (c * l) * k = (c * k) * l
  OBVIOUS
<1> DEFINE x == a * m
           y == c * k
           z == (b * m) * k
<1>4. x \in Int /\ y \in Int /\ z \in Int /\ x * l <= z /\ z <= y * l
  BY <1>1, <1>2, <1>3
<1> HIDE DEF x, y, z
<1>5. x * l <= y * l
  BY <1>4
<1>6. x <= y
  BY <1>4, <1>5, CancelLeq
<1>7. QED
  BY <1>6 DEF x, y

\* What keeps above a line from a through b keeps, after a, above the flatter
\* one from a through j.
LEMMA ChordLeft ==
  ASSUME NEW a \in Int, NEW b \in Int, NEW j \in Int, NEW x \in Int, a < b, b < j, a <= x,
         NEW A \in Int, NEW B \in Int, NEW J \in Int, NEW X \in Int,
         (B - A) * (j - b) >= (J - B) * (b - a),
         (B - A) * (x - b) <= (b - a) * (X - B)
  PROVE  (J - A) * (x - a) <= (j - a) * (X - A)
<1> DEFINE u == b - a  v == j - b  w == x - a
           U == B - A  V == J - B  W == X - A
<1>1. u \in Nat \ {0} /\ v \in Nat \ {0} /\ w \in Nat /\ U \in Int /\ V \in Int /\ W \in Int
  OBVIOUS
<1>2. U * v >= V * u
  OBVIOUS
<1>3. U * (w - u) <= u * (W - U)
  <2>1. x - b = w - u /\ X - B = W - U
    OBVIOUS
  <2> HIDE DEF u, w, U, W
  <2>2. QED
    BY <2>1 DEF u, U
<1>4. J - A = U + V /\ j - a = u + v
  OBVIOUS
<1> HIDE DEF u, v, w, U, V, W
<1>5. U * w <= W * u
  <2>1. U * (w - u) = U * w - U * u /\ u * (W - U) = W * u - U * u
    BY <1>1
  <2> DEFINE f == U * w  g == W * u  h == U * u
  <2>2. f \in Int /\ g \in Int /\ h \in Int /\ f - h <= g - h
    BY <1>1, <1>3, <2>1
  <2> HIDE DEF f, g, h
  <2>3. f <= g
    BY <2>2
  <2>4. QED
    BY <2>3 DEF f, g
<1>6. (U + V) * u <= U * (u + v)
  <2>1. (U + V) * u = U * u + V * u /\ U * (u + v) = U * u + U * v
    BY <1>1
  <2> DEFINE f == U * u  g == V * u  h == U * v
  <2>2. f \in Int /\ g \in Int /\ h \in Int /\ g <= h
    BY <1>1, <1>2
  <2> HIDE DEF f, g, h
  <2>3. f + g <= f + h
    BY <2>2
  <2>4. QED
    BY <2>1, <2>3 DEF f, g, h
<1> DEFINE s == U + V
           l == u + v
<1>7. s \in Int /\ l \in Nat \ {0}
  BY <1>1
<1> HIDE DEF s, l
<1>8. s * w <= l * W
  <2>1. (s * w) * u <= (U * w) * l
    <3>1. s * u <= U * l
      BY <1>6 DEF s, l
    <3> DEFINE f == s * u  g == U * l
    <3>2. f \in Int /\ g \in Int /\ f <= g
      BY <1>1, <1>7, <3>1
    <3> HIDE DEF f, g
    <3>3. f * w <= g * w
      BY <1>1, <3>2, ScaleLeq
    <3>4. (s * u) * w <= (U * l) * w
      BY <3>3 DEF f, g
    <3>5. (s * u) * w = (s * w) * u /\ (U * l) * w = (U * w) * l
      BY <1>1, <1>7
    <3>6. QED
      BY <3>4, <3>5
  <2>2. (U * w) * l <= (W * u) * l
    <3> DEFINE f == U * w  g == W * u
    <3>1. f \in Int /\ g \in Int /\ f <= g /\ l \in Nat
      BY <1>1, <1>5, <1>7
    <3> HIDE DEF f, g
    <3>2. f * l <= g * l
      BY <3>1, ScaleLeq
    <3>3. QED
      BY <3>2 DEF f, g
  <2>3. (W * u) * l = (l * W) * u
    BY <1>1, <1>7
  <2> DEFINE f == s * w  g == l * W  h == (U * w) * l
  <2>4. f \in Int /\ g \in Int /\ h \in Int /\ f * u <= h /\ h <= g * u
    BY <1>1, <1>7, <2>1, <2>2, <2>3
  <2> HIDE DEF f, g, h
  <2>5. f * u <= g * u
    BY <1>1, <2>4
  <2>6. f <= g
    BY <1>1, <2>4, <2>5, CancelLeq
  <2>7. QED
    BY <2>6 DEF f, g
<1>9. QED
  BY <1>4, <1>8 DEF s, l, w, W

\* The line of a pool that is no steeper than a new one keeps below its end,
\* and the line of the new one keeps below what that line keeps below.
LEMMA OldLine ==
  ASSUME NEW a \in Int, NEW j \in Int, NEW e \in Int, NEW s \in Int, NEW c \in Nat \ {0},
         NEW A \in Int, NEW J \in Int, NEW E \in Int,
         s * (a - e) <= c * (A - E), s * (j - a) <= (J - A) * c
  PROVE  s * (j - e) <= c * (J - E)
<1>1. s * (j - e) = s * (a - e) + s * (j - a) /\ c * (J - E) = c * (A - E) + (J - A) * c
  OBVIOUS
<1> DEFINE f == s * (a - e)  g == c * (A - E)
           h == s * (j - a)  i == (J - A) * c
<1>2. f \in Int /\ g \in Int /\ h \in Int /\ i \in Int /\ f <= g /\ h <= i
  OBVIOUS
<1> HIDE DEF f, g, h, i
<1>3. f + h <= g + i
  BY <1>2
<1>4. QED
  BY <1>1, <1>3 DEF f, g, h, i

LEMMA NewLine ==
  ASSUME NEW a \in Int, NEW j \in Int, NEW x \in Int, x <= a, a < j, NEW s \in Int, NEW c \in Nat \ {0},
         NEW A \in Int, NEW J \in Int, NEW X \in Int,
         s * (x - a) <= c * (X - A), s * (j - a) <= (J - A) * c
  PROVE  (J - A) * (x - j) <= (j - a) * (X - J)
<1> DEFINE w == a - x  l == j - a  S == J - A  W == A - X
<1>1. w \in Nat /\ l \in Nat \ {0} /\ S \in Int /\ W \in Int
  OBVIOUS
<1>2. s * (x - a) = -(s * w) /\ c * (X - A) = -(c * W)
  OBVIOUS
<1>3. c * W <= s * w
  <2> DEFINE f == s * w  g == c * W
  <2>1. f \in Int /\ g \in Int /\ -f <= -g
    BY <1>1, <1>2
  <2> HIDE DEF f, g
  <2>2. g <= f
    BY <2>1
  <2>3. QED
    BY <2>2 DEF f, g
<1>4. s * l <= S * c
  OBVIOUS
<1>5. (J - A) * (x - j) = -(S * w) - S * l /\ (j - a) * (X - J) = -(l * W) - S * l
  OBVIOUS
<1> HIDE DEF w, l, S, W
<1>6. l * W <= S * w
  <2>1. (c * W) * l <= (s * w) * l
    <3> DEFINE f == c * W  g == s * w
    <3>1. f \in Int /\ g \in Int /\ f <= g /\ l \in Nat
      BY <1>1, <1>3
    <3> HIDE DEF f, g
    <3>2. f * l <= g * l
      BY <3>1, ScaleLeq
    <3>3. QED
      BY <3>2 DEF f, g
  <2>2. (s * l) * w <= (S * c) * w
    <3> DEFINE f == s * l  g == S * c
    <3>1. f \in Int /\ g \in Int /\ f <= g
      BY <1>1, <1>4
    <3> HIDE DEF f, g
    <3>2. f * w <= g * w
      BY <1>1, <3>1, ScaleLeq
    <3>3. QED
      BY <3>2 DEF f, g
  <2>3. (c * W) * l = (l * W) * c /\ (s * w) * l = (s * l) * w /\ (S * c) * w = (S * w) * c
    BY <1>1
  <2> DEFINE f == l * W  g == S * w  h == (s * l) * w
  <2>4. f \in Int /\ g \in Int /\ h \in Int /\ f * c <= h /\ h <= g * c
    BY <1>1, <2>1, <2>2, <2>3
  <2> HIDE DEF f, g, h
  <2>5. f * c <= g * c
    BY <2>4
  <2>6. f <= g
    BY <2>4, <2>5, CancelLeq
  <2>7. QED
    BY <2>6 DEF f, g
<1>7. -(S * w) - S * l <= -(l * W) - S * l
  <2> DEFINE f == l * W  g == S * w  h == S * l
  <2>1. f \in Int /\ g \in Int /\ h \in Int /\ f <= g
    BY <1>1, <1>6
  <2> HIDE DEF f, g, h
  <2>2. -g - h <= -f - h
    BY <2>1
  <2>3. QED
    BY <2>2 DEF f, g, h
<1>8. QED
  BY <1>5, <1>7 DEF S, w, l, W

\* Of two pools whose lines run below each other's ends, the later is no lower.
LEMMA LinesAscend ==
  ASSUME NEW a \in Int, NEW e \in Int, e < a, NEW A \in Int, NEW E \in Int,
         NEW s \in Int, NEW c \in Nat \ {0}, NEW t \in Int, NEW d \in Nat \ {0},
         s * (a - e) <= c * (A - E), t * (e - a) <= d * (E - A)
  PROVE  s * d <= t * c
<1> DEFINE w == a - e  W == A - E
<1>1. w \in Nat \ {0} /\ W \in Int
  OBVIOUS
<1>2. t * (e - a) = -(t * w) /\ d * (E - A) = -(d * W)
  OBVIOUS
<1>3. s * w <= W * c /\ W * d <= t * w
  <2> DEFINE f == t * w  g == d * W
  <2>1. f \in Int /\ g \in Int /\ -f <= -g
    BY <1>1, <1>2
  <2> HIDE DEF f, g
  <2>2. g <= f
    BY <2>1
  <2>3. d * W = W * d /\ c * W = W * c
    BY <1>1
  <2>4. s * w <= c * W
    OBVIOUS
  <2>5. QED
    BY <2>2, <2>3, <2>4 DEF f, g
<1> HIDE DEF w, W
<1>4. QED
  BY <1>1, <1>3, MeansTransitive

\* stack is the hull of P over 0..j, its pools ending pooledAt e.
Hull(stack, e, P, j) ==
  /\ stack \in Seq(Int \X (Nat \ {0}))
  /\ e \in [0..Len(stack) -> 0..j] /\ e[0] = 0 /\ e[Len(stack)] = j
  /\ \A b, c \in 0..Len(stack) : b < c => e[b] < e[c]
  /\ \A b \in 1..Len(stack) : stack[b] = <<P[e[b]] - P[e[b - 1]], e[b] - e[b - 1]>>
  /\ \A b \in 1..Len(stack), k \in 0..j :
       stack[b][1] * (k - e[b]) <= stack[b][2] * (P[k] - P[e[b]])

\* The places after a up to j, as one block.
Between(P, a, j) == <<P[j] - P[a], j - a>>
Pools(pooled, n, e, P, j) == \A k \in 0..n : pooled[k] = Between(P, e[n - k], j)

\* What a block becomes as the pools before it are absorbed: what lies between
\* their beginning and its end.
LEMMA AbsorbedIs ==
  ASSUME NEW N \in Nat, NEW j \in 1..N, NEW P \in [0..N -> Int],
         NEW stack, NEW e, Hull(stack, e, P, j - 1), NEW v \in Int, P[j] = P[j - 1] + v
  PROVE  Pools(Absorbed(stack, <<v, 1>>), Len(stack), e, P, j)
<1> DEFINE n == Len(stack)
           block == <<v, 1>>
           R(g) == g = [k \in 0..n |-> IF k = 0 THEN block ELSE Plus(stack[n - k + 1], g[k - 1])]
           pooledAt(k) == <<P[j] - P[e[n - k]], j - e[n - k]>>
           h == [k \in 0..n |-> pooledAt(k)]
           g == Absorbed(stack, block)
<1>1. n \in Nat /\ e \in [0..n -> 0..(j - 1)] /\ e[n] = j - 1
  BY DEF Hull
<1>2. \A i \in 0..n : P[e[i]] \in Int /\ e[i] \in Int
  <2> HIDE DEF n
  <2>1. 0..(j - 1) \subseteq 0..N /\ 0..(j - 1) \subseteq Int
    OBVIOUS
  <2>2. \A i \in 0..n : e[i] \in 0..(j - 1)
    BY <1>1
  <2>3. QED
    BY <2>1, <2>2
<1>3. P[j] \in Int
  OBVIOUS
<1>4. pooledAt(0) = block
  <2>1. n - 0 = n /\ j - (j - 1) = 1
    BY <1>1
  <2>2. P[j] - P[j - 1] = v
    <3>1. P[j - 1] \in Int
      BY <1>1, <1>2
    <3>2. QED
      BY <3>1
  <2>3. QED
    BY <1>1, <2>1, <2>2
<1>5. \A k \in 1..n : pooledAt(k) = Plus(stack[n - k + 1], pooledAt(k - 1))
  <2> SUFFICES ASSUME NEW k \in 1..n PROVE pooledAt(k) = Plus(stack[n - k + 1], pooledAt(k - 1))
    OBVIOUS
  <2> DEFINE b == n - k + 1
  <2>1. b \in 1..n /\ b - 1 = n - k /\ n - (k - 1) = b
    BY <1>1
  <2>2. stack[b] = <<P[e[b]] - P[e[b - 1]], e[b] - e[b - 1]>>
    BY <2>1 DEF Hull
  <2>3. P[e[b]] \in Int /\ P[e[b - 1]] \in Int /\ e[b] \in Int /\ e[b - 1] \in Int
    <3>1. b \in 0..n /\ b - 1 \in 0..n
      BY <1>1, <2>1
    <3> HIDE DEF b
    <3>2. QED
      BY <1>2, <3>1
  <2>4. pooledAt(k) = <<P[j] - P[e[b - 1]], j - e[b - 1]>> /\ pooledAt(k - 1) = <<P[j] - P[e[b]], j - e[b]>>
    BY <2>1
  <2> HIDE DEF b
  <2>5. /\ (P[e[b]] - P[e[b - 1]]) + (P[j] - P[e[b]]) = P[j] - P[e[b - 1]]
        /\ (e[b] - e[b - 1]) + (j - e[b]) = j - e[b - 1]
    <3> DEFINE u == P[e[b]]  z == P[e[b - 1]]  w == P[j]
               x == e[b]  y == e[b - 1]
    <3>1. u \in Int /\ z \in Int /\ w \in Int /\ x \in Int /\ y \in Int /\ j \in Int
      BY <1>3, <2>3
    <3> HIDE DEF u, z, w, x, y
    <3>2. (u - z) + (w - u) = w - z /\ (x - y) + (j - x) = j - y
      BY <3>1
    <3>3. QED
      BY <3>2 DEF u, z, w, x, y
  <2>6. Plus(stack[b], pooledAt(k - 1)) = <<(P[e[b]] - P[e[b - 1]]) + (P[j] - P[e[b]]),
                                      (e[b] - e[b - 1]) + (j - e[b])>>
    BY <2>2, <2>4 DEF Plus
  <2>7. QED
    BY <2>4, <2>5, <2>6 DEF b
<1> HIDE DEF pooledAt
<1>6. R(h)
  <2>1. \A k \in 0..n : h[k] = IF k = 0 THEN block ELSE Plus(stack[n - k + 1], h[k - 1])
    <3> SUFFICES ASSUME NEW k \in 0..n
                 PROVE  h[k] = IF k = 0 THEN block ELSE Plus(stack[n - k + 1], h[k - 1])
      OBVIOUS
    <3>1. CASE k = 0
      BY <1>4, <3>1
    <3>2. CASE k # 0
      <4>1. k \in 1..n /\ k - 1 \in 0..n
        BY <1>1, <3>2
      <4>2. h[k] = pooledAt(k) /\ h[k - 1] = pooledAt(k - 1)
        BY <4>1
      <4> HIDE DEF h
      <4>3. QED
        BY <1>5, <3>2, <4>1, <4>2
    <3>3. QED
      BY <3>1, <3>2
  <2>2. h = [k \in 0..n |-> h[k]]
    OBVIOUS
  <2> HIDE DEF h
  <2>3. QED
    BY <2>1, <2>2
<1>7. R(g)
  <2>1. g = CHOOSE f : R(f)
    BY DEF Absorbed
  <2> HIDE DEF R, g
  <2>2. QED
    BY <1>6, <2>1
<1>8. \A k \in 0..n : h[k] = pooledAt(k)
  OBVIOUS
<1> DEFINE Bad == {k \in 0..n : g[k] # pooledAt(k)}
<1>9. Bad = {}
  <2> SUFFICES ASSUME Bad # {} PROVE FALSE
    OBVIOUS
  <2>1. Bad \in SUBSET Nat
    BY <1>1
  <2>2. PICK k \in Bad : \A l \in Bad : k <= l
    <3> HIDE DEF Bad
    <3>1. QED
      BY <2>1, LeastNatural
  <2>3. k \in 0..n /\ g[k] # pooledAt(k)
    OBVIOUS
  <2> HIDE DEF h, g
  <2>4. g[k] = IF k = 0 THEN block ELSE Plus(stack[n - k + 1], g[k - 1])
    BY <1>7, <2>3
  <2>5. k # 0
    BY <1>4, <2>3, <2>4
  <2>6. k - 1 \in 0..n /\ k - 1 < k /\ k \in 1..n
    BY <1>1, <2>3, <2>5
  <2>7. k - 1 \notin Bad
    <3>1. ~(k <= k - 1)
      BY <2>3
    <3> HIDE DEF Bad
    <3>2. QED
      BY <2>2, <3>1
  <2>8. g[k - 1] = pooledAt(k - 1)
    BY <2>6, <2>7
  <2> HIDE DEF Bad
  <2>9. g[k] = Plus(stack[n - k + 1], pooledAt(k - 1))
    BY <2>4, <2>5, <2>8
  <2>10. QED
    BY <1>5, <2>3, <2>6, <2>9
<1>10. \A k \in 0..n : g[k] = Between(P, e[n - k], j)
  BY <1>9 DEF pooledAt, Between
<1>11. QED
  BY <1>10 DEF Pools

\* Where the last pool absorbed is above what comes after it, the polygon keeps
\* above the chord from the pool's beginning to the end.
LEMMA ChordBelow ==
  ASSUME NEW N \in Nat, NEW j \in 1..N, NEW P \in [0..N -> Int],
         NEW stack, NEW e, Hull(stack, e, P, j - 1), NEW t \in 0..Len(stack),
         t < Len(stack) => Above(stack[t + 1], <<P[j] - P[e[t + 1]], j - e[t + 1]>>)
  PROVE  \A x \in e[t]..j : (P[j] - P[e[t]]) * (x - e[t]) <= (j - e[t]) * (P[x] - P[e[t]])
<1> DEFINE n == Len(stack)
           a == e[t]
           A == P[a]  J == P[j]
<1>1. n \in Nat /\ e \in [0..n -> 0..(j - 1)] /\ e[n] = j - 1 /\ j \in Nat \ {0} /\ N \in Nat /\ j <= N
  BY DEF Hull
<1>2. a \in 0..(j - 1) /\ a \in Int /\ j \in Int /\ a < j
  BY <1>1
<1>3. A \in Int /\ J \in Int
  BY <1>1, <1>2
<1> SUFFICES ASSUME NEW x \in a..j PROVE (J - A) * (x - a) <= (j - a) * (P[x] - A)
  OBVIOUS
<1> DEFINE X == P[x]
<1>4. x \in Int /\ a <= x /\ x <= j /\ x \in 0..N /\ X \in Int
  BY <1>1, <1>2
<1>5. CASE x = j
  <2>1. \A f, g \in Int : f * g <= g * f
    OBVIOUS
  <2>2. J - A \in Int /\ j - a \in Int
    BY <1>2, <1>3
  <2> HIDE DEF A, J, a
  <2>3. (J - A) * (j - a) <= (j - a) * (J - A)
    BY <2>1, <2>2
  <2>4. QED
    BY <1>5, <2>3 DEF J
<1>6. CASE x # j /\ t = n
  <2>1. a = j - 1 /\ x = a
    BY <1>1, <1>2, <1>4, <1>6
  <2>3. (J - A) * (a - a) <= (j - a) * (A - A)
    <3>1. \A f, g, h, i \in Int : f * (g - g) <= h * (i - i)
      OBVIOUS
    <3>2. J - A \in Int /\ j - a \in Int
      BY <1>2, <1>3
    <3> HIDE DEF A, J, a
    <3>3. QED
      BY <1>2, <1>3, <3>1, <3>2
  <2>4. QED
    BY <2>1, <2>3
<1>7. CASE x # j /\ t # n
  <2> DEFINE b == e[t + 1]
             B == P[b]
  <2>1. t + 1 \in 1..n /\ t + 1 \in 0..n /\ t \in 0..n /\ t < t + 1 /\ (t + 1) - 1 = t /\ t < n
    BY <1>1, <1>7
  <2>2. /\ stack[t + 1] = <<B - A, b - a>> /\ a < b
        /\ \A y \in 0..(j - 1) : stack[t + 1][1] * (y - b) <= stack[t + 1][2] * (P[y] - B)
    BY <2>1 DEF Hull
  <2>3. b \in 0..(j - 1) /\ b \in Int /\ b < j
    BY <1>1, <2>1
  <2>4. B \in Int
    BY <1>1, <2>3
  <2>5. Above(stack[t + 1], <<J - B, j - b>>)
    BY <2>1
  <2>6. x \in 0..(j - 1)
    BY <1>1, <1>2, <1>4, <1>7
  <2> HIDE DEF b
  <2>7. (B - A) * (x - b) <= (b - a) * (X - B)
    BY <2>2, <2>6
  <2>8. (B - A) * (j - b) > (J - B) * (b - a)
    BY <2>2, <2>5 DEF Above
  <2> HIDE DEF a, A, B, J, X
  <2>9. (B - A) * (j - b) >= (J - B) * (b - a)
    <3> DEFINE f == (B - A) * (j - b)
               g == (J - B) * (b - a)
    <3>1. B - A \in Int /\ j - b \in Int /\ J - B \in Int /\ b - a \in Int
      BY <1>2, <1>3, <2>3, <2>4
    <3>2. f \in Int /\ g \in Int
      BY <3>1
    <3>3. f > g
      BY <2>8
    <3> HIDE DEF f, g
    <3>4. f >= g
      BY <3>2, <3>3
    <3>5. QED
      BY <3>4 DEF f, g
  <2>10. (J - A) * (x - a) <= (j - a) * (X - A)
    BY <1>2, <1>3, <1>4, <2>2, <2>3, <2>4, <2>7, <2>9, ChordLeft
  <2>11. QED
    BY <2>10 DEF X
<1>8. QED
  BY <1>5, <1>6, <1>7

\* Pushing a block keeps the hull.
LEMMA PushKeepsHull ==
  ASSUME NEW N \in Nat, NEW j \in 1..N, NEW P \in [0..N -> Int],
         NEW stack, NEW e, Hull(stack, e, P, j - 1), NEW v \in Int, P[j] = P[j - 1] + v
  PROVE  \E f : Hull(Push(stack, <<v, 1>>), f, P, j)
<1> DEFINE n == Len(stack)
           block == <<v, 1>>
           pooled == Absorbed(stack, block)
           stops == {k \in 0..n : k = n \/ ~Above(stack[n - k], pooled[k])}
           count == Min(stops)
           t == n - count
           a == e[t]
           q == <<P[j] - P[a], j - a>>
           f == [b \in 0..(t + 1) |-> IF b = t + 1 THEN j ELSE e[b]]
           grown == Push(stack, block)
<1>1. /\ n \in Nat /\ e \in [0..n -> 0..(j - 1)] /\ e[0] = 0 /\ e[n] = j - 1
      /\ j \in Nat \ {0} /\ N \in Nat /\ j <= N /\ stack \in Seq(Int \X (Nat \ {0}))
  BY DEF Hull
<1>2. \A k, i \in 0..n : k + i = n => pooled[k] = Between(P, e[i], j)
  <2>1. Pools(pooled, n, e, P, j)
    BY AbsorbedIs
  <2>2. \A k, i \in 0..n : k + i = n => i = n - k
    BY <1>1
  <2> HIDE DEF n, pooled
  <2>3. QED
    BY <2>1, <2>2 DEF Pools
<1>3. count \in stops /\ \A k \in stops : count <= k
  <2>1. n \in stops /\ stops \in SUBSET Nat
    BY <1>1
  <2> HIDE DEF stops
  <2>2. QED
    BY <2>1, LeastNatural
<1>4. count \in 0..n /\ t \in 0..n /\ (t # 0 => ~Above(stack[t], q))
  <2>1. count \in 0..n /\ (count = n \/ ~Above(stack[n - count], pooled[count]))
    BY <1>3
  <2> HIDE DEF stops, count, pooled
  <2>2. t \in 0..n /\ n - count = t /\ count + t = n /\ (count = n => t = 0)
    BY <1>1, <2>1
  <2>3. pooled[count] = q
    BY <1>2, <2>1, <2>2 DEF Between
  <2> HIDE DEF t, q
  <2>4. QED
    BY <2>1, <2>2, <2>3
<1>5. grown = Append(SubSeq(stack, 1, t), q)
  <2>1. pooled[count] = q
    <3> HIDE DEF count, pooled
    <3>1. count + t = n
      BY <1>1, <1>4
    <3> HIDE DEF t
    <3>2. QED
      BY <1>2, <1>4, <3>1 DEF Between
  <2>2. grown = Append(SubSeq(stack, 1, t), pooled[count])
    BY DEF Push
  <2>3. QED
    BY <2>1, <2>2
<1>6. t < n => Above(stack[t + 1], <<P[j] - P[e[t + 1]], j - e[t + 1]>>)
  <2> SUFFICES ASSUME t < n PROVE Above(stack[t + 1], <<P[j] - P[e[t + 1]], j - e[t + 1]>>)
    OBVIOUS
  <2> DEFINE k == count - 1
  <2>1. k \in 0..n /\ n - k = t + 1 /\ k # n /\ ~(count <= k)
    <3> HIDE DEF count
    <3> HIDE DEF n
    <3>1. n \in Nat /\ count \in 0..n /\ n - count < n
      BY <1>1, <1>4
    <3>2. count # 0
      BY <3>1
    <3>3. QED
      BY <3>1, <3>2
  <2>2. k \notin stops
    <3> HIDE DEF stops, count
    <3>1. QED
      BY <1>3, <2>1
  <2>3. Above(stack[n - k], pooled[k])
    <3> HIDE DEF pooled, count
    <3>1. QED
      BY <2>1, <2>2
  <2>4. pooled[k] = Between(P, e[t + 1], j)
    <3>1. t + 1 \in 0..n /\ k + (t + 1) = n
      <4> HIDE DEF count
      <4>1. QED
        BY <1>1, <1>4, <2>1
    <3> HIDE DEF pooled, k, t
    <3>2. QED
      BY <1>2, <2>1, <3>1
  <2> HIDE DEF pooled, k, t
  <2>5. QED
    BY <2>1, <2>3, <2>4 DEF Between
<1> HIDE DEF count, stops, pooled
<1>7. a \in 0..(j - 1) /\ a \in Int /\ a < j /\ j \in Int /\ P[a] \in Int /\ P[j] \in Int
  <2>1. a \in 0..(j - 1)
    BY <1>1, <1>4
  <2>2. QED
    BY <1>1, <2>1
<1>8. q \in Int \X (Nat \ {0}) /\ q[1] = P[j] - P[a] /\ q[2] = j - a
  <2> HIDE DEF a
  <2>1. P[j] - P[a] \in Int /\ j - a \in Nat \ {0}
    BY <1>7
  <2>2. QED
    BY <2>1
<1>9. /\ grown \in Seq(Int \X (Nat \ {0})) /\ Len(grown) = t + 1
      /\ grown[t + 1] = q /\ \A b \in 1..t : grown[b] = stack[b]
  <2> DEFINE kept == SubSeq(stack, 1, t)
  <2>1. kept \in Seq(Int \X (Nat \ {0})) /\ Len(kept) = t /\ \A b \in 1..t : kept[b] = stack[b]
    <3>1. stack \in Seq(Int \X (Nat \ {0})) /\ n \in Nat /\ t \in 0..n /\ n = Len(stack)
      BY <1>1, <1>4
    <3> HIDE DEF t, n
    <3>2. QED
      BY <3>1
  <2>2. t \in Nat
    BY <1>1, <1>4
  <2> HIDE DEF kept, t, q
  <2>3. Append(kept, q) \in Seq(Int \X (Nat \ {0}))
    BY <1>8, <2>1
  <2>4. Len(Append(kept, q)) = t + 1 /\ Append(kept, q)[t + 1] = q
    <3>1. kept \in Seq(Int \X (Nat \ {0})) /\ Len(kept) = t
      BY <2>1
    <3>2. q \in Int \X (Nat \ {0})
      BY <1>8
    <3>3. QED
      BY <3>1, <3>2
  <2>5. \A b \in 1..t : Append(kept, q)[b] = kept[b]
    BY <1>8, <2>1, <2>2
  <2>6. QED
    BY <1>5, <2>1, <2>3, <2>4, <2>5 DEF kept
<1> HIDE DEF grown, q, t
<1>10. t \in Nat /\ t <= n
  BY <1>1, <1>4
<1>11. f \in [0..(t + 1) -> 0..j] /\ f[0] = 0 /\ f[t + 1] = j /\ \A b \in 0..t : f[b] = e[b]
  <2>5. \A b \in 0..t : b \in 0..n /\ b # t + 1
    BY <1>1, <1>10
  <2>6. \A i \in 0..(j - 1) : i \in 0..j
    BY <1>7
  <2>1. \A b \in 0..t : b \in 0..n /\ e[b] \in 0..(j - 1) /\ e[b] \in 0..j /\ b # t + 1
    BY <1>1, <2>5, <2>6
  <2>2. j \in 0..j /\ 0 \in 0..t /\ \A b \in 0..(t + 1) : b = t + 1 \/ b \in 0..t
    BY <1>1, <1>10
  <2>3. t + 1 \in 0..(t + 1) /\ \A b \in 0..t : b \in 0..(t + 1)
    BY <1>10
  <2>4. QED
    BY <1>1, <2>1, <2>2, <2>3
<1> HIDE DEF f
<1>12. \A b, c \in 0..(t + 1) : b < c => f[b] < f[c]
  <2> SUFFICES ASSUME NEW b \in 0..(t + 1), NEW c \in 0..(t + 1), b < c PROVE f[b] < f[c]
    OBVIOUS
  <2>5. b \in 0..t /\ b \in 0..n
    BY <1>1, <1>10
  <2>1. b \in 0..t /\ b \in 0..n /\ f[b] = e[b] /\ e[b] \in 0..(j - 1)
    BY <1>1, <1>11, <2>5
  <2>2. CASE c = t + 1
    BY <1>1, <1>11, <2>1, <2>2
  <2>3. CASE c # t + 1
    <3>1. c \in 0..t /\ c \in 0..n /\ f[c] = e[c]
      BY <1>10, <1>11, <2>3
    <3>2. e[b] < e[c]
      BY <2>1, <3>1 DEF Hull
    <3>3. QED
      BY <2>1, <3>1, <3>2
  <2>4. QED
    BY <2>2, <2>3
<1>13. \A b \in 1..(t + 1) : grown[b] = <<P[f[b]] - P[f[b - 1]], f[b] - f[b - 1]>>
  <2> SUFFICES ASSUME NEW b \in 1..(t + 1)
               PROVE  grown[b] = <<P[f[b]] - P[f[b - 1]], f[b] - f[b - 1]>>
    OBVIOUS
  <2>1. CASE b = t + 1
    <3>1. b - 1 = t /\ t \in 0..t
      BY <1>10, <2>1
    <3>2. QED
      BY <1>9, <1>11, <2>1, <3>1 DEF q
  <2>2. CASE b # t + 1
    <3>1. b \in 1..t /\ b \in 0..t /\ b - 1 \in 0..t /\ b \in 1..n
      BY <1>10, <2>2
    <3>2. stack[b] = <<P[e[b]] - P[e[b - 1]], e[b] - e[b - 1]>>
      BY <3>1 DEF Hull
    <3>3. QED
      BY <1>9, <1>11, <3>1, <3>2
  <2>3. QED
    BY <2>1, <2>2
<1>14. ASSUME t # 0
       PROVE  /\ t \in 1..n /\ t \in 0..n /\ stack[t] \in Int \X (Nat \ {0})
              /\ stack[t][1] \in Int /\ stack[t][2] \in Nat \ {0}
              /\ stack[t][1] * (j - a) <= (P[j] - P[a]) * stack[t][2]
              /\ \A x \in 0..(j - 1) : stack[t][1] * (x - a) <= stack[t][2] * (P[x] - P[a])
  <2>1. t \in 1..n /\ t \in 0..n
    BY <1>10, <1>14
  <2>2. stack[t] \in Int \X (Nat \ {0})
    BY <1>1, <2>1
  <2>3. stack[t][1] \in Int /\ stack[t][2] \in Nat \ {0}
    BY <2>2
  <2>4. \A x \in 0..(j - 1) : stack[t][1] * (x - a) <= stack[t][2] * (P[x] - P[a])
    BY <2>1 DEF Hull
  <2>5. stack[t][1] * (j - a) <= (P[j] - P[a]) * stack[t][2]
    <3> DEFINE g == stack[t][1] * (j - a)
               h == (P[j] - P[a]) * stack[t][2]
    <3>1. ~(g > h)
      BY <1>4, <1>8, <1>14 DEF Above
    <3>2. j - a \in Int /\ P[j] - P[a] \in Int
      BY <1>7
    <3>3. g \in Int /\ h \in Int
      <4>1. \A x, y \in Int : x * y \in Int
        OBVIOUS
      <4>2. stack[t][2] \in Int
        BY <2>3
      <4>3. QED
        BY <2>3, <3>2, <4>1, <4>2
    <3> HIDE DEF g, h
    <3>4. g <= h
      BY <3>1, <3>3
    <3>5. QED
      BY <3>4 DEF g, h
  <2>6. QED
    BY <2>1, <2>2, <2>3, <2>4, <2>5
<1>15. \A x \in 0..j : q[1] * (x - j) <= q[2] * (P[x] - P[j])
  <2> SUFFICES ASSUME NEW x \in 0..j PROVE (P[j] - P[a]) * (x - j) <= (j - a) * (P[x] - P[j])
    BY <1>8
  <2>1. x \in Int /\ x \in 0..N /\ P[x] \in Int
    BY <1>1
  <2>2. CASE x >= a
    <3>1. x \in a..j
      BY <1>7, <2>1, <2>2
    <3>2. (P[j] - P[a]) * (x - a) <= (j - a) * (P[x] - P[a])
      BY <1>4, <1>6, <3>1, ChordBelow
    <3> DEFINE J == P[j]  A == P[a]  X == P[x]
    <3>3. J \in Int /\ A \in Int /\ X \in Int
      BY <1>7, <2>1
    <3>4. (J - A) * (x - a) <= (j - a) * (X - A)
      BY <3>2
    <3> HIDE DEF J, A, X, a
    <3>5. (J - A) * (x - a) = (J - A) * (x - j) + (J - A) * (j - a)
      BY <1>7, <2>1, <3>3
    <3>6. (j - a) * (X - A) = (j - a) * (X - J) + (J - A) * (j - a)
      BY <1>7, <2>1, <3>3
    <3> DEFINE g == (J - A) * (x - j)
               h == (j - a) * (X - J)
               i == (J - A) * (j - a)
    <3>7. g \in Int /\ h \in Int /\ i \in Int
      BY <1>7, <2>1, <3>3
    <3>8. g + i <= h + i
      BY <3>4, <3>5, <3>6
    <3> HIDE DEF g, h, i
    <3>9. g <= h
      BY <3>7, <3>8
    <3>10. QED
      BY <3>9 DEF g, h, J, A, X
  <2>3. CASE ~(x >= a)
    <3>1. t # 0
      BY <1>1, <1>7, <2>1, <2>3
    <3>2. x \in 0..(j - 1) /\ x <= a
      BY <1>7, <2>1, <2>3
    <3> DEFINE c == stack[t][2]
               s == stack[t][1]
    <3>3. c \in Nat \ {0} /\ s \in Int /\ s * (j - a) <= (P[j] - P[a]) * c
          /\ s * (x - a) <= c * (P[x] - P[a])
      BY <1>14, <3>1, <3>2
    <3> DEFINE J == P[j]  A == P[a]  X == P[x]
    <3>4. /\ J \in Int /\ A \in Int /\ X \in Int
          /\ s * (j - a) <= (J - A) * c /\ s * (x - a) <= c * (X - A)
      BY <1>7, <2>1, <3>3
    <3> HIDE DEF J, A, X, a, c, s
    <3>5. (J - A) * (x - j) <= (j - a) * (X - J)
      BY <1>7, <2>1, <3>2, <3>3, <3>4, NewLine
    <3>6. QED
      BY <3>5 DEF J, A, X
  <2>4. QED
    BY <2>2, <2>3
<1>16. \A b \in 1..(t + 1), x \in 0..j :
         grown[b][1] * (x - f[b]) <= grown[b][2] * (P[x] - P[f[b]])
  <2> SUFFICES ASSUME NEW b \in 1..(t + 1), NEW x \in 0..j
               PROVE  grown[b][1] * (x - f[b]) <= grown[b][2] * (P[x] - P[f[b]])
    OBVIOUS
  <2>1. CASE b = t + 1
    BY <1>9, <1>11, <1>15, <2>1
  <2>2. CASE b # t + 1
    <3>1. b \in 1..t /\ b \in 0..t /\ b \in 1..n /\ b \in 0..n /\ b <= t /\ t # 0
      BY <1>10, <2>2
    <3> DEFINE s == stack[b][1]  c == stack[b][2]  i == e[b]
    <3>2. grown[b] = stack[b] /\ f[b] = i
      BY <1>9, <1>11, <3>1
    <3>3. s \in Int /\ c \in Nat \ {0}
      <4>1. stack[b] \in Int \X (Nat \ {0})
        BY <1>1, <3>1
      <4>2. QED
        BY <4>1
    <3>4. \A y \in 0..(j - 1) : s * (y - i) <= c * (P[y] - P[i])
      BY <3>1 DEF Hull
    <3>5. CASE x # j
      <4>1. x \in 0..(j - 1)
        BY <1>7, <3>5
      <4>2. QED
        BY <3>2, <3>4, <4>1
    <3>6. CASE x = j
      <4>1. i \in 0..(j - 1) /\ i \in Int /\ P[i] \in Int
        <5>1. i \in 0..(j - 1)
          BY <1>1, <3>1
        <5>2. 0..(j - 1) \subseteq 0..N /\ 0..(j - 1) \subseteq Int
          BY <1>1
        <5> HIDE DEF i
        <5>3. QED
          BY <5>1, <5>2
      <4> DEFINE u == stack[t][1]  d == stack[t][2]
      <4>2. /\ t \in 0..n /\ u \in Int /\ d \in Nat \ {0} /\ u * (j - a) <= (P[j] - P[a]) * d
            /\ \A y \in 0..(j - 1) : u * (y - a) <= d * (P[y] - P[a])
        BY <1>14, <3>1
      <4>3. s * (a - i) <= c * (P[a] - P[i])
        BY <1>7, <3>4
      <4>4. s * d <= u * c
        <5>1. CASE b = t
          <6>1. s = u /\ c = d
            BY <5>1
          <6>2. \A g, h \in Int : g * h <= g * h
            OBVIOUS
          <6>3. d \in Int
            BY <4>2
          <6> HIDE DEF s, u, c, d
          <6>4. QED
            BY <4>2, <6>1, <6>2, <6>3
        <5>2. CASE b # t
          <6>1. i < a
            <7>1. b < t
              BY <1>10, <3>1, <5>2
            <7>2. QED
              BY <3>1, <4>2, <7>1 DEF Hull
          <6>2. u * (i - a) <= d * (P[i] - P[a])
            BY <4>1, <4>2
          <6> DEFINE A == P[a]  I == P[i]
          <6>3. /\ A \in Int /\ I \in Int
                /\ s * (a - i) <= c * (A - I) /\ u * (i - a) <= d * (I - A)
            BY <1>7, <4>1, <4>3, <6>2
          <6> HIDE DEF s, u, c, d, A, I, a, i
          <6>4. QED
            BY <1>7, <3>3, <4>1, <4>2, <6>1, <6>3, LinesAscend
        <5>3. QED
          BY <5>1, <5>2
      <4> DEFINE A == P[a]  I == P[i]  J == P[j]
                 l == j - a
                 S == J - A
      <4>5. /\ A \in Int /\ I \in Int /\ J \in Int /\ l \in Nat \ {0} /\ S \in Int
            /\ s * (a - i) <= c * (A - I) /\ u * l <= S * d
        <5>1. s * (a - i) <= c * (A - I) /\ u * l <= S * d
          BY <4>2, <4>3
        <5> HIDE DEF s, u, c, d
        <5>2. A \in Int /\ I \in Int /\ J \in Int /\ l \in Nat \ {0}
          BY <1>7, <4>1
        <5>3. S \in Int
          BY <5>2
        <5>4. QED
          BY <5>1, <5>2, <5>3
      <4>6. s * l <= S * c
        <5> HIDE DEF s, u, c, d, l, S
        <5>1. QED
          BY <3>3, <4>2, <4>4, <4>5, MeansTransitive
      <4>7. s * (j - a) <= (J - A) * c
        BY <4>6
      <4> HIDE DEF s, u, c, d, l, S, A, I, J, a, i
      <4>8. s * (j - i) <= c * (J - I)
        BY <1>7, <3>3, <4>1, <4>5, <4>7, OldLine
      <4>9. QED
        BY <3>2, <3>6, <4>8 DEF s, c, J, I, i
    <3>7. QED
      BY <3>5, <3>6
  <2>3. QED
    BY <2>1, <2>2
<1>17. Hull(grown, f, P, j)
  BY <1>9, <1>11, <1>12, <1>13, <1>16 DEF Hull
<1>18. QED
  BY <1>17 DEF grown

\* The stack after each outcome: there is such a function, by the least length
\* without one.
StackRecursion(y, n, g) ==
  g = [j \in 0..n |-> IF j = 0 THEN <<>> ELSE Push(g[j - 1], <<y[j], 1>>)]

LEMMA StackExists ==
  ASSUME NEW y, NEW n \in Nat
  PROVE  \E g : StackRecursion(y, n, g)
<1> DEFINE Bad == {k \in Nat : ~\E g : StackRecursion(y, k, g)}
<1> SUFFICES ASSUME Bad # {} PROVE FALSE
  OBVIOUS
<1>1. PICK k \in Bad : \A l \in Bad : k <= l
  <2>1. Bad \in SUBSET Nat
    OBVIOUS
  <2> HIDE DEF Bad
  <2>2. QED
    BY <2>1, LeastNatural
<1>2. k \in Nat /\ ~\E g : StackRecursion(y, k, g)
  OBVIOUS
<1>3. CASE k = 0
  <2> DEFINE g == [j \in 0..0 |-> <<>>]
  <2>1. \A j \in 0..0 : j = 0
    OBVIOUS
  <2>2. StackRecursion(y, 0, g)
    BY <2>1 DEF StackRecursion
  <2>3. QED
    BY <1>2, <1>3, <2>2
<1>4. CASE k # 0
  <2> DEFINE i == k - 1
  <2>1. i \in Nat /\ i + 1 = k /\ ~(k <= i)
    BY <1>2, <1>4
  <2>2. i \notin Bad
    <3> HIDE DEF Bad, i
    <3>1. QED
      BY <1>1, <2>1
  <2>3. PICK g : StackRecursion(y, i, g)
    BY <2>1, <2>2
  <2> HIDE DEF i, Bad
  <2> DEFINE h == [j \in 0..k |-> IF j = k THEN Push(g[i], <<y[k], 1>>) ELSE g[j]]
  <2>4. \A j \in 0..k : h[j] = IF j = 0 THEN <<>> ELSE Push(h[j - 1], <<y[j], 1>>)
    <3> SUFFICES ASSUME NEW j \in 0..k
                 PROVE  h[j] = IF j = 0 THEN <<>> ELSE Push(h[j - 1], <<y[j], 1>>)
      OBVIOUS
    <3>1. CASE j = k
      <4>1. i \in 0..k /\ i # k /\ k - 1 = i /\ k \in 0..k
        BY <1>2, <2>1
      <4>2. h[i] = g[i] /\ h[k] = Push(g[i], <<y[k], 1>>)
        BY <4>1
      <4> HIDE DEF h
      <4>3. QED
        BY <1>4, <3>1, <4>1, <4>2
    <3>2. CASE j # k
      <4>1. j \in 0..i
        BY <1>2, <2>1, <3>2
      <4>2. g[j] = IF j = 0 THEN <<>> ELSE Push(g[j - 1], <<y[j], 1>>)
        BY <2>3, <4>1 DEF StackRecursion
      <4>3. h[j] = g[j]
        BY <3>2
      <4>4. j # 0 => j - 1 \in 0..k /\ j - 1 # k
        BY <1>2, <2>1, <4>1
      <4>5. j # 0 => h[j - 1] = g[j - 1]
        BY <4>4
      <4> HIDE DEF h
      <4>6. QED
        BY <4>2, <4>3, <4>5
    <3>3. QED
      BY <3>1, <3>2
  <2>5. h = [j \in 0..k |-> h[j]]
    OBVIOUS
  <2> HIDE DEF h
  <2>6. StackRecursion(y, k, h)
    BY <2>4, <2>5 DEF StackRecursion
  <2>7. QED
    BY <1>2, <2>6
<1>5. QED
  BY <1>3, <1>4

\* The pools of the outcomes are the hull of their sums.
LEMMA BlocksAreHull ==
  ASSUME NEW n \in Nat, NEW y \in [1..n -> Int], NEW P \in [0..n -> Int],
         P[0] = 0, \A j \in 1..n : P[j] = P[j - 1] + y[j]
  PROVE  \E e : Hull(Blocks(y), e, P, n)
<1> DEFINE stack == CHOOSE g : StackRecursion(y, n, g)
<1>1. StackRecursion(y, n, stack)
  BY StackExists
<1>2. Len(y) = n
  OBVIOUS
<1>3. Blocks(y) = stack[n]
  BY <1>2 DEF Blocks, StackRecursion
<1> HIDE DEF stack
<1>4. \A j \in 0..n : stack[j] = IF j = 0 THEN <<>> ELSE Push(stack[j - 1], <<y[j], 1>>)
  BY <1>1 DEF StackRecursion
<1> DEFINE Bad == {j \in 0..n : ~\E e : Hull(stack[j], e, P, j)}
<1>5. Bad = {}
  <2> SUFFICES ASSUME Bad # {} PROVE FALSE
    OBVIOUS
  <2>1. PICK j \in Bad : \A l \in Bad : j <= l
    <3>1. Bad \in SUBSET Nat
      OBVIOUS
    <3> HIDE DEF Bad
    <3>2. QED
      BY <3>1, LeastNatural
  <2>2. j \in 0..n /\ ~\E e : Hull(stack[j], e, P, j)
    OBVIOUS
  <2>3. CASE j = 0
    <3> DEFINE e == [b \in 0..0 |-> 0]
    <3>1. stack[0] = <<>> /\ Len(<<>>) = 0 /\ <<>> \in Seq(Int \X (Nat \ {0}))
      <4>1. stack[0] = <<>>
        BY <1>4, <2>2, <2>3
      <4>2. Len(<<>>) = 0 /\ <<>> \in Seq(Int \X (Nat \ {0}))
        OBVIOUS
      <4>3. QED
        BY <4>1, <4>2
    <3>2. e \in [0..0 -> 0..0] /\ e[0] = 0
      OBVIOUS
    <3>3. 1..0 = {} /\ \A b, c \in 0..0 : ~(b < c)
      OBVIOUS
    <3> HIDE DEF e
    <3>4. Hull(<<>>, e, P, 0)
      BY <3>1, <3>2, <3>3 DEF Hull
    <3>5. QED
      BY <2>2, <2>3, <3>1, <3>4
  <2>4. CASE j # 0
    <3> DEFINE i == j - 1
    <3>1. i \in 0..n /\ ~(j <= i) /\ j \in 1..n
      BY <2>2, <2>4
    <3>2. i \notin Bad
      <4> HIDE DEF Bad, i
      <4>1. QED
        BY <2>1, <3>1
    <3>3. PICK e : Hull(stack[i], e, P, i)
      BY <3>1, <3>2
    <3> DEFINE old == stack[i]
               v == y[j]
    <3>4. v \in Int /\ P[j] = P[j - 1] + v /\ stack[j] = Push(old, <<v, 1>>)
      BY <1>4, <2>4, <3>1
    <3>5. Hull(old, e, P, j - 1)
      BY <3>3
    <3> HIDE DEF old, v, i, Bad
    <3>6. \E f : Hull(Push(old, <<v, 1>>), f, P, j)
      BY <3>1, <3>4, <3>5, PushKeepsHull
    <3>7. QED
      BY <2>2, <3>4, <3>6
  <2>5. QED
    BY <2>3, <2>4
<1>6. n \in 0..n
  OBVIOUS
<1>7. QED
  BY <1>3, <1>5, <1>6

\* Each place has the mean of its pool, wherever the pools end.
PoolOf(e, t, i) == e[t - 1] < i /\ i <= e[t]

LEMMA EndsAreHulls ==
  ASSUME NEW n \in Nat, NEW y, NEW P, NEW e, Hull(Blocks(y), e, P, n), NEW i \in 1..n, i \in DOMAIN y
  PROVE  \E t \in 1..Len(Blocks(y)) : PoolOf(e, t, i) /\ PoolAdjacentViolators(y)[i] = Blocks(y)[t]
<1> DEFINE blocks == Blocks(y)
           m == Len(blocks)
           R(g) == g = [b \in 0..m |-> IF b = 0 THEN 0 ELSE g[b - 1] + blocks[b][2]]
           ends == CHOOSE g : R(g)
           covering == {b \in DOMAIN blocks : i <= ends[b]}
           t == Min(covering)
<1>1. /\ m \in Nat /\ e \in [0..m -> 0..n] /\ e[0] = 0 /\ e[m] = n /\ DOMAIN blocks = 1..m
      /\ \A b \in 1..m : blocks[b][2] = e[b] - e[b - 1]
  BY DEF Hull
<1>2. PoolAdjacentViolators(y)[i] = blocks[t]
  BY DEF PoolAdjacentViolators
<1> HIDE DEF blocks, m
<1>3. R(e)
  <2>1. \A b \in 0..m : e[b] = IF b = 0 THEN 0 ELSE e[b - 1] + blocks[b][2]
    <3> SUFFICES ASSUME NEW b \in 0..m, b # 0 PROVE e[b] = e[b - 1] + blocks[b][2]
      BY <1>1
    <3>1. b \in 1..m /\ b - 1 \in 0..m
      BY <1>1
    <3>2. e[b] \in Int /\ e[b - 1] \in Int /\ blocks[b][2] = e[b] - e[b - 1]
      BY <1>1, <3>1
    <3>3. QED
      BY <3>2
  <2>2. e = [b \in 0..m |-> e[b]]
    BY <1>1
  <2>3. QED
    BY <2>1, <2>2
<1>4. R(ends)
  <2> HIDE DEF R
  <2>1. QED
    BY <1>3
<1> HIDE DEF ends
<1> DEFINE Bad == {b \in 0..m : ends[b] # e[b]}
<1>5. Bad = {}
  <2> SUFFICES ASSUME Bad # {} PROVE FALSE
    OBVIOUS
  <2>1. PICK b \in Bad : \A c \in Bad : b <= c
    <3>1. Bad \in SUBSET Nat
      BY <1>1
    <3> HIDE DEF Bad
    <3>2. QED
      BY <3>1, LeastNatural
  <2>2. b \in 0..m /\ ends[b] # e[b]
    OBVIOUS
  <2>3. ends[b] = IF b = 0 THEN 0 ELSE ends[b - 1] + blocks[b][2]
    BY <1>4, <2>2
  <2>4. e[b] = IF b = 0 THEN 0 ELSE e[b - 1] + blocks[b][2]
    BY <1>3, <2>2
  <2>5. b # 0
    BY <2>2, <2>3, <2>4
  <2>6. b - 1 \in 0..m /\ ~(b <= b - 1)
    BY <1>1, <2>2, <2>5
  <2>7. b - 1 \notin Bad
    <3> HIDE DEF Bad
    <3>1. QED
      BY <2>1, <2>6
  <2>8. QED
    BY <2>2, <2>3, <2>4, <2>5, <2>6, <2>7
<1>6. \A b \in 0..m : ends[b] = e[b]
  BY <1>5
<1>7. t \in covering /\ \A b \in covering : t <= b
  <2>1. m # 0
    BY <1>1
  <2>2. m \in covering /\ covering \in SUBSET Nat
    BY <1>1, <1>6, <2>1
  <2> HIDE DEF covering
  <2>3. QED
    BY <2>2, LeastNatural
<1>8. t \in 1..m /\ i <= e[t]
  BY <1>1, <1>6, <1>7
<1>9. e[t - 1] < i
  <2> SUFFICES ASSUME ~(e[t - 1] < i) PROVE FALSE
    OBVIOUS
  <2> HIDE DEF t
  <2>1. t - 1 \in 0..m /\ t - 1 # 0 /\ t - 1 \in 1..m
    <3>1. t - 1 \in 0..m
      BY <1>1, <1>8
    <3>2. t - 1 # 0
      BY <1>1
    <3>3. QED
      BY <1>1, <3>1, <3>2
  <2>2. e[t - 1] \in Int /\ i \in Int /\ i <= e[t - 1]
    BY <1>1, <2>1
  <2>3. t - 1 \in covering
    BY <1>1, <1>6, <2>1, <2>2
  <2>4. t <= t - 1
    <3> HIDE DEF covering
    <3>1. QED
      BY <1>7, <2>3
  <2>5. QED
    BY <1>8, <2>4
<1>10. QED
  BY <1>2, <1>8, <1>9 DEF m, blocks, PoolOf

\* The cumulative sums, and the mean of a stretch between two of them.
SumsOf(y, P) ==
  /\ P \in [0..Len(y) -> Int] /\ P[0] = 0
  /\ \A j \in 1..Len(y) : P[j] = P[j - 1] + y[j]

LEMMA SumsExist ==
  ASSUME NEW y \in Seq(Nat)
  PROVE  \E P : SumsOf(y, P)
<1> DEFINE n == Len(y)
           P == [k \in 0..n |-> SumFunctionOnSet(y, 1..k)]
<1>1. n \in Nat /\ \A j \in 1..n : y[j] \in Nat
  OBVIOUS
<1>2. \A k \in 0..n : P[k] \in Int
  <2> SUFFICES ASSUME NEW k \in 0..n PROVE SumFunctionOnSet(y, 1..k) \in Nat
    OBVIOUS
  <2>1. IsFiniteSet(1..k) /\ \A i \in 1..k : y[i] \in Nat
    BY <1>1, FS_Interval
  <2>2. QED
    BY <2>1, SumIsNatural
<1>3. P[0] = 0
  <2>1. 1..0 = {} /\ 0 \in 0..n
    BY <1>1
  <2>2. P[0] = SumFunctionOnSet(y, 1..0)
    BY <2>1
  <2>3. QED
    BY <2>1, <2>2, EmptySum
<1>4. ASSUME NEW j \in 1..n PROVE P[j] = P[j - 1] + y[j]
  <2> DEFINE i == j - 1
  <2>1. i \in 0..n /\ j \in 0..n /\ 1..j = (1..i) \cup {j} /\ j \notin 1..i
    BY <1>1
  <2>2. IsFiniteSet(1..i) /\ \A k \in (1..i) \cup {j} : y[k] \in Nat
    <3>1. i \in Int /\ 1 \in Int /\ 1..i \subseteq 1..n
      BY <1>1, <2>1
    <3> HIDE DEF i
    <3>2. QED
      BY <1>1, <3>1, FS_Interval
  <2>3. P[j] = SumFunctionOnSet(y, 1..j) /\ P[i] = SumFunctionOnSet(y, 1..i)
    BY <2>1
  <2> HIDE DEF P, i
  <2>4. SumFunctionOnSet(y, (1..i) \cup {j}) = SumFunctionOnSet(y, 1..i) + y[j]
    BY <2>1, <2>2, SumOfOneMore
  <2>5. P[j] = P[i] + y[j]
    BY <2>1, <2>3, <2>4
  <2>6. QED
    BY <2>5 DEF i
<1>5. P \in [0..n -> Int]
  BY <1>2
<1>6. QED
  BY <1>3, <1>4, <1>5 DEF SumsOf

\* The mean of the places from a to b.
MeanOfRun(y, a, b) == <<MapThenSumSet(LAMBDA k : y[k], a..b), b - a + 1>>

LEMMA MeanBetween ==
  ASSUME NEW y \in Seq(Nat), NEW P, SumsOf(y, P),
         NEW a \in 1..Len(y), NEW b \in a..Len(y), NEW i, i = a - 1
  PROVE  MeanOfRun(y, a, b) = Between(P, i, b)
<1> DEFINE n == Len(y)
           S(c) == SumFunctionOnSet(y, a..c)
<1>1. n \in Nat /\ (\A j \in 1..n : y[j] \in Nat) /\ i \in 0..n /\ P \in [0..n -> Int]
  BY DEF SumsOf
<1>2. MapThenSumSet(LAMBDA k : y[k], a..b) = S(b)
  BY DEF MapThenSumSet, SumFunctionOnSet, FoldFunctionOnSet
<1> DEFINE Bad == {c \in i..n : S(c) # P[c] - P[i]}
<1>3. Bad = {}
  <2> SUFFICES ASSUME Bad # {} PROVE FALSE
    OBVIOUS
  <2>1. PICK c \in Bad : \A d \in Bad : c <= d
    <3>1. Bad \in SUBSET Nat
      BY <1>1
    <3> HIDE DEF Bad
    <3>2. QED
      BY <3>1, LeastNatural
  <2>2. c \in i..n /\ S(c) # P[c] - P[i]
    OBVIOUS
  <2>3. CASE c = i
    <3>1. a..c = {}
      BY <1>1, <2>3
    <3>2. S(c) = 0
      BY <3>1, EmptySum
    <3>3. P[i] \in Int
      BY <1>1
    <3>4. QED
      BY <2>2, <2>3, <3>2, <3>3
  <2>4. CASE c # i
    <3> DEFINE d == c - 1
    <3>1. d \in i..n /\ ~(c <= d) /\ c \in 1..n /\ a..c = (a..d) \cup {c} /\ c \notin a..d
      BY <1>1, <2>2, <2>4
    <3>2. IsFiniteSet(a..d) /\ \A k \in (a..d) \cup {c} : y[k] \in Nat
      <4>1. IsFiniteSet(a..d)
        BY <1>1, <2>2, FS_Interval
      <4>2. QED
        BY <1>1, <2>2, <3>1, <4>1
    <3>3. P[c] = P[d] + y[c]
      BY <3>1 DEF SumsOf
    <3>4. d \notin Bad
      <4> HIDE DEF Bad, d
      <4>1. QED
        BY <2>1, <3>1
    <3>5. S(d) = P[d] - P[i]
      BY <3>1, <3>4
    <3>6. P[d] \in Int /\ P[i] \in Int /\ P[c] \in Int /\ y[c] \in Int
      <4>1. d \in 0..n /\ c \in 0..n
        BY <1>1, <3>1
      <4>2. y[c] \in Int
        BY <1>1, <3>1
      <4>3. i \in 0..n /\ P \in [0..n -> Int]
        BY <1>1
      <4> HIDE DEF d, n, S, Bad
      <4>4. QED
        BY <4>1, <4>2, <4>3
    <3> HIDE DEF Bad, d
    <3>7. S(c) = S(d) + y[c]
      BY <3>1, <3>2, SumOfOneMore
    <3> HIDE DEF S
    <3>8. QED
      BY <2>2, <3>3, <3>5, <3>6, <3>7
  <2>5. QED
    BY <2>3, <2>4
<1>4. b \in i..n /\ b - a + 1 = b - i
  BY <1>1
<1>5. S(b) = P[b] - P[i]
  BY <1>3, <1>4
<1>6. MeanOfRun(y, a, b) = <<S(b), b - a + 1>>
  BY <1>2 DEF MeanOfRun
<1>7. QED
  BY <1>4, <1>5, <1>6 DEF Between

\* A line that runs below a point runs above it as seen from the point.
LEMMA LineBefore ==
  ASSUME NEW s \in Int, NEW c \in Int, NEW x \in Int, NEW k \in Int, NEW X \in Int, NEW K \in Int,
         s * (k - x) <= c * (K - X)
  PROVE  (X - K) * c <= s * (x - k)
<1>1. s * (k - x) = -(s * (x - k)) /\ c * (K - X) = -((X - K) * c)
  OBVIOUS
<1> DEFINE f == s * (x - k)  g == (X - K) * c
<1>2. f \in Int /\ g \in Int /\ -f <= -g
  BY <1>1
<1> HIDE DEF f, g
<1>3. g <= f
  BY <1>2
<1>4. QED
  BY <1>3 DEF f, g

\* A line that runs below a later point runs below it from its own beginning on.
LEMMA LineAfter ==
  ASSUME NEW a \in Int, NEW x \in Int, NEW k \in Int, NEW A \in Int, NEW X \in Int, NEW K \in Int,
         (X - A) * (k - x) <= (x - a) * (K - X)
  PROVE  (X - A) * (k - a) <= (K - A) * (x - a)
<1> DEFINE s == X - A  c == x - a  u == k - x  v == K - X
<1>1. s \in Int /\ c \in Int /\ u \in Int /\ v \in Int /\ s * u <= c * v
  OBVIOUS
<1>2. k - a = u + c /\ K - A = v + s
  OBVIOUS
<1> HIDE DEF s, c, u, v
<1>3. s * (u + c) = s * u + s * c /\ (v + s) * c = c * v + s * c
  BY <1>1
<1> DEFINE f == s * u  g == c * v  h == s * c
<1>4. f \in Int /\ g \in Int /\ h \in Int /\ f <= g
  BY <1>1
<1> HIDE DEF f, g, h
<1>5. f + h <= g + h
  BY <1>4
<1>6. s * (u + c) <= (v + s) * c
  BY <1>3, <1>5 DEF f, g, h
<1>7. QED
  BY <1>2, <1>6 DEF s, c

\* What a pool of a hull is, and where it ends.
LEMMA PoolFacts ==
  ASSUME NEW n \in Nat, NEW P \in [0..n -> Int], NEW stack, NEW e, Hull(stack, e, P, n),
         NEW t \in 1..Len(stack)
  PROVE  /\ e[t] \in 0..n /\ e[t - 1] \in 0..n /\ e[t - 1] < e[t]
         /\ stack[t] = Between(P, e[t - 1], e[t])
         /\ stack[t][1] \in Int /\ stack[t][2] \in Nat \ {0}
         /\ \A k \in 0..n : stack[t][1] * (k - e[t]) <= stack[t][2] * (P[k] - P[e[t]])
<1> DEFINE m == Len(stack)
<1>1. stack \in Seq(Int \X (Nat \ {0})) /\ m \in Nat
  BY DEF Hull
<1>2. e \in [0..m -> 0..n] /\ \A b, c \in 0..m : b < c => e[b] < e[c]
  BY DEF Hull
<1>3. stack[t] = Between(P, e[t - 1], e[t])
  BY DEF Hull, Between
<1>4. \A k \in 0..n : stack[t][1] * (k - e[t]) <= stack[t][2] * (P[k] - P[e[t]])
  BY DEF Hull
<1>5. t \in 0..m /\ t - 1 \in 0..m /\ t - 1 < t
  BY <1>1
<1>6. e[t] \in 0..n /\ e[t - 1] \in 0..n /\ e[t - 1] < e[t]
  BY <1>2, <1>5
<1>7. stack[t] \in Int \X (Nat \ {0})
  BY <1>1
<1>8. stack[t][1] \in Int /\ stack[t][2] \in Nat \ {0}
  BY <1>7
<1>9. QED
  BY <1>3, <1>4, <1>6, <1>8

\* No stretch that starts before a place and ends with its pool is above the
\* pool, and none that starts with the pool and ends after the place is below it.
LEMMA PoolIsMonotoneFit ==
  ASSUME NEW y \in Seq(Nat), NEW i \in 1..Len(y), NEW fitted, fitted = PoolAdjacentViolators(y)[i]
  PROVE  /\ \A a \in 1..i : \E b \in i..Len(y) : ~Above(MeanOfRun(y, a, b), fitted)
         /\ \E a \in 1..i : \A b \in i..Len(y) : ~Above(fitted, MeanOfRun(y, a, b))
<1> DEFINE n == Len(y)
           stack == Blocks(y)
<1>1. n \in Nat /\ y \in [1..n -> Int] /\ DOMAIN y = 1..n
  OBVIOUS
<1>2. PICK P : SumsOf(y, P)
  BY SumsExist
<1>3. P \in [0..n -> Int] /\ P[0] = 0 /\ \A j \in 1..n : P[j] = P[j - 1] + y[j]
  BY <1>2 DEF SumsOf
<1> HIDE DEF n, stack
<1>4. PICK e : Hull(Blocks(y), e, P, n)
  BY <1>1, <1>3, BlocksAreHull
<1>5. i \in 1..n
  BY DEF n
<1>6. PICK t \in 1..Len(Blocks(y)) : PoolOf(e, t, i) /\ PoolAdjacentViolators(y)[i] = Blocks(y)[t]
  BY <1>1, <1>4, <1>5, EndsAreHulls
<1> DEFINE x == e[t]
           z == e[t - 1]
           s == fitted[1]
           c == fitted[2]
<1>7. /\ x \in 0..n /\ z \in 0..n /\ z < x /\ fitted = Between(P, z, x)
      /\ s \in Int /\ c \in Nat \ {0}
      /\ \A k \in 0..n : s * (k - x) <= c * (P[k] - P[x])
  <2>1. fitted = Blocks(y)[t]
    BY <1>6
  <2>2. /\ e[t] \in 0..n /\ e[t - 1] \in 0..n /\ e[t - 1] < e[t]
        /\ Blocks(y)[t] = Between(P, e[t - 1], e[t])
        /\ Blocks(y)[t][1] \in Int /\ Blocks(y)[t][2] \in Nat \ {0}
        /\ \A k \in 0..n : Blocks(y)[t][1] * (k - e[t]) <= Blocks(y)[t][2] * (P[k] - P[e[t]])
    BY <1>1, <1>3, <1>4, PoolFacts
  <2>3. QED
    BY <2>1, <2>2
<1>8. z < i /\ i <= x
  BY <1>6 DEF PoolOf
<1> HIDE DEF x, z
<1>9. s = P[x] - P[z] /\ c = x - z
  BY <1>7 DEF Between
<1>10. \A k \in 0..n : P[k] \in Int
  BY <1>3
<1>11. ASSUME NEW a \in 1..i
       PROVE  \E b \in i..Len(y) : ~Above(MeanOfRun(y, a, b), fitted)
  <2> DEFINE k == a - 1
  <2>1. a \in 1..n /\ k \in 0..n /\ x \in a..n /\ x \in i..n
    <3>1. n \in Int /\ i \in Int /\ x \in Int /\ x <= n /\ i <= n
      BY <1>1, <1>5, <1>7
    <3>2. QED
      BY <1>8, <3>1
  <2>2. MeanOfRun(y, a, x) = Between(P, k, x)
    <3>1. a \in 1..Len(y) /\ x \in a..Len(y) /\ k = a - 1
      BY <2>1 DEF n
    <3> HIDE DEF k
    <3>2. QED
      BY <1>2, <3>1, MeanBetween
  <2>3. s * (k - x) <= c * (P[k] - P[x])
    BY <1>7, <2>1
  <2>4. x \in Int /\ k \in Int /\ P[x] \in Int /\ P[k] \in Int /\ c \in Int
    <3>1. k \in 0..n /\ x \in 0..n /\ c \in Int
      BY <1>7, <2>1
    <3> HIDE DEF k, c
    <3>2. QED
      BY <1>1, <1>10, <3>1
  <2> HIDE DEF k, s, c
  <2>5. (P[x] - P[k]) * c <= s * (x - k)
    BY <1>7, <2>3, <2>4, LineBefore
  <2>6. ~Above(Between(P, k, x), fitted)
    <3> DEFINE f == (P[x] - P[k]) * c
               g == s * (x - k)
    <3>1. f \in Int /\ g \in Int /\ f <= g
      BY <1>7, <2>4, <2>5
    <3>2. Above(Between(P, k, x), fitted) <=> f > g
      BY DEF Above, Between, s, c
    <3> HIDE DEF f, g
    <3>3. QED
      BY <3>1, <3>2
  <2>7. QED
    BY <2>1, <2>2, <2>6 DEF n
<1>12. ASSUME NEW b \in i..Len(y)
       PROVE  ~Above(fitted, MeanOfRun(y, z + 1, b))
  <2> DEFINE a == z + 1
  <2>1. a \in 1..n /\ z = a - 1 /\ b \in a..n /\ b \in 0..n /\ a <= i
    <3>1. n \in Nat /\ i \in 1..n /\ z \in Nat /\ z < i
      BY <1>1, <1>5, <1>7, <1>8
    <3>2. b \in i..n
      BY DEF n
    <3> HIDE DEF n, s, c
    <3>3. QED
      BY <3>1, <3>2
  <2>2. MeanOfRun(y, a, b) = Between(P, z, b)
    <3>1. a \in 1..Len(y) /\ b \in a..Len(y) /\ z = a - 1
      BY <2>1 DEF n
    <3> HIDE DEF a
    <3>2. QED
      BY <1>2, <3>1, MeanBetween
  <2>3. s * (b - x) <= c * (P[b] - P[x])
    BY <1>7, <2>1
  <2>4. x \in Int /\ z \in Int /\ b \in Int /\ P[x] \in Int /\ P[z] \in Int /\ P[b] \in Int
    BY <1>1, <1>7, <1>10, <2>1
  <2> HIDE DEF s, c
  <2>5. (P[x] - P[z]) * (b - x) <= (x - z) * (P[b] - P[x])
    BY <1>9, <2>3
  <2>6. (P[x] - P[z]) * (b - z) <= (P[b] - P[z]) * (x - z)
    BY <2>4, <2>5, LineAfter
  <2>7. ~Above(fitted, Between(P, z, b))
    <3> DEFINE f == (P[x] - P[z]) * (b - z)
               g == (P[b] - P[z]) * (x - z)
    <3>1. f \in Int /\ g \in Int /\ f <= g
      BY <2>4, <2>6
    <3>2. Above(fitted, Between(P, z, b)) <=> f > g
      BY <1>7 DEF Above, Between
    <3> HIDE DEF f, g
    <3>3. QED
      BY <3>1, <3>2
  <2>8. QED
    BY <2>2, <2>7
<1>13. z + 1 \in 1..i
  BY <1>5, <1>7, <1>8
<1>14. QED
  BY <1>11, <1>12, <1>13

\* Later places are in later pools, whose means are no lower.
NoHigher(u, v) == u[1] * v[2] <= v[1] * u[2]
IsMean(u) == u[1] \in Int /\ u[2] \in Nat \ {0}

LEMMA PoolsAscend ==
  ASSUME NEW y \in Seq(Nat), NEW i \in 1..Len(y), NEW j \in 1..Len(y), i <= j
  PROVE  /\ IsMean(PoolAdjacentViolators(y)[i]) /\ IsMean(PoolAdjacentViolators(y)[j])
         /\ NoHigher(PoolAdjacentViolators(y)[i], PoolAdjacentViolators(y)[j])
<1> DEFINE n == Len(y)
           stack == Blocks(y)
           m == Len(stack)
<1>1. n \in Nat /\ y \in [1..n -> Int] /\ i \in DOMAIN y /\ j \in DOMAIN y
  OBVIOUS
<1>2. PICK P : SumsOf(y, P)
  BY SumsExist
<1>3. P \in [0..n -> Int] /\ P[0] = 0 /\ \A k \in 1..n : P[k] = P[k - 1] + y[k]
  BY <1>2 DEF SumsOf
<1>4. PICK e : Hull(stack, e, P, n)
  <2> HIDE DEF n
  <2>1. QED
    BY <1>1, <1>3, BlocksAreHull
<1>5. PICK s \in 1..m : PoolOf(e, s, i) /\ PoolAdjacentViolators(y)[i] = stack[s]
  <2> HIDE DEF n
  <2>1. i \in 1..n
    BY DEF n
  <2>2. QED
    BY <1>1, <1>4, <2>1, EndsAreHulls
<1>6. PICK t \in 1..m : PoolOf(e, t, j) /\ PoolAdjacentViolators(y)[j] = stack[t]
  <2> HIDE DEF n
  <2>1. j \in 1..n
    BY DEF n
  <2>2. QED
    BY <1>1, <1>4, <2>1, EndsAreHulls
<1>7. \A b \in 1..m :
        /\ e[b] \in 0..n /\ e[b - 1] \in 0..n /\ stack[b][1] \in Int /\ stack[b][2] \in Nat \ {0}
        /\ \A k \in 0..n : stack[b][1] * (k - e[b]) <= stack[b][2] * (P[k] - P[e[b]])
  <2> HIDE DEF n, stack
  <2>1. QED
    BY <1>1, <1>3, <1>4, PoolFacts
<1>8. m \in Nat /\ \A b, c \in 0..m : b < c => e[b] < e[c]
  <2>1. m \in Nat
    BY <1>4 DEF Hull
  <2>2. QED
    BY <1>4, <2>1 DEF Hull
<1> HIDE DEF n, stack, m
<1>9. s <= t
  <2> SUFFICES ASSUME t < s PROVE FALSE
    BY <1>8
  <2>1. e[s - 1] < i /\ j <= e[t]
    BY <1>5, <1>6 DEF PoolOf
  <2>2. e[t] \in Int /\ e[s - 1] \in Int
    BY <1>7
  <2>3. t = s - 1 \/ t < s - 1
    BY <1>8
  <2>4. t \in 0..m /\ s - 1 \in 0..m
    BY <1>8
  <2>5. e[t] <= e[s - 1]
    BY <1>8, <2>2, <2>3, <2>4
  <2>6. QED
    BY <2>1, <2>2, <2>5
<1>10. NoHigher(stack[s], stack[t])
  <2>1. CASE s = t
    <3> DEFINE f == stack[s][1] * stack[s][2]
    <3>1. f \in Int
      BY <1>7
    <3>2. NoHigher(stack[s], stack[s]) <=> f <= f
      BY DEF NoHigher
    <3> HIDE DEF f
    <3>3. QED
      BY <2>1, <3>1, <3>2
  <2>2. CASE s < t
    <3> DEFINE a == e[t]  d == e[s]  A == P[a]  D == P[d]
               u == stack[s][1]  c == stack[s][2]
               v == stack[t][1]  l == stack[t][2]
    <3>1. a \in 0..n /\ d \in 0..n
      BY <1>7
    <3>2. d < a
      BY <1>8, <2>2
    <3>3. A \in Int /\ D \in Int /\ a \in Int /\ d \in Int
      <4>1. P \in [0..n -> Int] /\ n \in Nat
        BY <1>1, <1>3
      <4> HIDE DEF a, d
      <4>2. QED
        BY <3>1, <4>1
    <3>4. u \in Int /\ c \in Nat \ {0} /\ v \in Int /\ l \in Nat \ {0}
      BY <1>7
    <3>5. u * (a - d) <= c * (A - D) /\ v * (d - a) <= l * (D - A)
      BY <1>7, <3>1
    <3> HIDE DEF a, d, A, D, u, c, v, l
    <3>6. u * l <= v * c
      BY <3>2, <3>3, <3>4, <3>5, LinesAscend
    <3>7. QED
      BY <3>6 DEF NoHigher, u, c, v, l
  <2>3. QED
    BY <1>8, <1>9, <2>1, <2>2
<1>11. QED
  BY <1>5, <1>6, <1>7, <1>10 DEF IsMean

\* Means are compared as their values are.
LEMMA NoHigherTransitive ==
  ASSUME NEW u, NEW v, NEW w, IsMean(u), IsMean(v), IsMean(w), NoHigher(u, v), NoHigher(v, w)
  PROVE  NoHigher(u, w)
<1> DEFINE a == u[1]  k == u[2]  b == v[1]  l == v[2]  c == w[1]  m == w[2]
<1>1. /\ a \in Int /\ b \in Int /\ c \in Int
      /\ k \in Nat \ {0} /\ l \in Nat \ {0} /\ m \in Nat \ {0}
  BY DEF IsMean
<1>2. a * l <= b * k /\ b * m <= c * l
  BY DEF NoHigher
<1> HIDE DEF a, b, c, k, l, m
<1>3. a * m <= c * k
  BY <1>1, <1>2, MeansTransitive
<1>4. QED
  BY <1>3 DEF NoHigher, a, c, k, m

LEMMA NoHigherSelf ==
  ASSUME NEW u, IsMean(u)
  PROVE  NoHigher(u, u)
<1> DEFINE f == u[1] * u[2]
<1>1. f \in Int /\ (NoHigher(u, u) <=> f <= f)
  BY DEF IsMean, NoHigher
<1> HIDE DEF f
<1>2. QED
  BY <1>1

\* Between two knots: no lower than at the first, no higher than at the second,
\* and ascending.
Mix(a, b, run, w) == <<a[1] * b[2] * (run - w) + b[1] * a[2] * w, a[2] * b[2] * run>>

\* The numerator of a mix rises with the distance from the first knot.
LEMMA MixRises ==
  ASSUME NEW U \in Int, NEW V \in Int, U <= V, NEW run \in Nat, NEW w \in Nat, NEW x \in Nat, w <= x
  PROVE  U * (run - w) + V * w <= U * (run - x) + V * x
<1> DEFINE d == V - U
           z == x - w
<1>1. d \in Nat /\ z \in Nat
  OBVIOUS
<1>2. (U * (run - x) + V * x) - (U * (run - w) + V * w) = d * z
  OBVIOUS
<1>3. d * z \in Nat
  <2> HIDE DEF d, z
  <2>1. QED
    BY <1>1
<1> DEFINE f == U * (run - w) + V * w
           g == U * (run - x) + V * x
           h == d * z
<1>4. f \in Int /\ g \in Int /\ h \in Nat /\ g - f = h
  BY <1>2, <1>3
<1> HIDE DEF f, g, h
<1>5. f <= g
  BY <1>4
<1>6. QED
  BY <1>5 DEF f, g

LEMMA MixFacts ==
  ASSUME NEW a, NEW b, IsMean(a), IsMean(b), NoHigher(a, b),
         NEW run \in Nat \ {0}, NEW w \in 0..run
  PROVE  /\ IsMean(Mix(a, b, run, w))
         /\ NoHigher(a, Mix(a, b, run, w)) /\ NoHigher(Mix(a, b, run, w), b)
         /\ \A x \in w..run : NoHigher(Mix(a, b, run, w), Mix(a, b, run, x))
<1> DEFINE p == a[1]  c == a[2]  q == b[1]  d == b[2]
           U == p * d
           V == q * c
           num(x) == U * (run - x) + V * x
           den == c * d * run
<1>1. p \in Int /\ q \in Int /\ c \in Nat \ {0} /\ d \in Nat \ {0}
  BY DEF IsMean
<1>2. U <= V
  BY DEF NoHigher
<1>3. \A x : Mix(a, b, run, x) = <<num(x), den>>
  BY DEF Mix
<1> HIDE DEF p, c, q, d
<1>4. U \in Int /\ V \in Int
  BY <1>1
<1>5. \A x, z \in Nat \ {0} : x * z \in Nat \ {0}
  OBVIOUS
<1>6. den \in Nat \ {0}
  <2>1. c * d \in Nat \ {0}
    BY <1>1, <1>5
  <2>2. QED
    BY <1>5, <2>1
<1>7. p * den = (num(0)) * c /\ num(run) * d = q * den
  <2>1. p * (c * d * run) = (p * d * (run - 0) + q * c * 0) * c
    BY <1>1
  <2>2. (p * d * (run - run) + q * c * run) * d = q * (c * d * run)
    BY <1>1
  <2>3. QED
    BY <2>1, <2>2
<1> HIDE DEF U, V, den
<1>8. \A x \in 0..run : num(x) \in Int
  BY <1>4
<1>9. \A x, z \in 0..run : x <= z => num(x) <= num(z)
  <2> SUFFICES ASSUME NEW x \in 0..run, NEW z \in 0..run, x <= z PROVE num(x) <= num(z)
    OBVIOUS
  <2>1. x \in Nat /\ z \in Nat /\ run \in Nat
    OBVIOUS
  <2>2. QED
    BY <1>2, <1>4, <2>1, MixRises
<1> HIDE DEF num
<1>10. 0 \in 0..run /\ run \in 0..run /\ w \in 0..run /\ 0 <= w /\ w <= run
  OBVIOUS
<1>11. num(0) <= num(w) /\ num(w) <= num(run) /\ num(0) \in Int /\ num(w) \in Int /\ num(run) \in Int
  BY <1>8, <1>9, <1>10
<1>12. num(0) * c <= num(w) * c /\ num(w) * d <= num(run) * d
  BY <1>1, <1>11, ScaleLeq
<1>13. p * den <= num(w) * c /\ num(w) * d <= q * den
  BY <1>7, <1>12
<1>14. ASSUME NEW x \in w..run PROVE num(w) * den <= num(x) * den
  <2>1. x \in 0..run /\ w <= x
    BY <1>10
  <2>2. num(w) <= num(x) /\ num(x) \in Int
    BY <1>8, <1>9, <1>10, <2>1
  <2>3. den \in Nat
    BY <1>6
  <2>4. QED
    BY <1>11, <2>2, <2>3, ScaleLeq
<1>15. IsMean(Mix(a, b, run, w))
  BY <1>3, <1>6, <1>11 DEF IsMean
<1>16. NoHigher(a, Mix(a, b, run, w)) /\ NoHigher(Mix(a, b, run, w), b)
  BY <1>3, <1>13 DEF NoHigher, p, q, c, d
<1>17. QED
  BY <1>3, <1>14, <1>15, <1>16 DEF NoHigher

\* What interpolation needs of a fit: ascending knots, ascending means.
Ascends(fit, n) ==
  /\ n \in Nat \ {0} /\ Len(fit.x) = n
  /\ \A k \in 1..n : fit.x[k] \in Int /\ IsMean(fit.y[k])
  /\ \A k, l \in 1..n : k <= l => fit.x[k] <= fit.x[l] /\ NoHigher(fit.y[k], fit.y[l])

\* The knots no further than q, and what becomes of q if there are some and
\* they are not all.
KnotsBelow(fit, n, q) == {k \in 1..n : fit.x[k] <= q}
MixAt(fit, k, q) == Mix(fit.y[k], fit.y[k + 1], fit.x[k + 1] - fit.x[k], q - fit.x[k])

\* What a probability is mapped to: the first mean, the last, or a mix of two.
LEMMA TransformCases ==
  ASSUME NEW n, NEW fit, Ascends(fit, n), NEW q \in Int,
         NEW below, below = KnotsBelow(fit, n, q)
  PROVE  /\ below = {} => Transform(fit, q) = fit.y[1]
         /\ below # {} /\ Max(below) = n => Transform(fit, q) = fit.y[n]
         /\ below # {} /\ Max(below) # n => Transform(fit, q) = MixAt(fit, Max(below), q)
<1>1. Len(fit.x) = n /\ below = {k \in 1..Len(fit.x) : fit.x[k] <= q}
  BY DEF Ascends, KnotsBelow
<1>2. CASE below = {}
  BY <1>1, <1>2 DEF Transform
<1>3. CASE below # {} /\ Max(below) = n
  BY <1>1, <1>3 DEF Transform
<1>4. CASE below # {} /\ Max(below) # n
  BY <1>1, <1>4 DEF Transform, MixAt, Mix
<1>5. QED
  BY <1>2, <1>3, <1>4

\* The knots about q, when it lies between two.
LEMMA KnotsAbout ==
  ASSUME NEW n, NEW fit, Ascends(fit, n), NEW q \in Int,
         NEW below, below = KnotsBelow(fit, n, q), below # {}
  PROVE  /\ Max(below) \in 1..n /\ fit.x[Max(below)] <= q
         /\ \A k \in 1..n : fit.x[k] <= q => k <= Max(below)
<1>1. below \in SUBSET Nat /\ n \in Nat /\ \A k \in below : k <= n
  BY DEF Ascends, KnotsBelow
<1>2. Max(below) \in below /\ \A k \in below : k <= Max(below)
  BY <1>1, GreatestNatural
<1>3. QED
  BY <1>2 DEF KnotsBelow

\* The knots about q are neighbours, and q divides the run between them.
LEMMA BetweenKnots ==
  ASSUME NEW n, NEW fit, Ascends(fit, n), NEW q \in Int, NEW m \in 1..n, m # n,
         fit.x[m] <= q, \A k \in 1..n : fit.x[k] <= q => k <= m
  PROVE  LET a == fit.y[m]
             b == fit.y[m + 1]
             run == fit.x[m + 1] - fit.x[m]
             w == q - fit.x[m]
         IN  /\ m + 1 \in 1..n /\ q < fit.x[m + 1]
             /\ IsMean(a) /\ IsMean(b) /\ NoHigher(a, b)
             /\ run \in Nat \ {0} /\ w \in 0..run
<1>1. n \in Nat /\ m + 1 \in 1..n /\ m <= m + 1 /\ ~(m + 1 <= m)
  BY DEF Ascends
<1>2. fit.x[m] \in Int /\ fit.x[m + 1] \in Int
  BY <1>1 DEF Ascends
<1>3. IsMean(fit.y[m]) /\ IsMean(fit.y[m + 1]) /\ NoHigher(fit.y[m], fit.y[m + 1])
  BY <1>1 DEF Ascends
<1>4. q < fit.x[m + 1]
  BY <1>1, <1>2
<1>5. QED
  BY <1>1, <1>2, <1>3, <1>4

\* What a knot before q has q gets at least, and what one after q has at most.
LEMMA TransformBounds ==
  ASSUME NEW n, NEW fit, Ascends(fit, n), NEW q \in Int
  PROVE  /\ IsMean(Transform(fit, q))
         /\ \A k \in 1..n : fit.x[k] <= q => NoHigher(fit.y[k], Transform(fit, q))
         /\ \A k \in 1..n : q < fit.x[k] => NoHigher(Transform(fit, q), fit.y[k])
<1> DEFINE below == KnotsBelow(fit, n, q)
           value == Transform(fit, q)
<1>1. /\ n \in Nat /\ 1 \in 1..n /\ n \in 1..n
      /\ \A k \in 1..n : fit.x[k] \in Int /\ IsMean(fit.y[k])
      /\ \A k, l \in 1..n : k <= l => fit.x[k] <= fit.x[l] /\ NoHigher(fit.y[k], fit.y[l])
  BY DEF Ascends
<1>2. /\ below = {} => value = fit.y[1]
      /\ below # {} /\ Max(below) = n => value = fit.y[n]
      /\ below # {} /\ Max(below) # n => value = MixAt(fit, Max(below), q)
  BY TransformCases
<1>3. CASE below = {}
  <2>1. \A k \in 1..n : ~(fit.x[k] <= q)
    BY <1>3 DEF KnotsBelow
  <2> HIDE DEF value, below
  <2>2. \A k \in 1..n : NoHigher(value, fit.y[k])
    BY <1>1, <1>2, <1>3
  <2>3. QED
    BY <1>1, <1>2, <1>3, <2>1, <2>2 DEF value
<1>4. CASE below # {} /\ Max(below) = n
  <2>1. fit.x[n] <= q
    BY <1>4, KnotsAbout
  <2>2. value = fit.y[n]
    BY <1>2, <1>4
  <2> HIDE DEF value, below
  <2>3. \A k \in 1..n : NoHigher(fit.y[k], value)
    BY <1>1, <2>2
  <2>4. \A k \in 1..n : ~(q < fit.x[k])
    <3> SUFFICES ASSUME NEW k \in 1..n PROVE fit.x[k] <= q
      BY <1>1
    <3>1. fit.x[k] <= fit.x[n] /\ fit.x[k] \in Int /\ fit.x[n] \in Int
      BY <1>1
    <3>2. QED
      BY <2>1, <3>1
  <2>5. QED
    BY <1>1, <2>2, <2>3, <2>4 DEF value
<1>5. CASE below # {} /\ Max(below) # n
  <2> DEFINE m == Max(below)
             a == fit.y[m]  b == fit.y[m + 1]
             run == fit.x[m + 1] - fit.x[m]
             w == q - fit.x[m]
  <2>1. m \in 1..n /\ m # n /\ fit.x[m] <= q /\ \A k \in 1..n : fit.x[k] <= q => k <= m
    BY <1>5, KnotsAbout
  <2>2. value = Mix(a, b, run, w)
    BY <1>2, <1>5 DEF MixAt
  <2> HIDE DEF value, below, m
  <2>3. /\ m + 1 \in 1..n /\ q < fit.x[m + 1]
        /\ IsMean(a) /\ IsMean(b) /\ NoHigher(a, b) /\ run \in Nat \ {0} /\ w \in 0..run
    BY <2>1, BetweenKnots
  <2>4. IsMean(value) /\ NoHigher(a, value) /\ NoHigher(value, b)
    <3> HIDE DEF a, b, run, w
    <3>1. QED
      BY <2>2, <2>3, MixFacts
  <2>5. ASSUME NEW k \in 1..n, fit.x[k] <= q
        PROVE  NoHigher(fit.y[k], value)
    <3>1. k <= m
      BY <2>1, <2>5
    <3>2. NoHigher(fit.y[k], a) /\ IsMean(fit.y[k])
      BY <1>1, <2>1, <3>1
    <3> HIDE DEF a, b
    <3>3. QED
      BY <2>3, <2>4, <3>2, NoHigherTransitive
  <2>6. ASSUME NEW k \in 1..n, q < fit.x[k]
        PROVE  NoHigher(value, fit.y[k])
    <3>1. ~(k <= m)
      <4> SUFFICES ASSUME k <= m PROVE FALSE
        OBVIOUS
      <4>1. fit.x[k] <= fit.x[m] /\ fit.x[k] \in Int /\ fit.x[m] \in Int
        BY <1>1, <2>1
      <4>2. QED
        BY <2>1, <2>6, <4>1
    <3>2. m + 1 <= k
      BY <2>1, <3>1
    <3>3. NoHigher(b, fit.y[k]) /\ IsMean(fit.y[k])
      BY <1>1, <2>3, <3>2
    <3> HIDE DEF a, b
    <3>4. QED
      BY <2>3, <2>4, <3>3, NoHigherTransitive
  <2>7. QED
    BY <2>4, <2>5, <2>6 DEF value
<1>6. QED
  BY <1>3, <1>4, <1>5

\* No probability is ranked below a lower one.
LEMMA TransformAscends ==
  ASSUME NEW n, NEW fit, Ascends(fit, n), NEW q \in Int, NEW r \in Int, q < r
  PROVE  NoHigher(Transform(fit, q), Transform(fit, r))
<1> DEFINE u == Transform(fit, q)
           v == Transform(fit, r)
           below == KnotsBelow(fit, n, q)
<1>1. \A k \in 1..n : fit.x[k] \in Int /\ IsMean(fit.y[k])
  BY DEF Ascends
<1>2. IsMean(u) /\ \A k \in 1..n : q < fit.x[k] => NoHigher(u, fit.y[k])
  BY TransformBounds
<1>3. IsMean(v) /\ \A k \in 1..n : fit.x[k] <= r => NoHigher(fit.y[k], v)
  BY TransformBounds
<1>4. CASE \E k \in 1..n : q < fit.x[k] /\ fit.x[k] <= r
  <2> HIDE DEF u, v
  <2>1. PICK k \in 1..n : q < fit.x[k] /\ fit.x[k] <= r
    BY <1>4
  <2>2. NoHigher(u, v)
    BY <1>1, <1>2, <1>3, <2>1, NoHigherTransitive
  <2>3. QED
    BY <2>2 DEF u, v
<1>5. CASE ~\E k \in 1..n : q < fit.x[k] /\ fit.x[k] <= r
  <2>1. below = KnotsBelow(fit, n, r)
    <3>1. \A k \in 1..n : fit.x[k] <= q <=> fit.x[k] <= r
      BY <1>1, <1>5
    <3>2. QED
      BY <3>1 DEF KnotsBelow
  <2>2. /\ below = {} => u = fit.y[1]
        /\ below # {} /\ Max(below) = n => u = fit.y[n]
        /\ below # {} /\ Max(below) # n => u = MixAt(fit, Max(below), q)
    BY TransformCases
  <2>3. /\ below = {} => v = fit.y[1]
        /\ below # {} /\ Max(below) = n => v = fit.y[n]
        /\ below # {} /\ Max(below) # n => v = MixAt(fit, Max(below), r)
    BY <2>1, TransformCases
  <2>4. CASE below = {} \/ Max(below) = n
    <3>1. u = v
      BY <2>2, <2>3, <2>4
    <3> HIDE DEF u, v
    <3>2. NoHigher(u, v)
      BY <1>2, <3>1, NoHigherSelf
    <3>3. QED
      BY <3>2 DEF u, v
  <2>5. CASE below # {} /\ Max(below) # n
    <3> DEFINE m == Max(below)
               a == fit.y[m]  b == fit.y[m + 1]
               run == fit.x[m + 1] - fit.x[m]
               w == q - fit.x[m]  x == r - fit.x[m]
    <3>1. m \in 1..n /\ m # n /\ fit.x[m] <= q /\ \A k \in 1..n : fit.x[k] <= q => k <= m
      BY <2>5, KnotsAbout
    <3>2. fit.x[m] <= r /\ \A k \in 1..n : fit.x[k] <= r => k <= m
      BY <2>1, <2>5, KnotsAbout
    <3>3. u = Mix(a, b, run, w) /\ v = Mix(a, b, run, x)
      BY <2>2, <2>3, <2>5 DEF MixAt
    <3> HIDE DEF u, v, below, m
    <3>4. IsMean(a) /\ IsMean(b) /\ NoHigher(a, b) /\ run \in Nat \ {0} /\ w \in 0..run
      BY <3>1, BetweenKnots
    <3>5. x \in 0..run
      BY <3>1, <3>2, BetweenKnots
    <3>6. w <= x
      BY <1>1, <3>1
    <3>7. NoHigher(u, v)
      <4> HIDE DEF a, b, run, w, x
      <4>1. x \in w..run
        BY <3>4, <3>5, <3>6
      <4>2. QED
        BY <3>3, <3>4, <4>1, MixFacts
    <3>8. QED
      BY <3>7 DEF u, v
  <2>6. QED
    BY <2>4, <2>5
<1>6. QED
  BY <1>4, <1>5

-----------------------------------------------------------------------------
(* The fit is made of places in order; what it says is of records and their  *)
(* probabilities.                                                            *)

\* The records from one to another are those visited from the one turn to the other.
LEMMA StretchIsRun ==
  ASSUME NEW p \in Seq(Int), NEW a \in 1..Len(p), NEW b \in 1..Len(p)
  PROVE  /\ Stretch(p, ArgSort(p)[a], ArgSort(p)[b]) = {ArgSort(p)[k] : k \in a..b}
         /\ NotBefore(p, ArgSort(p)[b], ArgSort(p)[a]) <=> a <= b
<1> DEFINE n == Len(p)
           turns == ArgSort(p)
<1>1. n \in Nat /\ DOMAIN p = 1..n /\ \A k \in 1..n : p[k] \in Int
  OBVIOUS
<1>2. \A k \in 1..n : turns[k] \in 1..n
  BY <1>1, ArgSortPermutes
<1>3. \A k, l \in 1..n : k < l => VisitedBefore(p, turns[k], turns[l])
  BY VisitsInOrder
<1>4. \A k \in 1..n : \E l \in 1..n : turns[l] = k
  BY <1>1, EveryPlaceVisited
<1> HIDE DEF n, turns
<1>5. \A i, j \in 1..n : NotBefore(p, j, i) <=> ~VisitedBefore(p, j, i)
  BY <1>1 DEF NotBefore, VisitedBefore
<1>6. \A k \in 1..n : ~VisitedBefore(p, turns[k], turns[k])
  BY <1>1, <1>2 DEF VisitedBefore
<1>7. \A i, j \in 1..n : VisitedBefore(p, i, j) => ~VisitedBefore(p, j, i)
  BY <1>1 DEF VisitedBefore
<1>8. \A k, l \in 1..n : NotBefore(p, turns[l], turns[k]) <=> k <= l
  <2> SUFFICES ASSUME NEW k \in 1..n, NEW l \in 1..n
               PROVE  NotBefore(p, turns[l], turns[k]) <=> k <= l
    OBVIOUS
  <2>1. k < l \/ k = l \/ l < k
    OBVIOUS
  <2>2. CASE k < l
    BY <1>2, <1>3, <1>5, <1>7, <2>2
  <2>3. CASE k = l
    BY <1>2, <1>5, <1>6, <2>3
  <2>4. CASE l < k
    BY <1>2, <1>3, <1>5, <2>4
  <2>5. QED
    BY <2>1, <2>2, <2>3, <2>4
<1>9. a \in 1..n /\ b \in 1..n /\ n \in Nat
  BY <1>1 DEF n
<1>10. \A x : x \in Stretch(p, turns[a], turns[b]) <=> x \in {turns[k] : k \in a..b}
  <2>1. ASSUME NEW x \in Stretch(p, turns[a], turns[b])
        PROVE  x \in {turns[k] : k \in a..b}
    <3>1. x \in 1..n /\ NotBefore(p, x, turns[a]) /\ NotBefore(p, turns[b], x)
      BY <1>1 DEF Stretch
    <3>2. PICK k \in 1..n : turns[k] = x
      BY <1>4, <3>1
    <3>3. a <= k /\ k <= b
      BY <1>8, <1>9, <3>1, <3>2
    <3>4. k \in a..b
      BY <1>9, <3>3
    <3>5. QED
      BY <3>2, <3>4
  <2>2. ASSUME NEW k \in a..b
        PROVE  turns[k] \in Stretch(p, turns[a], turns[b])
    <3>1. k \in 1..n /\ a <= k /\ k <= b
      BY <1>9
    <3>2. QED
      BY <1>1, <1>2, <1>8, <1>9, <3>1 DEF Stretch
  <2>3. QED
    BY <2>1, <2>2
<1>11. Stretch(p, turns[a], turns[b]) = {turns[k] : k \in a..b}
  BY <1>10
<1>12. QED
  BY <1>8, <1>9, <1>11 DEF turns

\* y is outcomes in the order of turns.
Reordered(y, outcomes, turns, n) ==
  /\ \A k \in 1..n : turns[k] \in 1..n /\ outcomes[k] \in Nat /\ y[k] = outcomes[turns[k]]
  /\ \A k, l \in 1..n : turns[k] = turns[l] => k = l

\* What a run of places adds up to, the records there add up to.
LEMMA SumReordered ==
  ASSUME NEW n \in Nat, NEW turns, NEW outcomes, NEW y, Reordered(y, outcomes, turns, n),
         NEW a \in 1..n, NEW b \in a..n, NEW chosen, chosen = {turns[k] : k \in a..b}
  PROVE  /\ Cardinality(chosen) = b - a + 1
         /\ SumFunctionOnSet(outcomes, chosen) = SumFunctionOnSet(y, a..b)
<1> DEFINE i == a - 1
           Image(c) == {turns[k] : k \in a..c}
           Same(c) == /\ IsFiniteSet(Image(c)) /\ Cardinality(Image(c)) = c - i
                      /\ SumFunctionOnSet(outcomes, Image(c)) = SumFunctionOnSet(y, a..c)
           Bad == {c \in i..n : ~Same(c)}
<1>1. i \in Nat /\ i \in Int /\ i <= n /\ b \in i..n /\ b - i = b - a + 1
  OBVIOUS
<1>2. /\ \A k \in 1..n : turns[k] \in 1..n /\ outcomes[k] \in Nat /\ y[k] = outcomes[turns[k]]
      /\ \A k, l \in 1..n : turns[k] = turns[l] => k = l
  BY DEF Reordered
<1>3. Bad = {}
  <2> SUFFICES ASSUME Bad # {} PROVE FALSE
    OBVIOUS
  <2>1. PICK c \in Bad : \A d \in Bad : c <= d
    <3>1. Bad \in SUBSET Nat
      BY <1>1
    <3> HIDE DEF Bad
    <3>2. QED
      BY <3>1, LeastNatural
  <2>2. c \in i..n /\ ~Same(c)
    OBVIOUS
  <2>3. CASE c = i
    <3>1. a..c = {} /\ c - i = 0
      BY <1>1, <2>3
    <3>2. Image(c) = {}
      BY <3>1
    <3> HIDE DEF Image
    <3>3. Same(c)
      BY <3>1, <3>2, EmptySum, FS_EmptySet
    <3>4. QED
      BY <2>2, <3>3
  <2>4. CASE c # i
    <3> DEFINE d == c - 1
    <3>1. /\ d \in i..n /\ ~(c <= d) /\ c \in 1..n /\ a..c = (a..d) \cup {c} /\ c \notin a..d
          /\ a..d \subseteq 1..n /\ (d - i) + 1 = c - i /\ d - i \in Nat
      <4>1. c \in Int /\ i < c /\ c <= n /\ n \in Nat /\ a \in Int /\ 1 <= a /\ i = a - 1
        BY <1>1, <2>2, <2>4
      <4> HIDE DEF i, Bad, Same
      <4>2. QED
        BY <4>1
    <3>2. d \notin Bad
      <4> HIDE DEF Bad, d
      <4>1. QED
        BY <2>1, <3>1
    <3>3. Same(d)
      BY <3>1, <3>2
    <3>4. IsFiniteSet(a..d)
      BY <1>1, <2>2, FS_Interval
    <3> HIDE DEF Bad, d
    <3>5. Image(c) = Image(d) \cup {turns[c]} /\ turns[c] \notin Image(d) /\ Image(d) \subseteq 1..n
      <4>1. Image(c) = Image(d) \cup {turns[c]}
        <5> DEFINE run == a..d
        <5>1. a..c = run \cup {c}
          BY <3>1
        <5> HIDE DEF run
        <5>2. {turns[k] : k \in run \cup {c}} = {turns[k] : k \in run} \cup {turns[c]}
          OBVIOUS
        <5>3. QED
          BY <5>1, <5>2 DEF run
      <4>2. \A k \in a..d : k \in 1..n /\ k # c
        BY <3>1
      <4>3. turns[c] \notin Image(d)
        BY <1>2, <3>1, <4>2
      <4>4. Image(d) \subseteq 1..n
        BY <1>2, <4>2
      <4>5. QED
        BY <4>1, <4>3, <4>4
    <3> DEFINE I == Image(d)
    <3>6. /\ IsFiniteSet(I) /\ Cardinality(I) = d - i
          /\ SumFunctionOnSet(outcomes, I) = SumFunctionOnSet(y, a..d)
      BY <3>3
    <3>7. /\ turns[c] \notin I /\ I \subseteq 1..n /\ turns[c] \in 1..n
          /\ \A x \in I \cup {turns[c]} : outcomes[x] \in Nat
      BY <1>2, <3>1, <3>5
    <3>8. \A k \in (a..d) \cup {c} : y[k] \in Nat
      BY <1>2, <3>1
    <3>9. y[c] = outcomes[turns[c]]
      BY <1>2, <3>1
    <3> HIDE DEF I
    <3>10. /\ IsFiniteSet(I \cup {turns[c]}) /\ Cardinality(I \cup {turns[c]}) = Cardinality(I) + 1
      BY <3>6, <3>7, FS_AddElement
    <3>11. SumFunctionOnSet(outcomes, I \cup {turns[c]}) = SumFunctionOnSet(outcomes, I) + outcomes[turns[c]]
      <4> DEFINE x == turns[c]
      <4>1. IsFiniteSet(I) /\ x \notin I /\ \A z \in I \cup {x} : outcomes[z] \in Nat
        BY <3>6, <3>7
      <4> HIDE DEF x
      <4>2. SumFunctionOnSet(outcomes, I \cup {x}) = SumFunctionOnSet(outcomes, I) + outcomes[x]
        BY <4>1, SumOfOneMore
      <4>3. QED
        BY <4>2 DEF x
    <3>12. SumFunctionOnSet(y, (a..d) \cup {c}) = SumFunctionOnSet(y, a..d) + y[c]
      <4> DEFINE run == a..d
      <4>1. IsFiniteSet(run) /\ c \notin run /\ \A k \in run \cup {c} : y[k] \in Nat
        BY <3>1, <3>4, <3>8
      <4> HIDE DEF run
      <4>2. SumFunctionOnSet(y, run \cup {c}) = SumFunctionOnSet(y, run) + y[c]
        BY <4>1, SumOfOneMore
      <4>3. QED
        BY <4>2 DEF run
    <3>13. Image(c) = I \cup {turns[c]}
      BY <3>5 DEF I
    <3> HIDE DEF Image
    <3>14. Same(c)
      BY <3>1, <3>6, <3>9, <3>10, <3>11, <3>12, <3>13
    <3>15. QED
      BY <2>2, <3>14
  <2>5. QED
    BY <2>3, <2>4
<1>4. Same(b)
  BY <1>1, <1>3
<1>5. chosen = Image(b)
  OBVIOUS
<1> HIDE DEF Image, i
<1>6. QED
  BY <1>1, <1>4, <1>5

\* The mean of the records from one to another is that of the places.
LEMMA MeanOfStretch ==
  ASSUME NEW n \in Nat \ {0}, NEW p \in [1..n -> Int], NEW outcomes \in [1..n -> Nat],
         NEW y, \A k \in 1..n : y[k] = outcomes[ArgSort(p)[k]],
         NEW a \in 1..n, NEW b \in a..n
  PROVE  /\ Mean(outcomes, Stretch(p, ArgSort(p)[a], ArgSort(p)[b])) = MeanOfRun(y, a, b)
         /\ IsMean(MeanOfRun(y, a, b))
<1> DEFINE turns == ArgSort(p)
           chosen == {turns[k] : k \in a..b}
<1>1. p \in Seq(Int) /\ Len(p) = n /\ DOMAIN p = 1..n /\ b \in 1..n
  OBVIOUS
<1>2. turns \in [1..n -> 1..n] /\ \A k, l \in 1..n : turns[k] = turns[l] => k = l
  BY <1>1, ArgSortPermutes
<1>3. Stretch(p, turns[a], turns[b]) = chosen
  BY <1>1, StretchIsRun
<1>4. /\ n \in Nat /\ \A k \in 1..n : y[k] = outcomes[turns[k]]
      /\ \A k \in 1..n : outcomes[k] \in Nat
  OBVIOUS
<1> HIDE DEF turns
<1>5. /\ Cardinality(chosen) = b - a + 1
      /\ SumFunctionOnSet(outcomes, chosen) = SumFunctionOnSet(y, a..b)
  <2>1. Reordered(y, outcomes, turns, n)
    BY <1>2, <1>4 DEF Reordered
  <2>2. chosen = {turns[k] : k \in a..b}
    OBVIOUS
  <2> HIDE DEF chosen
  <2>3. QED
    BY <1>4, <2>1, <2>2, SumReordered
<1> HIDE DEF chosen
<1>6. Mean(outcomes, chosen) = <<SumFunctionOnSet(outcomes, chosen), Cardinality(chosen)>>
  BY DEF Mean, MapThenSumSet, SumFunctionOnSet, FoldFunctionOnSet
<1>7. MeanOfRun(y, a, b) = <<SumFunctionOnSet(y, a..b), b - a + 1>>
  BY DEF MeanOfRun, MapThenSumSet, SumFunctionOnSet, FoldFunctionOnSet
<1>8. SumFunctionOnSet(y, a..b) \in Nat
  <2>1. IsFiniteSet(a..b)
    BY FS_Interval
  <2>2. \A k \in 1..n : y[k] \in Nat
    BY <1>2, <1>4
  <2>3. \A k \in a..b : k \in 1..n
    OBVIOUS
  <2>4. QED
    BY <2>1, <2>2, <2>3, SumIsNatural
<1>9. b - a + 1 \in Nat \ {0}
  OBVIOUS
<1>10. IsMean(MeanOfRun(y, a, b))
  BY <1>7, <1>8, <1>9 DEF IsMean
<1>11. QED
  BY <1>3, <1>5, <1>6, <1>7, <1>10 DEF turns

\* A mean is not above another when it is no higher.
LEMMA NotAbove ==
  ASSUME NEW u, NEW v, IsMean(u), IsMean(v)
  PROVE  ~Above(u, v) <=> NoHigher(u, v)
<1> DEFINE f == u[1] * v[2]
           g == v[1] * u[2]
<1>1. f \in Int /\ g \in Int
  BY DEF IsMean
<1>2. /\ Above(u, v) <=> f > g
      /\ NoHigher(u, v) <=> f <= g
  BY DEF Above, NoHigher
<1> HIDE DEF f, g
<1>3. QED
  BY <1>1, <1>2

\* At a knot that is the last of its probability, the knot's mean is in force.
LEMMA TransformAtKnot ==
  ASSUME NEW n, NEW fit, Ascends(fit, n), NEW m \in 1..n, \A k \in 1..n : fit.x[k] <= fit.x[m] => k <= m,
         NEW q, q = fit.x[m]
  PROVE  /\ IsMean(Transform(fit, q)) /\ IsMean(fit.y[m])
         /\ NoHigher(fit.y[m], Transform(fit, q)) /\ NoHigher(Transform(fit, q), fit.y[m])
<1> DEFINE below == KnotsBelow(fit, n, q)
           value == Transform(fit, q)
<1>1. n \in Nat /\ q \in Int /\ q <= q /\ IsMean(fit.y[m])
  BY DEF Ascends
<1>2. IsMean(value) /\ NoHigher(fit.y[m], value)
  BY <1>1, TransformBounds
<1>3. below # {} /\ Max(below) = m
  <2>1. m \in below
    BY <1>1 DEF KnotsBelow
  <2> HIDE DEF below
  <2>2. Max(below) \in 1..n /\ fit.x[Max(below)] <= q /\ m <= Max(below)
    BY <1>1, <2>1, KnotsAbout DEF below
  <2>3. Max(below) <= m
    BY <2>2
  <2>4. m \in Int /\ Max(below) \in Int
    BY <2>2
  <2>5. QED
    BY <2>1, <2>2, <2>3, <2>4
<1>4. CASE m = n
  <2>1. value = fit.y[m]
    BY <1>1, <1>3, <1>4, TransformCases
  <2> HIDE DEF value
  <2>2. NoHigher(value, fit.y[m])
    BY <1>1, <2>1, NoHigherSelf
  <2>3. QED
    BY <1>1, <1>2, <2>2 DEF value
<1>5. CASE m # n
  <2> DEFINE a == fit.y[m]  b == fit.y[m + 1]
             run == fit.x[m + 1] - fit.x[m]
  <2>1. value = Mix(a, b, run, q - fit.x[m])
    BY <1>1, <1>3, <1>5, TransformCases DEF MixAt
  <2>2. q - fit.x[m] = 0
    BY <1>1
  <2>3. IsMean(a) /\ IsMean(b) /\ run \in Nat \ {0}
    BY <1>1, <1>5, BetweenKnots
  <2> HIDE DEF a, b, run, value
  <2> DEFINE s == a[1]  c == a[2]  t == b[1]  d == b[2]
  <2>4. s \in Int /\ c \in Int /\ t \in Int /\ d \in Int /\ run \in Int
    BY <2>3 DEF IsMean
  <2>5. value = <<s * d * (run - 0) + t * c * 0, c * d * run>>
    BY <2>1, <2>2 DEF Mix
  <2>6. NoHigher(value, a) <=> (s * d * (run - 0) + t * c * 0) * c <= s * (c * d * run)
    BY <2>5 DEF NoHigher
  <2> HIDE DEF s, c, t, d
  <2>7. (s * d * (run - 0) + t * c * 0) * c = s * (c * d * run)
    BY <2>4
  <2>8. s * (c * d * run) \in Int
    BY <2>4
  <2>9. NoHigher(value, a)
    BY <2>6, <2>7, <2>8
  <2>10. QED
    BY <1>1, <1>2, <2>9 DEF a, value
<1>6. QED
  BY <1>4, <1>5

(* Whatever was predicted and however it came out, the isotonic calibrator   *)
(* is the monotone least-squares fit of the outcomes, those of an equal      *)
(* probability taken in the order recorded and the last one's value in       *)
(* force, and it ranks no probability below a lower one                      *)
(* (pool_adjacent_violators, IsotonicCalibrator.fit and transform).          *)
THEOREM FitAlwaysFitsTheRecord ==
  ASSUME NEW n \in Nat \ {0}, NEW p \in [1..n -> Int], NEW outcomes \in [1..n -> Nat],
         NEW probabilities \in SUBSET Int
  PROVE  /\ FitsTheRecord(FitIsotonic(p, outcomes), p, outcomes)
         /\ KeepsOrder(FitIsotonic(p, outcomes), probabilities)
<1> DEFINE turns == ArgSort(p)
           y == [k \in 1..n |-> outcomes[turns[k]]]
           fit == FitIsotonic(p, outcomes)
<1>1. p \in Seq(Int) /\ Len(p) = n /\ DOMAIN p = 1..n
  OBVIOUS
<1>2. turns \in [1..n -> 1..n]
  BY <1>1, ArgSortPermutes
<1>3. \A k, l \in 1..n : k < l => p[turns[k]] <= p[turns[l]]
  BY <1>1, ArgSortAscends
<1>4. fit = [x |-> [k \in 1..n |-> p[turns[k]]], y |-> PoolAdjacentViolators(y)]
  BY <1>1 DEF FitIsotonic
<1> HIDE DEF turns, fit
<1>5. y \in Seq(Nat) /\ Len(y) = n
  <2>1. y \in [1..n -> Nat]
    BY <1>2
  <2> HIDE DEF y
  <2>2. QED
    BY <2>1
<1>6. \A i \in 1..n :
        /\ \A a \in 1..i : \E b \in i..n : ~Above(MeanOfRun(y, a, b), fit.y[i])
        /\ \E a \in 1..i : \A b \in i..n : ~Above(fit.y[i], MeanOfRun(y, a, b))
  <2> SUFFICES ASSUME NEW i \in 1..n
               PROVE  /\ \A a \in 1..i : \E b \in i..n : ~Above(MeanOfRun(y, a, b), fit.y[i])
                      /\ \E a \in 1..i : \A b \in i..n : ~Above(fit.y[i], MeanOfRun(y, a, b))
    OBVIOUS
  <2>1. i \in 1..Len(y) /\ fit.y[i] = PoolAdjacentViolators(y)[i]
    BY <1>4, <1>5
  <2> HIDE DEF y
  <2>2. QED
    BY <1>5, <2>1, PoolIsMonotoneFit
<1>7. Ascends(fit, n)
  <2>1. \A k \in 1..n : fit.x[k] = p[turns[k]]
    BY <1>4
  <2>2. \A k \in 1..n : fit.x[k] \in Int
    BY <1>2, <2>1
  <2>3. Len(fit.x) = n
    <3>1. fit.x = [k \in 1..n |-> p[turns[k]]]
      BY <1>4
    <3>2. fit.x \in [1..n -> Int]
      BY <1>2, <3>1
    <3>3. QED
      BY <3>2
  <2>4. fit.y = PoolAdjacentViolators(y)
    BY <1>4
  <2>5. \A k, l \in 1..n : k <= l =>
          IsMean(fit.y[k]) /\ NoHigher(fit.y[k], fit.y[l])
    <3> HIDE DEF y
    <3>1. QED
      BY <1>5, <2>4, PoolsAscend
  <2>6. \A k, l \in 1..n : k <= l => fit.x[k] <= fit.x[l]
    <3> SUFFICES ASSUME NEW k \in 1..n, NEW l \in 1..n, k <= l PROVE fit.x[k] <= fit.x[l]
      OBVIOUS
    <3>1. k < l \/ k = l
      OBVIOUS
    <3>2. k < l => fit.x[k] <= fit.x[l]
      BY <1>3, <2>1
    <3>3. k = l => fit.x[k] <= fit.x[l]
      BY <2>2
    <3>4. QED
      BY <3>1, <3>2, <3>3
  <2>7. \A k \in 1..n : IsMean(fit.y[k])
    BY <2>5
  <2>8. QED
    BY <2>2, <2>3, <2>5, <2>6, <2>7 DEF Ascends
<1>8. KeepsOrder(fit, probabilities)
  <2> SUFFICES ASSUME NEW q \in probabilities, NEW r \in probabilities, q < r
               PROVE  ~Above(Transform(fit, q), Transform(fit, r))
    BY DEF KeepsOrder
  <2> DEFINE u == Transform(fit, q)
             v == Transform(fit, r)
             f == u[1] * v[2]
             g == v[1] * u[2]
  <2>1. q \in Int /\ r \in Int
    OBVIOUS
  <2>2. NoHigher(u, v)
    BY <1>7, <2>1, TransformAscends
  <2>3. IsMean(u) /\ IsMean(v)
    BY <1>7, <2>1, TransformBounds
  <2> HIDE DEF u, v
  <2>4. f \in Int /\ g \in Int
    BY <2>3 DEF IsMean
  <2>5. f <= g /\ (Above(u, v) <=> f > g)
    BY <2>2 DEF NoHigher, Above
  <2> HIDE DEF f, g
  <2>6. ~Above(u, v)
    BY <2>4, <2>5
  <2>7. QED
    BY <2>6 DEF u, v
<1>9. \A k, l \in 1..n : NotBefore(p, turns[l], turns[k]) <=> k <= l
  BY <1>1, StretchIsRun DEF turns
<1>10. \A i \in 1..n : \E m \in 1..n : turns[m] = i
  BY <1>1, EveryPlaceVisited DEF turns
<1>11. \A a \in 1..n, b \in 1..n : a <= b =>
         /\ Mean(outcomes, Stretch(p, turns[a], turns[b])) = MeanOfRun(y, a, b)
         /\ IsMean(MeanOfRun(y, a, b))
  <2>1. \A k \in 1..n : y[k] = outcomes[ArgSort(p)[k]]
    BY DEF turns
  <2> HIDE DEF y
  <2> SUFFICES ASSUME NEW a \in 1..n, NEW b \in 1..n, a <= b
               PROVE  /\ Mean(outcomes, Stretch(p, turns[a], turns[b])) = MeanOfRun(y, a, b)
                      /\ IsMean(MeanOfRun(y, a, b))
    OBVIOUS
  <2>2. b \in a..n
    OBVIOUS
  <2>3. QED
    <3>1. /\ Mean(outcomes, Stretch(p, ArgSort(p)[a], ArgSort(p)[b])) = MeanOfRun(y, a, b)
          /\ IsMean(MeanOfRun(y, a, b))
      BY <2>1, <2>2, MeanOfStretch
    <3>2. QED
      BY <3>1 DEF turns
<1> HIDE DEF y
<1>12. ASSUME NEW i \in 1..n, \A j \in 1..n : p[j] = p[i] => j <= i
       PROVE  LET value == Transform(fit, p[i])
                  From == {a \in 1..n : NotBefore(p, i, a)}
                  To == {b \in 1..n : NotBefore(p, b, i)}
              IN  /\ \A a \in From : \E b \in To : ~Above(Mean(outcomes, Stretch(p, a, b)), value)
                  /\ \E a \in From : \A b \in To : ~Above(value, Mean(outcomes, Stretch(p, a, b)))
  <2> DEFINE value == Transform(fit, p[i])
             From == {a \in 1..n : NotBefore(p, i, a)}
             To == {b \in 1..n : NotBefore(p, b, i)}
  <2>1. PICK m \in 1..n : turns[m] = i
    BY <1>10
  <2>2. \A k \in 1..n : fit.x[k] = p[turns[k]]
    BY <1>4
  <2>3. \A k \in 1..n : fit.x[k] <= fit.x[m] => k <= m
    <3> SUFFICES ASSUME NEW k \in 1..n, fit.x[k] <= fit.x[m] PROVE k <= m
      OBVIOUS
    <3>1. p[turns[k]] <= p[i] /\ turns[k] \in 1..n /\ p[turns[k]] \in Int /\ p[i] \in Int
      BY <1>2, <2>1, <2>2
    <3>2. NotBefore(p, turns[m], turns[k])
      BY <1>12, <2>1, <3>1 DEF NotBefore
    <3>3. QED
      BY <1>9, <3>2
  <2>4. p[i] = fit.x[m]
    BY <2>1, <2>2
  <2>5. /\ IsMean(value) /\ IsMean(fit.y[m])
        /\ NoHigher(fit.y[m], value) /\ NoHigher(value, fit.y[m])
    BY <1>7, <2>3, <2>4, TransformAtKnot
  <2>6. \A k \in 1..n : turns[k] \in 1..n /\ (turns[k] \in From <=> k <= m) /\ (turns[k] \in To <=> m <= k)
    BY <1>2, <1>9, <2>1
  <2> HIDE DEF value
  <2>7. ASSUME NEW a \in From
        PROVE  \E b \in To : ~Above(Mean(outcomes, Stretch(p, a, b)), value)
    <3>1. PICK k \in 1..n : turns[k] = a
      BY <1>10
    <3>2. k <= m /\ k \in 1..m /\ m \in Int
      BY <2>6, <3>1
    <3>3. PICK l \in m..n : ~Above(MeanOfRun(y, k, l), fit.y[m])
      BY <1>6, <3>2
    <3>4. l \in 1..n /\ m <= l /\ k <= l
      BY <3>2
    <3> DEFINE u == MeanOfRun(y, k, l)
    <3>5. IsMean(u) /\ Mean(outcomes, Stretch(p, a, turns[l])) = u
      BY <1>11, <3>1, <3>4
    <3>6. ~Above(u, fit.y[m])
      BY <3>3
    <3> HIDE DEF u
    <3>7. NoHigher(u, fit.y[m])
      BY <2>5, <3>5, <3>6, NotAbove
    <3>8. NoHigher(u, value)
      BY <2>5, <3>5, <3>7, NoHigherTransitive
    <3>9. ~Above(u, value)
      BY <2>5, <3>5, <3>8, NotAbove
    <3>10. turns[l] \in To
      BY <2>6, <3>4
    <3>11. QED
      BY <3>5, <3>9, <3>10
  <2>8. \E a \in From : \A b \in To : ~Above(value, Mean(outcomes, Stretch(p, a, b)))
    <3>1. PICK k \in 1..m : \A l \in m..n : ~Above(fit.y[m], MeanOfRun(y, k, l))
      BY <1>6
    <3>2. k \in 1..n /\ k <= m /\ m \in Int
      OBVIOUS
    <3>3. turns[k] \in From
      BY <2>6, <3>2
    <3>4. ASSUME NEW b \in To
          PROVE  ~Above(value, Mean(outcomes, Stretch(p, turns[k], b)))
      <4>1. PICK l \in 1..n : turns[l] = b
        BY <1>10
      <4>2. m <= l
        BY <2>6, <4>1
      <4>3. l \in m..n /\ k <= l
        BY <3>2, <4>2
      <4> DEFINE u == MeanOfRun(y, k, l)
      <4>4. IsMean(u) /\ Mean(outcomes, Stretch(p, turns[k], b)) = u
        BY <1>11, <3>2, <4>1, <4>3
      <4>5. ~Above(fit.y[m], u)
        BY <3>1, <4>3
      <4> HIDE DEF u
      <4>6. NoHigher(fit.y[m], u)
        BY <2>5, <4>4, <4>5, NotAbove
      <4>7. NoHigher(value, u)
        BY <2>5, <4>4, <4>6, NoHigherTransitive
      <4>8. ~Above(value, u)
        BY <2>5, <4>4, <4>7, NotAbove
      <4>9. QED
        BY <4>4, <4>8
    <3>5. QED
      BY <3>3, <3>4
  <2>9. QED
    BY <2>7, <2>8 DEF value
<1>13. FitsTheRecord(fit, p, outcomes)
  BY <1>1, <1>12 DEF FitsTheRecord
<1>14. QED
  BY <1>8, <1>13 DEF fit

(* CalibrationFitsTheRecord, in every run of the jobs: what was just proved, *)
(* of the outcomes and probabilities that it names (evaluate_model 122-128). *)
THEOREM CalibrationAlwaysFitsTheRecord == Spec => []CalibrationFitsTheRecord
<1>1. CalibrationFitsTheRecord
  <2> SUFFICES ASSUME NEW n \in 1..4, NEW p \in [1..n -> {0, 40, 100}], NEW outcomes \in [1..n -> {0, 1}]
               PROVE  LET fit == FitIsotonic(p, outcomes)
                      IN  FitsTheRecord(fit, p, outcomes) /\ KeepsOrder(fit, {0, 10, 40, 70, 100})
    BY DEF CalibrationFitsTheRecord
  <2>1. n \in Nat \ {0} /\ p \in [1..n -> Int] /\ outcomes \in [1..n -> Nat]
    OBVIOUS
  <2>2. {0, 10, 40, 70, 100} \in SUBSET Int
    OBVIOUS
  <2>3. QED
    BY <2>1, <2>2, FitAlwaysFitsTheRecord
<1>2. QED
  BY <1>1, PTL
=============================================================================
