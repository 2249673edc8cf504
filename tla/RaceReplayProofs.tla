-------------------------- MODULE RaceReplayProofs --------------------------
(***************************************************************************)
(* Theorems about RaceReplay for every set of drivers, tyres and events,   *)
(* every log and every number of recent events kept; and, on top of them,  *)
(* about RacePricing for every set of loaded races and every lap.          *)
(***************************************************************************)
EXTENDS RacePricing, SortAndSumProofs, SequenceTheorems

-----------------------------------------------------------------------------
(* The order of a replay, for every log of events. *)

\* The parts of the key are numbers, whatever the log.
LEMMA KeyFields ==
  ASSUME NEW entries \in Seq(Event), NEW x \in DOMAIN entries
  PROVE  /\ entries[x].event_time \in Nat
         /\ entries[x].first_seen_at \in Nat
         /\ entries[x].event_id \in Nat
<1>1. entries[x] \in Event
  OBVIOUS
<1>2. \A e \in Event : e.event_time \in Nat /\ e.first_seen_at \in Nat /\ e.event_id \in Nat
  BY DEF Event
<1>3. QED
  BY <1>1, <1>2

Sooner(entries) ==
  {p \in (DOMAIN entries) \X (DOMAIN entries) : Before(entries, p[1], p[2])}

\* The entries of a log are ranked by a strict total order, one to a place.
LEMMA EntriesAreRanked ==
  ASSUME NEW entries \in Seq(Event)
  PROVE  /\ [j \in DOMAIN entries |-> Rank(entries, j)] \in Bijection(DOMAIN entries, 1..Len(entries))
         /\ \A i, j \in DOMAIN entries : Before(entries, i, j) <=> Rank(entries, i) < Rank(entries, j)
         /\ \A j \in DOMAIN entries :
              LET earlier == {i \in DOMAIN entries : Before(entries, i, j)}
              IN  IsFiniteSet(earlier) /\ j \notin earlier /\ Cardinality(earlier) \in Nat
<1> DEFINE D == DOMAIN entries
           rank == [j \in D |-> Rank(entries, j)]
<1>1. D = 1..Len(entries) /\ Len(entries) \in Nat /\ \A i \in D : i \in Int
  OBVIOUS
<1>2. IsFiniteSet(D) /\ Cardinality(D) = Len(entries)
  BY <1>1, FS_Interval
<1>3. \A i, j \in D : <<i, j>> \in Sooner(entries) <=> Before(entries, i, j)
  BY DEF Sooner
<1>4. StrictTotalOrder(Sooner(entries), D)
  <2>1. \A x \in D : /\ entries[x].event_time \in Nat /\ entries[x].first_seen_at \in Nat
                     /\ entries[x].event_id \in Nat
    BY KeyFields
  <2>2. \A i, j, k \in D :
          /\ ~Before(entries, i, i)
          /\ Before(entries, i, j) /\ Before(entries, j, k) => Before(entries, i, k)
          /\ i # j => Before(entries, i, j) \/ Before(entries, j, i)
    <3> SUFFICES ASSUME NEW i \in D, NEW j \in D, NEW k \in D
        PROVE  /\ ~Before(entries, i, i)
               /\ Before(entries, i, j) /\ Before(entries, j, k) => Before(entries, i, k)
               /\ i # j => Before(entries, i, j) \/ Before(entries, j, i)
      OBVIOUS
    <3> HIDE DEF D
    <3>1. i \in Nat /\ j \in Nat /\ k \in Nat
      BY <1>1
    <3>2. ~Before(entries, i, i)
      BY <2>1, <3>1 DEF Before, KeyLess
    <3>3. Before(entries, i, j) /\ Before(entries, j, k) => Before(entries, i, k)
      <4> DEFINE less(x, y) == KeyLess(entries[x], entries[y])
      <4>1. less(i, j) /\ less(j, k) => less(i, k)
        BY <2>1 DEF KeyLess
      <4>2. less(k, i) => less(k, j) \/ less(j, i)
        BY <2>1 DEF KeyLess
      <4>3. less(i, j) => less(i, k) \/ less(k, j)
        BY <2>1 DEF KeyLess
      <4>4. less(j, k) => less(j, i) \/ less(i, k)
        BY <2>1 DEF KeyLess
      <4>5. \A x, y : Before(entries, x, y) <=> less(x, y) \/ (~less(y, x) /\ x < y)
        BY DEF Before
      <4> HIDE DEF less
      <4>6. QED
        BY <3>1, <4>1, <4>2, <4>3, <4>4, <4>5
    <3>4. i # j => Before(entries, i, j) \/ Before(entries, j, i)
      BY <2>1, <3>1 DEF Before, KeyLess
    <3>5. QED
      BY <3>2, <3>3, <3>4
  <2> HIDE DEF D
  <2>3. QED
    BY <1>3, <2>2 DEF StrictTotalOrder
<1>5. \A j \in D : Preceding(Sooner(entries), D, j) = {i \in D : Before(entries, i, j)}
  BY <1>3 DEF Preceding
<1>6. rank = [j \in D |-> Cardinality(Preceding(Sooner(entries), D, j)) + 1]
  BY <1>5 DEF Rank
<1> HIDE DEF D, rank
<1>7. /\ rank \in Bijection(D, 1..Len(entries))
      /\ \A i, j \in D : <<i, j>> \in Sooner(entries) <=> rank[i] < rank[j]
      /\ \A j \in D : LET earlier == Preceding(Sooner(entries), D, j)
                      IN  IsFiniteSet(earlier) /\ j \notin earlier /\ Cardinality(earlier) \in Nat
  BY <1>2, <1>4, <1>6, Ranking
<1>8. QED
  BY <1>3, <1>5, <1>7 DEF D, rank

\* The entry of the log that place k of the replay holds.
Entry(entries, k) == CHOOSE j \in DOMAIN entries : Rank(entries, j) = k

LEMMA EntryRank ==
  ASSUME NEW entries \in Seq(Event), NEW k \in 1..Len(entries)
  PROVE  /\ Entry(entries, k) \in DOMAIN entries
         /\ Rank(entries, Entry(entries, k)) = k
         /\ ReplayOrder(entries)[k] = entries[Entry(entries, k)]
<1>1. \E j \in DOMAIN entries : Rank(entries, j) = k
  BY EntriesAreRanked DEF Bijection, Surjection
<1>2. QED
  BY <1>1 DEF Entry, ReplayOrder

(* Sorting keeps the length and the events (sorted() of events 32-38).       *)
THEOREM ReplayOrderIsLog ==
  ASSUME NEW S \in SUBSET Event, NEW entries \in Seq(S)
  PROVE  /\ ReplayOrder(entries) \in Seq(S)
         /\ Len(ReplayOrder(entries)) = Len(entries)
         /\ \A j \in DOMAIN entries : \E k \in 1..Len(entries) : ReplayOrder(entries)[k] = entries[j]
<1>1. entries \in Seq(Event)
  OBVIOUS
<1>2. \A k \in 1..Len(entries) : ReplayOrder(entries)[k] \in S
  BY <1>1, EntryRank
<1>3. ReplayOrder(entries) \in Seq(S) /\ Len(ReplayOrder(entries)) = Len(entries)
  BY <1>2 DEF ReplayOrder
<1>4. ASSUME NEW j \in DOMAIN entries
      PROVE  \E k \in 1..Len(entries) : ReplayOrder(entries)[k] = entries[j]
  <2> DEFINE rank == [i \in DOMAIN entries |-> Rank(entries, i)]
             k == rank[j]
  <2>1. /\ rank \in [DOMAIN entries -> 1..Len(entries)]
        /\ \A a, b \in DOMAIN entries : rank[a] = rank[b] => a = b
    BY <1>1, EntriesAreRanked DEF Bijection, Injection, IsInjective
  <2>2. k \in 1..Len(entries)
    BY <2>1
  <2>3. /\ Entry(entries, k) \in DOMAIN entries /\ rank[Entry(entries, k)] = rank[j]
        /\ ReplayOrder(entries)[k] = entries[Entry(entries, k)]
    BY <1>1, <2>2, EntryRank
  <2>4. QED
    BY <2>1, <2>2, <2>3
<1>5. QED
  BY <1>3, <1>4

(* No event of the replay has a smaller key than one replayed before it      *)
(* (sort_key 86-91).                                                         *)
THEOREM ReplayOrderIsSorted ==
  ASSUME NEW entries \in Seq(Event), NEW k \in 1..Len(entries), NEW l \in 1..Len(entries), k < l
  PROVE  ~KeyLess(ReplayOrder(entries)[l], ReplayOrder(entries)[k])
<1> DEFINE a == Entry(entries, k)
           b == Entry(entries, l)
<1>1. /\ a \in DOMAIN entries /\ Rank(entries, a) = k /\ ReplayOrder(entries)[k] = entries[a]
      /\ b \in DOMAIN entries /\ Rank(entries, b) = l /\ ReplayOrder(entries)[l] = entries[b]
  BY EntryRank
<1>2. ~Before(entries, b, a)
  <2>1. ~(l < k)
    OBVIOUS
  <2>2. Before(entries, b, a) <=> Rank(entries, b) < Rank(entries, a)
    BY <1>1, EntriesAreRanked
  <2>3. QED
    BY <1>1, <2>1, <2>2
<1>3. QED
  BY <1>1, <1>2 DEF Before

(* Place k is determined by counting: fewer than k events of the log come    *)
(* before its event by key, at least k do not come after it, so the order in *)
(* which they were appended tells apart only equal keys (replay).            *)
THEOREM ReplayOrderIsCanonical ==
  ASSUME NEW entries \in Seq(Event), NEW k \in 1..Len(entries)
  PROVE  LET e == ReplayOrder(entries)[k] IN
         /\ Cardinality({j \in DOMAIN entries : KeyLess(entries[j], e)}) < k
         /\ k <= Cardinality({j \in DOMAIN entries : ~KeyLess(e, entries[j])})
<1> DEFINE a == Entry(entries, k)
           Earlier == {i \in DOMAIN entries : Before(entries, i, a)}
           Less == {j \in DOMAIN entries : KeyLess(entries[j], entries[a])}
           NotMore == {j \in DOMAIN entries : ~KeyLess(entries[a], entries[j])}
<1>1. a \in DOMAIN entries /\ Rank(entries, a) = k /\ ReplayOrder(entries)[k] = entries[a]
  BY EntryRank
<1>2. /\ IsFiniteSet(Earlier) /\ a \notin Earlier /\ Cardinality(Earlier) \in Nat
      /\ k = Cardinality(Earlier) + 1
  BY <1>1, EntriesAreRanked DEF Rank
<1>3. IsFiniteSet(DOMAIN entries)
  BY FS_Interval
<1>4. \A x \in DOMAIN entries : /\ entries[x].event_time \in Nat
                            /\ entries[x].first_seen_at \in Nat
                            /\ entries[x].event_id \in Nat
  BY KeyFields
<1>5. Less \subseteq Earlier
  BY DEF Before
<1>6. Earlier \cup {a} \subseteq NotMore
  BY <1>1, <1>4 DEF Before, KeyLess
<1>7. Cardinality(Less) <= Cardinality(Earlier) /\ Cardinality(Less) \in Nat
  BY <1>2, <1>5, FS_Subset, FS_CardinalityType
<1>8. Cardinality(Earlier \cup {a}) = k
  BY <1>2, FS_AddElement
<1>9. IsFiniteSet(NotMore)
  BY <1>3, FS_Subset
<1>10. k <= Cardinality(NotMore)
  BY <1>6, <1>8, <1>9, FS_Subset
<1>11. QED
  <2>1. Cardinality(Less) < k
    <3> HIDE DEF Less, Earlier
    <3>1. QED
      BY <1>2, <1>7
  <2>2. QED
    BY <1>1, <1>10, <2>1

-----------------------------------------------------------------------------
(* Typing of the reducer's helpers. *)

LEMMA NewDriverType == NewDriver \in DriverState
  BY DEF NewDriver, DriverState, Optional

LEMMA CarType ==
  ASSUME TypeOK, NEW d \in Driver
  PROVE  Car(d) \in DriverState
  BY NewDriverType DEF TypeOK, Car

LEMMA WithDriverType ==
  ASSUME TypeOK, NEW d \in Driver, NEW car \in DriverState
  PROVE  /\ DOMAIN WithDriver(d, car) = DOMAIN drivers \cup {d}
         /\ DOMAIN WithDriver(d, car) \subseteq Driver
         /\ WithDriver(d, car) \in [DOMAIN WithDriver(d, car) -> DriverState]
         /\ WithDriver(d, car)[d] = car
         /\ \A x \in DOMAIN drivers : x # d => WithDriver(d, car)[x] = drivers[x]
  BY DEF TypeOK, WithDriver

\* A car keeps its type when one of its fields is set to a value of the field.
LEMMA CarUpdates ==
  ASSUME NEW c \in DriverState, NEW p \in Optional(Nat), NEW l \in Nat,
         NEW t \in Optional(Tyre), NEW a \in Optional(Nat)
  PROVE  /\ [c EXCEPT !.lap_number = l, !.position = p,
                      !.tyre_compound = t, !.tyre_age = a] \in DriverState
         /\ [c EXCEPT !.position = p] \in DriverState
         /\ [c EXCEPT !.pit_stop_count = c.pit_stop_count + 1,
                      !.stint_number = c.stint_number + 1,
                      !.tyre_compound = t, !.tyre_age = 0] \in DriverState
         /\ [c EXCEPT !.tyre_compound = t, !.tyre_age = 0] \in DriverState
         /\ [c EXCEPT !.retired = TRUE, !.running = FALSE] \in DriverState
<1>1. /\ c.lap_number \in Nat /\ c.position \in Optional(Nat)
      /\ c.tyre_compound \in Optional(Tyre) /\ c.tyre_age \in Optional(Nat)
      /\ c.pit_stop_count + 1 \in Nat /\ c.stint_number + 1 \in Nat
      /\ 0 \in Optional(Nat)
  BY DEF DriverState, Optional
<1>2. [c EXCEPT !.lap_number = l, !.position = p,
                !.tyre_compound = t, !.tyre_age = a] \in DriverState
  BY DEF DriverState
<1>3. [c EXCEPT !.position = p] \in DriverState
  BY DEF DriverState
<1>4. [c EXCEPT !.pit_stop_count = c.pit_stop_count + 1,
                !.stint_number = c.stint_number + 1,
                !.tyre_compound = t, !.tyre_age = 0] \in DriverState
  BY <1>1 DEF DriverState
<1>5. [c EXCEPT !.tyre_compound = t, !.tyre_age = 0] \in DriverState
  BY <1>1 DEF DriverState
<1>6. [c EXCEPT !.retired = TRUE, !.running = FALSE] \in DriverState
  BY DEF DriverState
<1>7. QED
  BY <1>2, <1>3, <1>4, <1>5, <1>6

LEMMA EventFields ==
  ASSUME NEW e \in Source
  PROVE  /\ e \in Event
         /\ e.event_id \in Nat /\ e.event_time \in Nat /\ e.first_seen_at \in Nat
         /\ e.event_type \in EventType
         /\ e.driver_id \in Optional(Driver)
         /\ e.driver_id # None => e.driver_id \in Driver
         /\ e.lap \in Optional(Nat)
         /\ e.lap # None => e.lap \in Nat
         /\ e.position \in Optional(Nat)
         /\ e.tyre \in Optional(Tyre) /\ e.tyre_age \in Optional(Nat)
         /\ e.weather \in Optional(Weather) /\ e.meeting_id \in Optional(Meeting)
<1>1. e \in Event
  BY ReplayAssumption
<1>2. QED
  BY <1>1 DEF Event, Optional

\* _record keeps at most RecentKept labels, the newest last, and shifts the
\* others by one when it is full.
LEMMA RecordType ==
  ASSUME NEW L, NEW labels \in Seq(L), Len(labels) <= RecentKept,
         NEW e, Label(e) \in L
  PROVE  /\ Record(labels, e) \in Seq(L)
         /\ Len(Record(labels, e)) =
              IF Len(labels) = RecentKept THEN RecentKept ELSE Len(labels) + 1
         /\ Record(labels, e)[Len(Record(labels, e))] = Label(e)
         /\ \A k \in 1..Len(Record(labels, e)) - 1 :
              Record(labels, e)[k] =
                labels[k + Len(labels) + 1 - Len(Record(labels, e))]
<1> DEFINE n == Len(labels)
           first == IF n >= RecentKept THEN n - RecentKept + 2 ELSE 1
           kept == SubSeq(labels, first, n)
<1>1. n \in Nat /\ RecentKept \in Nat /\ RecentKept >= 2
  BY ReplayAssumption
<1>2. first \in Nat /\ first >= 1 /\ first <= n + 1
  BY <1>1
<1>3. /\ kept \in Seq(L)
      /\ Len(kept) = n - first + 1
      /\ \A k \in 1..(n - first + 1) : kept[k] = labels[first + k - 1]
  <2> HIDE DEF first, n
  <2>1. \A i \in first..n : labels[i] \in L
    BY <1>1, <1>2 DEF n
  <2>2. /\ kept \in Seq(L)
        /\ Len(kept) = IF first <= n THEN n - first + 1 ELSE 0
        /\ \A k \in 1..(n - first + 1) : kept[k] = labels[first + k - 1]
    BY <1>1, <1>2, <2>1, SubSeqProperties
  <2>3. QED
    BY <1>1, <1>2, <2>2
<1>4. Record(labels, e) = Append(kept, Label(e))
  BY DEF Record
<1> HIDE DEF kept, first
<1>5. /\ Append(kept, Label(e)) \in Seq(L)
      /\ Len(Append(kept, Label(e))) = Len(kept) + 1
      /\ Append(kept, Label(e))[Len(kept) + 1] = Label(e)
      /\ \A k \in 1..Len(kept) : Append(kept, Label(e))[k] = kept[k]
  BY <1>3
<1>6. n <= RecentKept
  OBVIOUS
<1>7. Len(kept) = IF n = RecentKept THEN RecentKept - 1 ELSE n
  <2>1. first = IF n >= RecentKept THEN n - RecentKept + 2 ELSE 1
    BY DEF first
  <2>2. Len(kept) = n - first + 1
    BY <1>3
  <2> HIDE DEF n
  <2>3. QED
    BY <1>1, <1>6, <2>1, <2>2
<1> HIDE DEF n
<1>8. Len(kept) + 1 = IF n = RecentKept THEN RecentKept ELSE n + 1
  BY <1>1, <1>3, <1>7
<1>9. ASSUME NEW k \in 1..Len(kept)
      PROVE  Append(kept, Label(e))[k] = labels[k + n + 1 - (Len(kept) + 1)]
  <2>1. k + n + 1 - (Len(kept) + 1) = first + k - 1
    BY <1>1, <1>2, <1>3
  <2>2. QED
    BY <1>1, <1>2, <1>3, <1>5, <2>1
<1>10. Len(kept) + 1 - 1 = Len(kept)
  BY <1>1, <1>2, <1>3
<1>11. QED
  BY <1>4, <1>5, <1>8, <1>9, <1>10 DEF n

-----------------------------------------------------------------------------
(* Type correctness. *)

\* What folding an event does whichever branch applies.
LEMMA FoldFrame ==
  ASSUME TypeOK, NEW e \in Source, Fold(e)
  PROVE  /\ events_applied + 1 \in 1..Len(ordered)
         /\ events_applied \in Nat
         /\ ordered[events_applied + 1] = e
         /\ ordered' = ordered /\ log' = log /\ phase' = phase
         /\ events_applied' = events_applied + 1
         /\ events_applied' \in 0..Len(ordered')
         /\ timestamp' \in Optional(Nat)
         /\ recent_events' = Record(recent_events, e)
         /\ recent_events' \in Seq(EventType \X Optional(Driver))
         /\ Len(recent_events') <= RecentKept
         /\ meeting_id' = meeting_id /\ data_snapshot_id' = data_snapshot_id
<1> DEFINE Labels == EventType \X Optional(Driver)
<1>1. Label(e) \in Labels
  BY EventFields DEF Label
<1>2. recent_events \in Seq(Labels) /\ Len(recent_events) <= RecentKept
  BY DEF TypeOK
<1>3. recent_events' = Record(recent_events, e)
  BY DEF Fold
<1> HIDE DEF Labels
<1>4. /\ Record(recent_events, e) \in Seq(Labels)
      /\ Len(Record(recent_events, e)) <= RecentKept
  <2>1. Len(recent_events) \in Nat /\ RecentKept \in Nat
    BY <1>2, ReplayAssumption
  <2>2. QED
    BY <1>1, <1>2, <2>1, RecordType
<1>5. timestamp' \in Optional(Nat)
  BY EventFields DEF Fold, Optional
<1>6. QED
  BY <1>3, <1>4, <1>5 DEF Fold, TypeOK, Labels

\* Each branch of apply_event keeps the fields it writes well typed.
LEMMA ApplyType ==
  ASSUME TypeOK, NEW e \in Source, ApplyEvent(e)
  PROVE  TypeOK'
<1>1. Fold(e)
  BY DEF ApplyEvent, LapCompleted, PositionChanged, PitStopCompleted,
         TyreCompoundChanged, DriverOut, SafetyCarDeployed, YellowFlagStarted,
         RedFlagStarted, WeatherUpdated, NoBranch
<1> DEFINE did == e.driver_id
           CarsTyped(ds) == /\ DOMAIN ds \subseteq Driver
                            /\ ds \in [DOMAIN ds -> DriverState]
           RaceTyped == /\ current_lap' \in Nat
                        /\ track_status' \in {"clear", "yellow", "safety_car", "red"}
                        /\ session_status' \in {None, "suspended"}
                        /\ weather' \in Optional(Weather)
<1>2. SUFFICES CarsTyped(drivers') /\ RaceTyped
  BY <1>1, FoldFrame DEF TypeOK
<1>3. /\ CarsTyped(drivers)
      /\ current_lap \in Nat
      /\ track_status \in {"clear", "yellow", "safety_car", "red"}
      /\ session_status \in {None, "suspended"}
      /\ weather \in Optional(Weather)
  BY DEF TypeOK
<1>4. did # None => did \in Driver /\ Car(did) \in DriverState
  BY EventFields, CarType
<1>5. ASSUME NEW car \in DriverState, did # None, drivers' = WithDriver(did, car)
      PROVE  CarsTyped(drivers')
  BY <1>4, <1>5, WithDriverType
<1> HIDE DEF CarsTyped
<1>6. CASE LapCompleted(e)
  <2>1. ReportedLap(e) \in Nat
    <3>1. Car(did).lap_number \in Nat
      BY <1>4, <1>6 DEF LapCompleted, DriverState
    <3>2. e.lap # None => e.lap \in Nat
      BY EventFields
    <3>3. QED
      BY <3>1, <3>2 DEF ReportedLap
  <2>2. CarsTyped(drivers')
    <3>1. [Car(did) EXCEPT !.lap_number = ReportedLap(e), !.position = e.position,
                           !.tyre_compound = e.tyre, !.tyre_age = e.tyre_age]
            \in DriverState
      BY <1>4, <1>6, <2>1, EventFields, CarUpdates DEF LapCompleted
    <3>2. QED
      BY <1>5, <1>6, <3>1 DEF LapCompleted
  <2>3. QED
    BY <1>3, <1>6, <2>1, <2>2 DEF LapCompleted
<1>7. CASE PositionChanged(e)
  <2>1. [Car(did) EXCEPT !.position = e.position] \in DriverState
    BY <1>4, <1>7, EventFields DEF PositionChanged, DriverState
  <2>2. QED
    BY <1>3, <1>5, <1>7, <2>1 DEF PositionChanged
<1>8. CASE PitStopCompleted(e)
  <2> DEFINE t == IF e.tyre = None THEN Car(did).tyre_compound ELSE e.tyre
             car == [Car(did) EXCEPT !.pit_stop_count = Car(did).pit_stop_count + 1,
                                     !.stint_number = Car(did).stint_number + 1,
                                     !.tyre_compound = t, !.tyre_age = 0]
  <2>1. did # None /\ drivers' = WithDriver(did, car)
    BY <1>8 DEF PitStopCompleted
  <2>2. t \in Optional(Tyre)
    BY <1>4, <2>1, EventFields DEF DriverState
  <2>3. car \in DriverState
    <3> HIDE DEF t
    <3>1. 0 \in Nat /\ 0 \in Optional(Nat)
      BY DEF Optional
    <3>2. QED
      BY <1>4, <2>1, <2>2, <3>1, CarUpdates
  <2>4. QED
    BY <1>3, <1>5, <1>8, <2>1, <2>3 DEF PitStopCompleted
<1>9. CASE TyreCompoundChanged(e)
  <2>1. [Car(did) EXCEPT !.tyre_compound = e.tyre, !.tyre_age = 0] \in DriverState
    BY <1>4, <1>9, EventFields DEF TyreCompoundChanged, DriverState, Optional
  <2>2. QED
    BY <1>3, <1>5, <1>9, <2>1 DEF TyreCompoundChanged
<1>10. CASE DriverOut(e)
  <2>1. [Car(did) EXCEPT !.retired = TRUE, !.running = FALSE] \in DriverState
    BY <1>4, <1>10 DEF DriverOut, DriverState
  <2>2. QED
    BY <1>3, <1>5, <1>10, <2>1 DEF DriverOut
<1>11. CASE SafetyCarDeployed(e)
  BY <1>3, <1>11 DEF SafetyCarDeployed
<1>12. CASE YellowFlagStarted(e)
  BY <1>3, <1>12 DEF YellowFlagStarted
<1>13. CASE RedFlagStarted(e)
  BY <1>3, <1>13 DEF RedFlagStarted
<1>14. CASE WeatherUpdated(e)
  BY <1>3, <1>14, EventFields DEF WeatherUpdated
<1>15. CASE NoBranch(e)
  BY <1>3, <1>15 DEF NoBranch
<1>16. QED
  BY <1>6, <1>7, <1>8, <1>9, <1>10, <1>11, <1>12, <1>13, <1>14, <1>15 DEF ApplyEvent

\* A step of the replay machine keeps the types.
LEMMA TypeStep ==
  ASSUME TypeOK, [Next]_vars
  PROVE  TypeOK'
<1>1. ASSUME NEW e \in Source, AppendEvent(e)
      PROVE  TypeOK'
  BY <1>1 DEF AppendEvent, TypeOK, raceVars
<1>2. ASSUME NEW m \in Optional(Meeting), BeginReplay(m)
      PROVE  TypeOK'
  <2>1. log \in Seq(Source)
    BY DEF TypeOK
  <2>2. ordered' \in Seq(Source) /\ Len(ordered') = Len(log)
    BY <1>2, <2>1, ReplayOrderIsLog, ReplayAssumption DEF BeginReplay
  <2>3. 0 \in 0..Len(ordered')
    BY <2>2
  <2>4. meeting_id' \in Optional(Meeting) \cup {"unknown"}
    <3>1. m = None => 1 \in DOMAIN ordered'
      BY <1>2, <2>1, <2>2 DEF BeginReplay
    <3>2. m = None => ordered'[1] \in Source
      BY <2>2, <3>1
    <3>3. QED
      BY <1>2, <3>2, EventFields DEF BeginReplay, Optional
  <2>5. QED
    BY <1>2, <2>1, <2>2, <2>3, <2>4, ReplayAssumption
       DEF BeginReplay, ResetRace, TypeOK, Optional
<1>3. ASSUME NEW e \in Source, ApplyEvent(e)
      PROVE  TypeOK'
  BY <1>3, ApplyType
<1>4. CASE FinishReplay
  <2>1. \A k \in 1..Len(ordered) : ordered[k].event_id \in Nat
    <3>1. \A k \in 1..Len(ordered) : ordered[k] \in Source
      BY DEF TypeOK
    <3>2. QED
      BY <3>1, EventFields
  <2>2. data_snapshot_id' \in Seq(Nat)
    <3>1. Len(ordered) \in Nat
      BY DEF TypeOK
    <3>2. QED
      BY <1>4, <2>1, <3>1 DEF FinishReplay
  <2>3. QED
    BY <1>4, <2>2 DEF FinishReplay, TypeOK, raceVars
<1>5. CASE UNCHANGED vars
  BY <1>5 DEF vars, raceVars, TypeOK
<1>6. QED
  BY <1>1, <1>2, <1>3, <1>4, <1>5 DEF Next

\* Type correctness of the replay: every reachable state satisfies TypeOK.
THEOREM TypeCorrect == Spec => []TypeOK
<1>1. Init => TypeOK
  BY ReplayAssumption DEF Init, EmptyRace, TypeOK, Optional
<1>2. TypeOK /\ [Next]_vars => TypeOK'
  BY TypeStep
<1>3. QED
  BY <1>1, <1>2, PTL DEF Spec

-----------------------------------------------------------------------------
(* The replay order. *)

\* While the log is unchanged since the replay began, the replay reads its sort.
ReplaysLog == phase # "idle" => ordered = ReplayOrder(log)

LEMMA ApplyIsFold ==
  ASSUME NEW e \in Source, ApplyEvent(e)
  PROVE  Fold(e)
  BY DEF ApplyEvent, LapCompleted, PositionChanged, PitStopCompleted,
         TyreCompoundChanged, DriverOut, SafetyCarDeployed, YellowFlagStarted,
         RedFlagStarted, WeatherUpdated, NoBranch

\* ReplayIsCanonical for every log: arrival order does not matter to a replay.
THEOREM CanonicalReplay == Spec => []ReplayIsCanonical
<1>1. Init => ReplaysLog
  BY DEF Init, ReplaysLog
<1>2. TypeOK /\ ReplaysLog /\ [Next]_vars => ReplaysLog'
  <2> SUFFICES ASSUME ReplaysLog, [Next]_vars
               PROVE  ReplaysLog'
    OBVIOUS
  <2>1. ASSUME NEW e \in Source, AppendEvent(e)
        PROVE  ReplaysLog'
    BY <2>1 DEF AppendEvent, ReplaysLog
  <2>2. ASSUME NEW m \in Optional(Meeting), BeginReplay(m)
        PROVE  ReplaysLog'
    BY <2>2 DEF BeginReplay, ReplaysLog
  <2>3. ASSUME NEW e \in Source, ApplyEvent(e)
        PROVE  ReplaysLog'
    BY <2>3, ApplyIsFold DEF Fold, ReplaysLog
  <2>4. CASE FinishReplay
    BY <2>4 DEF FinishReplay, ReplaysLog
  <2>5. CASE UNCHANGED vars
    BY <2>5 DEF vars, ReplaysLog
  <2>6. QED
    BY <2>1, <2>2, <2>3, <2>4, <2>5 DEF Next
<1>3. TypeOK /\ ReplaysLog => ReplayIsCanonical
  <2> SUFFICES ASSUME TypeOK, phase # "idle", ordered = ReplayOrder(log)
               PROVE  ReplayIsCanonical
    BY DEF ReplaysLog, ReplayIsCanonical
  <2>1. log \in Seq(Source) /\ log \in Seq(Event)
    BY ReplayAssumption DEF TypeOK
  <2>2. Len(ordered) = Len(log)
    BY <2>1, ReplayOrderIsLog, ReplayAssumption
  <2>3. QED
    BY <2>1, <2>2, ReplayOrderIsCanonical DEF ReplayIsCanonical
<1>4. QED
  BY <1>1, <1>2, <1>3, TypeCorrect, PTL DEF Spec

-----------------------------------------------------------------------------
(* The folded state summarises the replayed prefix. *)

\* A step of the replay machine folds an event, starts over or folds nothing.
ReplayStep ==
  \/ UNCHANGED <<ordered, events_applied, raceVars>>
  \/ \E m \in Optional(Meeting) : BeginReplay(m)
  \/ \E e \in Source : ApplyEvent(e)

LEMMA StepCases ==
  ASSUME [Next]_vars
  PROVE  ReplayStep
  BY DEF Next, AppendEvent, FinishReplay, vars, raceVars, ReplayStep

\* Folding an event adds its place to the sets it belongs to, and no other.
LEMMA AppliedStep ==
  ASSUME TypeOK, NEW e \in Source, Fold(e)
  PROVE  /\ \A T, d : Applied(T, d)' =
              IF e.event_type \in T /\ e.driver_id = d
              THEN Applied(T, d) \cup {events_applied + 1} ELSE Applied(T, d)
         /\ \A T : AppliedType(T)' =
              IF e.event_type \in T
              THEN AppliedType(T) \cup {events_applied + 1} ELSE AppliedType(T)
         /\ LapReports' =
              IF e.event_type = "LapCompleted" /\ e.driver_id # None /\ e.lap # None
              THEN LapReports \cup {events_applied + 1} ELSE LapReports
         /\ TyreFits' =
              IF e.event_type = "PitStopCompleted" => e.tyre # None
              THEN TyreFits \cup {events_applied + 1} ELSE TyreFits
<1> DEFINE n == events_applied
<1>1. /\ n \in Nat /\ n' = n + 1 /\ ordered' = ordered /\ ordered[n + 1] = e
  BY FoldFrame
<1>2. 1..n' = (1..n) \cup {n + 1}
  BY <1>1
<1>3. QED
  BY <1>1, <1>2 DEF Applied, AppliedType, LapReports, TyreFits

\* Places already folded are naturals below the next one.
LEMMA AppliedBounds ==
  ASSUME TypeOK
  PROVE  /\ \A T, d : /\ Applied(T, d) \subseteq Nat
                      /\ \A i \in Applied(T, d) : i < events_applied + 1
         /\ \A T : /\ AppliedType(T) \subseteq Nat
                   /\ \A i \in AppliedType(T) : i < events_applied + 1
         /\ LapReports \subseteq Nat
         /\ \A i \in LapReports : i < events_applied + 1
  BY DEF TypeOK, Applied, AppliedType, LapReports

\* The latest place of a set that a new, higher place joins is the new one.
LEMMA LatestAdded ==
  ASSUME NEW I \in SUBSET Nat, NEW m \in Nat, \A i \in I : i < m
  PROVE  \A i : Latest(I \cup {m}, i) <=> i = m
<1>1. ASSUME NEW i, Latest(I \cup {m}, i)
      PROVE  i = m
  <2>1. i \in I \cup {m} /\ m <= i
    BY <1>1 DEF Latest
  <2>2. i \in Nat /\ i \notin I
    BY <2>1
  <2>3. QED
    BY <2>1, <2>2
<1>2. Latest(I \cup {m}, m)
  <2>1. \A j \in I \cup {m} : j <= m
    OBVIOUS
  <2>2. QED
    BY <2>1 DEF Latest
<1>3. QED
  BY <1>1, <1>2

\* What folding e does to the car of e's driver, field by field.
LEMMA CarStep ==
  ASSUME TypeOK, NEW d \in Driver, NEW e \in Source, ApplyEvent(e), e.driver_id = d
  PROVE  LET t == e.event_type
             c == Car(d)
         IN  /\ Car(d)'.position =
                  IF t \in {"LapCompleted", "PositionChanged"} THEN e.position
                  ELSE c.position
             /\ Car(d)'.lap_number =
                  IF t = "LapCompleted" /\ e.lap # None THEN e.lap ELSE c.lap_number
             /\ Car(d)'.tyre_age =
                  IF t = "LapCompleted" THEN e.tyre_age
                  ELSE IF t \in {"PitStopCompleted", "TyreCompoundChanged"} THEN 0
                  ELSE c.tyre_age
             /\ Car(d)'.tyre_compound =
                  IF \/ t \in {"LapCompleted", "TyreCompoundChanged"}
                     \/ t = "PitStopCompleted" /\ e.tyre # None
                  THEN e.tyre ELSE c.tyre_compound
             /\ Car(d)'.pit_stop_count =
                  IF t = "PitStopCompleted" THEN c.pit_stop_count + 1
                  ELSE c.pit_stop_count
             /\ Car(d)'.stint_number =
                  IF t = "PitStopCompleted" THEN c.stint_number + 1
                  ELSE c.stint_number
             /\ Car(d)'.retired =
                  IF t \in {"DriverRetired", "DriverStopped"} THEN TRUE ELSE c.retired
             /\ Car(d)'.running =
                  IF t \in {"DriverRetired", "DriverStopped"} THEN FALSE ELSE c.running
             /\ d \in DOMAIN drivers' <=> d \in DOMAIN drivers \/ t \in DriverEventType
<1> DEFINE c == Car(d)
<1>1. c \in DriverState /\ d # None
  BY CarType, NoneAssumption
<1>2. CASE LapCompleted(e)
  <2> DEFINE car == [c EXCEPT !.lap_number = ReportedLap(e), !.position = e.position,
                              !.tyre_compound = e.tyre, !.tyre_age = e.tyre_age]
  <2>1. ReportedLap(e) = IF e.lap # None THEN e.lap ELSE c.lap_number
    BY DEF ReportedLap
  <2>2. Car(d)' = car /\ d \in DOMAIN drivers'
    BY <1>2, WithDriverType DEF LapCompleted, Car, WithDriver
  <2>3. e.event_type = "LapCompleted"
    BY <1>2 DEF LapCompleted
  <2>4. QED
    BY <1>1, <2>1, <2>2, <2>3 DEF DriverState, DriverEventType
<1>3. CASE PositionChanged(e)
  <2>1. /\ Car(d)' = [c EXCEPT !.position = e.position] /\ d \in DOMAIN drivers'
        /\ e.event_type = "PositionChanged"
    BY <1>3 DEF PositionChanged, Car, WithDriver
  <2>2. QED
    BY <1>1, <2>1 DEF DriverState, DriverEventType
<1>4. CASE PitStopCompleted(e)
  <2>1. /\ Car(d)' = [c EXCEPT !.pit_stop_count = c.pit_stop_count + 1,
                               !.stint_number = c.stint_number + 1,
                               !.tyre_compound = IF e.tyre = None THEN c.tyre_compound
                                                 ELSE e.tyre,
                               !.tyre_age = 0]
        /\ d \in DOMAIN drivers'
        /\ e.event_type = "PitStopCompleted"
    BY <1>4 DEF PitStopCompleted, Car, WithDriver
  <2>2. QED
    BY <1>1, <2>1 DEF DriverState, DriverEventType
<1>5. CASE TyreCompoundChanged(e)
  <2>1. /\ Car(d)' = [c EXCEPT !.tyre_compound = e.tyre, !.tyre_age = 0]
        /\ d \in DOMAIN drivers'
        /\ e.event_type = "TyreCompoundChanged"
    BY <1>5 DEF TyreCompoundChanged, Car, WithDriver
  <2>2. QED
    BY <1>1, <2>1 DEF DriverState, DriverEventType
<1>6. CASE DriverOut(e)
  <2>1. /\ Car(d)' = [c EXCEPT !.retired = TRUE, !.running = FALSE]
        /\ d \in DOMAIN drivers'
        /\ e.event_type \in {"DriverRetired", "DriverStopped"}
    BY <1>6 DEF DriverOut, Car, WithDriver
  <2>2. QED
    BY <1>1, <2>1 DEF DriverState, DriverEventType
<1>7. CASE drivers' = drivers /\ e.event_type \notin DriverEventType
  <2>1. Car(d)' = c
    BY <1>7 DEF Car
  <2>2. QED
    BY <1>7, <2>1 DEF DriverEventType
<1>8. QED
  BY <1>1, <1>2, <1>3, <1>4, <1>5, <1>6, <1>7
     DEF ApplyEvent, SafetyCarDeployed, YellowFlagStarted, RedFlagStarted,
         WeatherUpdated, NoBranch, DriverEventType, RaceEventType

\* Folding e leaves every other driver's car alone.
LEMMA OtherCars ==
  ASSUME TypeOK, NEW d \in Driver, NEW e \in Source, ApplyEvent(e), e.driver_id # d
  PROVE  Car(d)' = Car(d) /\ (d \in DOMAIN drivers' <=> d \in DOMAIN drivers)
<1>1. ASSUME NEW car, drivers' = WithDriver(e.driver_id, car)
      PROVE  Car(d)' = Car(d) /\ (d \in DOMAIN drivers' <=> d \in DOMAIN drivers)
  BY <1>1 DEF Car, WithDriver
<1>2. CASE drivers' = drivers
  BY <1>2 DEF Car
<1>3. QED
  BY <1>1, <1>2 DEF ApplyEvent, LapCompleted, PositionChanged, PitStopCompleted,
     TyreCompoundChanged, DriverOut, SafetyCarDeployed, YellowFlagStarted,
     RedFlagStarted, WeatherUpdated, NoBranch

LatchedTypes == {"LapCompleted", "PitStopCompleted", "TyreCompoundChanged"}

\* d's summary holds on when neither its car nor its events change.
LEMMA SameCarMatches ==
  ASSUME CarsMatchLog, NEW d \in Driver, ordered' = ordered,
         \A T : Applied(T, d)' = Applied(T, d),
         (LapReports \cap Applied({"LapCompleted"}, d))'
           = LapReports \cap Applied({"LapCompleted"}, d),
         (Applied(LatchedTypes, d) \cap TyreFits)' = Applied(LatchedTypes, d) \cap TyreFits,
         Car(d)' = Car(d), d \in DOMAIN drivers' <=> d \in DOMAIN drivers
  PROVE  /\ PositionOf(d)' /\ LapOf(d)' /\ TyreOf(d)'
         /\ StopsOf(d)' /\ RetirementOf(d)' /\ Mentioned(d)'
<1>1. /\ PositionOf(d) /\ LapOf(d) /\ TyreOf(d)
      /\ StopsOf(d) /\ RetirementOf(d) /\ Mentioned(d)
  BY DEF CarsMatchLog
<1>2. PositionOf(d)'
  BY <1>1 DEF PositionOf, Latest
<1>3. LapOf(d)'
  BY <1>1 DEF LapOf, Latest
<1>4. TyreOf(d)'
  BY <1>1 DEF TyreOf, Latest, LatchedTypes
<1>5. StopsOf(d)' /\ RetirementOf(d)' /\ Mentioned(d)'
  BY <1>1 DEF StopsOf, RetirementOf, Mentioned
<1>6. QED
  BY <1>2, <1>3, <1>4, <1>5

\* An event of another driver disturbs no part of d's summary.
LEMMA OtherCarsMatch ==
  ASSUME TypeOK, CarsMatchLog, NEW d \in Driver,
         NEW e \in Source, ApplyEvent(e), e.driver_id # d
  PROVE  /\ PositionOf(d)' /\ LapOf(d)' /\ TyreOf(d)'
         /\ StopsOf(d)' /\ RetirementOf(d)' /\ Mentioned(d)'
<1> DEFINE Reports == LapReports \cap Applied({"LapCompleted"}, d)
           Fits == Applied(LatchedTypes, d) \cap TyreFits
<1>1. Fold(e) /\ ordered' = ordered
  BY ApplyIsFold, FoldFrame
<1>2. \A T : Applied(T, d)' = Applied(T, d)
  BY <1>1, AppliedStep
<1>3. \A T : events_applied + 1 \notin Applied(T, d)
  BY AppliedBounds, FoldFrame, <1>1
<1>4. Reports' = Reports /\ Fits' = Fits
  BY <1>1, <1>2, <1>3, AppliedStep
<1>5. Car(d)' = Car(d) /\ (d \in DOMAIN drivers' <=> d \in DOMAIN drivers)
  BY OtherCars
<1>6. QED
  BY <1>1, <1>2, <1>4, <1>5, SameCarMatches

\* An event of d itself moves each part of d's summary with the car.
LEMMA OwnCarMatches ==
  ASSUME TypeOK, CarsMatchLog, NEW d \in Driver,
         NEW e \in Source, ApplyEvent(e), e.driver_id = d
  PROVE  /\ PositionOf(d)' /\ LapOf(d)' /\ TyreOf(d)'
         /\ StopsOf(d)' /\ RetirementOf(d)' /\ Mentioned(d)'
<1> DEFINE t == e.event_type
           m == events_applied + 1
<1>1. /\ Fold(e) /\ ordered' = ordered /\ ordered[m] = e /\ m \in Nat
  BY ApplyIsFold, FoldFrame
<1>2. \A T : Applied(T, d)' = IF t \in T THEN Applied(T, d) \cup {m} ELSE Applied(T, d)
  BY <1>1, AppliedStep
<1>3. \A T : Applied(T, d) \in SUBSET Nat /\ \A i \in Applied(T, d) : i < m
  BY AppliedBounds
<1>4. d # None
  BY NoneAssumption
<1>5. /\ PositionOf(d) /\ LapOf(d) /\ TyreOf(d)
      /\ StopsOf(d) /\ RetirementOf(d) /\ Mentioned(d)
  BY DEF CarsMatchLog
<1>6. PositionOf(d)'
  <2> DEFINE I == Applied({"LapCompleted", "PositionChanged"}, d)
  <2>1. Car(d)'.position = IF t \in {"LapCompleted", "PositionChanged"}
                           THEN e.position ELSE Car(d).position
    BY CarStep
  <2>2. CASE t \in {"LapCompleted", "PositionChanged"}
    <3>1. I' = I \cup {m}
      BY <1>2, <2>2
    <3>2. \A i : Latest(I \cup {m}, i) <=> i = m
      <4>1. I \in SUBSET Nat /\ \A i \in I : i < m
        BY <1>3
      <4> HIDE DEF I, m
      <4>2. QED
        BY <1>1, <4>1, LatestAdded
    <3>3. QED
      BY <1>1, <2>1, <2>2, <3>1, <3>2 DEF PositionOf
  <2>3. CASE t \notin {"LapCompleted", "PositionChanged"}
    BY <1>1, <1>2, <1>5, <2>1, <2>3 DEF PositionOf, Latest
  <2>4. QED
    BY <2>2, <2>3
<1>7. LapOf(d)'
  <2> DEFINE I == LapReports \cap Applied({"LapCompleted"}, d)
             named == t = "LapCompleted" /\ e.lap # None
  <2>1. Car(d)'.lap_number = IF named THEN e.lap ELSE Car(d).lap_number
    BY CarStep
  <2>2. /\ I' = IF named THEN I \cup {m} ELSE I
        /\ I \in SUBSET Nat /\ \A i \in I : i < m
    <3>1. LapReports' = IF named THEN LapReports \cup {m} ELSE LapReports
      BY <1>1, <1>4, AppliedStep
    <3>2. m \notin LapReports
      BY <1>1, AppliedBounds
    <3>3. QED
      BY <1>2, <1>3, <3>1, <3>2
  <2>3. CASE named
    <3>1. \A i : Latest(I \cup {m}, i) <=> i = m
      <4> HIDE DEF I, m
      <4>1. QED
        BY <1>1, <2>2, LatestAdded
    <3>2. QED
      BY <1>1, <2>1, <2>2, <2>3, <3>1 DEF LapOf
  <2>4. CASE ~named
    BY <1>1, <1>5, <2>1, <2>2, <2>4 DEF LapOf, Latest
  <2>5. QED
    BY <2>3, <2>4
<1>8. TyreOf(d)'
  <2> DEFINE I == Applied(LatchedTypes, d)
             F == I \cap TyreFits
             fit == t \in LatchedTypes /\ (t = "PitStopCompleted" => e.tyre # None)
  <2>1. /\ Car(d)'.tyre_age = IF t = "LapCompleted" THEN e.tyre_age
                              ELSE IF t \in LatchedTypes THEN 0 ELSE Car(d).tyre_age
        /\ Car(d)'.tyre_compound = IF fit THEN e.tyre ELSE Car(d).tyre_compound
    BY CarStep DEF LatchedTypes
  <2>2. /\ I' = IF t \in LatchedTypes THEN I \cup {m} ELSE I
        /\ F' = IF fit THEN F \cup {m} ELSE F
    <3>1. TyreFits' = IF t = "PitStopCompleted" => e.tyre # None
                      THEN TyreFits \cup {m} ELSE TyreFits
      BY <1>1, AppliedStep
    <3>2. m \notin TyreFits
      BY <1>1 DEF TyreFits, TypeOK
    <3>3. I' = IF t \in LatchedTypes THEN I \cup {m} ELSE I
      BY <1>2 DEF LatchedTypes
    <3>4. m \notin I
      BY <1>1, <1>3
    <3>5. QED
      BY <3>1, <3>2, <3>3, <3>4
  <2>3. /\ \A i : Latest(I \cup {m}, i) <=> i = m
        /\ \A i : Latest(F \cup {m}, i) <=> i = m
    <3>1. I \in SUBSET Nat /\ \A i \in I : i < m
      BY <1>3
    <3>2. F \in SUBSET Nat /\ \A i \in F : i < m
      BY <3>1
    <3> HIDE DEF I, F, m
    <3>3. QED
      BY <1>1, <3>1, <3>2, LatestAdded
  <2>4. /\ I' = {} => Car(d)'.tyre_age = None
        /\ F' = {} => Car(d)'.tyre_compound = None
    BY <1>5, <2>1, <2>2 DEF TyreOf, LatchedTypes
  <2>5. ASSUME NEW i \in I', Latest(I', i)
        PROVE  Car(d)'.tyre_age = IF ordered[i].event_type = "LapCompleted"
                                  THEN ordered[i].tyre_age ELSE 0
    <3>1. CASE t \in LatchedTypes
      BY <1>1, <2>1, <2>2, <2>3, <2>5, <3>1
    <3>2. CASE t \notin LatchedTypes
      BY <1>5, <2>1, <2>2, <2>5, <3>2 DEF TyreOf, Latest, LatchedTypes
    <3>3. QED
      BY <3>1, <3>2
  <2>6. ASSUME NEW i \in F', Latest(F', i)
        PROVE  Car(d)'.tyre_compound = ordered[i].tyre
    <3>1. CASE fit
      BY <1>1, <2>1, <2>2, <2>3, <2>6, <3>1
    <3>2. CASE ~fit
      BY <1>5, <2>1, <2>2, <2>6, <3>2 DEF TyreOf, Latest, LatchedTypes
    <3>3. QED
      BY <3>1, <3>2
  <2>7. QED
    BY <1>1, <2>4, <2>5, <2>6 DEF TyreOf, LatchedTypes
<1>9. StopsOf(d)'
  <2> DEFINE I == Applied({"PitStopCompleted"}, d)
  <2>1. Car(d) \in DriverState
    BY CarType
  <2>2. IsFiniteSet(I) /\ m \notin I
    <3>1. I \subseteq 1..events_applied
      BY DEF Applied
    <3>2. events_applied \in Int
      BY DEF TypeOK
    <3>3. QED
      BY <1>1, <1>3, <3>1, <3>2, FS_Interval, FS_Subset
  <2>3. Cardinality(I \cup {m}) = Cardinality(I) + 1
    BY <2>2, FS_AddElement
  <2>4. I' = IF t = "PitStopCompleted" THEN I \cup {m} ELSE I
    BY <1>2
  <2>5. Car(d).stint_number \in Nat /\ Car(d).pit_stop_count \in Nat
    BY <2>1 DEF DriverState
  <2>6. /\ Car(d)'.pit_stop_count = IF t = "PitStopCompleted" THEN Car(d).pit_stop_count + 1
                                    ELSE Car(d).pit_stop_count
        /\ Car(d)'.stint_number = IF t = "PitStopCompleted" THEN Car(d).stint_number + 1
                                  ELSE Car(d).stint_number
    BY CarStep
  <2>7. /\ Car(d).pit_stop_count = Cardinality(I)
        /\ Car(d).stint_number = Car(d).pit_stop_count + 1
    BY <1>5 DEF StopsOf
  <2>8. Car(d)'.pit_stop_count = Cardinality(I')
    BY <2>3, <2>4, <2>6, <2>7
  <2>9. Car(d)'.stint_number = Car(d)'.pit_stop_count + 1
    BY <2>5, <2>6, <2>7
  <2>10. QED
    BY <2>8, <2>9 DEF StopsOf
<1>10. RetirementOf(d)'
  <2> DEFINE out == t \in {"DriverRetired", "DriverStopped"}
             I == Applied({"DriverRetired", "DriverStopped"}, d)
  <2>1. /\ Car(d)'.retired = IF out THEN TRUE ELSE Car(d).retired
        /\ Car(d)'.running = IF out THEN FALSE ELSE Car(d).running
    BY CarStep
  <2>2. Car(d).retired \in BOOLEAN /\ Car(d).running \in BOOLEAN
    BY CarType DEF DriverState
  <2>3. I' = IF out THEN I \cup {m} ELSE I
    BY <1>2
  <2>4. (Car(d).retired <=> I # {}) /\ (Car(d).running <=> ~Car(d).retired)
    BY <1>5 DEF RetirementOf
  <2>5. CASE out
    BY <2>1, <2>3, <2>5 DEF RetirementOf
  <2>6. CASE ~out
    BY <2>1, <2>3, <2>4, <2>6 DEF RetirementOf
  <2>7. QED
    BY <2>5, <2>6
<1>11. Mentioned(d)'
  BY <1>2, <1>5, CarStep DEF Mentioned
<1>12. QED
  BY <1>6, <1>7, <1>8, <1>9, <1>10, <1>11

\* A replay that has folded nothing summarises nothing.
LEMMA NothingApplied ==
  ASSUME events_applied = 0
  PROVE  /\ \A T, d : Applied(T, d) = {}
         /\ \A T : AppliedType(T) = {}
         /\ LapReports = {} /\ TyreFits = {}
<1>1. 1..events_applied = {}
  OBVIOUS
<1>2. QED
  BY <1>1 DEF Applied, AppliedType, LapReports, TyreFits

LEMMA FreshCarsMatch ==
  ASSUME events_applied = 0, drivers = <<>>
  PROVE  CarsMatchLog
<1>1. \A d \in Driver : Car(d) = NewDriver /\ d \notin DOMAIN drivers
  BY DEF Car
<1>2. \A T, d : Applied(T, d) = {}
  BY NothingApplied
<1>3. Cardinality({}) = 0
  BY FS_EmptySet
<1>4. SUFFICES ASSUME NEW d \in Driver
               PROVE  /\ PositionOf(d) /\ LapOf(d) /\ TyreOf(d)
                      /\ StopsOf(d) /\ RetirementOf(d) /\ Mentioned(d)
  BY DEF CarsMatchLog
<1>5. PositionOf(d) /\ LapOf(d) /\ TyreOf(d)
  BY <1>1, <1>2 DEF PositionOf, LapOf, TyreOf, NewDriver
<1>6. StopsOf(d) /\ RetirementOf(d) /\ Mentioned(d)
  <2>1. /\ NewDriver.retired = FALSE /\ NewDriver.running = TRUE
        /\ NewDriver.pit_stop_count = 0 /\ NewDriver.stint_number = 1
    BY DEF NewDriver
  <2>2. StopsOf(d)
    <3>1. Applied({"PitStopCompleted"}, d) = {} /\ Car(d) = NewDriver
      BY <1>1, <1>2
    <3>2. /\ NewDriver.pit_stop_count = Cardinality({})
          /\ NewDriver.stint_number = NewDriver.pit_stop_count + 1
      BY <1>3, <2>1
    <3>3. QED
      BY <3>1, <3>2, Zenon DEF StopsOf
  <2>3. RetirementOf(d) /\ Mentioned(d)
    BY <1>1, <1>2, <2>1 DEF RetirementOf, Mentioned
  <2>4. QED
    BY <2>2, <2>3
<1>7. QED
  BY <1>5, <1>6

\* A step of a replay keeps the cars as the log has them.
LEMMA CarsStep ==
  ASSUME TypeOK, CarsMatchLog, ReplayStep
  PROVE  CarsMatchLog'
<1>1. CASE UNCHANGED <<ordered, events_applied, raceVars>>
  <2>1. /\ ordered' = ordered /\ drivers' = drivers
        /\ LapReports' = LapReports /\ TyreFits' = TyreFits
        /\ \A T, d : Applied(T, d)' = Applied(T, d)
        /\ \A d : Car(d)' = Car(d)
    BY <1>1 DEF raceVars, Applied, LapReports, TyreFits, Car
  <2>2. ASSUME NEW d \in Driver
        PROVE  /\ PositionOf(d)' /\ LapOf(d)' /\ TyreOf(d)'
               /\ StopsOf(d)' /\ RetirementOf(d)' /\ Mentioned(d)'
    <3>1. /\ (LapReports \cap Applied({"LapCompleted"}, d))'
                = LapReports \cap Applied({"LapCompleted"}, d)
          /\ (Applied(LatchedTypes, d) \cap TyreFits)'
                = Applied(LatchedTypes, d) \cap TyreFits
      BY <2>1
    <3>2. QED
      BY <2>1, <3>1, SameCarMatches
  <2>3. QED
    BY <2>2 DEF CarsMatchLog
<1>2. ASSUME NEW m \in Optional(Meeting), BeginReplay(m)
      PROVE  CarsMatchLog'
  <2>1. events_applied' = 0 /\ drivers' = <<>>
    BY <1>2 DEF BeginReplay, ResetRace
  <2>2. (events_applied = 0 /\ drivers = <<>> => CarsMatchLog)'
    BY FreshCarsMatch, PTL
  <2>3. QED
    BY <2>1, <2>2
<1>3. ASSUME NEW e \in Source, ApplyEvent(e)
      PROVE  CarsMatchLog'
  <2>1. ASSUME NEW d \in Driver
        PROVE  /\ PositionOf(d)' /\ LapOf(d)' /\ TyreOf(d)'
               /\ StopsOf(d)' /\ RetirementOf(d)' /\ Mentioned(d)'
    BY <1>3, OwnCarMatches, OtherCarsMatch
  <2>2. QED
    BY <2>1 DEF CarsMatchLog
<1>4. QED
  BY <1>1, <1>2, <1>3 DEF ReplayStep

\* CarsMatchLog for every set of drivers and every log: whatever was reported,
\* in whatever order, the folded cars are what the replayed prefix says.
THEOREM CarsSummariseLog == Spec => []CarsMatchLog
<1>1. Init => CarsMatchLog
  BY FreshCarsMatch DEF Init, EmptyRace
<1>2. TypeOK /\ CarsMatchLog /\ [Next]_vars => CarsMatchLog'
  BY StepCases, CarsStep
<1>3. QED
  BY <1>1, <1>2, TypeCorrect, PTL DEF Spec

-----------------------------------------------------------------------------
(* The leader's lap, the flags, the weather and the recent labels. *)

\* Folding e never lowers the leader's lap, and raises it to e's lap.
LEMMA LeaderStep ==
  ASSUME TypeOK, NoCarAheadOfLeader, NEW e \in Source, ApplyEvent(e)
  PROVE  /\ current_lap' \in Nat /\ current_lap <= current_lap'
         /\ e.event_type = "LapCompleted" /\ e.driver_id # None /\ e.lap # None =>
              current_lap' = IF e.lap > current_lap THEN e.lap ELSE current_lap
         /\ ~(e.event_type = "LapCompleted" /\ e.driver_id # None /\ e.lap # None) =>
              current_lap' = current_lap
<1>1. current_lap \in Nat /\ current_lap' \in Nat
  BY ApplyType DEF TypeOK
<1>2. CASE LapCompleted(e)
  <2>1. /\ e.event_type = "LapCompleted" /\ e.driver_id # None
        /\ current_lap' = IF ReportedLap(e) > current_lap THEN ReportedLap(e)
                          ELSE current_lap
    BY <1>2 DEF LapCompleted
  <2>2. e.driver_id \in Driver
    BY <2>1, EventFields
  <2>3. Car(e.driver_id).lap_number <= current_lap /\ Car(e.driver_id).lap_number \in Nat
    BY <2>2, CarType DEF NoCarAheadOfLeader, DriverState
  <2>4. CASE e.lap = None
    BY <1>1, <2>1, <2>3, <2>4 DEF ReportedLap
  <2>5. CASE e.lap # None
    <3>1. e.lap \in Nat
      BY <2>5, EventFields
    <3>2. QED
      BY <1>1, <2>1, <2>5, <3>1 DEF ReportedLap
  <2>6. QED
    BY <2>4, <2>5
<1>3. CASE current_lap' = current_lap /\ (e.event_type = "LapCompleted" => e.driver_id = None)
  BY <1>1, <1>3
<1>4. QED
  BY <1>2, <1>3 DEF ApplyEvent, PositionChanged, PitStopCompleted,
     TyreCompoundChanged, DriverOut, SafetyCarDeployed, YellowFlagStarted,
     RedFlagStarted, WeatherUpdated, NoBranch, DriverEventType, RaceEventType

\* A step of a replay keeps every car behind the leader.
LEMMA LeaderLeadsStep ==
  ASSUME TypeOK, NoCarAheadOfLeader, ReplayStep
  PROVE  NoCarAheadOfLeader'
<1>1. CASE UNCHANGED <<ordered, events_applied, raceVars>>
  BY <1>1 DEF NoCarAheadOfLeader, Car, raceVars
<1>2. ASSUME NEW m \in Optional(Meeting), BeginReplay(m)
      PROVE  NoCarAheadOfLeader'
  BY <1>2 DEF BeginReplay, ResetRace, NoCarAheadOfLeader, Car, NewDriver
<1>3. ASSUME NEW e \in Source, ApplyEvent(e), NEW d \in Driver
      PROVE  Car(d)'.lap_number <= current_lap'
  <2>1. /\ Car(d).lap_number \in Nat /\ Car(d).lap_number <= current_lap
        /\ current_lap \in Nat
    BY CarType DEF DriverState, NoCarAheadOfLeader, TypeOK
  <2>2. CASE e.driver_id # d
    BY <1>3, <2>1, <2>2, OtherCars, LeaderStep
  <2>3. CASE e.driver_id = d
    <3>1. d # None /\ (e.lap # None => e.lap \in Nat)
      BY NoneAssumption, EventFields
    <3>2. Car(d)'.lap_number = IF e.event_type = "LapCompleted" /\ e.lap # None
                               THEN e.lap ELSE Car(d).lap_number
      BY <1>3, <2>3, CarStep
    <3>3. QED
      BY <1>3, <2>1, <2>3, <3>1, <3>2, LeaderStep
  <2>4. QED
    BY <2>2, <2>3
<1>4. QED
  BY <1>1, <1>2, <1>3 DEF ReplayStep, NoCarAheadOfLeader

\* NoCarAheadOfLeader: no car is ever shown ahead of the leader's lap.
THEOREM LeaderLeads == Spec => []NoCarAheadOfLeader
<1>1. Init => NoCarAheadOfLeader
  BY DEF Init, EmptyRace, NoCarAheadOfLeader, Car, NewDriver
<1>2. TypeOK /\ NoCarAheadOfLeader /\ [Next]_vars => NoCarAheadOfLeader'
  BY StepCases, LeaderLeadsStep
<1>3. QED
  BY <1>1, <1>2, TypeCorrect, PTL DEF Spec

FlagTypes == {"SafetyCarDeployed", "YellowFlagStarted", "RedFlagStarted"}
FlagOf(e) == CASE e.event_type = "SafetyCarDeployed" -> "safety_car"
               [] e.event_type = "YellowFlagStarted" -> "yellow"
               [] e.event_type = "RedFlagStarted"    -> "red"

\* What folding e does to the flag, the session and the weather.
LEMMA RaceStep ==
  ASSUME NEW e \in Source, ApplyEvent(e)
  PROVE  LET t == e.event_type IN
         /\ track_status' = IF t \in FlagTypes THEN FlagOf(e) ELSE track_status
         /\ session_status' = IF t = "RedFlagStarted" THEN "suspended" ELSE session_status
         /\ weather' = IF t = "WeatherUpdated" THEN e.weather ELSE weather
<1>1. CASE SafetyCarDeployed(e)
  BY <1>1 DEF SafetyCarDeployed, FlagTypes, FlagOf
<1>2. CASE YellowFlagStarted(e)
  BY <1>2 DEF YellowFlagStarted, FlagTypes, FlagOf
<1>3. CASE RedFlagStarted(e)
  BY <1>3 DEF RedFlagStarted, FlagTypes, FlagOf
<1>4. CASE WeatherUpdated(e)
  BY <1>4 DEF WeatherUpdated, FlagTypes
<1>5. CASE /\ UNCHANGED <<track_status, session_status, weather>>
           /\ e.event_type \notin RaceEventType
  BY <1>5 DEF FlagTypes, RaceEventType
<1>6. QED
  BY <1>1, <1>2, <1>3, <1>4, <1>5 DEF ApplyEvent, LapCompleted, PositionChanged,
     PitStopCompleted, TyreCompoundChanged, DriverOut, NoBranch, RaceEventType

\* The parts of RaceMatchesLog.
LeaderMatches ==
  /\ \A i \in LapReports : ordered[i].lap <= current_lap
  /\ current_lap = 0 \/ \E i \in LapReports : ordered[i].lap = current_lap
FlagMatches ==
  LET Flags == AppliedType(FlagTypes)
  IN  /\ Flags = {} => track_status = "clear"
      /\ \A i \in Flags : Latest(Flags, i) => track_status = FlagOf(ordered[i])
      /\ session_status = "suspended" <=> AppliedType({"RedFlagStarted"}) # {}
WeatherMatches ==
  LET Readings == AppliedType({"WeatherUpdated"})
  IN  /\ Readings = {} => weather = None
      /\ \A i \in Readings : Latest(Readings, i) => weather = ordered[i].weather

LEMMA RaceMatchesLogParts ==
  RaceMatchesLog <=> LeaderMatches /\ FlagMatches /\ WeatherMatches
  BY DEF RaceMatchesLog, LeaderMatches, FlagMatches, WeatherMatches, FlagTypes, FlagOf

LEMMA LeaderMatchesStep ==
  ASSUME TypeOK, NoCarAheadOfLeader, LeaderMatches, NEW e \in Source, ApplyEvent(e)
  PROVE  LeaderMatches'
<1> DEFINE m == events_applied + 1
           named == e.event_type = "LapCompleted" /\ e.driver_id # None /\ e.lap # None
<1>1. Fold(e) /\ ordered' = ordered /\ ordered[m] = e
  BY ApplyIsFold, FoldFrame
<1>2. LapReports' = IF named THEN LapReports \cup {m} ELSE LapReports
  BY <1>1, AppliedStep
<1>3. /\ current_lap \in Nat /\ current_lap' \in Nat /\ current_lap <= current_lap'
      /\ named => current_lap' = IF e.lap > current_lap THEN e.lap ELSE current_lap
      /\ ~named => current_lap' = current_lap
  BY LeaderStep DEF TypeOK
<1>4. named => e.lap \in Nat
  BY EventFields
<1>5. \A i \in LapReports : ordered[i].lap \in Nat /\ ordered[i].lap <= current_lap
  <2>1. ASSUME NEW i \in LapReports
        PROVE  ordered[i].lap \in Nat
    <3>1. ordered[i] \in Source /\ ordered[i].lap # None
      BY DEF LapReports, TypeOK
    <3>2. QED
      BY <3>1, EventFields
  <2>2. QED
    BY <2>1 DEF LeaderMatches
<1>6. CASE named
  <2>1. \A i \in LapReports' : ordered'[i].lap <= current_lap'
    BY <1>1, <1>2, <1>3, <1>4, <1>5, <1>6
  <2>2. current_lap' = 0 \/ \E i \in LapReports' : ordered'[i].lap = current_lap'
    <3>1. CASE e.lap > current_lap
      BY <1>1, <1>2, <1>3, <1>6, <3>1
    <3>2. CASE ~(e.lap > current_lap)
      BY <1>1, <1>2, <1>3, <1>6, <3>2 DEF LeaderMatches
    <3>3. QED
      BY <3>1, <3>2
  <2>3. QED
    BY <2>1, <2>2 DEF LeaderMatches
<1>7. CASE ~named
  BY <1>1, <1>2, <1>3, <1>7 DEF LeaderMatches
<1>8. QED
  BY <1>6, <1>7

LEMMA FlagAndWeatherStep ==
  ASSUME TypeOK, FlagMatches, WeatherMatches, NEW e \in Source, ApplyEvent(e)
  PROVE  FlagMatches' /\ WeatherMatches'
<1> DEFINE m == events_applied + 1
           t == e.event_type
           Flags == AppliedType(FlagTypes)
           Reds == AppliedType({"RedFlagStarted"})
           Readings == AppliedType({"WeatherUpdated"})
<1>1. Fold(e) /\ ordered' = ordered /\ ordered[m] = e /\ m \in Nat
  BY ApplyIsFold, FoldFrame
<1>2. /\ Flags' = IF t \in FlagTypes THEN Flags \cup {m} ELSE Flags
      /\ Reds' = IF t = "RedFlagStarted" THEN Reds \cup {m} ELSE Reds
      /\ Readings' = IF t = "WeatherUpdated" THEN Readings \cup {m} ELSE Readings
  <2>1. \A T : AppliedType(T)' = IF t \in T THEN AppliedType(T) \cup {m} ELSE AppliedType(T)
    BY <1>1, AppliedStep
  <2>2. \A x : x \in {"RedFlagStarted"} <=> x = "RedFlagStarted"
    OBVIOUS
  <2>3. \A x : x \in {"WeatherUpdated"} <=> x = "WeatherUpdated"
    OBVIOUS
  <2>4. Flags' = AppliedType(FlagTypes)'
    BY DEF FlagTypes
  <2>5. QED
    BY <2>1, <2>2, <2>3, <2>4
<1>3. /\ \A i : Latest(Flags \cup {m}, i) <=> i = m
      /\ \A i : Latest(Readings \cup {m}, i) <=> i = m
  <2>1. /\ Flags \in SUBSET Nat /\ \A i \in Flags : i < m
        /\ Readings \in SUBSET Nat /\ \A i \in Readings : i < m
    BY AppliedBounds
  <2> HIDE DEF Flags, Readings, m
  <2>2. QED
    BY <1>1, <2>1, LatestAdded
<1>4. /\ track_status' = IF t \in FlagTypes THEN FlagOf(e) ELSE track_status
      /\ session_status' = IF t = "RedFlagStarted" THEN "suspended" ELSE session_status
      /\ weather' = IF t = "WeatherUpdated" THEN e.weather ELSE weather
  BY RaceStep
<1>5. /\ Flags' = {} => track_status' = "clear"
      /\ session_status' = "suspended" <=> Reds' # {}
  BY <1>2, <1>4 DEF FlagMatches
<1>6. ASSUME NEW i \in Flags', Latest(Flags', i)
      PROVE  track_status' = FlagOf(ordered'[i])
  <2>1. CASE t \in FlagTypes
    BY <1>1, <1>2, <1>3, <1>4, <1>6, <2>1
  <2>2. CASE t \notin FlagTypes
    BY <1>1, <1>2, <1>4, <1>6, <2>2 DEF FlagMatches
  <2>3. QED
    BY <2>1, <2>2
<1>7. FlagMatches'
  BY <1>5, <1>6 DEF FlagMatches
<1>8. ASSUME NEW i \in Readings', Latest(Readings', i)
      PROVE  weather' = ordered'[i].weather
  <2>1. CASE t = "WeatherUpdated"
    BY <1>1, <1>2, <1>3, <1>4, <1>8, <2>1
  <2>2. CASE t # "WeatherUpdated"
    BY <1>1, <1>2, <1>4, <1>8, <2>2 DEF WeatherMatches
  <2>3. QED
    BY <2>1, <2>2
<1>9. WeatherMatches'
  BY <1>2, <1>4, <1>8 DEF WeatherMatches
<1>10. QED
  BY <1>7, <1>9

\* A step of a replay keeps the race as the log has it.
LEMMA RaceStepMatches ==
  ASSUME TypeOK, NoCarAheadOfLeader, LeaderMatches, FlagMatches, WeatherMatches, ReplayStep
  PROVE  LeaderMatches' /\ FlagMatches' /\ WeatherMatches'
<1>1. CASE UNCHANGED <<ordered, events_applied, raceVars>>
  <2>1. LeaderMatches'
    BY <1>1 DEF LeaderMatches, LapReports, raceVars
  <2>2. FlagMatches' /\ WeatherMatches'
    BY <1>1 DEF FlagMatches, WeatherMatches, AppliedType, Latest, raceVars
  <2>3. QED
    BY <2>1, <2>2
<1>2. ASSUME NEW m \in Optional(Meeting), BeginReplay(m)
      PROVE  LeaderMatches' /\ FlagMatches' /\ WeatherMatches'
  <2>1. /\ current_lap' = 0 /\ track_status' = "clear"
        /\ session_status' = None /\ weather' = None /\ events_applied' = 0
    BY <1>2 DEF BeginReplay, ResetRace
  <2>2. LapReports' = {} /\ \A T : AppliedType(T)' = {}
    BY <2>1 DEF LapReports, AppliedType
  <2>3. QED
    BY <2>1, <2>2, ReplayAssumption DEF LeaderMatches, FlagMatches, WeatherMatches
<1>3. ASSUME NEW e \in Source, ApplyEvent(e)
      PROVE  LeaderMatches' /\ FlagMatches' /\ WeatherMatches'
  BY <1>3, LeaderMatchesStep, FlagAndWeatherStep
<1>4. QED
  BY <1>1, <1>2, <1>3 DEF ReplayStep

\* RaceMatchesLog for every log: the leader's lap, the flag, the session and
\* the weather are those the replayed prefix calls for.
THEOREM RaceSummarisesLog == Spec => []RaceMatchesLog
<1>1. Init => LeaderMatches /\ FlagMatches /\ WeatherMatches
  BY NothingApplied, ReplayAssumption
     DEF Init, EmptyRace, LeaderMatches, FlagMatches, WeatherMatches
<1>2. /\ TypeOK /\ NoCarAheadOfLeader
      /\ LeaderMatches /\ FlagMatches /\ WeatherMatches
      /\ [Next]_vars
      => (LeaderMatches /\ FlagMatches /\ WeatherMatches)'
  BY StepCases, RaceStepMatches
<1>3. QED
  BY <1>1, <1>2, TypeCorrect, LeaderLeads, RaceMatchesLogParts, PTL DEF Spec

\* RecentIsTail for every RecentKept of at least 2: recent_events is exactly the
\* labels of the last events folded.  (A limit of 1 would keep every label:
\* the slice state_events[-0:] is the whole list.)
THEOREM RecentSummarisesLog == Spec => []RecentIsTail
<1>1. Init => RecentIsTail
  BY ReplayAssumption DEF Init, EmptyRace, RecentIsTail
<1>2. TypeOK /\ RecentIsTail /\ [Next]_vars => RecentIsTail'
  <2> SUFFICES ASSUME TypeOK, RecentIsTail, [Next]_vars
               PROVE  RecentIsTail'
    OBVIOUS
  <2>1. CASE UNCHANGED <<ordered, events_applied, raceVars>>
    BY <2>1 DEF RecentIsTail, raceVars
  <2>2. ASSUME NEW m \in Optional(Meeting), BeginReplay(m)
        PROVE  RecentIsTail'
    BY <2>2, ReplayAssumption DEF BeginReplay, ResetRace, RecentIsTail
  <2>3. ASSUME NEW e \in Source, ApplyEvent(e)
        PROVE  RecentIsTail'
    <3> DEFINE n == events_applied
               r == recent_events
               new == recent_events'
    <3>1. /\ Fold(e) /\ n \in Nat /\ n' = n + 1
          /\ ordered' = ordered /\ ordered[n + 1] = e /\ new = Record(r, e)
      BY <2>3, ApplyIsFold, FoldFrame
    <3>2. /\ RecentKept \in Nat /\ RecentKept >= 2
          /\ r \in Seq(EventType \X Optional(Driver))
          /\ Len(r) \in Nat /\ Len(r) <= RecentKept
          /\ Label(e) \in EventType \X Optional(Driver)
      BY ReplayAssumption, EventFields DEF TypeOK, Label
    <3>3. /\ Len(new) = IF Len(r) = RecentKept THEN RecentKept ELSE Len(r) + 1
          /\ new[Len(new)] = Label(e)
          /\ \A k \in 1..Len(new) - 1 : new[k] = r[k + Len(r) + 1 - Len(new)]
      <4> HIDE DEF r, new
      <4>1. QED
        BY <3>1, <3>2, RecordType
    <3>4. /\ Len(r) = IF n < RecentKept THEN n ELSE RecentKept
          /\ \A k \in 1..Len(r) : r[k] = Label(ordered[n - Len(r) + k])
      BY DEF RecentIsTail
    <3>5. Len(new) = IF n + 1 < RecentKept THEN n + 1 ELSE RecentKept
      <4> HIDE DEF r, new, n
      <4>1. QED
        BY <3>1, <3>2, <3>3, <3>4
    <3>6. ASSUME NEW k \in 1..Len(new)
          PROVE  new[k] = Label(ordered[n + 1 - Len(new) + k])
      <4> HIDE DEF r, new, n
      <4>1. Len(new) \in Nat /\ k \in Nat
        BY <3>1, <3>2, <3>5
      <4>2. CASE k = Len(new)
        <5>1. n + 1 - Len(new) + k = n + 1
          BY <3>1, <4>1, <4>2
        <5>2. QED
          BY <3>1, <3>3, <4>2, <5>1
      <4>3. CASE k # Len(new)
        <5> DEFINE j == k + Len(r) + 1 - Len(new)
        <5>1. j \in 1..Len(r) /\ k \in 1..Len(new) - 1
          BY <3>2, <3>3, <4>1, <4>3
        <5>2. n - Len(r) + j = n + 1 - Len(new) + k
          BY <3>1, <3>2, <4>1
        <5>3. new[k] = r[j]
          BY <3>3, <5>1
        <5> HIDE DEF j
        <5>4. QED
          BY <3>4, <5>1, <5>2, <5>3
      <4>4. QED
        BY <4>2, <4>3
    <3>7. QED
      BY <3>1, <3>5, <3>6 DEF RecentIsTail
  <2>4. QED
    BY <2>1, <2>2, <2>3, StepCases DEF ReplayStep
<1>3. QED
  BY <1>1, <1>2, TypeCorrect, PTL DEF Spec

-----------------------------------------------------------------------------
(* A replay moves forward. *)

\* The replay reads a sorted sequence, and its clock is that of the last event.
InOrder ==
  \A k, l \in 1..Len(ordered) : k < l => ~KeyLess(ordered[l], ordered[k])
ClockFollows ==
  timestamp = IF events_applied = 0 THEN None ELSE ordered[events_applied].event_time

\* ReplayMovesForward for every log: neither world time, nor the leader's lap,
\* nor a car's stops, nor its retirement is ever taken back within a replay.
THEOREM ReplayForward == Spec => ReplayMovesForward
<1>1. Init => InOrder /\ ClockFollows
  BY DEF Init, EmptyRace, InOrder, ClockFollows
<1>2. TypeOK /\ InOrder /\ ClockFollows /\ [Next]_vars => (InOrder /\ ClockFollows)'
  <2> SUFFICES ASSUME TypeOK, InOrder, ClockFollows, [Next]_vars
               PROVE  InOrder' /\ ClockFollows'
    OBVIOUS
  <2>1. CASE UNCHANGED <<ordered, events_applied, raceVars>>
    BY <2>1 DEF InOrder, ClockFollows, raceVars
  <2>2. ASSUME NEW m \in Optional(Meeting), BeginReplay(m)
        PROVE  InOrder' /\ ClockFollows'
    <3>1. log \in Seq(Source) /\ log \in Seq(Event)
      BY ReplayAssumption DEF TypeOK
    <3>2. ordered' = ReplayOrder(log) /\ Len(ordered') = Len(log)
      BY <2>2, <3>1, ReplayOrderIsLog, ReplayAssumption DEF BeginReplay
    <3>3. InOrder'
      BY <3>1, <3>2, ReplayOrderIsSorted DEF InOrder
    <3>4. ClockFollows'
      BY <2>2 DEF BeginReplay, ResetRace, ClockFollows
    <3>5. QED
      BY <3>3, <3>4
  <2>3. ASSUME NEW e \in Source, ApplyEvent(e)
        PROVE  InOrder' /\ ClockFollows'
    <3>1. Fold(e)
      BY <2>3, ApplyIsFold
    <3>2. QED
      BY <3>1, FoldFrame DEF Fold, InOrder, ClockFollows
  <2>4. QED
    BY <2>1, <2>2, <2>3, StepCases DEF ReplayStep
<1> DEFINE Forward ==
      events_applied' = events_applied + 1 =>
        /\ timestamp # None => timestamp <= timestamp'
        /\ current_lap <= current_lap'
        /\ \A d \in DOMAIN drivers :
             /\ d \in DOMAIN drivers'
             /\ drivers[d].pit_stop_count <= drivers'[d].pit_stop_count
             /\ drivers[d].retired => drivers'[d].retired
<1>3. TypeOK /\ NoCarAheadOfLeader /\ InOrder /\ ClockFollows /\ [Next]_vars => [Forward]_vars
  <2> SUFFICES ASSUME TypeOK, NoCarAheadOfLeader, InOrder, ClockFollows, [Next]_vars,
                      events_applied' = events_applied + 1
               PROVE  Forward
    OBVIOUS
  <2>1. events_applied \in Nat
    BY DEF TypeOK
  <2>2. PICK e \in Source : ApplyEvent(e)
    <3>1. events_applied' # events_applied /\ events_applied' # 0
      BY <2>1
    <3>2. QED
      BY <3>1, StepCases DEF ReplayStep, BeginReplay
  <2>3. Fold(e)
    BY <2>2, ApplyIsFold
  <2>4. timestamp # None => timestamp <= timestamp'
    <3> SUFFICES ASSUME timestamp # None
                 PROVE  timestamp <= timestamp'
      OBVIOUS
    <3>1. /\ events_applied # 0 /\ timestamp = ordered[events_applied].event_time
          /\ timestamp' = e.event_time /\ ordered[events_applied + 1] = e
          /\ events_applied + 1 \in 1..Len(ordered)
      BY <2>3, FoldFrame DEF ClockFollows, Fold
    <3>2. ~KeyLess(e, ordered[events_applied])
      BY <2>1, <3>1 DEF InOrder
    <3>3. ordered[events_applied] \in Source
      BY <2>1, <3>1 DEF TypeOK
    <3>4. ordered[events_applied].event_time \in Nat /\ e.event_time \in Nat
      BY <3>3, EventFields
    <3>5. QED
      BY <3>1, <3>2, <3>4 DEF KeyLess
  <2>5. current_lap <= current_lap'
    BY <2>2, LeaderStep
  <2>6. ASSUME NEW d \in DOMAIN drivers
        PROVE  /\ d \in DOMAIN drivers'
               /\ drivers[d].pit_stop_count <= drivers'[d].pit_stop_count
               /\ drivers[d].retired => drivers'[d].retired
    <3>1. d \in Driver /\ Car(d) = drivers[d] /\ Car(d) \in DriverState
      BY CarType DEF TypeOK, Car
    <3>2. /\ Car(d).pit_stop_count \in Nat
          /\ Car(d).retired \in BOOLEAN
      BY <3>1 DEF DriverState
    <3>3. d \in DOMAIN drivers' /\ Car(d)' = drivers'[d]
      <4>1. d \in DOMAIN drivers'
        BY <2>2, <3>1, CarStep, OtherCars
      <4>2. QED
        BY <4>1 DEF Car
    <3>4. CASE e.driver_id # d
      BY <2>2, <3>1, <3>2, <3>3, <3>4, OtherCars
    <3>5. CASE e.driver_id = d
      <4>1. /\ Car(d)'.pit_stop_count = IF e.event_type = "PitStopCompleted"
                                        THEN Car(d).pit_stop_count + 1
                                        ELSE Car(d).pit_stop_count
            /\ Car(d)'.retired = IF e.event_type \in {"DriverRetired", "DriverStopped"}
                                 THEN TRUE ELSE Car(d).retired
        BY <2>2, <3>1, <3>5, CarStep
      <4>2. QED
        BY <3>1, <3>2, <3>3, <4>1
    <3>6. QED
      BY <3>4, <3>5
  <2>7. QED
    BY <2>4, <2>5, <2>6
<1>4. QED
  BY <1>1, <1>2, <1>3, TypeCorrect, LeaderLeads, PTL DEF Spec, ReplayMovesForward

-----------------------------------------------------------------------------
(* A sorted log stays as it is when it is sorted again. *)

LEMMA SortedLogStays ==
  ASSUME NEW d \in Seq(Event), \A i, j \in DOMAIN d : i < j => ~KeyLess(d[j], d[i])
  PROVE  ReplayOrder(d) = d
<1>1. /\ DOMAIN d = 1..Len(d) /\ Len(d) \in Nat
      /\ \A i, j \in DOMAIN d : i < j => ~KeyLess(d[j], d[i])
  OBVIOUS
<1>2. \A i, j \in DOMAIN d : Before(d, i, j) <=> i < j
  <2> SUFFICES ASSUME NEW i \in DOMAIN d, NEW j \in DOMAIN d
               PROVE  Before(d, i, j) <=> i < j
    OBVIOUS
  <2>1. i \in Nat /\ j \in Nat
    BY <1>1
  <2>2. i < j => ~KeyLess(d[j], d[i])
    BY <1>1
  <2>3. j < i => ~KeyLess(d[i], d[j])
    BY <1>1
  <2>4. i = j => ~KeyLess(d[i], d[j])
    BY KeyFields DEF KeyLess
  <2>5. QED
    BY <2>1, <2>2, <2>3, <2>4 DEF Before
<1>3. \A j \in DOMAIN d : Rank(d, j) = j
  <2> SUFFICES ASSUME NEW j \in DOMAIN d PROVE Rank(d, j) = j
    OBVIOUS
  <2>1. j \in 1..Len(d) /\ j \in Nat
    BY <1>1
  <2> DEFINE earlier == {i \in DOMAIN d : Before(d, i, j)}
  <2>2. \A i : i \in earlier <=> i \in 1..(j - 1)
    BY <1>1, <1>2, <2>1
  <2>3. Rank(d, j) = Cardinality(earlier) + 1
    BY DEF Rank
  <2> HIDE DEF earlier
  <2>4. earlier = 1..(j - 1)
    BY <2>2
  <2>5. Cardinality(1..(j - 1)) = j - 1
    BY <2>1, FS_Interval
  <2>6. QED
    BY <2>1, <2>3, <2>4, <2>5
<1>4. \A k \in 1..Len(d) : ReplayOrder(d)[k] = d[k]
  BY <1>1, <1>3 DEF ReplayOrder
<1>5. /\ DOMAIN ReplayOrder(d) = 1..Len(d)
      /\ ReplayOrder(d) = [k \in 1..Len(d) |-> ReplayOrder(d)[k]]
  BY DEF ReplayOrder
<1>6. d = [k \in 1..Len(d) |-> d[k]]
  BY <1>1
<1>7. QED
  BY <1>4, <1>5, <1>6

-----------------------------------------------------------------------------
(* Pricing: the cut. *)

\* Keeping the first m places keeps the beginning of the race.
LEMMA BeginningKept ==
  ASSUME race \in Seq(Source), NEW m \in 0..Len(race)
  PROVE  Keep(1..m) = SubSeq(race, 1, m)
<1>1. m \in Nat /\ Cardinality(1..m) = m
  BY FS_Interval
<1>2. \A i \in 1..m : Cardinality({j \in 1..m : j <= i}) = i
  <2> SUFFICES ASSUME NEW i \in 1..m PROVE Cardinality({j \in 1..m : j <= i}) = i
    OBVIOUS
  <2>1. {j \in 1..m : j <= i} = 1..i /\ i \in Nat /\ i >= 1
    BY <1>1
  <2>2. Cardinality(1..i) = i
    BY <2>1, FS_Interval
  <2>3. QED
    BY <2>1, <2>2, Zenon
<1>3. \A k \in 1..m : (CHOOSE i \in 1..m : Cardinality({j \in 1..m : j <= i}) = k) = k
  BY <1>2
<1>4. Keep(1..m) = [k \in 1..m |-> race[k]]
  <2>1. Keep(1..m) = [k \in 1..m |-> race[CHOOSE i \in 1..m : Cardinality({j \in 1..m : j <= i}) = k]]
    BY <1>1, Zenon DEF Keep
  <2>2. QED
    BY <1>3, <2>1
<1>5. SubSeq(race, 1, m) = [k \in 1..m |-> race[k]]
  BY <1>1
<1>6. QED
  BY <1>4, <1>5

\* The events up to a moment are a beginning of a race in replay order.
LEMMA CutIsABeginning ==
  ASSUME race \in Races, NEW n \in Nat
  PROVE  \E k \in 0..Len(race) :
           /\ EventsThroughLap(n) = SubSeq(race, 1, k)
           /\ \A i \in DOMAIN race : LapThrough(race[i], n) => i \in 1..k
<1> DEFINE Laps == {i \in DOMAIN race : LapThrough(race[i], n)}
           times == CutoffTimes(n)
           kept == {i \in DOMAIN race : race[i].event_time <= Max(times)}
<1>1. /\ race \in Seq(Source) /\ DOMAIN race = 1..Len(race) /\ Len(race) \in Nat
      /\ \A i, j \in DOMAIN race : i < j => ~KeyLess(race[j], race[i])
  BY PricingAssumption, LoadedAssumption
<1>2. \A i \in DOMAIN race : race[i].event_time \in Nat
  <2>1. \A i \in DOMAIN race : race[i] \in Source
    BY <1>1
  <2>2. QED
    BY <2>1, EventFields
<1>3. \A i, j \in DOMAIN race : i <= j => race[i].event_time <= race[j].event_time
  BY <1>1, <1>2 DEF KeyLess
<1>4. times = {race[i].event_time : i \in Laps}
  BY DEF CutoffTimes
<1>5. CASE times = {}
  <2>1. EventsThroughLap(n) = race /\ Laps = {}
    BY <1>4, <1>5 DEF EventsThroughLap
  <2>2. race = SubSeq(race, 1, Len(race))
    BY <1>1
  <2>3. \A i \in DOMAIN race : i \in 1..Len(race)
    BY <1>1
  <2>4. Len(race) \in 0..Len(race)
    BY <1>1
  <2>5. QED
    BY <2>1, <2>2, <2>3, <2>4
<1>6. CASE times # {}
  <2>1. \E i \in DOMAIN race : TRUE
    BY <1>4, <1>6
  <2>2. Len(race) \in DOMAIN race
    BY <1>1, <2>1
  <2> DEFINE last == race[Len(race)].event_time
  <2>3. times \subseteq Nat /\ last \in Nat /\ \A t \in times : t <= last
    BY <1>1, <1>2, <1>3, <1>4, <2>2
  <2> HIDE DEF times, last
  <2>4. Max(times) \in times /\ \A t \in times : t <= Max(times)
    BY <1>6, <2>3, GreatestNatural
  <2>5. PICK c \in Laps : race[c].event_time = Max(times)
    BY <1>4, <2>4
  <2>6. c \in kept /\ Laps \subseteq kept /\ kept \subseteq 1..Len(race)
    BY <1>1, <1>2, <1>4, <2>4, <2>5
  <2>7. \A i \in DOMAIN race, j \in kept : i <= j => i \in kept
    BY <1>2, <1>3, <2>5
  <2> HIDE DEF kept, Laps
  <2>8. kept \subseteq Nat /\ \A i \in kept : i <= Len(race)
    BY <1>1, <2>6
  <2>9. Max(kept) \in kept /\ \A i \in kept : i <= Max(kept)
    BY <1>1, <2>6, <2>8, GreatestNatural
  <2> DEFINE m == Max(kept)
  <2> HIDE DEF m
  <2>10. m \in 0..Len(race) /\ kept = 1..m
    <3>1. m \in kept /\ m \in 1..Len(race) /\ \A i \in kept : i <= m
      BY <2>6, <2>9 DEF m
    <3>2. \A i \in 1..m : i \in DOMAIN race /\ i <= m
      BY <1>1, <3>1
    <3>3. \A i \in 1..m : i \in kept
      BY <2>7, <3>1, <3>2
    <3>4. \A i \in kept : i \in 1..Len(race) /\ i <= m
      BY <2>6, <3>1
    <3>5. \A i \in kept : i \in 1..m
      BY <1>1, <3>1, <3>4
    <3>6. m \in 0..Len(race)
      BY <1>1, <3>1
    <3>7. kept = 1..m
      BY <3>3, <3>5
    <3>8. QED
      BY <3>6, <3>7
  <2>11. EventsThroughLap(n) = Keep(kept)
    BY <1>6 DEF EventsThroughLap, kept, times
  <2>12. EventsThroughLap(n) = SubSeq(race, 1, m)
    BY <1>1, <2>10, <2>11, BeginningKept
  <2>13. \A i \in DOMAIN race : LapThrough(race[i], n) => i \in 1..m
    BY <2>6, <2>10 DEF Laps
  <2>14. QED
    BY <2>10, <2>12, <2>13
<1>7. QED
  BY <1>5, <1>6
-----------------------------------------------------------------------------
(* Pricing: the replay of the cut, and the input made from it. *)

\* The replay's invariants, of the cut; a finished replay has folded all of
\* it, and the simulator's input is the one its last state gives.
PricingInv ==
  /\ race \in Races
  /\ at_lap \in {None} \cup 1..TotalLaps
  /\ TypeOK /\ ReplaysLog /\ CarsMatchLog /\ NoCarAheadOfLeader
  /\ LeaderMatches /\ FlagMatches /\ WeatherMatches
  /\ at_lap = None => phase = "idle"
  /\ at_lap # None => log = EventsThroughLap(at_lap)
  /\ phase = "done" => events_applied = Len(ordered)
  /\ sim # None => phase = "done" /\ sim = SimInput

LEMMA CutStays ==
  ASSUME race' = race, at_lap' = at_lap
  PROVE  EventsThroughLap(at_lap)' = EventsThroughLap(at_lap)
  BY DEF EventsThroughLap, CutoffTimes, Keep

LEMMA PricingInvHolds == PricingSpec => []PricingInv
<1>1. PricingInit => PricingInv
  <2> SUFFICES ASSUME PricingInit PROVE PricingInv
    OBVIOUS
  <2>1. Init /\ race \in Races /\ at_lap = None /\ sim = None
    BY DEF PricingInit
  <2>2. TypeOK
    BY <2>1, ReplayAssumption DEF Init, EmptyRace, TypeOK, Optional
  <2>3. CarsMatchLog
    BY <2>1, FreshCarsMatch DEF Init, EmptyRace
  <2>4. NoCarAheadOfLeader
    BY <2>1 DEF Init, EmptyRace, NoCarAheadOfLeader, Car, NewDriver
  <2>5. LeaderMatches /\ FlagMatches /\ WeatherMatches
    BY <2>1, NothingApplied, ReplayAssumption
       DEF Init, EmptyRace, LeaderMatches, FlagMatches, WeatherMatches
  <2>6. phase = "idle"
    BY <2>1 DEF Init
  <2>7. QED
    BY <2>1, <2>2, <2>3, <2>4, <2>5, <2>6 DEF PricingInv, ReplaysLog
<1>2. PricingInv /\ [PricingNext]_allVars => PricingInv'
  <2> SUFFICES ASSUME PricingInv, [PricingNext]_allVars PROVE PricingInv'
    OBVIOUS
  <2>1. /\ race \in Races /\ race \in Seq(Source)
        /\ TypeOK /\ ReplaysLog /\ CarsMatchLog /\ NoCarAheadOfLeader
        /\ LeaderMatches /\ FlagMatches /\ WeatherMatches
    BY PricingAssumption DEF PricingInv
  <2>2. ASSUME ReplayStep
        PROVE  CarsMatchLog' /\ NoCarAheadOfLeader' /\ LeaderMatches' /\ FlagMatches' /\ WeatherMatches'
    BY <2>1, <2>2, CarsStep, LeaderLeadsStep, RaceStepMatches
  <2>3. ASSUME NEW n \in 1..TotalLaps, AskFor(n)
        PROVE  PricingInv'
    <3>1. /\ at_lap = None /\ at_lap' = n /\ log' = EventsThroughLap(n) /\ phase' = phase
          /\ UNCHANGED <<ordered, events_applied, raceVars, data_snapshot_id>>
          /\ race' = race /\ sim' = sim
      BY <2>3 DEF AskFor
    <3>2. phase = "idle" /\ sim = None /\ n \in Nat
      BY <3>1 DEF PricingInv
    <3>3. log' \in Seq(Source)
      <4>1. PICK k \in 0..Len(race) : log' = SubSeq(race, 1, k)
        BY <2>1, <3>1, <3>2, CutIsABeginning
      <4>2. QED
        BY <2>1, <4>1
    <3>4. TypeOK'
      BY <2>1, <3>1, <3>3 DEF TypeOK, raceVars
    <3>5. EventsThroughLap(n)' = EventsThroughLap(n)
      BY <3>1 DEF EventsThroughLap, CutoffTimes, Keep
    <3>6. log' = EventsThroughLap(at_lap)'
      BY <3>1, <3>5 DEF EventsThroughLap, CutoffTimes, Keep
    <3>7. ReplaysLog'
      BY <3>1, <3>2 DEF ReplaysLog
    <3>8. QED
      BY <2>1, <2>2, <3>1, <3>2, <3>4, <3>6, <3>7 DEF PricingInv, ReplayStep
  <2>4. ASSUME Replay
        PROVE  PricingInv'
    <3>1. at_lap # None /\ at_lap' = at_lap /\ race' = race /\ sim' = sim
      BY <2>4 DEF Replay, pricingVars
    <3>2. Next
      BY <2>4 DEF Replay, Next, Optional
    <3>3. TypeOK'
      BY <2>1, <3>2, TypeStep
    <3>4. ReplayStep
      BY <3>2, StepCases
    <3>5. /\ log' = log /\ phase # "done"
          /\ phase' = "done" => events_applied' = Len(ordered')
          /\ ReplaysLog'
      <4>1. CASE BeginReplay(None)
        BY <4>1 DEF BeginReplay, ReplaysLog
      <4>2. CASE \E e \in Source : ApplyEvent(e)
        BY <2>1, <4>2, ApplyIsFold DEF Fold, ReplaysLog
      <4>3. CASE FinishReplay
        BY <2>1, <4>3 DEF FinishReplay, ReplaysLog
      <4>4. QED
        BY <2>4, <4>1, <4>2, <4>3 DEF Replay
    <3>6. sim = None
      BY <3>5 DEF PricingInv
    <3>7. log' = EventsThroughLap(at_lap)'
      BY <3>1, <3>5, CutStays DEF PricingInv
    <3>8. QED
      BY <2>1, <2>2, <3>1, <3>3, <3>4, <3>5, <3>6, <3>7 DEF PricingInv
  <2>5. CASE BuildSimInput
    <3>1. /\ phase = "done" /\ sim' = SimInput
          /\ UNCHANGED vars /\ race' = race /\ at_lap' = at_lap
      BY <2>5 DEF BuildSimInput
    <3>2. phase' = phase /\ log' = log /\ events_applied' = events_applied /\ ordered' = ordered
      BY <3>1 DEF vars
    <3>3. TypeOK' /\ ReplayStep
      BY <2>1, <3>1, TypeStep, StepCases
    <3>4. SimInput' = SimInput
      BY <3>1 DEF vars, raceVars, SimInput, AgeOrZero, Gap, IsActive, PositionOr, LeaderPosition
    <3>5. log' = EventsThroughLap(at_lap)' \/ at_lap = None
      BY <3>1, <3>2, CutStays DEF PricingInv
    <3>6. ReplaysLog'
      BY <2>1, <3>2 DEF ReplaysLog
    <3>7. QED
      BY <2>1, <2>2, <3>1, <3>2, <3>3, <3>4, <3>5, <3>6 DEF PricingInv
  <2>6. CASE UNCHANGED allVars
    <3>1. UNCHANGED vars /\ race' = race /\ at_lap' = at_lap /\ sim' = sim
      BY <2>6 DEF allVars, pricingVars
    <3>2. phase' = phase /\ log' = log /\ events_applied' = events_applied /\ ordered' = ordered
      BY <3>1 DEF vars
    <3>3. TypeOK' /\ ReplayStep
      BY <2>1, <3>1, TypeStep, StepCases
    <3>4. SimInput' = SimInput
      BY <3>1 DEF vars, raceVars, SimInput, AgeOrZero, Gap, IsActive, PositionOr, LeaderPosition
    <3>5. log' = EventsThroughLap(at_lap)' \/ at_lap = None
      BY <3>1, <3>2, CutStays DEF PricingInv
    <3>6. ReplaysLog'
      BY <2>1, <3>2 DEF ReplaysLog
    <3>7. QED
      BY <2>1, <2>2, <3>1, <3>2, <3>3, <3>4, <3>5, <3>6 DEF PricingInv
  <2>7. QED
    BY <2>3, <2>4, <2>5, <2>6 DEF PricingNext
<1>3. QED
  BY <1>1, <1>2, PTL DEF PricingSpec

(* A race cut after a lap is a beginning of the race that lacks no lap up to *)
(* it (_events_through_lap), for every loaded log and every lap.             *)
THEOREM CutAlwaysTheRaceSoFar == PricingSpec => []CutIsTheRaceSoFar
<1>1. PricingInv => CutIsTheRaceSoFar
  <2> SUFFICES ASSUME PricingInv, Asked PROVE CutIsTheRaceSoFar
    BY DEF CutIsTheRaceSoFar
  <2>1. /\ race \in Races /\ race \in Seq(Source) /\ at_lap \in Nat
        /\ log = EventsThroughLap(at_lap)
    BY PricingAssumption DEF PricingInv, Asked
  <2>2. PICK k \in 0..Len(race) :
          /\ log = SubSeq(race, 1, k)
          /\ \A i \in DOMAIN race : LapThrough(race[i], at_lap) => i \in 1..k
    BY <2>1, CutIsABeginning
  <2>3. Cut = 1..k
    BY <2>1, <2>2 DEF Cut
  <2>4. QED
    BY <2>2, <2>3 DEF CutIsTheRaceSoFar
<1>2. QED
  BY <1>1, PricingInvHolds, PTL
\* When the input is made, the whole cut has been folded in its own order.
LEMMA WholeCutFolded ==
  ASSUME PricingInv, Priced
  PROVE  /\ sim = SimInput /\ log \in Seq(Source) /\ ordered = log
         /\ Cut = 1..events_applied /\ events_applied \in Nat
         /\ Numbered(Cut) = LapReports
         /\ \A d : OfCar(Numbered(Cut), d) = LapReports \cap Applied({"LapCompleted"}, d)
         /\ \A d, T : {i \in OfCar(Cut, d) : log[i].event_type \in T} = Applied(T, d)
         /\ \A i \in Cut : log[i].position \in Optional(1..RetiredGap)
<1>1. /\ phase = "done" /\ sim = SimInput /\ log \in Seq(Source)
      /\ events_applied = Len(ordered) /\ ordered = ReplayOrder(log)
      /\ race \in Races /\ race \in Seq(Source)
  BY PricingAssumption DEF PricingInv, Priced, TypeOK, ReplaysLog
<1>2. at_lap \in Nat /\ log = EventsThroughLap(at_lap)
  BY <1>1 DEF PricingInv
<1>3. PICK k \in 0..Len(race) : log = SubSeq(race, 1, k)
  BY <1>1, <1>2, CutIsABeginning
<1>4. DOMAIN log = 1..k /\ \A i \in 1..k : log[i] = race[i] /\ i \in DOMAIN race
  BY <1>1, <1>3
<1>5. \A i, j \in DOMAIN log : i < j => ~KeyLess(log[j], log[i])
  BY <1>1, <1>4, LoadedAssumption
<1>6. ordered = log
  <2>1. log \in Seq(Event)
    BY <1>1, ReplayAssumption
  <2>2. QED
    BY <1>1, <1>5, <2>1, SortedLogStays
<1>7. Cut = 1..events_applied /\ events_applied \in Nat
  BY <1>1, <1>6 DEF Cut
<1>8. Numbered(Cut) = LapReports
  BY <1>6, <1>7 DEF Numbered, LapReports
<1>9. \A d : OfCar(Numbered(Cut), d) = LapReports \cap Applied({"LapCompleted"}, d)
  BY <1>6, <1>8 DEF OfCar, LapReports, Applied
<1>10. \A d, T : {i \in OfCar(Cut, d) : log[i].event_type \in T} = Applied(T, d)
  BY <1>6, <1>7 DEF OfCar, Applied
<1>11. \A i \in Cut : log[i].position \in Optional(1..RetiredGap)
  BY <1>1, <1>4, PositionAssumption DEF Cut
<1>12. QED
  BY <1>1, <1>6, <1>7, <1>8, <1>9, <1>10, <1>11

\* A set of places of the cut that is not empty has a last one.
LEMMA LastPlace ==
  ASSUME PricingInv, Priced, NEW I \in SUBSET Cut, I # {}
  PROVE  Latest(I, Max(I))
<1>1. I \subseteq 1..events_applied /\ events_applied \in Nat
  BY WholeCutFolded
<1>2. I \subseteq Nat /\ \A i \in I : i <= events_applied
  BY <1>1
<1>3. Max(I) \in I /\ \A i \in I : i <= Max(I)
  BY <1>1, <1>2, GreatestNatural
<1>4. QED
  BY <1>3 DEF Latest

\* What the cut says of a car of the input.
LEMMA CarInTheCut ==
  ASSUME PricingInv, Priced, NEW d \in DOMAIN drivers
  PROVE  LET Out     == Applied({"DriverRetired", "DriverStopped"}, d)
             Placing == Applied({"LapCompleted", "PositionChanged"}, d)
             Laps    == LapReports \cap Applied({"LapCompleted"}, d)
         IN  /\ drivers[d] \in DriverState
             /\ drivers[d].retired <=> Out # {}
             /\ drivers[d].position = IF Placing = {} THEN None ELSE log[Max(Placing)].position
             /\ drivers[d].lap_number = IF Laps = {} THEN 0 ELSE log[Max(Laps)].lap
             /\ drivers[d].position \in Optional(1..RetiredGap)
<1> DEFINE Placing == Applied({"LapCompleted", "PositionChanged"}, d)
           Laps == LapReports \cap Applied({"LapCompleted"}, d)
<1>1. /\ d \in Driver /\ drivers[d] \in DriverState /\ Car(d) = drivers[d]
      /\ PositionOf(d) /\ LapOf(d) /\ RetirementOf(d)
  BY DEF PricingInv, TypeOK, CarsMatchLog, Car
<1>2. /\ ordered = log /\ Cut = 1..events_applied
      /\ \A i \in Cut : log[i].position \in Optional(1..RetiredGap)
  BY WholeCutFolded
<1>3. Placing \subseteq Cut /\ Laps \subseteq Cut
  BY <1>2 DEF Applied, LapReports
<1>4. /\ Placing # {} => Latest(Placing, Max(Placing))
      /\ Laps # {} => Latest(Laps, Max(Laps))
  <2> HIDE DEF Placing, Laps
  <2>1. QED
    BY <1>3, LastPlace
<1>5. drivers[d].position = IF Placing = {} THEN None ELSE log[Max(Placing)].position
  <2>1. /\ Placing = {} => drivers[d].position = None
        /\ \A i \in Placing : Latest(Placing, i) => drivers[d].position = log[i].position
    BY <1>1, <1>2 DEF PositionOf
  <2> HIDE DEF Placing
  <2>2. QED
    BY <1>4, <2>1 DEF Latest
<1>6. drivers[d].lap_number = IF Laps = {} THEN 0 ELSE log[Max(Laps)].lap
  <2>1. /\ Laps = {} => drivers[d].lap_number = 0
        /\ \A i \in Laps : Latest(Laps, i) => drivers[d].lap_number = log[i].lap
    BY <1>1, <1>2 DEF LapOf
  <2> HIDE DEF Laps
  <2>2. QED
    BY <1>4, <2>1 DEF Latest
<1>7. drivers[d].position \in Optional(1..RetiredGap)
  <2>1. CASE Placing = {}
    BY <1>5, <2>1 DEF Optional
  <2>2. CASE Placing # {}
    <3>1. Max(Placing) \in Cut
      BY <1>3, <1>4, <2>2 DEF Latest
    <3>2. QED
      BY <1>2, <1>5, <2>2, <3>1
  <2>3. QED
    BY <2>1, <2>2
<1>8. QED
  BY <1>1, <1>5, <1>6, <1>7 DEF RetirementOf

(* The simulator counts a car as retired exactly when the log up to the cut  *)
(* says so (build_sim_input), for every loaded log and every lap.            *)
THEOREM AlwaysRetiredAsTheLogSays == PricingSpec => []RetiredAsTheLogSays
<1>1. PricingInv => RetiredAsTheLogSays
  <2> SUFFICES ASSUME PricingInv, Priced, NEW d \in DOMAIN sim.retired
      PROVE  LET Out     == {i \in OfCar(Cut, d) : log[i].event_type \in {"DriverRetired", "DriverStopped"}}
                 Placing == {i \in OfCar(Cut, d) : log[i].event_type \in {"LapCompleted", "PositionChanged"}}
                 Lap     == IF OfCar(Numbered(Cut), d) = {} THEN 0
                            ELSE log[Max(OfCar(Numbered(Cut), d))].lap
             IN  sim.retired[d] <=>
                   \/ Out # {}
                   \/ Placing = {} \/ log[Max(Placing)].position = None
                   \/ \E i \in Numbered(Cut) : log[i].lap > Lap + ActiveLapTolerance
    BY Zenon DEF RetiredAsTheLogSays
  <2> DEFINE Out == {i \in OfCar(Cut, d) : log[i].event_type \in {"DriverRetired", "DriverStopped"}}
             Placing == {i \in OfCar(Cut, d) : log[i].event_type \in {"LapCompleted", "PositionChanged"}}
             Laps == OfCar(Numbered(Cut), d)
             Lap == IF Laps = {} THEN 0 ELSE log[Max(Laps)].lap
  <2>1. /\ sim = SimInput /\ ordered = log /\ Numbered(Cut) = LapReports
        /\ Out = Applied({"DriverRetired", "DriverStopped"}, d)
        /\ Placing = Applied({"LapCompleted", "PositionChanged"}, d)
        /\ Laps = LapReports \cap Applied({"LapCompleted"}, d)
    BY WholeCutFolded
  <2>2. d \in DOMAIN drivers /\ (sim.retired[d] <=> ~IsActive(d))
    BY <2>1 DEF SimInput
  <2>3. /\ drivers[d] \in DriverState
        /\ drivers[d].retired <=> Out # {}
        /\ drivers[d].position = IF Placing = {} THEN None ELSE log[Max(Placing)].position
        /\ drivers[d].lap_number = Lap
    <3> HIDE DEF Out, Placing, Laps
    <3>1. QED
      BY <2>1, <2>2, CarInTheCut
  <2>4. /\ Lap \in Nat /\ ActiveLapTolerance \in Nat /\ current_lap \in Nat
    BY <2>3, PricingAssumption DEF DriverState, PricingInv, TypeOK
  <2>5. \A i \in Numbered(Cut) : log[i].lap \in Nat /\ log[i].lap <= current_lap
    <3>1. log \in Seq(Source) /\ \A i \in Numbered(Cut) : log[i].lap <= current_lap
      BY <2>1, WholeCutFolded DEF PricingInv, LeaderMatches
    <3>2. \A i \in Numbered(Cut) : log[i] \in Source /\ log[i].lap # None
      BY <3>1 DEF Numbered, Cut
    <3>3. QED
      BY <3>1, <3>2, EventFields
  <2>6. current_lap = 0 \/ \E i \in Numbered(Cut) : log[i].lap = current_lap
    BY <2>1 DEF PricingInv, LeaderMatches
  <2> HIDE DEF Out, Placing, Lap
  <2>7. Lap + ActiveLapTolerance >= current_lap
          <=> ~\E i \in Numbered(Cut) : log[i].lap > Lap + ActiveLapTolerance
    BY <2>4, <2>5, <2>6
  <2>8. IsActive(d) <=> /\ Out = {}
                        /\ ~(Placing = {} \/ log[Max(Placing)].position = None)
                        /\ Lap + ActiveLapTolerance >= current_lap
    BY <2>3 DEF IsActive
  <2>9. sim.retired[d] <=>
          \/ Out # {}
          \/ Placing = {} \/ log[Max(Placing)].position = None
          \/ \E i \in Numbered(Cut) : log[i].lap > Lap + ActiveLapTolerance
    BY <2>2, <2>7, <2>8
  <2>10. QED
    BY <2>9 DEF Out, Placing, Lap
<1>2. QED
  BY <1>1, PricingInvHolds, PTL
(* The simulator starts from the timing tower less the cars that silently    *)
(* stopped, in its order and with its ties, the first without a gap and the  *)
(* cars that are out behind all others (standings, build_sim_input).         *)
THEOREM AlwaysStartsInTowerOrder == PricingSpec => []SimStartsInTowerOrder
<1>1. PricingInv => SimStartsInTowerOrder
  <2> SUFFICES ASSUME PricingInv, Priced PROVE SimStartsInTowerOrder
    BY DEF SimStartsInTowerOrder
  <2> DEFINE Racing == {d \in DOMAIN sim.retired : ~sim.retired[d]}
             Place(d) == CHOOSE p \in {e[1] : e \in Standings} : <<p, d>> \in Standings
             Silent(d) == current_lap > drivers[d].lap_number + ActiveLapTolerance
             Ranked == {e[2] : e \in Standings}
             places == {drivers[d].position : d \in Racing}
  <2>1. sim = SimInput
    BY WholeCutFolded
  <2>2. /\ DOMAIN sim.retired = DOMAIN drivers
        /\ \A d \in DOMAIN drivers : /\ sim.retired[d] <=> ~IsActive(d)
                                     /\ sim.gap_to_leader[d] = Gap(d)
    BY <2>1 DEF SimInput
  <2>3. Racing = {d \in DOMAIN drivers : IsActive(d)}
    BY <2>2
  <2>4. /\ current_lap \in Nat /\ ActiveLapTolerance \in Nat /\ RetiredGap \in Nat
        /\ \A d \in DOMAIN drivers : /\ drivers[d].lap_number \in Nat
                                     /\ drivers[d].retired \in BOOLEAN
                                     /\ drivers[d].position # None =>
                                          drivers[d].position \in 1..RetiredGap
    BY CarInTheCut, PricingAssumption DEF PricingInv, TypeOK, DriverState, Optional
  <2>5. Standings = {<<drivers[d].position, d>> :
                      d \in {c \in DOMAIN drivers : drivers[c].position # None /\ ~drivers[c].retired}}
    BY DEF Standings
  <2>6. Ranked = {c \in DOMAIN drivers : drivers[c].position # None /\ ~drivers[c].retired}
    <3> DEFINE T == {c \in DOMAIN drivers : drivers[c].position # None /\ ~drivers[c].retired}
    <3>1. Standings = {<<drivers[d].position, d>> : d \in T}
      BY <2>5
    <3> HIDE DEF T
    <3>2. \A e \in Standings : e[2] \in T
      BY <3>1
    <3>3. ASSUME NEW d \in T
          PROVE  \E e \in Standings : e[2] = d
      <4>1. <<drivers[d].position, d>> \in Standings
        BY <3>1
      <4>2. QED
        BY <4>1
    <3>4. Ranked = T
      BY <3>2, <3>3
    <3>5. QED
      BY <3>4 DEF T
  <2>7. \A d \in Ranked : Place(d) = drivers[d].position
    <3> SUFFICES ASSUME NEW d \in Ranked PROVE Place(d) = drivers[d].position
      OBVIOUS
    <3>1. <<drivers[d].position, d>> \in Standings
      BY <2>5, <2>6
    <3>2. drivers[d].position \in {e[1] : e \in Standings}
      BY <3>1
    <3>3. \A p : <<p, d>> \in Standings => p = drivers[d].position
      BY <2>5
    <3>4. QED
      BY <3>1, <3>2, <3>3
  <2> HIDE DEF Racing, Place, Ranked
  <2>8. /\ Racing \subseteq Ranked
        /\ Ranked = Racing \cup {d \in Ranked : Silent(d)}
    BY <2>3, <2>4, <2>6 DEF IsActive
  <2>9. \A d \in Racing : /\ drivers[d].position \in 1..RetiredGap
                          /\ \A x : PositionOr(d, x) = drivers[d].position
    <3>1. \A d \in Racing : drivers[d].position \in 1..RetiredGap
      BY <2>3, <2>4, <2>6, <2>8
    <3>2. \A d \in Racing : drivers[d].position \notin {None, 0}
      BY <2>3, <2>4, <3>1 DEF IsActive
    <3>3. QED
      BY <3>1, <3>2 DEF PositionOr
  <2>10. {PositionOr(d, 10^6) : d \in {c \in DOMAIN drivers : IsActive(c)}} = places
    BY <2>3, <2>9
  <2>11. ASSUME Racing # {}
         PROVE  /\ LeaderPosition \in places /\ LeaderPosition \in 1..RetiredGap
                /\ \A d \in Racing : LeaderPosition <= drivers[d].position
    <3>1. places # {} /\ places \subseteq 1..RetiredGap /\ places \subseteq Nat
      BY <2>4, <2>9, <2>11
    <3>2. LeaderPosition = Min(places)
      BY <2>10, <3>1 DEF LeaderPosition
    <3>3. \A d \in Racing : drivers[d].position \in places
      OBVIOUS
    <3> HIDE DEF places
    <3>4. Min(places) \in places /\ \A y \in places : Min(places) <= y
      BY <3>1, LeastNatural
    <3>5. QED
      BY <3>1, <3>2, <3>3, <3>4
  <2>12. \A d \in Racing : sim.gap_to_leader[d] = drivers[d].position - LeaderPosition
    BY <2>2, <2>3, <2>9 DEF Gap
  <2>13. \A d \in DOMAIN sim.retired \ Racing : sim.gap_to_leader[d] = RetiredGap
    BY <2>2, <2>3 DEF Gap
  <2>14. \A c, d \in Racing : Place(c) < Place(d) <=> sim.gap_to_leader[c] < sim.gap_to_leader[d]
    <3> SUFFICES ASSUME NEW c \in Racing, NEW d \in Racing
        PROVE  Place(c) < Place(d) <=> sim.gap_to_leader[c] < sim.gap_to_leader[d]
      OBVIOUS
    <3>1. /\ Place(c) = drivers[c].position /\ Place(d) = drivers[d].position
          /\ drivers[c].position \in Nat /\ drivers[d].position \in Nat
          /\ LeaderPosition \in Nat
      BY <2>4, <2>7, <2>8, <2>9, <2>11
    <3>2. QED
      BY <2>12, <3>1
  <2>15. Racing # {} => \E d \in Racing : sim.gap_to_leader[d] = 0
    <3> SUFFICES ASSUME Racing # {} PROVE \E d \in Racing : sim.gap_to_leader[d] = 0
      OBVIOUS
    <3>1. PICK d \in Racing : drivers[d].position = LeaderPosition
      BY <2>11
    <3>2. LeaderPosition \in Nat
      BY <2>4, <2>11
    <3>3. QED
      BY <2>12, <3>1, <3>2
  <2>16. \A c \in Racing, d \in DOMAIN sim.retired \ Racing :
           sim.gap_to_leader[c] < sim.gap_to_leader[d]
    <3> SUFFICES ASSUME NEW c \in Racing, NEW d \in DOMAIN sim.retired \ Racing
        PROVE  sim.gap_to_leader[c] < sim.gap_to_leader[d]
      OBVIOUS
    <3>1. /\ sim.gap_to_leader[c] = drivers[c].position - LeaderPosition
          /\ sim.gap_to_leader[d] = RetiredGap
          /\ drivers[c].position \in 1..RetiredGap /\ LeaderPosition \in 1..RetiredGap
      BY <2>9, <2>11, <2>12, <2>13
    <3>2. QED
      BY <2>4, <3>1
  <2> USE DEF Racing, Place, Ranked
  <2>17. QED
    BY <2>8, <2>14, <2>15, <2>16, Zenon DEF SimStartsInTowerOrder
<1>2. QED
  BY <1>1, PricingInvHolds, PTL
=============================================================================
