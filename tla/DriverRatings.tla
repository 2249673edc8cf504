--------------------------- MODULE DriverRatings ----------------------------
(***************************************************************************)
(* models/driver_ratings.py: ratings of drivers and constructors, updated  *)
(* race by race, and the reliability counts beside them.                   *)
(*                                                                         *)
(* A rating is abstracted to where it comes from: moved, the races whose   *)
(* finishing order moved it, and known, every race its value depends on,   *)
(* through opponents' ratings, an inherited prior and decay as well.       *)
(*                                                                         *)
(* A prediction (models/prerace.py) simulates the race from each driver's  *)
(* strength and failure rate.  It is abstracted to the races these come    *)
(* from and to the column of the random sample that each driver is dealt.  *)
(***************************************************************************)
EXTENDS Naturals, FiniteSets

CONSTANTS Race,        \* races, numbered in the order they were held
          Driver, Team,
          None         \* no constructor, no position

ASSUME RatingsAssumption ==
  /\ Race \subseteq Nat
  /\ None \notin Driver \cup Team \cup Nat
  /\ "" \notin Team  \* no constructor is called nothing

\* A DriverEntry; its grid place and meeting say nothing about the past.
Entry ==
  [driver_id : Driver, constructor_id : Team \cup {None},
   finish_position : Nat \cup {None}, dnf : BOOLEAN, classified : BOOLEAN]

\* A race's entries are a function of their rows in the classification, which
\* lists the cars as they finished.
EntriesOf(entries) == {entries[i] : i \in DOMAIN entries}
Drivers(entries) == {e.driver_id : e \in EntriesOf(entries)}

\* finishing_order, as a set: classified and with a position.
Finishers(entries) ==
  {e.driver_id : e \in {x \in EntriesOf(entries) : x.classified /\ x.finish_position # None}}

\* Unreliability is booked under the constructor, or under "" without one.
Key(e) == IF e.constructor_id = None THEN "" ELSE e.constructor_id
Keys == Team \cup {""}

\* Mutant: only a status that is no finish, and not a car left unclassified.
StatusOnly(e) == e.dnf

Failed(e) == e.dnf \/ ~e.classified

Fresh == [moved |-> {}, known |-> {}]

NoRatings ==
  [driver             |-> [d \in {} |-> Fresh],
   constructor        |-> [c \in {} |-> Fresh],
   driver_constructor |-> [d \in {} |-> None],
   entry_count        |-> [k \in Keys |-> 0],
   dnf_count          |-> [k \in Keys |-> 0],
   counted            |-> [k \in Keys |-> {}],   \* races the two counts come from
   races_seen         |-> 0,
   first_seen         |-> {}]   \* the race that made races_seen positive

-----------------------------------------------------------------------------
\* driver_rating: its own, its constructor's, or the default.
Strength(ratings, e) ==
  IF e.driver_id \in DOMAIN ratings.driver THEN ratings.driver[e.driver_id].known
  ELSE IF e.constructor_id \in DOMAIN ratings.constructor
       THEN ratings.constructor[e.constructor_id].known
  ELSE {}

\* The races that the strengths and failure rates of entries depend on; before
\* any race has been seen the rate is a constant.
Evidence(ratings, entries) ==
  UNION {Strength(ratings, e) \cup ratings.counted[Key(e)] \cup ratings.first_seen :
           e \in EntriesOf(entries)}

\* ranking.simulate draws one sample, from a fixed seed, for any race of so many
\* entries, and deals its columns out by row.
Columns(entries) ==
  [d \in Drivers(entries) |->
     LET row == CHOOSE i \in DOMAIN entries : entries[i].driver_id = d
     IN  Cardinality({i \in DOMAIN entries : i <= row})]

\* EloModel.predict
Predict(ratings, entries) ==
  [evidence |-> Evidence(ratings, entries), columns |-> Columns(entries)]

\* _decay: every rating is drawn to the mean because race was held.
Decay(ratings, race) ==
  LET drawn(r) == [moved |-> r.moved, known |-> r.known \cup {race}]
  IN  IF DOMAIN ratings.driver = {} THEN ratings
      ELSE [ratings EXCEPT
              !.driver = [d \in DOMAIN ratings.driver |-> drawn(ratings.driver[d])],
              !.constructor = [c \in DOMAIN ratings.constructor |-> drawn(ratings.constructor[c])]]

\* The entries of a race make drivers and constructors known.
Introduce(ratings, entries) ==
  LET named == {e \in EntriesOf(entries) : e.constructor_id # None}
      constructors ==
        [c \in DOMAIN ratings.constructor \cup {e.constructor_id : e \in named} |->
           IF c \in DOMAIN ratings.constructor THEN ratings.constructor[c] ELSE Fresh]
      entryOf(d) == CHOOSE e \in EntriesOf(entries) : e.driver_id = d
      inherited(d) ==
        [moved |-> {}, known |-> Strength([ratings EXCEPT !.constructor = constructors], entryOf(d))]
  IN  [ratings EXCEPT
         !.constructor = constructors,
         !.driver_constructor =
           [d \in DOMAIN ratings.driver_constructor \cup {e.driver_id : e \in named} |->
              IF \E e \in named : e.driver_id = d THEN entryOf(d).constructor_id
              ELSE ratings.driver_constructor[d]],
         !.driver =
           [d \in DOMAIN ratings.driver \cup Drivers(entries) |->
              IF d \in DOMAIN ratings.driver THEN ratings.driver[d] ELSE inherited(d)]]

\* How many of entries booked under k are in kind.
Tally(entries, k, kind) ==
  Cardinality({i \in DOMAIN entries : Key(entries[i]) = k /\ entries[i] \in kind})

\* Reliability bookkeeping, once per entry.
CountEntries(ratings, race, entries) ==
  [ratings EXCEPT
     !.entry_count = [k \in Keys |-> @[k] + Tally(entries, k, EntriesOf(entries))],
     !.dnf_count   = [k \in Keys |-> @[k] + Tally(entries, k, {e \in EntriesOf(entries) : Failed(e)})],
     !.counted     = [k \in Keys |-> IF k \in {Key(e) : e \in EntriesOf(entries)}
                                     THEN @[k] \cup {race} ELSE @[k]]]

\* Mutant: everyone who entered is rated.
EloOfEntrants(ratings, race, entries) ==
  LET order == Drivers(entries)
      pooled == {race} \cup UNION {ratings.driver[d].known : d \in order}
  IN  [ratings EXCEPT
         !.driver = [d \in DOMAIN ratings.driver |->
                       IF d \in order
                       THEN [moved |-> ratings.driver[d].moved \cup {race},
                             known |-> ratings.driver[d].known \cup pooled]
                       ELSE ratings.driver[d]]]

\* Every finisher is rated against every other, and each constructor by the
\* finishers last seen with it; a constructor's nudge reads no rating.
EloUpdate(ratings, race, entries) ==
  LET order == Finishers(entries)
      pooled == {race} \cup UNION {ratings.driver[d].known : d \in order}
      teams == {ratings.driver_constructor[d] :
                  d \in order \cap DOMAIN ratings.driver_constructor}
  IN  [ratings EXCEPT
         !.driver = [d \in DOMAIN ratings.driver |->
                       IF d \in order
                       THEN [moved |-> ratings.driver[d].moved \cup {race},
                             known |-> ratings.driver[d].known \cup pooled]
                       ELSE ratings.driver[d]],
         !.constructor = [c \in DOMAIN ratings.constructor |->
                            IF c \in teams
                            THEN [moved |-> ratings.constructor[c].moved \cup {race},
                                  known |-> ratings.constructor[c].known \cup {race}]
                            ELSE ratings.constructor[c]]]

\* DriverRatings.update, from the entries of a finished race.
Update(ratings, race, entries) ==
  LET counted == CountEntries(Introduce(Decay(ratings, race), entries), race, entries)
      rated == IF Cardinality(Finishers(entries)) >= 2
               THEN EloUpdate(counted, race, entries) ELSE counted
  IN  [rated EXCEPT !.races_seen = @ + 1,
                    !.first_seen = IF @ = {} THEN {race} ELSE @]
=============================================================================
