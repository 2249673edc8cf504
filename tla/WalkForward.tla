---------------------------- MODULE WalkForward -----------------------------
(***************************************************************************)
(* The jobs that turn past results into predictions:                       *)
(* scripts/train_models.py with backtesting/evaluation.py, and             *)
(* predict_recent.py, predict_next.py and predict_hungary_2026.py.  Each   *)
(* downloads one result per round, any of which may fail, sorts what it    *)
(* got by date, and walks through it with one model (DriverRatings).  Two  *)
(* of them predict each race before updating on it, two update on all of   *)
(* them and forecast a race to come.  A report is written at the end and   *)
(* may be read at any time (services/evaluation_report.py).                *)
(*                                                                         *)
(* A prediction is abstracted as in DriverRatings, for the Elo models; the *)
(* grid and uniform ones have strengths that come from no past race and    *)
(* are left out, though they are dealt columns by row all the same.  Of    *)
(* the calibrators, the races they are fitted on are kept; what the        *)
(* isotonic one computes is in Isotonic.                                   *)
(***************************************************************************)
EXTENDS DriverRatings, Isotonic, Functions

CONSTANTS Tables,     \* what FastF1 may hold: a result per race
          Undated,    \* races FastF1 gives no date for
          Orders,     \* the orders the --season arguments may name the races in
          Holdout,    \* predict_recent's --holdout
          GridRound,  \* the race whose qualifying predict_hungary_2026 reads
          NextRace    \* the race that predict_next names, held or still to come

Row == [driver : Driver \cup {None}, team : Team \cup {None},
        position : Nat \cup {None},   \* Position
        classified : BOOLEAN,         \* ClassifiedPosition is a number
        finished : BOOLEAN]           \* Status says Finished or a lap count

\* A classification has one row for each driver.
ASSUME JobAssumption ==
  /\ IsFiniteSet(Race) /\ Race = 1..Cardinality(Race)
  /\ Tables \subseteq [Race -> Seq(Row)]
  /\ \A t \in Tables : \A race \in Race : \A i, j \in DOMAIN t[race] :
       t[race][i].driver = t[race][j].driver /\ t[race][i].driver # None => i = j
  /\ Orders \subseteq {o \in [Race -> Race] : IsInjective(o)}
  /\ Undated \subseteq Race /\ Holdout \in Nat /\ GridRound \in Race
  /\ NextRace \in Race \cup {Cardinality(Race) + 1}

Job == {"train", "recent", "next", "hungary"}

InOrder == [r \in Race |-> r]
Unwritten == [state |-> "none", predictions |-> {}]

VARIABLES job, table,
          order,     \* the races in the order their rounds are asked for
          phase,     \* "loading", "walking", "writing", "done", "exit", "crashed"
          round,     \* the next round to load
          results,   \* [race, date, entries], as loaded, then by date
          at,        \* how many of them the walk has passed
          ratings,
          records,   \* [race, evidence, columns], in the order predicted
          report,    \* the file: [state, predictions], "none", "torn" or "whole"
          shown      \* what the last reader got, a parse error if torn

vars == <<job, table, order, phase, round, results, at, ratings, records, report, shown>>

-----------------------------------------------------------------------------
(* Loading.                                                                *)

EntryOf(row) ==
  [driver_id |-> row.driver, constructor_id |-> row.team,
   finish_position |-> row.position, dnf |-> ~row.finished, classified |-> row.classified]

\* load_session_result, by row; a row without a driver is skipped.
LoadSessionResult(rows) ==
  [i \in {j \in DOMAIN rows : rows[j].driver # None} |-> EntryOf(rows[i])]

\* A race without a date is given the time of its download.
Date(race) == IF race \in Undated THEN Cardinality(Race) + round ELSE race

\* Only the training script takes a race nobody is classified in.
Wanted(entries) ==
  /\ DOMAIN entries # {}
  /\ job # "train" => Finishers(entries) # {}

LastRound == IF job = "hungary" THEN GridRound - 1 ELSE Cardinality(Race)

\* results.sort(key=date), stable.
SortByDate(list) ==
  LET turns == ArgSort([i \in DOMAIN list |-> list[i].date])
  IN  [k \in 1..Len(list) |-> list[turns[k]]]

Init ==
  /\ job \in Job /\ table \in Tables
  /\ order \in (IF job \in {"train", "recent"} THEN Orders ELSE {InOrder})
  /\ phase = "loading" /\ round = 1 /\ results = <<>>
  /\ at = 0 /\ ratings = NoRatings /\ records = <<>>
  /\ report = Unwritten /\ shown = Unwritten

\* A round that fails to load is skipped.
LoadRound(ok) ==
  /\ phase = "loading" /\ round <= LastRound
  /\ round' = round + 1
  /\ LET race == order[round]
         entries == LoadSessionResult(table[race])
     IN  results' = IF ok /\ Wanted(entries)
                    THEN Append(results, [race |-> race, date |-> Date(race), entries |-> entries])
                    ELSE results
  /\ UNCHANGED <<job, table, order, phase, at, ratings, records, report, shown>>

\* Enough races for the job, or it says so and exits.
Enough == CASE job = "train" -> Len(results) >= 6
            [] job = "recent" -> Len(results) > Holdout
            [] OTHER -> TRUE

StartWalk ==
  /\ phase = "loading" /\ round > LastRound
  /\ results' = SortByDate(results)
  /\ phase' = IF Enough THEN "walking" ELSE "exit"
  /\ UNCHANGED <<job, table, order, round, at, ratings, records, report, shown>>

-----------------------------------------------------------------------------
(* The walk.                                                               *)

\* results[:-h] and results[-h:] with h = 0 are nothing and everything.
TrainedOn == IF Holdout = 0 THEN 0 ELSE Len(results) - Holdout

Predicted(i) ==
  CASE job = "train" -> TRUE
    [] job = "recent" -> i > TrainedOn
    [] OTHER -> FALSE

\* A prediction for the race called race, of entries.
Forecast(model, race, entries) ==
  LET prediction == Predict(model, entries)
  IN  [race |-> race, evidence |-> prediction.evidence, columns |-> prediction.columns]

Record(model, r) == Forecast(model, r.race, r.entries)

\* Mutant: the model is updated on the race before it predicts it.
UpdateThenPredict ==
  /\ phase = "walking" /\ at < Len(results)
  /\ LET r == results[at + 1]
         updated == Update(ratings, r.race, r.entries)
     IN  /\ records' = IF Predicted(at + 1) THEN Append(records, Record(updated, r)) ELSE records
         /\ ratings' = updated
  /\ at' = at + 1
  /\ UNCHANGED <<job, table, order, phase, round, results, report, shown>>

\* The model predicts a race, if the job asks, and then is updated on it.
PredictThenUpdate ==
  /\ phase = "walking" /\ at < Len(results)
  /\ LET r == results[at + 1]
     IN  /\ records' = IF Predicted(at + 1) THEN Append(records, Record(ratings, r)) ELSE records
         /\ ratings' = Update(ratings, r.race, r.entries)
  /\ at' = at + 1
  /\ UNCHANGED <<job, table, order, phase, round, results, report, shown>>

-----------------------------------------------------------------------------
(* What becomes of the predictions.                                        *)

\* round(n * percent / 100), halves to the even neighbour.
RoundPercent(n, percent) ==
  LET whole == (n * percent) \div 100
      rest == (n * percent) % 100
  IN  IF rest > 50 \/ (rest = 50 /\ whole % 2 = 1) THEN whole + 1 ELSE whole

AtLeastOne(n) == IF n < 1 THEN 1 ELSE n

\* Mutant: validation counted back from the last race.
SplitFromTheEnd(n) ==
  LET test_start == n - AtLeastOne(RoundPercent(n, 30))
      n_val == AtLeastOne(RoundPercent(n, 20))
  IN  [val_start |-> IF n > n_val THEN n - n_val ELSE 0, test_start |-> test_start]

\* Indices from 0; validation ends where test starts, which is the last block.
SplitBounds(n) ==
  LET test_start == n - AtLeastOne(RoundPercent(n, 30))
      n_val == AtLeastOne(RoundPercent(n, 20))
  IN  [val_start |-> IF test_start > n_val THEN test_start - n_val ELSE 0,
       test_start |-> test_start]

\* Mutant: validation runs on through the test races.
ValidationRunsOn(n) == {i \in 1..n : i > SplitBounds(n).val_start}

\* The records of the validation block, numbered from 1.
Validation(n) == {i \in 1..n : SplitBounds(n).val_start < i /\ i <= SplitBounds(n).test_start}
Test(n) == {i \in 1..n : i > SplitBounds(n).test_start}

\* evaluate_model: the calibrator is fitted on the validation records and
\* their outcomes, and then applied to each test record.
EvaluateModel ==
  LET n == Len(records)
      fitted == UNION {records[i].evidence \cup {records[i].race} : i \in Validation(n)}
  IN  {[records[i] EXCEPT !.evidence = @ \cup fitted] : i \in Test(n)}

\* The card of the next race is the entry list of the last one.
NextCard == results[Len(results)].entries

\* The card of predict_hungary_2026: who has a qualifying position.  The table's
\* entry for GridRound stands for that session; its race is never loaded.
QualifyingCard ==
  LET session == LoadSessionResult(table[GridRound])
  IN  [i \in {j \in DOMAIN session : session[j].finish_position # None} |-> session[i]]

\* The walk is over.  predict_recent prints; the others open a file.
FinishWalk ==
  /\ phase = "walking" /\ at = Len(results)
  /\ \/ job = "recent" /\ phase' = "done" /\ UNCHANGED report
     \/ job = "next" /\ results = <<>> /\ phase' = "crashed" /\ UNCHANGED report
     \/ job = "hungary" /\ phase' = "crashed" /\ UNCHANGED report  \* qualifying fails to load
     \/ /\ job \in {"train", "hungary"} \/ (job = "next" /\ results # <<>>)
        /\ phase' = "writing" /\ report' = [state |-> "torn", predictions |-> {}]
  /\ UNCHANGED <<job, table, order, round, results, at, ratings, records, shown>>

\* write_text truncated the file; now its text is in it, or the job has died.
WriteReport ==
  /\ phase = "writing"
  /\ \/ /\ phase' = "done"
        /\ report' = [state |-> "whole", predictions |->
             CASE job = "train" -> EvaluateModel
               [] job = "next" -> {Forecast(ratings, NextRace, NextCard)}
               [] job = "hungary" -> {Forecast(ratings, GridRound, QualifyingCard)}]
     \/ phase' = "crashed" /\ UNCHANGED report
  /\ UNCHANGED <<job, table, order, round, results, at, ratings, records, shown>>

\* load_latest_report, load_next_race_prediction: nothing before there is a
\* report, and an error while it is torn.
LoadReport ==
  /\ phase \in {"writing", "done", "crashed"}
  /\ shown' = report
  /\ UNCHANGED <<job, table, order, phase, round, results, at, ratings, records, report>>

Next ==
  \/ \E ok \in BOOLEAN : LoadRound(ok)
  \/ StartWalk
  \/ PredictThenUpdate
  \/ FinishWalk
  \/ WriteReport
  \/ LoadReport

Spec == Init /\ [][Next]_vars

-----------------------------------------------------------------------------
\* Of a race whose date is known, p has learned from races held before it.
LearnedFromThePast(p) ==
  p.race \notin Undated => p.evidence \subseteq {r \in Race : r < p.race}

(* No learning from the future: whatever rounds fail to load and in whatever *)
(* order they are downloaded, the strength a driver is predicted with, its   *)
(* inherited prior and its constructor's failure rate come from earlier      *)
(* races only, where the race has a date (collect_walk_forward 50-64,        *)
(* predict_recent 58-79).  That a prediction sees nothing else of its race   *)
(* is not so: see ResultIsNotSeen.                                           *)
PredictionsLearnFromThePast == \A i \in DOMAIN records : LearnedFromThePast(records[i])

\* predict_next has been run before its race: nothing it loaded is as late.
RunInTime == job = "next" => \A i \in DOMAIN results : results[i].race < NextRace

(* Nor does a report, as a reader is shown it, learn from the future what    *)
(* calibration was fitted on or whom a forecast lists: a calibrated test     *)
(* prediction and a forecast come from races before theirs, that of          *)
(* predict_next if it is run before its race, which nothing in it ensures    *)
(* (evaluate_model 102-139, predict_next 22-70, predict_hungary_2026 48-75). *)
ReportsLearnFromThePast ==
  RunInTime => \A p \in report.predictions \cup shown.predictions : LearnedFromThePast(p)

\* The classifications with the same cars finishing in other places.
Otherwise(rows) ==
  {[i \in DOMAIN rows |-> [rows[i] EXCEPT !.driver = rows[cars[i]].driver,
                                          !.team = rows[cars[i]].team]] :
     cars \in Bijection(DOMAIN rows, DOMAIN rows)}

(* A race is predicted as it would have been had the same cars finished in   *)
(* other places ("predicts **before** it sees the result ... so predictions  *)
(* never use future information (no leakage)", backtesting/evaluation.py:3). *)
ResultIsNotSeen ==
  phase = "walking" /\ at < Len(results) /\ Predicted(at + 1) =>
    \A rows \in Otherwise(table[results[at + 1].race]) :
      Predict(ratings, LoadSessionResult(rows)) = Predict(ratings, results[at + 1].entries)

\* The three blocks of n races.
ProperSplit(n) ==
  /\ Validation(n) # {} /\ Test(n) # {}
  /\ 1 \notin Validation(n) \cup Test(n)
  /\ \A v \in Validation(n), t \in Test(n) : v < t
  /\ Cardinality(Test(n)) * 100 - n * 30 \in (-50)..50

(* In an evaluation, and for every other number of races up to past that of  *)
(* the repository's own (102), each block has a race of its own and the      *)
(* blocks follow one another, with at least one race before validation for   *)
(* the model to learn from (_split_bounds 83-88).                            *)
SplitIsProper ==
  phase = "writing" /\ job = "train" =>
    \A n \in {Len(records)} \cup 6..110 : ProperSplit(n)

\* The entries of race i under constructor k, or under none, and those that failed.
Entered(k, i) ==
  {j \in DOMAIN results[i].entries :
     results[i].entries[j].constructor_id = IF k = "" THEN None ELSE k}
FailedIn(k, i) ==
  {j \in Entered(k, i) : results[i].entries[j].dnf \/ ~results[i].entries[j].classified}

(* The DNF rate is a rate: what is counted for a constructor, or for no      *)
(* constructor at all, is each entry of each race once, and as a failure     *)
(* each that did not finish or was not classified (update 89-98).            *)
ReliabilityCountsEntries ==
  phase = "walking" =>
    \A k \in Keys :
      /\ ratings.entry_count[k] = SumFunction([i \in 1..at |-> Cardinality(Entered(k, i))])
      /\ ratings.dnf_count[k] = SumFunction([i \in 1..at |-> Cardinality(FailedIn(k, i))])

\* The drivers race i rates: two or more of them, classified with a position.
RatedIn(i) ==
  LET finished == {results[i].entries[j].driver_id : j \in
                     {x \in DOMAIN results[i].entries :
                        results[i].entries[x].classified /\ results[i].entries[x].finish_position # None}}
  IN  IF Cardinality(finished) >= 2 THEN finished ELSE {}

\* The constructor driver d was last entered with in races 1..i, if any.
TeamsOf(d, i) ==
  {e.constructor_id : e \in
     {x \in EntriesOf(results[i].entries) : x.driver_id = d /\ x.constructor_id # None}}
LastTeam(d, i) ==
  LET named == {j \in 1..i : TeamsOf(d, j) # {}}
  IN  IF named = {} THEN {} ELSE TeamsOf(d, Max(named))

(* Pace is moved by classified cars and nobody else: a driver by the races   *)
(* it finished, a constructor by those a driver last seen with it finished,  *)
(* even if that race names no team (update 83-105, _update_constructors).    *)
PaceMovedByFinishers ==
  phase = "walking" =>
    /\ \A d \in DOMAIN ratings.driver :
         ratings.driver[d].moved = {results[i].race : i \in {j \in 1..at : d \in RatedIn(j)}}
    /\ \A c \in DOMAIN ratings.constructor :
         ratings.constructor[c].moved =
           {results[i].race : i \in {j \in 1..at : \E d \in RatedIn(j) : c \in LastTeam(d, j)}}

(* The isotonic calibrator that an evaluation fits ranks no probability      *)
(* below a lower one, and is the monotone least-squares fit of the           *)
(* validation outcomes where their raw probabilities differ.  Outcomes of    *)
(* equal probability are taken in the order recorded and the last one's      *)
(* fitted value counts, so 40, 40 that came out 0, 1 make 40 a certainty     *)
(* (evaluate_model 122-128, IsotonicCalibrator 65-78).                       *)
CalibrationFitsTheRecord ==
  phase = "writing" /\ job = "train" =>
    \A n \in 1..4 : \A p \in [1..n -> {0, 40, 100}], outcomes \in [1..n -> {0, 1}] :
      LET fit == FitIsotonic(p, outcomes)
      IN  FitsTheRecord(fit, p, outcomes) /\ KeepsOrder(fit, {0, 10, 40, 70, 100})
=============================================================================
