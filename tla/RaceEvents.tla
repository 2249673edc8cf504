----------------------------- MODULE RaceEvents -----------------------------
(***************************************************************************)
(* The event envelope of domain/events.py and its replay order.  Every     *)
(* log-shaped component (the reducer, the store, the quality report)       *)
(* extends this module.                                                    *)
(*                                                                         *)
(* Data is abstracted to what the replay tells apart.  Timestamps are      *)
(* naturals.  event_id is a natural standing for the position of           *)
(* str(event_id) in string order.  The payload is flattened into fields,   *)
(* None marking a key the payload does not carry; fields that the reducer  *)
(* copies exactly as it copies position (lap_time, constructor_id) are     *)
(* left out, and so is session_id, which follows meeting_id.               *)
(***************************************************************************)
EXTENDS Naturals, Sequences, FiniteSets

CONSTANTS Driver,   \* driver ids
          Tyre,     \* tyre compounds
          Weather,  \* weather payloads
          Meeting,  \* meeting ids
          None      \* Python's None, and an absent payload key

ASSUME NoneAssumption ==
  /\ None \notin Nat
  /\ None \notin Driver
  /\ None \notin Tyre
  /\ None \notin Weather
  /\ None \notin Meeting

Optional(S) == S \cup {None}

EventType ==
  {"LapCompleted", "SectorCompleted", "PositionChanged", "PitEntry", "PitExit",
   "PitStopCompleted", "TyreCompoundChanged", "YellowFlagStarted",
   "SafetyCarDeployed", "RedFlagStarted", "RaceControlMessagePublished",
   "WeatherUpdated", "DriverStopped", "DriverRetired", "PenaltyAnnounced",
   "NewsEventPublished", "MarketBookUpdated", "TradeObserved"}

\* tyre is "tyre" of a lap, "new_tyre" of a pit stop, "compound" of a change.
Event ==
  [event_id      : Nat,
   event_type    : EventType,
   event_time    : Nat,
   first_seen_at : Nat,
   meeting_id    : Optional(Meeting),
   driver_id     : Optional(Driver),
   lap           : Optional(Nat),
   position      : Optional(Nat),
   tyre          : Optional(Tyre),
   tyre_age      : Optional(Nat),
   weather       : Optional(Weather)]

\* The validator run when an event is built: nothing is seen before it happens.
CausallyOrdered(e) == e.event_time <= e.first_seen_at

-----------------------------------------------------------------------------
(***************************************************************************)
(* sort_key compares (event_time, first_seen_at, event_id), and Python's   *)
(* sorted() is stable: equal keys keep their place in the log.             *)
(***************************************************************************)
KeyLess(e, f) ==
  \/ e.event_time < f.event_time
  \/ /\ e.event_time = f.event_time
     /\ \/ e.first_seen_at < f.first_seen_at
        \/ e.first_seen_at = f.first_seen_at /\ e.event_id < f.event_id

\* Entry i of log is replayed before its entry j.
Before(log, i, j) ==
  \/ KeyLess(log[i], log[j])
  \/ ~KeyLess(log[j], log[i]) /\ i < j

\* The place of entry j in the sorted log.
Rank(log, j) == Cardinality({i \in DOMAIN log : Before(log, i, j)}) + 1

\* Mutant: the log as it was appended, not sorted.
InsertionOrder(log) == log

\* sorted(log, key=sort_key)
ReplayOrder(log) ==
  [k \in 1..Len(log) |-> log[CHOOSE j \in DOMAIN log : Rank(log, j) = k]]
=============================================================================
