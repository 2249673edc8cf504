---------------------------- MODULE NewsPipeline ----------------------------
(***************************************************************************)
(* services/news_service.run_pipeline and the stages it calls: rule-based  *)
(* extraction, the point-in-time filter, supersession, clustering,         *)
(* contradictions, the impact map and sentiment.  Documents arrive between *)
(* runs and the archive is only appended to; a run may be asked for any    *)
(* as_of, also an earlier one than the last.                               *)
(*                                                                         *)
(* An extracted event is known by its place: the document and the rule it  *)
(* comes from (the code mints a uuid on every run).  Constructors act as   *)
(* drivers are, and only drivers are kept.  Weights, decay and scores are  *)
(* left out: an impact is the set of the events that are added into it.    *)
(* A sentiment is the document it is the sentiment of.                     *)
(***************************************************************************)
EXTENDS Integers, Sequences, FiniteSets, Functions

CONSTANTS Driver,
          Document,         \* the documents that may arrive
          ConfirmingSource, \* FIA, team and championship sources
          Reliability,      \* of a source class, in percent
          EntitylessOk,     \* event types that need no driver
          GridPrior,        \* configured grid delta of an event type, or None
          Time,             \* instants
          None,
          MaxDocuments      \* bound: documents in the archive

ASSUME NewsAssumption ==
  /\ Time \subseteq Nat /\ None \notin Time
  /\ MaxDocuments \in Nat
  /\ \A d \in Document :
       /\ d.first_seen_at \in Time /\ d.drivers \subseteq Driver
       /\ d.matched \in Seq(DOMAIN GridPrior) /\ Reliability[d.source] \in Nat

VARIABLES documents,   \* the archive, in order of arrival
          as_of,       \* of the run in progress, None between runs
          ordered,     \* places of the events seen, first seen first
          at,          \* how many of them supersession has looked at
          superseded,  \* places dropped so far
          supersedes,  \* supersedes_event_ids of each place
          result       \* of the last run that finished

vars == <<documents, as_of, ordered, at, superseded, supersedes, result>>

-----------------------------------------------------------------------------
\* A rumour word outweighs a confirming one, and both outweigh the source.
IsConfirmed(doc) ==
  ~doc.rumour /\ (doc.confirms \/ doc.source \in ConfirmingSource)

ExtractedEvent(doc, type) ==
  [event_type          |-> type,
   drivers             |-> doc.drivers,
   meeting_id          |-> doc.meeting_id,
   is_confirmed        |-> IsConfirmed(doc),
   event_confidence    |-> Reliability[doc.source] * (IF IsConfirmed(doc) THEN 10 ELSE 6),
   grid_position_delta |-> GridPrior[type],
   first_seen_at       |-> doc.first_seen_at]

\* doc.matched lists the rules whose phrases the text has, in rule order.
Extract(doc) ==
  {r \in DOMAIN doc.matched : doc.drivers # {} \/ doc.matched[r] \in EntitylessOk}

Places == UNION {{n} \X Extract(documents[n]) : n \in DOMAIN documents}

Extracted ==
  [p \in Places |-> ExtractedEvent(documents[p[1]], documents[p[1]].matched[p[2]])]

IsAvailableAt(e, when) == when >= e.first_seen_at

\* The order of the stable sort by first_seen_at.
SeenNoLater(p, q) ==
  \/ Extracted[p].first_seen_at < Extracted[q].first_seen_at
  \/ /\ Extracted[p].first_seen_at = Extracted[q].first_seen_at
     /\ p[1] < q[1] \/ (p[1] = q[1] /\ p[2] <= q[2])

\* The places of S in that order.
InOrder(S) ==
  [k \in 1..Cardinality(S) |->
     CHOOSE p \in S : Cardinality({q \in S \ {p} : SeenNoLater(q, p)}) + 1 = k]

SameStory(a, b) == a.event_type = b.event_type /\ a.drivers = b.drivers

ClusterKey(e) == <<e.event_type, e.drivers, e.meeting_id>>

-----------------------------------------------------------------------------
NoResult == [as_of |-> None, active |-> <<>>, canonical |-> <<>>,
             supersedes |-> <<>>, contradictions |-> {}, impacts |-> [d \in Driver |-> {}],
             sentiment |-> {}]

Init ==
  /\ documents = <<>>
  /\ as_of = None
  /\ ordered = <<>> /\ at = 0
  /\ superseded = {}
  /\ supersedes = <<>>
  /\ result = NoResult

Receive(doc) ==
  /\ as_of = None
  /\ Len(documents) < MaxDocuments
  /\ documents' = Append(documents, doc)
  /\ UNCHANGED <<as_of, ordered, at, superseded, supersedes, result>>

\* Mutant: the filter is left to the end of the run.
SeenEverything(when) == Places

Seen(when) == {p \in Places : IsAvailableAt(Extracted[p], when)}

\* run_pipeline up to the sort at the head of apply_supersession.
RunPipeline(when) ==
  /\ as_of = None
  /\ as_of' = when
  /\ ordered' = InOrder(Seen(when))
  /\ at' = 0
  /\ superseded' = {}
  /\ supersedes' = [p \in Places |-> {}]
  /\ UNCHANGED <<documents, result>>

\* Earlier rumours that the event at position i replaces.
Replaced(i) ==
  IF ~Extracted[ordered[i]].is_confirmed THEN {}
  ELSE {p \in {ordered[j] : j \in 1..(i - 1)} \ superseded :
           /\ SameStory(Extracted[p], Extracted[ordered[i]])
           /\ ~Extracted[p].is_confirmed}

\* Mutant: an event already superseded is claimed again.
SupersedeAgain ==
  LET p == ordered[at + 1]
      again == {ordered[j] : j \in 1..at} \cap
               {q \in superseded : SameStory(Extracted[q], Extracted[p])}
  IN  /\ as_of # None /\ at < Len(ordered)
      /\ at' = at + 1
      /\ superseded' = superseded \cup Replaced(at + 1)
      /\ supersedes' = [supersedes EXCEPT ![p] =
                          Replaced(at + 1)
                            \cup IF Extracted[p].is_confirmed THEN again ELSE {}]
      /\ UNCHANGED <<documents, as_of, ordered, result>>

\* One turn of apply_supersession's outer loop.
Supersede ==
  /\ as_of # None /\ at < Len(ordered)
  /\ at' = at + 1
  /\ superseded' = superseded \cup Replaced(at + 1)
  /\ supersedes' = [supersedes EXCEPT ![ordered[at + 1]] = Replaced(at + 1)]
  /\ UNCHANGED <<documents, as_of, ordered, result>>

-----------------------------------------------------------------------------
\* Mutant: confidence before confirmation.
MoreConfident(e, f) == e.event_confidence > f.event_confidence

\* Mutant: the latest report tells the story.
SeenLater(e, f) == e.first_seen_at > f.first_seen_at

\* The key of deduplicate's max, confirmed first; ties keep the first member.
MoreAuthoritative(e, f) ==
  \/ e.is_confirmed /\ ~f.is_confirmed
  \/ /\ e.is_confirmed = f.is_confirmed
     /\ \/ e.event_confidence > f.event_confidence
        \/ /\ e.event_confidence = f.event_confidence
           /\ e.first_seen_at < f.first_seen_at

Cluster(active, p) ==
  {q \in Range(active) : ClusterKey(Extracted[q]) = ClusterKey(Extracted[p])}

Canonical(cluster) ==
  CHOOSE p \in cluster : \A q \in cluster \ {p} :
     /\ ~MoreAuthoritative(Extracted[q], Extracted[p])
     /\ MoreAuthoritative(Extracted[p], Extracted[q]) \/ SeenNoLater(p, q)

Deduplicate(active) ==
  LET chosen == InOrder({Canonical(Cluster(active, p)) : p \in Range(active)})
  IN  [k \in DOMAIN chosen |->
         [event |-> chosen[k], evidence_count |-> Cardinality(Cluster(active, chosen[k]))]]

Reason == {"rumour vs confirmation", "conflicting grid penalty"}

Clash(e, f, reason) ==
  /\ SameStory(e, f)
  /\ \/ reason = "rumour vs confirmation" /\ e.is_confirmed # f.is_confirmed
     \/ /\ reason = "conflicting grid penalty" /\ e.is_confirmed = f.is_confirmed
        /\ None \notin {e.grid_position_delta, f.grid_position_delta}
        /\ \/ e.grid_position_delta - f.grid_position_delta > 2
           \/ f.grid_position_delta - e.grid_position_delta > 2

FindContradictions(active) ==
  {c \in [reason : Reason, a : Range(active), b : Range(active)] :
     /\ c.a # c.b /\ SeenNoLater(c.a, c.b)
     /\ Clash(Extracted[c.a], Extracted[c.b], c.reason)}

\* EventImpactModel.aggregate, over the active events and not the canonical ones.
Aggregate(active, when) ==
  [d \in Driver |-> {p \in Range(active) : /\ IsAvailableAt(Extracted[p], when)
                                           /\ d \in Extracted[p].drivers}]

\* run_pipeline from the return of apply_supersession on: of the events in
\* order those that were not superseded, in the same order.
Finish ==
  LET active == InOrder(Range(ordered) \ superseded)
  IN  /\ as_of # None /\ at = Len(ordered)
      /\ result' = [as_of          |-> as_of,
                    active         |-> active,
                    supersedes     |-> supersedes,
                    canonical      |-> Deduplicate(active),
                    contradictions |-> FindContradictions(active),
                    impacts        |-> Aggregate(active, as_of),
                    sentiment      |-> DOMAIN documents]
      /\ as_of' = None
      /\ UNCHANGED <<documents, ordered, at, superseded, supersedes>>

Next ==
  \/ \E doc \in Document : Receive(doc)
  \/ \E when \in Time : RunPipeline(when)
  \/ Supersede
  \/ Finish

Spec == Init /\ [][Next]_vars

-----------------------------------------------------------------------------
Told == DOMAIN result.supersedes       \* the events the last run was given
Known == {p \in Told : Extracted[p].first_seen_at <= result.as_of}
Active == Range(result.active)
Confirms(q, p) == /\ q \in Known /\ q # p /\ SeenNoLater(p, q)
                  /\ SameStory(Extracted[p], Extracted[q])
                  /\ Extracted[q].is_confirmed /\ ~Extracted[p].is_confirmed

\* A finished run is active on exactly the events seen by its as_of that no
\* confirmation, itself seen by then and no earlier than the event, replaces:
\* nothing seen later adds, removes or replaces anything (run_pipeline,
\* decision D-012).
ActiveIsExact ==
  result.as_of # None => Active = {p \in Known : ~\E q \in Known : Confirms(q, p)}

\* Nothing is lost: every event seen is active or is recorded by exactly one
\* event, an active confirmation of the same story, as superseded
\* (apply_supersession's history).
SupersededOnce ==
  result.as_of # None =>
    \A p \in Known :
      LET claims == {q \in Told : p \in result.supersedes[q]}
      IN  /\ p \in Active <=> claims = {}
          /\ Cardinality(claims) <= 1
          /\ \A q \in claims : q \in Active /\ Confirms(q, p)

\* deduplicate partitions the active events: one canonical event per type,
\* drivers and meeting, itself one of them, told with as many reports as are
\* active, and a story with a confirmation is never told by a rumour.
ClustersPartitionActive ==
  LET key(c) == ClusterKey(Extracted[c.event])
      told == Range(result.canonical)
  IN  /\ \A c, d \in told : key(c) = key(d) => c = d
      /\ {key(c) : c \in told} = {ClusterKey(Extracted[p]) : p \in Active}
      /\ \A c \in told :
           /\ c.event \in Active
           /\ c.evidence_count = Cardinality({p \in Active : ClusterKey(Extracted[p]) = key(c)})
      /\ \A c \in told, p \in Active :
           ClusterKey(Extracted[p]) = key(c) /\ Extracted[p].is_confirmed
             => Extracted[c.event].is_confirmed

\* As as_of advances and documents arrive, also late ones, a rumour once
\* superseded never comes back and a story once told as confirmed stays so.
ConfirmedNewsSticks ==
  [][result.as_of # None /\ result'.as_of >= result.as_of =>
       /\ \A p \in Known : p \notin Active => p \notin Range(result'.active)
       /\ \A c \in Range(result.canonical) :
            Extracted[c.event].is_confirmed =>
              \E d \in Range(result'.canonical) :
                /\ ClusterKey(Extracted[d.event]) = ClusterKey(Extracted[c.event])
                /\ Extracted[d.event].is_confirmed]_result

\* The docstring of news_service has the impacts made of deduplicated events:
\* a driver is moved at most once by each story.  The code aggregates every
\* active report.
StoryMovesDriverOnce ==
  \A d \in Driver : \A p, q \in result.impacts[d] :
    ClusterKey(Extracted[p]) = ClusterKey(Extracted[q]) => p = q
=============================================================================
