-------------------------- MODULE IngestionProofs ---------------------------
(***************************************************************************)
(* What loads from the store, for every session, any number of downloads   *)
(* and whatever steps of a writer, which may die, come between two lines   *)
(* of a reader; and what the quality report says of a log, for every log.  *)
(***************************************************************************)
EXTENDS EventStore, QualityReport, SortAndSumProofs

\* Logs in replay order whose events all differ by key.
Sorted == {d \in Seq(Event) : \A k, l \in DOMAIN d : k < l => KeyLess(d[k], d[l])}

\* The first events of d, as many as s has.
Begins(s, d) ==
  /\ s \in Seq(Event) /\ d \in Sorted
  /\ Len(s) <= Len(d) /\ \A k \in 1..Len(s) : s[k] = d[k]

\* s is the beginning of some download.
FromOneDownload(s) == \E n \in DOMAIN downloads : Begins(s, downloads[n])

\* The first c downloads have each line of s at its place, the later lines from
\* no older download.
Pieced(s, c) ==
  \E from \in [DOMAIN s -> 1..c] :
    /\ \A i \in DOMAIN s : s[i] = downloads[from[i]][i]
    /\ \A i, j \in DOMAIN s : i <= j => from[i] <= from[j]

Load == [status : {"none", "missing", "invalid", "reading", "ok"},
         lines : Seq(Event), overtaken : BOOLEAN]

\* There is a file for somebody to have read.
Saved == file # None \/ writer = "writing" \/ loaded.status \in {"reading", "ok"}

\* The writer has the last download, and the disk what was written of one that
\* is not older than any that a reader has lines of.
StoreInv ==
  /\ session \in Sessions
  /\ downloads \in Seq(Sorted)
  /\ writer \in {"idle", "loaded", "writing"}
  /\ writer # "idle" => downloads # <<>> /\ events = downloads[Len(downloads)]
  /\ writer = "writing" =>
       written \in 0..Len(events) /\ Begins(file, events) /\ Len(file) = written
  /\ loaded \in Load
  /\ loaded.status \notin {"reading", "ok"} => loaded.lines = <<>>
  /\ Saved => \E c \in DOMAIN downloads :
       Begins(file, downloads[c]) /\ Pieced(loaded.lines, c)
  /\ loaded.status = "reading" /\ ~loaded.overtaken =>
       /\ Len(loaded.lines) <= Len(file)
       /\ \A k \in DOMAIN loaded.lines : loaded.lines[k] = file[k]
  /\ loaded.status = "ok" /\ ~loaded.overtaken => FromOneDownload(loaded.lines)

-----------------------------------------------------------------------------
(* The order of a replay: as in RaceReplayProofs, which has other variables. *)

\* The parts of the key are numbers, whatever the log.
LEMMA KeyFields ==
  ASSUME NEW entries \in Seq(Event), NEW x \in DOMAIN entries
  PROVE  /\ entries[x].event_time \in Nat
         /\ entries[x].first_seen_at \in Nat
         /\ entries[x].event_id \in Nat
<1>1. entries[x] \in Event
  OBVIOUS
<1>2. \A e \in Event : e.event_time \in Nat /\ e.first_seen_at \in Nat /\ e.event_id \in Nat
  BY DEF Event
<1>3. QED
  BY <1>1, <1>2

Sooner(entries) ==
  {p \in (DOMAIN entries) \X (DOMAIN entries) : Before(entries, p[1], p[2])}

\* The entries of a log are ranked by a strict total order, one to a place.
LEMMA EntriesAreRanked ==
  ASSUME NEW entries \in Seq(Event)
  PROVE  /\ [j \in DOMAIN entries |-> Rank(entries, j)] \in Bijection(DOMAIN entries, 1..Len(entries))
         /\ \A i, j \in DOMAIN entries : Before(entries, i, j) <=> Rank(entries, i) < Rank(entries, j)
         /\ \A j \in DOMAIN entries :
              LET earlier == {i \in DOMAIN entries : Before(entries, i, j)}
              IN  IsFiniteSet(earlier) /\ j \notin earlier /\ Cardinality(earlier) \in Nat
<1> DEFINE D == DOMAIN entries
           rank == [j \in D |-> Rank(entries, j)]
<1>1. D = 1..Len(entries) /\ Len(entries) \in Nat /\ \A i \in D : i \in Int
  OBVIOUS
<1>2. IsFiniteSet(D) /\ Cardinality(D) = Len(entries)
  BY <1>1, FS_Interval
<1>3. \A i, j \in D : <<i, j>> \in Sooner(entries) <=> Before(entries, i, j)
  BY DEF Sooner
<1>4. StrictTotalOrder(Sooner(entries), D)
  <2>1. \A x \in D : /\ entries[x].event_time \in Nat /\ entries[x].first_seen_at \in Nat
                     /\ entries[x].event_id \in Nat
    BY KeyFields
  <2>2. \A i, j, k \in D :
          /\ ~Before(entries, i, i)
          /\ Before(entries, i, j) /\ Before(entries, j, k) => Before(entries, i, k)
          /\ i # j => Before(entries, i, j) \/ Before(entries, j, i)
    <3> SUFFICES ASSUME NEW i \in D, NEW j \in D, NEW k \in D
        PROVE  /\ ~Before(entries, i, i)
               /\ Before(entries, i, j) /\ Before(entries, j, k) => Before(entries, i, k)
               /\ i # j => Before(entries, i, j) \/ Before(entries, j, i)
      OBVIOUS
    <3> HIDE DEF D
    <3>1. i \in Nat /\ j \in Nat /\ k \in Nat
      BY <1>1
    <3>2. ~Before(entries, i, i)
      BY <2>1, <3>1 DEF Before, KeyLess
    <3>3. Before(entries, i, j) /\ Before(entries, j, k) => Before(entries, i, k)
      <4> DEFINE less(x, y) == KeyLess(entries[x], entries[y])
      <4>1. less(i, j) /\ less(j, k) => less(i, k)
        BY <2>1 DEF KeyLess
      <4>2. less(k, i) => less(k, j) \/ less(j, i)
        BY <2>1 DEF KeyLess
      <4>3. less(i, j) => less(i, k) \/ less(k, j)
        BY <2>1 DEF KeyLess
      <4>4. less(j, k) => less(j, i) \/ less(i, k)
        BY <2>1 DEF KeyLess
      <4>5. \A x, y : Before(entries, x, y) <=> less(x, y) \/ (~less(y, x) /\ x < y)
        BY DEF Before
      <4> HIDE DEF less
      <4>6. QED
        BY <3>1, <4>1, <4>2, <4>3, <4>4, <4>5
    <3>4. i # j => Before(entries, i, j) \/ Before(entries, j, i)
      BY <2>1, <3>1 DEF Before, KeyLess
    <3>5. QED
      BY <3>2, <3>3, <3>4
  <2> HIDE DEF D
  <2>3. QED
    BY <1>3, <2>2 DEF StrictTotalOrder
<1>5. \A j \in D : Preceding(Sooner(entries), D, j) = {i \in D : Before(entries, i, j)}
  BY <1>3 DEF Preceding
<1>6. rank = [j \in D |-> Cardinality(Preceding(Sooner(entries), D, j)) + 1]
  BY <1>5 DEF Rank
<1> HIDE DEF D, rank
<1>7. /\ rank \in Bijection(D, 1..Len(entries))
      /\ \A i, j \in D : <<i, j>> \in Sooner(entries) <=> rank[i] < rank[j]
      /\ \A j \in D : LET earlier == Preceding(Sooner(entries), D, j)
                      IN  IsFiniteSet(earlier) /\ j \notin earlier /\ Cardinality(earlier) \in Nat
  BY <1>2, <1>4, <1>6, Ranking
<1>8. QED
  BY <1>3, <1>5, <1>7 DEF D, rank

\* The entry of the log that place k of the replay holds.
Entry(entries, k) == CHOOSE j \in DOMAIN entries : Rank(entries, j) = k

LEMMA EntryRank ==
  ASSUME NEW entries \in Seq(Event), NEW k \in 1..Len(entries)
  PROVE  /\ Entry(entries, k) \in DOMAIN entries
         /\ Rank(entries, Entry(entries, k)) = k
         /\ ReplayOrder(entries)[k] = entries[Entry(entries, k)]
<1>1. \E j \in DOMAIN entries : Rank(entries, j) = k
  BY EntriesAreRanked DEF Bijection, Surjection
<1>2. QED
  BY <1>1 DEF Entry, ReplayOrder

-----------------------------------------------------------------------------
\* A sorted log stays as it is when it is sorted again.
LEMMA SortedStays ==
  ASSUME NEW d \in Sorted
  PROVE  ReplayOrder(d) = d
<1>1. /\ d \in Seq(Event) /\ DOMAIN d = 1..Len(d) /\ Len(d) \in Nat
      /\ \A k, l \in DOMAIN d : k < l => KeyLess(d[k], d[l])
  BY DEF Sorted
<1>2. \A i, j \in DOMAIN d : Before(d, i, j) <=> i < j
  <2> SUFFICES ASSUME NEW i \in DOMAIN d, NEW j \in DOMAIN d
               PROVE  Before(d, i, j) <=> i < j
    OBVIOUS
  <2>1. i \in Nat /\ j \in Nat
    BY <1>1
  <2>2. i < j => KeyLess(d[i], d[j])
    BY <1>1
  <2>3. /\ d[i].event_time \in Nat /\ d[i].first_seen_at \in Nat /\ d[i].event_id \in Nat
        /\ d[j].event_time \in Nat /\ d[j].first_seen_at \in Nat /\ d[j].event_id \in Nat
    BY <1>1, KeyFields
  <2>4. j < i => KeyLess(d[j], d[i]) /\ ~KeyLess(d[i], d[j])
    BY <1>1, <2>3 DEF KeyLess
  <2>5. i = j => ~KeyLess(d[i], d[j])
    BY <2>3 DEF KeyLess
  <2>6. QED
    BY <2>1, <2>2, <2>4, <2>5 DEF Before
<1>3. \A j \in DOMAIN d : Rank(d, j) = j
  <2> SUFFICES ASSUME NEW j \in DOMAIN d PROVE Rank(d, j) = j
    OBVIOUS
  <2>1. j \in 1..Len(d) /\ j \in Nat
    BY <1>1
  <2> DEFINE earlier == {i \in DOMAIN d : Before(d, i, j)}
  <2>2. \A i : i \in earlier <=> i \in 1..(j - 1)
    BY <1>1, <1>2, <2>1
  <2>3. Rank(d, j) = Cardinality(earlier) + 1
    BY DEF Rank
  <2> HIDE DEF earlier
  <2>4. earlier = 1..(j - 1)
    BY <2>2
  <2>5. Cardinality(1..(j - 1)) = j - 1
    BY <2>1, FS_Interval
  <2>6. QED
    BY <2>1, <2>3, <2>4, <2>5
<1>4. \A k \in 1..Len(d) : ReplayOrder(d)[k] = d[k]
  BY <1>1, <1>3 DEF ReplayOrder
<1>5. /\ DOMAIN ReplayOrder(d) = 1..Len(d)
      /\ ReplayOrder(d) = [k \in 1..Len(d) |-> ReplayOrder(d)[k]]
  BY DEF ReplayOrder
<1>6. d = [k \in 1..Len(d) |-> d[k]]
  BY <1>1
<1>7. QED
  BY <1>4, <1>5, <1>6

\* And so does its beginning.
LEMMA BeginningIsSorted ==
  ASSUME NEW s, NEW d, Begins(s, d)
  PROVE  s \in Sorted
<1>1. /\ s \in Seq(Event) /\ d \in Seq(Event) /\ Len(s) <= Len(d)
      /\ \A k \in 1..Len(s) : s[k] = d[k] /\ k \in DOMAIN d
      /\ \A k, l \in DOMAIN d : k < l => KeyLess(d[k], d[l])
  BY DEF Begins, Sorted
<1>2. QED
  BY <1>1 DEF Sorted

\* Sorting a log whose events have different ids leaves no ties.
LEMMA SortingLeavesNoTies ==
  ASSUME NEW log \in Seq(Event),
         \A i, j \in DOMAIN log : log[i].event_id = log[j].event_id => i = j
  PROVE  ReplayOrder(log) \in Sorted
<1>1. /\ \A k \in 1..Len(log) : ReplayOrder(log)[k] \in Event
      /\ ReplayOrder(log) = [k \in 1..Len(log) |-> ReplayOrder(log)[k]] /\ Len(log) \in Nat
  <2>1. \A k \in 1..Len(log) : ReplayOrder(log)[k] \in Event
    BY EntryRank
  <2>2. QED
    BY <2>1 DEF ReplayOrder
<1>2. ReplayOrder(log) \in Seq(Event) /\ DOMAIN ReplayOrder(log) = 1..Len(log)
  BY <1>1
<1>3. ASSUME NEW k \in 1..Len(log), NEW l \in 1..Len(log), k < l
      PROVE  KeyLess(ReplayOrder(log)[k], ReplayOrder(log)[l])
  <2> DEFINE a == Entry(log, k)
             b == Entry(log, l)
  <2>1. /\ a \in DOMAIN log /\ Rank(log, a) = k /\ ReplayOrder(log)[k] = log[a]
        /\ b \in DOMAIN log /\ Rank(log, b) = l /\ ReplayOrder(log)[l] = log[b]
    BY EntryRank
  <2>2. Before(log, a, b)
    BY <1>3, <2>1, EntriesAreRanked
  <2>3. a # b /\ log[a].event_id # log[b].event_id
    BY <1>3, <2>1
  <2>4. /\ log[a].event_time \in Nat /\ log[a].first_seen_at \in Nat /\ log[a].event_id \in Nat
        /\ log[b].event_time \in Nat /\ log[b].first_seen_at \in Nat /\ log[b].event_id \in Nat
    BY <2>1, KeyFields
  <2> HIDE DEF a, b
  <2>5. QED
    BY <2>1, <2>2, <2>3, <2>4 DEF Before, KeyLess
<1>4. QED
  BY <1>2, <1>3 DEF Sorted

\* What a download makes of the session's events before it sorts them.
LEMMA Minted ==
  ASSUME StoreInv, NEW ids, Download(ids),
         LET places == DOMAIN SessionEvents(session, Now(downloads))
         IN  ids \in Injection(places, places)
  PROVE  LET plain == SessionEvents(session, Now(downloads))
             log == Mint(plain, ids)
         IN  /\ log \in Seq(Event) /\ events' = ReplayOrder(log)
             /\ \A i, j \in DOMAIN log : log[i].event_id = log[j].event_id => i = j
             /\ Now(downloads) \in Nat /\ Now(downloads) >= Ended /\ Ended \in Nat
             /\ DOMAIN log = DOMAIN plain
             /\ \A i \in DOMAIN plain : /\ log[i].event_type = plain[i].event_type
                                       /\ log[i].event_time = plain[i].event_time
<1> DEFINE plain == SessionEvents(session, Now(downloads))
           log == Mint(plain, ids)
<1>1. /\ Len(downloads) \in Nat /\ Len(downloads) < MaxDownloads
      /\ events' = ReplayOrder(log)
  BY DEF StoreInv, Download
<1>2. /\ Now(downloads) \in Ended..(Ended + MaxDownloads)
      /\ Now(downloads) \in Nat /\ Now(downloads) >= Ended /\ Ended \in Nat
  BY <1>1, StoreAssumption DEF Now
<1>3. plain \in Seq(Event)
  <2>1. plain \in Seq({e \in Event : e.event_time <= Now(downloads)})
    BY <1>2, StoreAssumption DEF StoreInv
  <2>2. QED
    BY <2>1
<1>4. /\ ids \in [DOMAIN plain -> DOMAIN plain] /\ DOMAIN plain \subseteq Nat
      /\ \A i, j \in DOMAIN plain : ids[i] = ids[j] => i = j
  BY <1>3 DEF Injection, IsInjective
<1> DEFINE base == Len(downloads) * Len(plain)
<1>5. base \in Nat
  BY <1>1, <1>3
<1> HIDE DEF base, plain
<1>6. \A i \in DOMAIN plain : base + ids[i] \in Nat
  BY <1>4, <1>5
<1>7. log = [i \in DOMAIN plain |-> [plain[i] EXCEPT !.event_id = base + ids[i]]]
  BY DEF Mint, base, plain
<1> HIDE DEF log
<1>8. \A i \in DOMAIN plain : /\ log[i] \in Event /\ log[i].event_id = base + ids[i]
                             /\ log[i].event_type = plain[i].event_type
                             /\ log[i].event_time = plain[i].event_time
  <2> SUFFICES ASSUME NEW i \in DOMAIN plain
               PROVE  /\ log[i] \in Event /\ log[i].event_id = base + ids[i]
                      /\ log[i].event_type = plain[i].event_type
                      /\ log[i].event_time = plain[i].event_time
    OBVIOUS
  <2>1. plain[i] \in Event
    BY <1>3
  <2>2. \A e \in Event, n \in Nat :
          LET f == [e EXCEPT !.event_id = n]
          IN  /\ f \in Event /\ f.event_id = n
              /\ f.event_type = e.event_type /\ f.event_time = e.event_time
    BY DEF Event
  <2>3. QED
    BY <1>6, <1>7, <2>1, <2>2
<1>9. log \in Seq(Event) /\ DOMAIN log = DOMAIN plain
  <2>1. DOMAIN plain = 1..Len(plain) /\ Len(plain) \in Nat /\ DOMAIN log = DOMAIN plain
    BY <1>3, <1>7
  <2>2. log \in [1..Len(plain) -> Event]
    BY <1>7, <1>8, <2>1
  <2>3. QED
    BY <2>1, <2>2
<1>10. \A i, j \in DOMAIN log : log[i].event_id = log[j].event_id => i = j
  BY <1>4, <1>5, <1>8, <1>9
<1>11. QED
  BY <1>1, <1>2, <1>8, <1>9, <1>10 DEF log, plain

\* A download has no ties.
LEMMA DownloadSorted ==
  ASSUME StoreInv, NEW ids, Download(ids),
         LET places == DOMAIN SessionEvents(session, Now(downloads))
         IN  ids \in Injection(places, places)
  PROVE  events' \in Sorted
<1>1. QED
  BY Minted, SortingLeavesNoTies

\* A later download takes nothing from what was made of the earlier ones.
LEMMA DownloadsKept ==
  ASSUME StoreInv, NEW d \in Sorted, downloads' = Append(downloads, d)
  PROVE  /\ downloads' \in Seq(Sorted) /\ downloads' # <<>> /\ d = downloads'[Len(downloads')]
         /\ \A n \in DOMAIN downloads : n \in DOMAIN downloads' /\ downloads'[n] = downloads[n]
         /\ \A s, c : c \in DOMAIN downloads /\ Pieced(s, c) => Pieced(s, c)'
<1>1. downloads \in Seq(Sorted)
  BY DEF StoreInv
<1>2. /\ downloads' \in Seq(Sorted) /\ Len(downloads') = Len(downloads) + 1
      /\ \A n \in DOMAIN downloads : n \in DOMAIN downloads' /\ downloads'[n] = downloads[n]
      /\ downloads' # <<>> /\ downloads'[Len(downloads) + 1] = d
  BY <1>1
<1>3. ASSUME NEW s, NEW c \in DOMAIN downloads, Pieced(s, c) PROVE Pieced(s, c)'
  <2>1. PICK from \in [DOMAIN s -> 1..c] :
          /\ \A i \in DOMAIN s : s[i] = downloads[from[i]][i]
          /\ \A i, j \in DOMAIN s : i <= j => from[i] <= from[j]
    BY <1>3 DEF Pieced
  <2>2. \A n \in 1..c : n \in DOMAIN downloads
    BY <1>1
  <2>3. \A i \in DOMAIN s : downloads'[from[i]] = downloads[from[i]]
    BY <1>2, <2>2
  <2>4. QED
    BY <2>1, <2>3 DEF Pieced
<1>4. QED
  BY <1>2, <1>3

LEMMA NothingIsPieced == \A c : Pieced(<<>>, c)
<1>1. DOMAIN << >> = {}
  OBVIOUS
<1>2. \A c : [i \in DOMAIN << >> |-> 0] \in [DOMAIN << >> -> 1..c]
  BY <1>1
<1>3. QED
  BY <1>1, <1>2 DEF Pieced

LEMMA LoadFields ==
  ASSUME NEW l \in Load
  PROVE  /\ l.lines \in Seq(Event)
         /\ LET m == [l EXCEPT !.overtaken = TRUE]
            IN  m \in Load /\ m.lines = l.lines /\ m.status = l.status /\ m.overtaken
         /\ LET m == [l EXCEPT !.status = "ok"]
            IN  m \in Load /\ m.lines = l.lines /\ m.status = "ok" /\ m.overtaken = l.overtaken
         /\ \A e \in Event :
              LET m == [l EXCEPT !.lines = Append(@, e)]
              IN  m \in Load /\ m.lines = Append(l.lines, e) /\ m.status = l.status
                  /\ m.overtaken = l.overtaken
<1>1. /\ l.lines \in Seq(Event) /\ l.overtaken \in BOOLEAN
      /\ l.status \in {"none", "missing", "invalid", "reading", "ok"}
      /\ l = [status |-> l.status, lines |-> l.lines, overtaken |-> l.overtaken]
  BY DEF Load
<1>2. \A e \in Event : Append(l.lines, e) \in Seq(Event)
  BY <1>1
<1>3. ASSUME NEW b
      PROVE  [l EXCEPT !.overtaken = b] = [status |-> l.status, lines |-> l.lines, overtaken |-> b]
  BY DEF Load
<1>4. ASSUME NEW t
      PROVE  [l EXCEPT !.status = t] = [status |-> t, lines |-> l.lines, overtaken |-> l.overtaken]
  BY DEF Load
<1>5. ASSUME NEW s
      PROVE  [l EXCEPT !.lines = s] = [status |-> l.status, lines |-> s, overtaken |-> l.overtaken]
  BY DEF Load
<1>6. /\ [l EXCEPT !.overtaken = TRUE] \in Load /\ [l EXCEPT !.status = "ok"] \in Load
      /\ \A s \in Seq(Event) : [l EXCEPT !.lines = s] \in Load
  BY <1>1, <1>3, <1>4, <1>5 DEF Load
<1>7. QED
  BY <1>1, <1>2, <1>3, <1>4, <1>5, <1>6

LEMMA WithoutFields ==
  ASSUME NEW status \in {"none", "missing", "invalid", "reading"}
  PROVE  /\ Without(status) \in Load /\ Without(status).lines = <<>>
         /\ Without(status).status = status
<1>1. <<>> \in Seq(Event)
  OBVIOUS
<1>2. QED
  BY <1>1 DEF Without, Load

\* What the first c downloads have, more downloads have.
LEMMA PiecedByMore ==
  ASSUME NEW s, NEW c \in Nat, NEW d \in Nat, c <= d, Pieced(s, c)
  PROVE  Pieced(s, d)
<1>1. \A F : [F -> 1..c] \subseteq [F -> 1..d]
  <2>1. 1..c \subseteq 1..d
    OBVIOUS
  <2>2. QED
    BY <2>1
<1>2. QED
  BY <1>1 DEF Pieced

\* The next line of a file that begins download c goes on with it.
LEMMA OneLineMore ==
  ASSUME NEW s \in Seq(Event), NEW c \in Nat \ {0}, NEW d \in Seq(Event), d = downloads[c],
         Pieced(s, c), Len(s) + 1 \in DOMAIN d
  PROVE  Pieced(Append(s, d[Len(s) + 1]), c)
<1> DEFINE n == Len(s)
           t == Append(s, d[n + 1])
<1>1. PICK from \in [DOMAIN s -> 1..c] :
        /\ \A i \in DOMAIN s : s[i] = downloads[from[i]][i]
        /\ \A i, j \in DOMAIN s : i <= j => from[i] <= from[j]
  BY DEF Pieced
<1> DEFINE new == [i \in 1..(n + 1) |-> IF i = n + 1 THEN c ELSE from[i]]
<1>2. /\ n \in Nat /\ DOMAIN s = 1..n /\ DOMAIN t = 1..(n + 1) /\ t[n + 1] = d[n + 1]
      /\ \A i \in 1..n : t[i] = s[i]
  BY DEF n
<1> HIDE DEF n, t
<1>3. /\ \A i \in 1..n : i \in 1..(n + 1) /\ i # n + 1 /\ i <= n + 1
      /\ n + 1 \in 1..(n + 1) /\ \A i \in 1..(n + 1) : i \in 1..n \/ i = n + 1
  BY <1>2
<1>4. /\ new[n + 1] = c
      /\ \A i \in 1..n : new[i] = from[i] /\ from[i] \in 1..c
  BY <1>1, <1>2, <1>3
<1>5. new \in [DOMAIN t -> 1..c] /\ c \in 1..c
  BY <1>1, <1>2, <1>3
<1> HIDE DEF new
<1>6. \A i \in DOMAIN t : t[i] = downloads[new[i]][i]
  BY <1>1, <1>2, <1>3, <1>4
<1>7. ASSUME NEW i \in DOMAIN t, NEW j \in DOMAIN t, i <= j PROVE new[i] <= new[j]
  <2>1. CASE j = n + 1
    <3>1. new[i] \in 1..c
      BY <1>5
    <3>2. QED
      BY <2>1, <3>1, <1>4
  <2>2. CASE j # n + 1
    <3>1. j \in 1..n /\ i \in 1..n
      BY <1>2, <1>3, <1>7, <2>2
    <3>2. QED
      BY <1>1, <1>2, <1>4, <1>7, <3>1
  <2>3. QED
    BY <2>1, <2>2
<1>8. QED
  BY <1>5, <1>6, <1>7 DEF Pieced, t, n

\* What a reader leaves of the invariant, if it changes nothing but its own load.
LEMMA ReaderKeeps ==
  ASSUME StoreInv, UNCHANGED <<session, writer, events, written, file, torn, downloads>>,
         loaded' \in Load,
         loaded'.lines = <<>> \/ loaded'.lines = loaded.lines,
         loaded'.status \in {"reading", "ok"} => Saved,
         loaded'.status \notin {"reading", "ok"} => loaded'.lines = <<>>,
         loaded'.status = "reading" => loaded'.lines = <<>>,
         loaded'.status = "ok" /\ ~loaded'.overtaken => FromOneDownload(loaded'.lines)
  PROVE  StoreInv'
<1>1. \A s, c : Pieced(s, c) <=> Pieced(s, c)'
  BY DEF Pieced
<1>2. (Saved => \E c \in DOMAIN downloads : Begins(file, downloads[c]) /\ Pieced(loaded.lines, c))'
  <2> SUFFICES ASSUME Saved
               PROVE  \E c \in DOMAIN downloads : Begins(file, downloads[c]) /\ Pieced(loaded'.lines, c)
    BY <1>1 DEF Saved
  <2>1. PICK c \in DOMAIN downloads : Begins(file, downloads[c]) /\ Pieced(loaded.lines, c)
    BY DEF StoreInv
  <2>2. Pieced(loaded'.lines, c)
    BY <2>1, NothingIsPieced
  <2>3. QED
    BY <2>1, <2>2
<1>3. (loaded.status = "reading" /\ ~loaded.overtaken =>
         /\ Len(loaded.lines) <= Len(file)
         /\ \A k \in DOMAIN loaded.lines : loaded.lines[k] = file[k])'
  <2> SUFFICES ASSUME loaded'.status = "reading"
               PROVE  Len(<<>>) <= Len(file) /\ \A k \in DOMAIN <<>> : <<>>[k] = file[k]
    OBVIOUS
  <2>1. PICK c \in DOMAIN downloads : Begins(file, downloads[c])
    BY DEF StoreInv
  <2>2. Len(<<>>) = 0 /\ Len(file) \in Nat /\ DOMAIN <<>> = {}
    BY <2>1 DEF Begins
  <2>3. QED
    BY <2>2
<1>4. QED
  BY <1>2, <1>3 DEF StoreInv, FromOneDownload

\* Every step of the writer, its death included, and of a reader keeps the invariant.
LEMMA StoreStep == StoreInv /\ [Next]_vars => StoreInv'
<1> SUFFICES ASSUME StoreInv, [Next]_vars PROVE StoreInv'
  OBVIOUS
<1>0. /\ downloads \in Seq(Sorted) /\ Len(downloads) \in Nat
      /\ DOMAIN downloads = 1..Len(downloads)
      /\ loaded \in Load /\ loaded.lines \in Seq(Event)
      /\ writer # "idle" => /\ Len(downloads) \in DOMAIN downloads /\ events \in Sorted
                            /\ events = downloads[Len(downloads)]
  <2>1. downloads \in Seq(Sorted) /\ loaded \in Load
    BY DEF StoreInv
  <2>2. Len(downloads) \in Nat /\ DOMAIN downloads = 1..Len(downloads)
    BY <2>1
  <2>3. ASSUME writer # "idle"
        PROVE  /\ Len(downloads) \in DOMAIN downloads /\ events \in Sorted
               /\ events = downloads[Len(downloads)]
    <3>1. downloads # <<>> /\ events = downloads[Len(downloads)]
      BY <2>3 DEF StoreInv
    <3>2. Len(downloads) \in DOMAIN downloads
      BY <2>1, <3>1
    <3>3. QED
      BY <2>1, <3>1, <3>2
  <2>4. QED
    BY <2>1, <2>2, <2>3, LoadFields
<1>1. ASSUME NEW ids, Download(ids),
             LET places == DOMAIN SessionEvents(session, Now(downloads))
             IN  ids \in Injection(places, places)
      PROVE  StoreInv'
  <2>1. events' \in Sorted
    BY <1>1, DownloadSorted
  <2>2. /\ downloads' = Append(downloads, events') /\ writer' = "loaded"
        /\ UNCHANGED <<session, file, loaded>>
    BY <1>1 DEF Download
  <2>3. /\ downloads' \in Seq(Sorted) /\ downloads' # <<>> /\ events' = downloads'[Len(downloads')]
        /\ \A n \in DOMAIN downloads : n \in DOMAIN downloads' /\ downloads'[n] = downloads[n]
        /\ \A s, c : c \in DOMAIN downloads /\ Pieced(s, c) => Pieced(s, c)'
    BY <2>1, <2>2, DownloadsKept
  <2>4. (Saved => \E c \in DOMAIN downloads :
           Begins(file, downloads[c]) /\ Pieced(loaded.lines, c))'
    <3> SUFFICES ASSUME Saved
                 PROVE  \E c \in DOMAIN downloads' :
                          Begins(file, downloads'[c]) /\ Pieced(loaded.lines, c)'
      BY <2>2 DEF Saved
    <3>1. PICK c \in DOMAIN downloads : Begins(file, downloads[c]) /\ Pieced(loaded.lines, c)
      BY DEF StoreInv
    <3>2. Pieced(loaded.lines, c)'
      BY <2>2, <2>3, <3>1 DEF Pieced
    <3>3. QED
      BY <2>3, <3>1, <3>2
  <2>5. FromOneDownload(loaded.lines) => FromOneDownload(loaded.lines)'
    BY <2>2, <2>3 DEF FromOneDownload
  <2>6. QED
    BY <2>2, <2>3, <2>4, <2>5 DEF StoreInv
<1>2. CASE OpenForWriting
  <2>1. /\ writer = "loaded" /\ writer' = "writing" /\ written' = 0 /\ file' = <<>>
        /\ UNCHANGED <<session, events, downloads>>
        /\ loaded' = IF loaded.status = "reading" THEN [loaded EXCEPT !.overtaken = TRUE]
                                                  ELSE loaded
    BY <1>2 DEF OpenForWriting
  <2>2. /\ loaded'.lines = loaded.lines /\ loaded'.status = loaded.status
        /\ loaded'.status = "reading" => loaded'.overtaken
        /\ loaded'.status = "ok" => loaded' = loaded
        /\ loaded' \in Load
    BY <1>0, <2>1, LoadFields
  <2>3. events \in Sorted /\ Begins(<<>>, events) /\ Len(<<>>) = 0 /\ 0 \in 0..Len(events)
    BY <1>0, <2>1 DEF Begins, Sorted
  <2>4. Pieced(loaded.lines, Len(downloads))
    <3>1. CASE Saved
      <4>1. PICK c \in DOMAIN downloads : Pieced(loaded.lines, c)
        BY <3>1 DEF StoreInv
      <4>2. c \in Nat /\ c <= Len(downloads)
        BY <1>0
      <4>3. QED
        BY <1>0, <4>1, <4>2, PiecedByMore
    <3>2. CASE ~Saved
      <4>1. loaded.lines = <<>>
        BY <3>2 DEF StoreInv, Saved
      <4>2. QED
        BY <4>1, NothingIsPieced
    <3>3. QED
      BY <3>1, <3>2
  <2>5. Pieced(loaded.lines, Len(downloads))'
    BY <2>1, <2>2, <2>4 DEF Pieced
  <2>6. (\E c \in DOMAIN downloads : Begins(file, downloads[c]) /\ Pieced(loaded.lines, c))'
    BY <1>0, <2>1, <2>3, <2>5
  <2>7. QED
    BY <1>0, <2>1, <2>2, <2>3, <2>6 DEF StoreInv, FromOneDownload
<1>3. CASE WriteLine
  <2>1. /\ writer = "writing" /\ written < Len(events) /\ written' = written + 1
        /\ file' = Append(file, ReplayOrder(events)[written + 1])
        /\ UNCHANGED <<session, writer, events, loaded, downloads>>
    BY <1>3 DEF WriteLine
  <2>2. /\ events \in Sorted /\ events = downloads[Len(downloads)]
        /\ written \in 0..Len(events) /\ Begins(file, events) /\ Len(file) = written
    BY <1>0, <2>1 DEF StoreInv
  <2>3. file' = Append(file, events[written + 1])
    BY <2>1, <2>2, SortedStays
  <2>4. events \in Seq(Event) /\ file \in Seq(Event) /\ \A k \in 1..Len(file) : file[k] = events[k]
    BY <2>2 DEF Begins, Sorted
  <2>5. /\ file' \in Seq(Event) /\ Len(file') = written + 1 /\ written + 1 \in 0..Len(events)
        /\ \A k \in 1..Len(file') : file'[k] = events[k]
        /\ \A k \in 1..Len(file) : file'[k] = file[k]
        /\ Len(file) <= Len(file')
    BY <2>1, <2>2, <2>3, <2>4
  <2>6. Begins(file', events)
    BY <2>2, <2>5 DEF Begins
  <2>7. Saved
    BY <2>1 DEF Saved
  <2>8. PICK c \in DOMAIN downloads : Pieced(loaded.lines, c)
    BY <2>7 DEF StoreInv
  <2>9. c \in Nat /\ c <= Len(downloads)
    BY <1>0
  <2>10. Pieced(loaded.lines, Len(downloads))
    BY <1>0, <2>8, <2>9, PiecedByMore
  <2>11. Pieced(loaded.lines, Len(downloads))'
    BY <2>1, <2>10 DEF Pieced
  <2>12. (\E d \in DOMAIN downloads : Begins(file, downloads[d]) /\ Pieced(loaded.lines, d))'
    BY <1>0, <2>1, <2>2, <2>6, <2>11
  <2>13. (loaded.status = "reading" /\ ~loaded.overtaken =>
            /\ Len(loaded.lines) <= Len(file)
            /\ \A k \in DOMAIN loaded.lines : loaded.lines[k] = file[k])'
    <3> SUFFICES ASSUME loaded.status = "reading", ~loaded.overtaken
                 PROVE  /\ Len(loaded.lines) <= Len(file')
                        /\ \A k \in DOMAIN loaded.lines : loaded.lines[k] = file'[k]
      BY <2>1
    <3>1. /\ loaded.lines \in Seq(Event) /\ Len(loaded.lines) <= Len(file)
          /\ \A k \in DOMAIN loaded.lines : loaded.lines[k] = file[k]
      BY <1>0 DEF StoreInv
    <3>2. \A k \in DOMAIN loaded.lines : k \in 1..Len(file)
      BY <2>4, <3>1
    <3>3. Len(loaded.lines) <= Len(file')
      BY <2>4, <2>5, <3>1
    <3>4. QED
      BY <2>5, <3>1, <3>2, <3>3
  <2>14. QED
    BY <2>1, <2>2, <2>5, <2>6, <2>12, <2>13 DEF StoreInv, FromOneDownload
<1>4. CASE TearLine \/ Close
  BY <1>4 DEF TearLine, Close, StoreInv, FromOneDownload, Pieced, Saved
<1>5. CASE Crash
  BY <1>5 DEF Crash, StoreInv, FromOneDownload, Pieced, Saved
<1>6. CASE OpenForReading
  <2>1. /\ UNCHANGED <<session, writer, events, written, file, torn, downloads>>
        /\ loaded' = Without(IF file = None THEN "missing" ELSE "reading")
    BY <1>6 DEF OpenForReading, writerVars
  <2>2. /\ loaded' \in Load /\ loaded'.lines = <<>>
        /\ loaded'.status = IF file = None THEN "missing" ELSE "reading"
    BY <2>1, WithoutFields
  <2>3. QED
    BY <2>1, <2>2, ReaderKeeps DEF Saved
<1>7. CASE ReadLine
  <2> DEFINE place == Len(loaded.lines) + 1
  <2>1. /\ UNCHANGED <<session, writer, events, written, file, torn, downloads>>
        /\ loaded.status = "reading" /\ place <= Len(file)
        /\ loaded' = [loaded EXCEPT !.lines = Append(@, file[place])]
    BY <1>7 DEF ReadLine, writerVars
  <2>2. Saved /\ loaded.lines \in Seq(Event)
    BY <1>0, <2>1 DEF Saved
  <2>3. PICK c \in DOMAIN downloads : Begins(file, downloads[c]) /\ Pieced(loaded.lines, c)
    BY <2>2 DEF StoreInv
  <2>4. /\ file \in Seq(Event) /\ downloads[c] \in Seq(Event) /\ c \in Nat \ {0}
        /\ Len(file) <= Len(downloads[c]) /\ \A k \in 1..Len(file) : file[k] = downloads[c][k]
    BY <1>0, <2>3 DEF Begins, Sorted
  <2>5. /\ place \in 1..Len(file) /\ place \in DOMAIN downloads[c]
        /\ file[place] = downloads[c][place] /\ file[place] \in Event
    <3>1. Len(loaded.lines) \in Nat
      BY <2>2
    <3>2. place \in Nat \ {0} /\ place <= Len(file)
      BY <2>1, <3>1
    <3> HIDE DEF place
    <3>3. QED
      BY <2>4, <3>2
  <2>6. /\ loaded'.lines = Append(loaded.lines, file[place]) /\ loaded'.status = "reading"
        /\ loaded'.overtaken = loaded.overtaken /\ loaded' \in Load
    BY <1>0, <2>1, <2>5, LoadFields
  <2>7. Pieced(loaded'.lines, c)
    <3> DEFINE d == downloads[c]
    <3>1. d \in Seq(Event) /\ Len(loaded.lines) + 1 \in DOMAIN d
      BY <2>4, <2>5
    <3>2. Pieced(Append(loaded.lines, d[Len(loaded.lines) + 1]), c)
      <4> HIDE DEF d
      <4>1. d = downloads[c]
        BY DEF d
      <4>2. QED
        BY <2>2, <2>3, <2>4, <3>1, <4>1, OneLineMore
    <3>3. QED
      BY <2>6, <2>5, <3>2
  <2>8. Pieced(loaded.lines, c)'
    BY <2>1, <2>7 DEF Pieced
  <2> HIDE DEF place
  <2>9. /\ loaded'.lines \in Seq(Event) /\ Len(loaded'.lines) = place /\ place \in Nat
        /\ place <= Len(file) /\ Len(file) \in Nat
        /\ \A k \in DOMAIN loaded'.lines :
             \/ k \in DOMAIN loaded.lines /\ loaded'.lines[k] = loaded.lines[k]
             \/ k = place /\ loaded'.lines[k] = file[place]
    BY <2>1, <2>6, <2>2, <2>4, <2>5 DEF place
  <2>10. (loaded.status = "reading" /\ ~loaded.overtaken =>
            /\ Len(loaded.lines) <= Len(file)
            /\ \A k \in DOMAIN loaded.lines : loaded.lines[k] = file[k])'
    <3> SUFFICES ASSUME ~loaded'.overtaken
                 PROVE  /\ Len(loaded'.lines) <= Len(file)
                        /\ \A k \in DOMAIN loaded'.lines : loaded'.lines[k] = file[k]
      BY <2>1
    <3>1. \A k \in DOMAIN loaded.lines : loaded.lines[k] = file[k]
      BY <2>1, <2>6 DEF StoreInv
    <3>2. QED
      BY <2>9, <3>1
  <2>11. QED
    BY <2>1, <2>6, <2>2, <2>3, <2>8, <2>10 DEF StoreInv
<1>8. CASE ReadFragment
  <2>1. /\ UNCHANGED <<session, writer, events, written, file, torn, downloads>>
        /\ loaded' = Without("invalid")
    BY <1>8 DEF ReadFragment, writerVars
  <2>2. loaded' \in Load /\ loaded'.lines = <<>> /\ loaded'.status = "invalid"
    BY <2>1, WithoutFields
  <2>3. QED
    BY <2>1, <2>2, ReaderKeeps
<1>9. CASE EndOfFile
  <2>1. /\ UNCHANGED <<session, writer, events, written, file, torn, downloads>>
        /\ loaded.status = "reading" /\ loaded' = [loaded EXCEPT !.status = "ok"]
    BY <1>9 DEF EndOfFile, writerVars
  <2>2. /\ loaded'.lines = loaded.lines /\ loaded'.status = "ok"
        /\ loaded'.overtaken = loaded.overtaken /\ loaded' \in Load
    BY <1>0, <2>1, LoadFields
  <2>3. Saved /\ loaded.lines \in Seq(Event)
    BY <1>0, <2>1 DEF Saved
  <2>4. ASSUME ~loaded.overtaken PROVE FromOneDownload(loaded.lines)
    <3>1. PICK c \in DOMAIN downloads : Begins(file, downloads[c])
      BY <2>3 DEF StoreInv
    <3>2. /\ Len(loaded.lines) <= Len(file)
          /\ \A k \in DOMAIN loaded.lines : loaded.lines[k] = file[k]
      BY <2>1, <2>4 DEF StoreInv
    <3>3. /\ file \in Seq(Event) /\ downloads[c] \in Sorted /\ downloads[c] \in Seq(Event)
          /\ Len(file) <= Len(downloads[c]) /\ \A k \in 1..Len(file) : file[k] = downloads[c][k]
      BY <3>1 DEF Begins, Sorted
    <3>4. Len(loaded.lines) <= Len(downloads[c])
      BY <2>3, <3>2, <3>3
    <3>5. \A k \in 1..Len(loaded.lines) : loaded.lines[k] = downloads[c][k]
      BY <2>3, <3>2, <3>3
    <3>6. QED
      BY <2>3, <3>3, <3>4, <3>5 DEF FromOneDownload, Begins
  <2>5. QED
    BY <2>1, <2>2, <2>3, <2>4, ReaderKeeps
<1>10. CASE UNCHANGED vars
  BY <1>10 DEF vars, writerVars, StoreInv, FromOneDownload, Pieced, Saved
<1>11. QED
  BY <1>1, <1>2, <1>3, <1>4, <1>5, <1>6, <1>7, <1>8, <1>9, <1>10 DEF Next

LEMMA InitKeepsStore == Init => StoreInv
<1>1. SUFFICES ASSUME Init PROVE StoreInv
  OBVIOUS
<1>2. loaded \in Load /\ loaded.lines = <<>> /\ loaded.status = "none"
  BY <1>1, WithoutFields DEF Init
<1>3. downloads = <<>> /\ downloads \in Seq(Sorted) /\ session \in Sessions /\ writer = "idle" /\ file = None
  BY <1>1 DEF Init
<1>4. QED
  BY <1>2, <1>3 DEF StoreInv, Saved

(* LoadedKeepsItsPlaces for every session, any number of downloads saved one *)
(* over the other, whenever a save dies and whatever is written while a      *)
(* reader is between two lines: the beginning of one download unless the     *)
(* file was emptied meanwhile, and then pieces of several, each line at its  *)
(* own place and none older than the one before it (to_jsonl, from_jsonl).   *)
THEOREM LoadsKeepTheirPlaces == Spec => []LoadedKeepsItsPlaces
<1>1. StoreInv => LoadedKeepsItsPlaces
  <2> SUFFICES ASSUME StoreInv, loaded.status = "ok"
               PROVE  /\ ~loaded.overtaken => \E d \in Range(downloads) : IsPrefix(Loaded, d)
                      /\ \E from \in [DOMAIN loaded.lines -> DOMAIN downloads] :
                           /\ \A i \in DOMAIN from : loaded.lines[i] = downloads[from[i]][i]
                           /\ \A i, j \in DOMAIN from : i <= j => from[i] <= from[j]
    BY DEF LoadedKeepsItsPlaces
  <2>1. ASSUME ~loaded.overtaken PROVE \E d \in Range(downloads) : IsPrefix(Loaded, d)
    <3>1. PICK n \in DOMAIN downloads : Begins(loaded.lines, downloads[n])
      BY <2>1 DEF StoreInv, FromOneDownload
    <3>2. Loaded = loaded.lines
      BY <3>1, BeginningIsSorted, SortedStays DEF Loaded
    <3>3. IsPrefix(Loaded, downloads[n])
      BY <3>1, <3>2 DEF IsPrefix, Begins, Sorted
    <3>4. QED
      BY <3>3 DEF Range
  <2>2. \E from \in [DOMAIN loaded.lines -> DOMAIN downloads] :
          /\ \A i \in DOMAIN from : loaded.lines[i] = downloads[from[i]][i]
          /\ \A i, j \in DOMAIN from : i <= j => from[i] <= from[j]
    <3>1. PICK c \in DOMAIN downloads : Pieced(loaded.lines, c)
      BY DEF StoreInv, Saved
    <3>2. PICK from \in [DOMAIN loaded.lines -> 1..c] :
            /\ \A i \in DOMAIN loaded.lines : loaded.lines[i] = downloads[from[i]][i]
            /\ \A i, j \in DOMAIN loaded.lines : i <= j => from[i] <= from[j]
      BY <3>1 DEF Pieced
    <3>3. 1..c \subseteq DOMAIN downloads
      BY DEF StoreInv
    <3>4. from \in [DOMAIN loaded.lines -> DOMAIN downloads] /\ DOMAIN from = DOMAIN loaded.lines
      BY <3>2, <3>3
    <3>5. QED
      BY <3>2, <3>4
  <2>3. QED
    BY <2>1, <2>2
<1>2. QED
  BY <1>1, InitKeepsStore, StoreStep, PTL DEF Spec

-----------------------------------------------------------------------------
(* The four tables.  A list of events tells a set of rows if it has one      *)
(* event for each: of the row's type and at its time, or now without one.    *)

Matches(e, r, now) ==
  e.event_type = r.type /\ e.event_time = IF r.time = None THEN now ELSE r.time

Tells(log, rows, now) ==
  \E f \in [DOMAIN log -> rows] :
    /\ \A k, l \in DOMAIN log : f[k] = f[l] => k = l
    /\ \A r \in rows : \E k \in DOMAIN log : f[k] = r
    /\ \A k \in DOMAIN log : Matches(log[k], f[k], now)

LEMMA TellsNothing ==
  ASSUME NEW now
  PROVE  Tells(<<>>, {}, now)
<1> DEFINE f == [k \in DOMAIN << >> |-> k]
<1>1. DOMAIN << >> = {}
  OBVIOUS
<1>2. f \in [DOMAIN << >> -> {}]
  BY <1>1
<1> HIDE DEF f
<1>3. QED
  BY <1>1, <1>2 DEF Tells

LEMMA TellsOne ==
  ASSUME NEW now, NEW e, NEW r, Matches(e, r, now)
  PROVE  Tells(<<e>>, {r}, now)
<1> DEFINE log == <<e>>
           f == [k \in DOMAIN log |-> r]
<1>1. DOMAIN log = {1} /\ log[1] = e
  OBVIOUS
<1>2. f \in [DOMAIN log -> {r}] /\ f[1] = r
  BY <1>1
<1> HIDE DEF f, log
<1>3. Tells(log, {r}, now)
  BY <1>1, <1>2 DEF Tells
<1>4. QED
  BY <1>3 DEF log

\* One list after the other tells the rows of both.
LEMMA TellsBoth ==
  ASSUME NEW now, NEW X, NEW Y, NEW a \in Seq(X), NEW b \in Seq(Y), NEW P, NEW Q, P \cap Q = {},
         Tells(a, P, now), Tells(b, Q, now)
  PROVE  a \o b \in Seq(X \cup Y) /\ Tells(a \o b, P \cup Q, now)
<1> DEFINE log == a \o b
           n == Len(a)
           m == Len(b)
<1>0. log \in Seq(X \cup Y)
  <2>1. a \in Seq(X \cup Y) /\ b \in Seq(X \cup Y)
    OBVIOUS
  <2>2. QED
    BY <2>1
<1>1. /\ n \in Nat /\ m \in Nat /\ DOMAIN a = 1..n /\ DOMAIN b = 1..m /\ DOMAIN log = 1..(n + m)
      /\ \A k \in 1..n : log[k] = a[k]
      /\ \A k \in 1..m : log[n + k] = b[k]
  OBVIOUS
<1>2. PICK f \in [DOMAIN a -> P] :
        /\ \A k, l \in DOMAIN a : f[k] = f[l] => k = l
        /\ \A r \in P : \E k \in DOMAIN a : f[k] = r
        /\ \A k \in DOMAIN a : Matches(a[k], f[k], now)
  BY DEF Tells
<1>3. PICK g \in [DOMAIN b -> Q] :
        /\ \A k, l \in DOMAIN b : g[k] = g[l] => k = l
        /\ \A r \in Q : \E k \in DOMAIN b : g[k] = r
        /\ \A k \in DOMAIN b : Matches(b[k], g[k], now)
  BY DEF Tells
<1> DEFINE h == [k \in DOMAIN log |-> IF k <= n THEN f[k] ELSE g[k - n]]
<1> HIDE DEF log, n, m
<1>4. /\ \A k \in 1..n : k \in DOMAIN log /\ h[k] = f[k]
      /\ \A k \in 1..m : n + k \in DOMAIN log /\ h[n + k] = g[k]
  <2>1. \A k \in 1..n : k \in DOMAIN log /\ h[k] = f[k]
    BY <1>1
  <2>2. \A k \in 1..m : n + k \in DOMAIN log /\ ~(n + k <= n) /\ (n + k) - n = k
    BY <1>1
  <2>3. QED
    BY <2>1, <2>2
<1>5. \A k \in DOMAIN log : k \in 1..n \/ \E j \in 1..m : k = n + j
  <2> SUFFICES ASSUME NEW k \in DOMAIN log, k \notin 1..n PROVE \E j \in 1..m : k = n + j
    OBVIOUS
  <2>1. k - n \in 1..m /\ k = n + (k - n)
    BY <1>1
  <2>2. QED
    BY <2>1
<1>6. \A k \in 1..n : f[k] \in P
  BY <1>1, <1>2
<1>7. \A k \in 1..m : g[k] \in Q
  BY <1>1, <1>3
<1>8. h = [k \in DOMAIN log |-> h[k]]
  OBVIOUS
<1> HIDE DEF h
<1>9. \A k \in DOMAIN log : h[k] \in P \cup Q /\ Matches(log[k], h[k], now)
  <2>1. \A k \in 1..n : h[k] \in P /\ Matches(log[k], h[k], now)
    BY <1>1, <1>2, <1>4, <1>6
  <2>2. \A k \in 1..m : h[n + k] \in Q /\ Matches(log[n + k], h[n + k], now)
    BY <1>1, <1>3, <1>4, <1>7
  <2>3. QED
    BY <1>5, <2>1, <2>2
<1>10. \A r \in P \cup Q : \E k \in DOMAIN log : h[k] = r
  <2>1. ASSUME NEW r \in P PROVE \E k \in DOMAIN log : h[k] = r
    <3>1. PICK k \in 1..n : f[k] = r
      BY <1>1, <1>2
    <3>2. QED
      BY <1>4, <3>1
  <2>2. ASSUME NEW r \in Q PROVE \E k \in DOMAIN log : h[k] = r
    <3>1. PICK k \in 1..m : g[k] = r
      BY <1>1, <1>3
    <3>2. n + k \in DOMAIN log /\ h[n + k] = r
      BY <1>4, <3>1
    <3>3. QED
      BY <3>2
  <2>3. QED
    BY <2>1, <2>2
<1>11. ASSUME NEW k \in DOMAIN log, NEW l \in DOMAIN log, h[k] = h[l] PROVE k = l
  <2>1. CASE k \in 1..n /\ l \in 1..n
    BY <1>1, <1>2, <1>4, <1>11, <2>1
  <2>2. CASE k \notin 1..n /\ l \notin 1..n
    <3>1. PICK i \in 1..m : k = n + i
      BY <1>5, <2>2
    <3>2. PICK j \in 1..m : l = n + j
      BY <1>5, <2>2
    <3>3. g[i] = g[j]
      BY <1>4, <1>11, <3>1, <3>2
    <3>4. i = j
      BY <1>1, <1>3, <3>3
    <3>5. QED
      BY <3>1, <3>2, <3>4
  <2>3. CASE k \in 1..n /\ l \notin 1..n
    BY <1>4, <1>5, <1>6, <1>7, <1>11, <2>3
  <2>4. CASE k \notin 1..n /\ l \in 1..n
    BY <1>4, <1>5, <1>6, <1>7, <1>11, <2>4
  <2>5. QED
    BY <2>1, <2>2, <2>3, <2>4
<1>12. Tells(log, P \cup Q, now)
  <2>1. h \in [DOMAIN log -> P \cup Q]
    BY <1>8, <1>9
  <2>2. QED
    BY <1>9, <1>10, <1>11, <2>1 DEF Tells
<1>13. QED
  BY <1>0, <1>12 DEF log

\* The library's recursion over the first n lists, of which it picks a solution h.
Flattened(seqs, n, h) ==
  h = [i \in 1..n |-> IF i = 1 THEN seqs[i] ELSE h[i - 1] \o seqs[i]]

LEMMA FlattenHasSolution ==
  ASSUME NEW seqs, NEW n \in Nat
  PROVE  \E h : Flattened(seqs, n, h)
<1> DEFINE Bad == {m \in Nat : ~\E h : Flattened(seqs, m, h)}
<1> SUFFICES ASSUME Bad # {} PROVE FALSE
  OBVIOUS
<1>1. PICK m \in Bad : \A k \in Bad : m <= k
  <2>1. Bad \in SUBSET Nat
    OBVIOUS
  <2> HIDE DEF Bad
  <2>2. QED
    BY <2>1, LeastNatural
<1>2. m \in Nat /\ ~\E h : Flattened(seqs, m, h)
  OBVIOUS
<1>3. m # 0
  <2> SUFFICES ASSUME m = 0 PROVE FALSE
    OBVIOUS
  <2> DEFINE h == [i \in 1..0 |-> i]
  <2>1. 1..0 = {}
    OBVIOUS
  <2>2. h = [i \in 1..0 |-> IF i = 1 THEN seqs[i] ELSE h[i - 1] \o seqs[i]]
    BY <2>1
  <2> HIDE DEF h
  <2>3. QED
    BY <1>2, <2>2 DEF Flattened
<1>4. m - 1 \in Nat /\ m - 1 \notin Bad
  <2>1. m - 1 \in Nat /\ ~(m <= m - 1)
    BY <1>2, <1>3
  <2> HIDE DEF Bad
  <2>2. QED
    BY <1>1, <2>1
<1>5. PICK g : Flattened(seqs, m - 1, g)
  BY <1>4
<1> DEFINE last == IF m = 1 THEN seqs[m] ELSE g[m - 1] \o seqs[m]
           h == [i \in 1..m |-> IF i = m THEN last ELSE g[i]]
<1>6. /\ DOMAIN g = 1..(m - 1)
      /\ \A i \in 1..(m - 1) : g[i] = IF i = 1 THEN seqs[i] ELSE g[i - 1] \o seqs[i]
  BY <1>5 DEF Flattened
<1>7. \A i \in 1..m : /\ i # m => i \in 1..(m - 1)
                      /\ i # 1 => i - 1 \in 1..m /\ i - 1 # m
                      /\ i \in Nat
  BY <1>2
<1>8. \A i \in 1..m : h[i] = IF i = m THEN last ELSE g[i]
  OBVIOUS
<1>9. h = [i \in 1..m |-> h[i]]
  OBVIOUS
<1>10. m \in 1..m /\ \A i \in 1..m : i # 1 => h[i - 1] = g[i - 1]
  <2> HIDE DEF h, Bad
  <2>1. m \in 1..m
    BY <1>2, <1>3
  <2>2. QED
    BY <1>7, <1>8, <2>1
<1> HIDE DEF h, Bad
<1>11. \A i \in 1..m : h[i] = IF i = 1 THEN seqs[i] ELSE h[i - 1] \o seqs[i]
  <2> SUFFICES ASSUME NEW i \in 1..m
               PROVE  h[i] = IF i = 1 THEN seqs[i] ELSE h[i - 1] \o seqs[i]
    OBVIOUS
  <2>1. CASE i = m
    <3>1. h[i] = IF i = 1 THEN seqs[i] ELSE g[i - 1] \o seqs[i]
      BY <1>8, <2>1
    <3>2. QED
      BY <1>10, <3>1
  <2>2. CASE i # m
    <3>1. h[i] = IF i = 1 THEN seqs[i] ELSE g[i - 1] \o seqs[i]
      BY <1>6, <1>7, <1>8, <2>2
    <3>2. QED
      BY <1>10, <3>1
  <2>3. QED
    BY <2>1, <2>2
<1>12. Flattened(seqs, m, h)
  BY <1>9, <1>11 DEF Flattened
<1>13. QED
  BY <1>2, <1>12

\* Lists that each tell rows of their own tell them all when put together.
LEMMA TellsAll ==
  ASSUME NEW now, NEW X, NEW seqs \in Seq(Seq(X)), NEW R,
         \A i \in DOMAIN seqs : Tells(seqs[i], R[i], now),
         \A i, j \in DOMAIN seqs : i # j => R[i] \cap R[j] = {}
  PROVE  FlattenSeq(seqs) \in Seq(X) /\ Tells(FlattenSeq(seqs), UNION {R[i] : i \in DOMAIN seqs}, now)
<1> DEFINE n == Len(seqs)
<1>1. n \in Nat /\ DOMAIN seqs = 1..n
  OBVIOUS
<1>2. CASE n = 0
  <2>1. FlattenSeq(seqs) = seqs /\ seqs = <<>> /\ DOMAIN seqs = {}
    BY <1>2 DEF FlattenSeq
  <2>2. UNION {R[i] : i \in DOMAIN seqs} = {}
    BY <2>1
  <2>3. QED
    BY <2>1, <2>2, TellsNothing
<1>3. CASE n # 0
  <2>1. \E h : Flattened(seqs, n, h)
    BY <1>1, FlattenHasSolution
  <2>2. \E h : Flattened(seqs, n, h) /\ FlattenSeq(seqs) = h[n]
    BY <1>3, <2>1 DEF Flattened, FlattenSeq
  <2>3. PICK h : Flattened(seqs, n, h) /\ FlattenSeq(seqs) = h[n]
    BY <2>2
  <2> DEFINE Upto(k) == UNION {R[i] : i \in 1..k}
             Bad == {k \in 1..n : ~(h[k] \in Seq(X) /\ Tells(h[k], Upto(k), now))}
  <2>4. Bad = {}
    <3> SUFFICES ASSUME Bad # {} PROVE FALSE
      OBVIOUS
    <3>1. PICK k \in Bad : \A l \in Bad : k <= l
      <4>1. Bad \in SUBSET Nat
        OBVIOUS
      <4> HIDE DEF Bad
      <4>2. QED
        BY <4>1, LeastNatural
    <3>2. k \in 1..n /\ k \in DOMAIN seqs /\ k \in Nat /\ ~(h[k] \in Seq(X) /\ Tells(h[k], Upto(k), now))
      BY <1>1
    <3>3. h[k] = IF k = 1 THEN seqs[k] ELSE h[k - 1] \o seqs[k]
      BY <2>3, <3>2 DEF Flattened
    <3>4. seqs[k] \in Seq(X) /\ Tells(seqs[k], R[k], now)
      BY <3>2
    <3>5. CASE k = 1
      <4>1. Upto(k) = R[k]
        <5>1. 1..1 = {1}
          OBVIOUS
        <5>2. QED
          BY <3>5, <5>1
      <4>2. QED
        BY <3>2, <3>3, <3>4, <3>5, <4>1
    <3>6. CASE k # 1
      <4>1. k - 1 \in 1..n /\ ~(k <= k - 1) /\ 1..k = (1..(k - 1)) \cup {k} /\ k \notin 1..(k - 1)
        BY <1>1, <3>2, <3>6
      <4>2. h[k - 1] \in Seq(X) /\ Tells(h[k - 1], Upto(k - 1), now)
        <5>1. k - 1 \notin Bad
          BY <3>1, <4>1
        <5>2. QED
          BY <4>1, <5>1
      <4>3. Upto(k) = Upto(k - 1) \cup R[k]
        BY <4>1
      <4>4. Upto(k - 1) \cap R[k] = {}
        <5>1. \A i \in 1..(k - 1) : i \in DOMAIN seqs /\ i # k
          BY <1>1, <3>2, <4>1
        <5>2. \A i \in 1..(k - 1) : R[i] \cap R[k] = {}
          BY <3>2, <5>1
        <5>3. QED
          BY <5>2
      <4> HIDE DEF Upto
      <4>5. Tells(h[k - 1] \o seqs[k], Upto(k - 1) \cup R[k], now)
        BY <3>4, <4>2, <4>4, TellsBoth
      <4>6. h[k - 1] \o seqs[k] \in Seq(X)
        BY <3>4, <4>2
      <4>7. QED
        BY <3>2, <3>3, <3>6, <4>3, <4>5, <4>6
    <3>7. QED
      BY <3>5, <3>6
  <2>5. n \in 1..n
    BY <1>1, <1>3
  <2>6. h[n] \in Seq(X) /\ Tells(h[n], Upto(n), now)
    BY <2>4, <2>5
  <2>7. QED
    BY <1>1, <2>3, <2>6
<1>4. QED
  BY <1>2, <1>3

\* A list with one event for each row of a table, in its order.
LEMMA TellsEach ==
  ASSUME NEW now, NEW n \in Nat, NEW log, NEW R, DOMAIN log = 1..n,
         \A i \in 1..n : Matches(log[i], R[i], now),
         \A i, j \in 1..n : R[i] = R[j] => i = j,
         NEW rows, \A r : r \in rows <=> \E i \in 1..n : r = R[i]
  PROVE  Tells(log, rows, now)
<1> DEFINE f == [i \in 1..n |-> R[i]]
<1>1. f \in [DOMAIN log -> rows]
  OBVIOUS
<1>2. \A i \in 1..n : f[i] = R[i]
  OBVIOUS
<1> HIDE DEF f
<1>3. \A r \in rows : \E k \in DOMAIN log : f[k] = r
  BY <1>2
<1>4. \A k, l \in DOMAIN log : f[k] = f[l] => k = l
  BY <1>2
<1>5. \A k \in DOMAIN log : Matches(log[k], f[k], now)
  BY <1>2
<1>6. QED
  BY <1>1, <1>3, <1>4, <1>5 DEF Tells

-----------------------------------------------------------------------------
\* A row, and the time of one on the session clock.
Row(type, time, i) == [type |-> type, time |-> time, place |-> i]
Clock(s, time) == RelToAbs(T0(s), time)

\* What a session's tables hold, row by row.
RowsOfLap(s, i) ==
  LET time == Clock(s, s.laps[i].time)
  IN  IF time = None THEN {}
      ELSE {Row("LapCompleted", time, i)}
             \cup (IF s.laps[i].pit_in THEN {Row("PitStopCompleted", time, i)} ELSE {})
RowsOfStatus(s, i) ==
  LET row == s.track_status[i]
  IN  IF row.code \in DOMAIN StatusType
      THEN {Row(StatusType[row.code], Clock(s, row.time), i)} ELSE {}

LapTable(s) == UNION {RowsOfLap(s, i) : i \in DOMAIN s.laps}
WeatherTable(s) == {Row("WeatherUpdated", Clock(s, s.weather[i].time), i) : i \in DOMAIN s.weather}
StatusTable(s) == UNION {RowsOfStatus(s, i) : i \in DOMAIN s.track_status}
MessageTable(s) == {Row("RaceControlMessagePublished", s.messages[i].time, i) : i \in DOMAIN s.messages}

LEMMA RowFields ==
  ASSUME NEW type, NEW time, NEW i, NEW type2, NEW time2, NEW i2
  PROVE  /\ Row(type, time, i).type = type /\ Row(type, time, i).time = time
         /\ Row(type, time, i).place = i
         /\ Row(type, time, i) = Row(type2, time2, i2) <=> type = type2 /\ time = time2 /\ i = i2
<1>1. /\ Row(type, time, i).type = type /\ Row(type, time, i).time = time /\ Row(type, time, i).place = i
      /\ Row(type2, time2, i2).type = type2 /\ Row(type2, time2, i2).time = time2
      /\ Row(type2, time2, i2).place = i2
  BY DEF Row
<1>2. QED
  BY <1>1

LEMMA SessionTables ==
  ASSUME NEW s \in Session
  PROVE  /\ s.laps \in Seq(LapRow) /\ s.weather \in Seq(WeatherRow)
         /\ s.track_status \in Seq(StatusRow) /\ s.messages \in Seq(MessageRow)
         /\ s.date \in Optional(Nat) /\ s.start \in Optional(Nat)
BY DEF Session

LEMMA ClockIs ==
  ASSUME None \notin Int, NEW s \in Session, NEW time
  PROVE  Clock(s, time) = IF time = None \/ s.date = None \/ s.start = None THEN None
                          ELSE (s.date - s.start) + time
<1>1. s.date # None /\ s.start # None => s.date - s.start # None
  <2>1. s.date # None /\ s.start # None => s.date \in Nat /\ s.start \in Nat
    BY SessionTables DEF Optional
  <2>2. s.date \in Nat /\ s.start \in Nat => s.date - s.start \in Int
    OBVIOUS
  <2>3. QED
    BY <2>1, <2>2
<1>2. QED
  BY <1>1 DEF Clock, RelToAbs, T0

LEMMA StatusTypes ==
  /\ DOMAIN StatusType = {"2", "4", "5", "6"}
  /\ StatusType["2"] = "YellowFlagStarted" /\ StatusType["5"] = "RedFlagStarted"
  /\ StatusType["4"] = "SafetyCarDeployed" /\ StatusType["6"] = "SafetyCarDeployed"
BY DEF StatusType

\* The four tables are what the property counts.
LEMMA FourTables ==
  ASSUME None \notin Int, NEW s \in Session
  PROVE  Rows(s) = ((LapTable(s) \cup WeatherTable(s)) \cup StatusTable(s)) \cup MessageTable(s)
<1> DEFINE clock(time) == IF time = None \/ s.date = None \/ s.start = None THEN None
                          ELSE (s.date - s.start) + time
           laps == {r \in {Row("LapCompleted", clock(s.laps[i].time), i) : i \in DOMAIN s.laps}
                      \cup {Row("PitStopCompleted", clock(s.laps[i].time), i) :
                             i \in {j \in DOMAIN s.laps : s.laps[j].pit_in}} : r.time # None}
           weather == {Row("WeatherUpdated", clock(s.weather[i].time), i) : i \in DOMAIN s.weather}
           cars == {Row("SafetyCarDeployed", clock(s.track_status[i].time), i) :
                     i \in {j \in DOMAIN s.track_status : s.track_status[j].code \in {"4", "6"}}}
           yellow == {Row("YellowFlagStarted", clock(s.track_status[i].time), i) :
                       i \in {j \in DOMAIN s.track_status : s.track_status[j].code = "2"}}
           red == {Row("RedFlagStarted", clock(s.track_status[i].time), i) :
                    i \in {j \in DOMAIN s.track_status : s.track_status[j].code = "5"}}
<1>1. Rows(s) = laps \cup weather \cup cars \cup yellow \cup red \cup MessageTable(s)
  BY DEF Rows, Row, MessageTable
<1>2. \A time : clock(time) = Clock(s, time)
  BY ClockIs
<1> HIDE DEF clock
<1>3. laps = LapTable(s)
  <2>1. \A r : r \in laps <=> \E i \in DOMAIN s.laps :
          /\ Clock(s, s.laps[i].time) # None
          /\ \/ r = Row("LapCompleted", Clock(s, s.laps[i].time), i)
             \/ s.laps[i].pit_in /\ r = Row("PitStopCompleted", Clock(s, s.laps[i].time), i)
    BY <1>2, RowFields
  <2>2. \A r : r \in LapTable(s) <=> \E i \in DOMAIN s.laps :
          /\ Clock(s, s.laps[i].time) # None
          /\ \/ r = Row("LapCompleted", Clock(s, s.laps[i].time), i)
             \/ s.laps[i].pit_in /\ r = Row("PitStopCompleted", Clock(s, s.laps[i].time), i)
    <3>1. \A r, i : r \in RowsOfLap(s, i) <=>
            /\ Clock(s, s.laps[i].time) # None
            /\ \/ r = Row("LapCompleted", Clock(s, s.laps[i].time), i)
               \/ s.laps[i].pit_in /\ r = Row("PitStopCompleted", Clock(s, s.laps[i].time), i)
      BY DEF RowsOfLap
    <3>2. QED
      BY <3>1 DEF LapTable
  <2>3. QED
    BY <2>1, <2>2
<1>4. weather = WeatherTable(s)
  BY <1>2 DEF WeatherTable
<1>5. cars \cup yellow \cup red = StatusTable(s)
  <2>1. \A r, i : r \in RowsOfStatus(s, i) <=>
          \/ s.track_status[i].code \in {"4", "6"}
             /\ r = Row("SafetyCarDeployed", Clock(s, s.track_status[i].time), i)
          \/ s.track_status[i].code = "2"
             /\ r = Row("YellowFlagStarted", Clock(s, s.track_status[i].time), i)
          \/ s.track_status[i].code = "5"
             /\ r = Row("RedFlagStarted", Clock(s, s.track_status[i].time), i)
    BY StatusTypes DEF RowsOfStatus
  <2>2. \A r : r \in StatusTable(s) <=> \E i \in DOMAIN s.track_status : r \in RowsOfStatus(s, i)
    BY DEF StatusTable
  <2>3. \A r : r \in cars <=> \E i \in DOMAIN s.track_status : s.track_status[i].code \in {"4", "6"}
                                /\ r = Row("SafetyCarDeployed", Clock(s, s.track_status[i].time), i)
    BY <1>2
  <2>4. \A r : r \in yellow <=> \E i \in DOMAIN s.track_status : s.track_status[i].code = "2"
                                /\ r = Row("YellowFlagStarted", Clock(s, s.track_status[i].time), i)
    BY <1>2
  <2>5. \A r : r \in red <=> \E i \in DOMAIN s.track_status : s.track_status[i].code = "5"
                                /\ r = Row("RedFlagStarted", Clock(s, s.track_status[i].time), i)
    BY <1>2
  <2> HIDE DEF cars, yellow, red
  <2>6. \A r : r \in cars \cup yellow \cup red <=> r \in StatusTable(s)
    BY <2>1, <2>2, <2>3, <2>4, <2>5
  <2>7. QED
    BY <2>6
<1> HIDE DEF laps, weather, cars, yellow, red
<1>6. QED
  BY <1>1, <1>3, <1>4, <1>5

-----------------------------------------------------------------------------
(* Each pass over a table tells its rows. *)

LEMMA PlainFields ==
  ASSUME NEW type, NEW time
  PROVE  Plain(type, time).event_type = type /\ Plain(type, time).event_time = time
BY DEF Plain

LEMMA LapsTell ==
  ASSUME NEW s \in Session, NEW now
  PROVE  \E X : LapEvents(s) \in Seq(X) /\ Tells(LapEvents(s), LapTable(s), now)
<1> DEFINE D == DOMAIN s.laps
           seqs == [i \in D |-> EventsOfLap(s, s.laps[i])]
           R == [i \in D |-> RowsOfLap(s, i)]
           X == {LapEvent(s.laps[i], Clock(s, s.laps[i].time)) : i \in D}
                  \cup {StopEvent(s.laps[i], Clock(s, s.laps[i].time)) : i \in D}
<1>1. D = 1..Len(s.laps) /\ Len(s.laps) \in Nat
  BY SessionTables
<1>2. ASSUME NEW i \in D
      PROVE  EventsOfLap(s, s.laps[i]) \in Seq(X) /\ Tells(EventsOfLap(s, s.laps[i]), RowsOfLap(s, i), now)
  <2> DEFINE row == s.laps[i]
             time == Clock(s, row.time)
             lap == LapEvent(row, time)
             stop == StopEvent(row, time)
             lapRow == Row("LapCompleted", time, i)
             stopRow == Row("PitStopCompleted", time, i)
  <2>1. lap \in X /\ stop \in X
    OBVIOUS
  <2>2. EventsOfLap(s, row) = IF time = None THEN <<>>
                              ELSE IF row.pit_in THEN <<lap, stop>> ELSE <<lap>>
    BY DEF EventsOfLap, Clock
  <2>3. RowsOfLap(s, i) = IF time = None THEN {}
                          ELSE {lapRow} \cup (IF row.pit_in THEN {stopRow} ELSE {})
    BY DEF RowsOfLap
  <2>4. /\ lap.event_type = "LapCompleted" /\ lap.event_time = time
        /\ stop.event_type = "PitStopCompleted" /\ stop.event_time = time
    BY DEF LapEvent, StopEvent, Plain
  <2> HIDE DEF row, time, lap, stop, X
  <2>5. /\ lapRow.type = "LapCompleted" /\ lapRow.time = time
        /\ stopRow.type = "PitStopCompleted" /\ stopRow.time = time
        /\ lapRow # stopRow
    BY RowFields
  <2> HIDE DEF lapRow, stopRow
  <2>6. time # None => Matches(lap, lapRow, now) /\ Matches(stop, stopRow, now)
    BY <2>4, <2>5 DEF Matches
  <2>7. time # None => Tells(<<lap>>, {lapRow}, now) /\ Tells(<<stop>>, {stopRow}, now)
    BY <2>6, TellsOne
  <2>8. /\ <<lap>> \in Seq(X) /\ <<stop>> \in Seq(X) /\ << >> \in Seq(X)
        /\ <<lap, stop>> \in Seq(X) /\ <<lap>> \o <<stop>> = <<lap, stop>>
    <3>1. /\ <<lap>> \in Seq(X) /\ <<stop>> \in Seq(X) /\ << >> \in Seq(X)
          /\ <<lap, stop>> \in Seq(X)
      BY <2>1
    <3>2. <<lap>> \o <<stop>> = <<lap, stop>>
      <4> DEFINE both == <<lap>> \o <<stop>>
      <4>1. /\ both \in Seq(X) /\ Len(both) = 2 /\ both[1] = lap /\ both[2] = stop
        BY <3>1
      <4> HIDE DEF both
      <4>2. both = <<lap, stop>>
        BY <4>1
      <4>3. QED
        BY <4>2 DEF both
    <3>3. QED
      BY <3>1, <3>2
  <2>9. {lapRow} \cap {stopRow} = {}
    BY <2>5
  <2>10. time # None => Tells(<<lap>> \o <<stop>>, {lapRow} \cup {stopRow}, now)
    BY <2>7, <2>8, <2>9, TellsBoth
  <2>11. Tells(EventsOfLap(s, row), RowsOfLap(s, i), now)
    <3>1. CASE time = None
      BY <2>2, <2>3, <3>1, TellsNothing
    <3>2. CASE time # None /\ row.pit_in
      <4>1. Tells(<<lap, stop>>, {lapRow} \cup {stopRow}, now)
        BY <2>8, <2>10, <3>2
      <4>2. QED
        BY <2>2, <2>3, <3>2, <4>1
    <3>3. CASE time # None /\ ~row.pit_in
      <4>1. {lapRow} \cup {} = {lapRow}
        OBVIOUS
      <4>2. QED
        BY <2>2, <2>3, <2>7, <3>3, <4>1
    <3>4. QED
      BY <3>1, <3>2, <3>3
  <2>12. EventsOfLap(s, row) \in Seq(X)
    BY <2>2, <2>8
  <2>13. QED
    BY <2>11, <2>12 DEF row
<1>3. \A i \in D : \A r \in RowsOfLap(s, i) : r.place = i
  BY RowFields DEF RowsOfLap
<1> HIDE DEF X
<1>4. seqs \in Seq(Seq(X)) /\ DOMAIN seqs = D
  BY <1>1, <1>2
<1>5. \A i \in DOMAIN seqs : Tells(seqs[i], R[i], now)
  BY <1>2
<1>6. \A i, j \in DOMAIN seqs : i # j => R[i] \cap R[j] = {}
  BY <1>3
<1>7. UNION {R[i] : i \in DOMAIN seqs} = LapTable(s)
  BY DEF LapTable
<1>8. FlattenSeq(seqs) = LapEvents(s)
  BY DEF LapEvents
<1> HIDE DEF seqs, R
<1>9. FlattenSeq(seqs) \in Seq(X) /\ Tells(FlattenSeq(seqs), UNION {R[i] : i \in DOMAIN seqs}, now)
  BY <1>4, <1>5, <1>6, TellsAll
<1>10. QED
  BY <1>7, <1>8, <1>9

LEMMA StatusesTell ==
  ASSUME NEW s \in Session, NEW now
  PROVE  \E X : TrackStatusEvents(s, now) \in Seq(X) /\ Tells(TrackStatusEvents(s, now), StatusTable(s), now)
<1> DEFINE D == DOMAIN s.track_status
           event(i) == Plain(StatusType[s.track_status[i].code], Or(Clock(s, s.track_status[i].time), now))
           seqs == [i \in D |-> EventsOfStatus(s, s.track_status[i], now)]
           R == [i \in D |-> RowsOfStatus(s, i)]
           X == {event(i) : i \in D}
<1>1. D = 1..Len(s.track_status) /\ Len(s.track_status) \in Nat
  BY SessionTables
<1>2. ASSUME NEW i \in D
      PROVE  /\ EventsOfStatus(s, s.track_status[i], now) \in Seq(X)
             /\ Tells(EventsOfStatus(s, s.track_status[i], now), RowsOfStatus(s, i), now)
  <2> DEFINE code == s.track_status[i].code
             time == Clock(s, s.track_status[i].time)
             e == event(i)
             r == Row(StatusType[code], time, i)
  <2>1. e \in X
    OBVIOUS
  <2>2. EventsOfStatus(s, s.track_status[i], now) = IF code \in DOMAIN StatusType THEN <<e>> ELSE <<>>
    BY DEF EventsOfStatus, Clock
  <2>3. RowsOfStatus(s, i) = IF code \in DOMAIN StatusType THEN {r} ELSE {}
    BY DEF RowsOfStatus
  <2>4. e.event_type = StatusType[code] /\ e.event_time = IF time = None THEN now ELSE time
    BY PlainFields DEF Or
  <2>5. r.type = StatusType[code] /\ r.time = time
    BY RowFields
  <2> HIDE DEF e, r, code, time, X
  <2>6. Matches(e, r, now)
    BY <2>4, <2>5 DEF Matches
  <2>7. Tells(<<e>>, {r}, now) /\ Tells(<<>>, {}, now)
    BY <2>6, TellsOne, TellsNothing
  <2>8. <<e>> \in Seq(X) /\ <<>> \in Seq(X)
    BY <2>1
  <2>9. QED
    BY <2>2, <2>3, <2>7, <2>8
<1>3. \A i \in D : \A r \in RowsOfStatus(s, i) : r.place = i
  BY RowFields DEF RowsOfStatus
<1> HIDE DEF X
<1>4. seqs \in Seq(Seq(X)) /\ DOMAIN seqs = D
  BY <1>1, <1>2
<1>5. \A i \in DOMAIN seqs : Tells(seqs[i], R[i], now)
  BY <1>2
<1>6. \A i, j \in DOMAIN seqs : i # j => R[i] \cap R[j] = {}
  BY <1>3
<1>7. UNION {R[i] : i \in DOMAIN seqs} = StatusTable(s)
  BY DEF StatusTable
<1>8. FlattenSeq(seqs) = TrackStatusEvents(s, now)
  BY DEF TrackStatusEvents
<1> HIDE DEF seqs, R
<1>9. FlattenSeq(seqs) \in Seq(X) /\ Tells(FlattenSeq(seqs), UNION {R[i] : i \in DOMAIN seqs}, now)
  BY <1>4, <1>5, <1>6, TellsAll
<1>10. QED
  BY <1>7, <1>8, <1>9

LEMMA WeatherTells ==
  ASSUME NEW s \in Session, NEW now
  PROVE  \E X : WeatherEvents(s, now) \in Seq(X) /\ Tells(WeatherEvents(s, now), WeatherTable(s), now)
<1> DEFINE n == Len(s.weather)
           log == WeatherEvents(s, now)
           R == [i \in 1..n |-> Row("WeatherUpdated", Clock(s, s.weather[i].time), i)]
<1>1. DOMAIN s.weather = 1..n /\ n \in Nat
  BY SessionTables
<1>2. DOMAIN log = 1..n
  BY <1>1 DEF WeatherEvents
<1>3. ASSUME NEW i \in 1..n PROVE Matches(log[i], R[i], now)
  <2> DEFINE time == Clock(s, s.weather[i].time)
             e == [Plain("WeatherUpdated", Or(time, now)) EXCEPT !.weather = s.weather[i].weather]
  <2>1. log[i] = e
    BY <1>1 DEF WeatherEvents, Clock
  <2>2. e.event_type = "WeatherUpdated" /\ e.event_time = IF time = None THEN now ELSE time
    BY DEF Plain, Or
  <2>3. R[i] = Row("WeatherUpdated", time, i)
    OBVIOUS
  <2> HIDE DEF time, e, R, log
  <2>4. R[i].type = "WeatherUpdated" /\ R[i].time = time
    BY <2>3, RowFields
  <2>5. QED
    BY <2>1, <2>2, <2>4 DEF Matches
<1>4. \A i, j \in 1..n : R[i] = R[j] => i = j
  BY RowFields
<1>5. \A r : r \in WeatherTable(s) <=> \E i \in 1..n : r = R[i]
  BY <1>1 DEF WeatherTable
<1>6. log = [i \in 1..n |-> log[i]]
  BY <1>1 DEF WeatherEvents
<1> HIDE DEF log, R, n
<1>7. Tells(log, WeatherTable(s), now)
  BY <1>1, <1>2, <1>3, <1>4, <1>5, TellsEach
<1>8. log \in Seq({log[i] : i \in 1..n})
  BY <1>1, <1>6
<1>9. QED
  BY <1>7, <1>8 DEF log

LEMMA MessagesTell ==
  ASSUME NEW s \in Session, NEW now
  PROVE  \E X : RaceControlEvents(s, now) \in Seq(X) /\ Tells(RaceControlEvents(s, now), MessageTable(s), now)
<1> DEFINE n == Len(s.messages)
           log == RaceControlEvents(s, now)
           R == [i \in 1..n |-> Row("RaceControlMessagePublished", s.messages[i].time, i)]
<1>1. DOMAIN s.messages = 1..n /\ n \in Nat
  BY SessionTables
<1>2. DOMAIN log = 1..n
  BY <1>1 DEF RaceControlEvents
<1>3. ASSUME NEW i \in 1..n PROVE Matches(log[i], R[i], now)
  <2> DEFINE time == s.messages[i].time
             e == Plain("RaceControlMessagePublished", Or(time, now))
  <2>1. log[i] = e
    BY <1>1 DEF RaceControlEvents
  <2>2. e.event_type = "RaceControlMessagePublished" /\ e.event_time = IF time = None THEN now ELSE time
    BY DEF Plain, Or
  <2>3. R[i] = Row("RaceControlMessagePublished", time, i)
    OBVIOUS
  <2> HIDE DEF time, e, R, log
  <2>4. R[i].type = "RaceControlMessagePublished" /\ R[i].time = time
    BY <2>3, RowFields
  <2>5. QED
    BY <2>1, <2>2, <2>4 DEF Matches
<1>4. \A i, j \in 1..n : R[i] = R[j] => i = j
  BY RowFields
<1>5. \A r : r \in MessageTable(s) <=> \E i \in 1..n : r = R[i]
  BY <1>1 DEF MessageTable
<1>6. log = [i \in 1..n |-> log[i]]
  BY <1>1 DEF RaceControlEvents
<1> HIDE DEF log, R, n
<1>7. Tells(log, MessageTable(s), now)
  BY <1>1, <1>2, <1>3, <1>4, <1>5, TellsEach
<1>8. log \in Seq({log[i] : i \in 1..n})
  BY <1>1, <1>6
<1>9. QED
  BY <1>7, <1>8 DEF log

\* And the passes one after the other tell all four.
LEMMA SessionTells ==
  ASSUME None \notin Int, NEW s \in Session, NEW now
  PROVE  Tells(SessionEvents(s, now), Rows(s), now)
<1>1. /\ \A r \in LapTable(s) : r.type \in {"LapCompleted", "PitStopCompleted"}
      /\ \A r \in WeatherTable(s) : r.type = "WeatherUpdated"
      /\ \A r \in StatusTable(s) :
           r.type \in {"YellowFlagStarted", "RedFlagStarted", "SafetyCarDeployed"}
      /\ \A r \in MessageTable(s) : r.type = "RaceControlMessagePublished"
  <2>1. \A r \in LapTable(s) : r.type \in {"LapCompleted", "PitStopCompleted"}
    <3>1. \A i : \A r \in RowsOfLap(s, i) : r.type \in {"LapCompleted", "PitStopCompleted"}
      BY RowFields DEF RowsOfLap
    <3>2. QED
      BY <3>1 DEF LapTable
  <2>2. \A r \in StatusTable(s) :
          r.type \in {"YellowFlagStarted", "RedFlagStarted", "SafetyCarDeployed"}
    <3>1. \A i : \A r \in RowsOfStatus(s, i) :
            r.type \in {"YellowFlagStarted", "RedFlagStarted", "SafetyCarDeployed"}
      BY RowFields, StatusTypes DEF RowsOfStatus
    <3>2. QED
      BY <3>1 DEF StatusTable
  <2>3. /\ \A r \in WeatherTable(s) : r.type = "WeatherUpdated"
        /\ \A r \in MessageTable(s) : r.type = "RaceControlMessagePublished"
    BY RowFields DEF WeatherTable, MessageTable
  <2>4. QED
    BY <2>1, <2>2, <2>3
<1> DEFINE L == LapEvents(s)
           W == WeatherEvents(s, now)
           T == TrackStatusEvents(s, now)
           M == RaceControlEvents(s, now)
<1>2. PICK XL : L \in Seq(XL) /\ Tells(L, LapTable(s), now)
  BY LapsTell
<1>3. PICK XW : W \in Seq(XW) /\ Tells(W, WeatherTable(s), now)
  BY WeatherTells
<1>4. PICK XT : T \in Seq(XT) /\ Tells(T, StatusTable(s), now)
  BY StatusesTell
<1>5. PICK XM : M \in Seq(XM) /\ Tells(M, MessageTable(s), now)
  BY MessagesTell
<1>6. SessionEvents(s, now) = ((L \o W) \o T) \o M
  BY DEF SessionEvents
<1> HIDE DEF L, W, T, M
<1>7. L \o W \in Seq(XL \cup XW) /\ Tells(L \o W, LapTable(s) \cup WeatherTable(s), now)
  <2>1. LapTable(s) \cap WeatherTable(s) = {}
    BY <1>1
  <2>2. QED
    BY <1>2, <1>3, <2>1, TellsBoth
<1>8. /\ (L \o W) \o T \in Seq((XL \cup XW) \cup XT)
      /\ Tells((L \o W) \o T, (LapTable(s) \cup WeatherTable(s)) \cup StatusTable(s), now)
  <2>1. (LapTable(s) \cup WeatherTable(s)) \cap StatusTable(s) = {}
    BY <1>1
  <2>2. QED
    BY <1>4, <1>7, <2>1, TellsBoth
<1>9. Tells(((L \o W) \o T) \o M,
            ((LapTable(s) \cup WeatherTable(s)) \cup StatusTable(s)) \cup MessageTable(s), now)
  <2>1. ((LapTable(s) \cup WeatherTable(s)) \cup StatusTable(s)) \cap MessageTable(s) = {}
    BY <1>1
  <2>2. QED
    BY <1>5, <1>8, <2>1, TellsBoth
<1>10. QED
  BY <1>6, <1>9, FourTables

-----------------------------------------------------------------------------
\* New ids change nothing of what a list tells.
LEMMA TellsWithIds ==
  ASSUME NEW now, NEW rows, NEW a, NEW b, DOMAIN b = DOMAIN a, Tells(a, rows, now),
         \A k \in DOMAIN a : b[k].event_type = a[k].event_type /\ b[k].event_time = a[k].event_time
  PROVE  Tells(b, rows, now)
<1>1. PICK f \in [DOMAIN a -> rows] :
        /\ \A k, l \in DOMAIN a : f[k] = f[l] => k = l
        /\ \A r \in rows : \E k \in DOMAIN a : f[k] = r
        /\ \A k \in DOMAIN a : Matches(a[k], f[k], now)
  BY DEF Tells
<1>2. \A k \in DOMAIN b : Matches(b[k], f[k], now)
  BY <1>1 DEF Matches
<1>3. QED
  BY <1>1, <1>2 DEF Tells

\* Nor does sorting it.
LEMMA TellsSorted ==
  ASSUME NEW now, NEW rows, NEW log \in Seq(Event), Tells(log, rows, now)
  PROVE  Tells(ReplayOrder(log), rows, now)
<1> DEFINE n == Len(log)
           sorted == ReplayOrder(log)
<1>1. n \in Nat /\ DOMAIN log = 1..n /\ DOMAIN sorted = 1..n
  BY DEF ReplayOrder
<1>2. PICK f \in [DOMAIN log -> rows] :
        /\ \A k, l \in DOMAIN log : f[k] = f[l] => k = l
        /\ \A r \in rows : \E k \in DOMAIN log : f[k] = r
        /\ \A k \in DOMAIN log : Matches(log[k], f[k], now)
  BY DEF Tells
<1>3. \A k \in 1..n : /\ Entry(log, k) \in DOMAIN log /\ Rank(log, Entry(log, k)) = k
                      /\ sorted[k] = log[Entry(log, k)]
  BY EntryRank
<1>4. \A j \in DOMAIN log : \E k \in 1..n : Entry(log, k) = j
  <2> SUFFICES ASSUME NEW j \in DOMAIN log PROVE \E k \in 1..n : Entry(log, k) = j
    OBVIOUS
  <2> DEFINE rank == [i \in DOMAIN log |-> Rank(log, i)]
  <2>1. rank \in Bijection(DOMAIN log, 1..n)
    BY EntriesAreRanked
  <2>2. \A i \in DOMAIN log : rank[i] = Rank(log, i)
    OBVIOUS
  <2> HIDE DEF rank
  <2>3. /\ \A i \in DOMAIN log : rank[i] \in 1..n
        /\ \A i, l \in DOMAIN log : rank[i] = rank[l] => i = l
    BY <2>1 DEF Bijection, Injection, IsInjective
  <2>4. /\ rank[j] \in 1..n /\ Entry(log, rank[j]) \in DOMAIN log
        /\ rank[Entry(log, rank[j])] = rank[j]
    BY <1>3, <2>2, <2>3
  <2>5. Entry(log, rank[j]) = j
    BY <2>3, <2>4
  <2>6. QED
    BY <2>4, <2>5
<1> DEFINE g == [k \in 1..n |-> f[Entry(log, k)]]
<1>5. g \in [1..n -> rows] /\ \A k \in 1..n : g[k] = f[Entry(log, k)]
  BY <1>2, <1>3
<1> HIDE DEF g, sorted
<1>6. \A k, l \in 1..n : g[k] = g[l] => k = l
  <2> SUFFICES ASSUME NEW k \in 1..n, NEW l \in 1..n, g[k] = g[l] PROVE k = l
    OBVIOUS
  <2>1. Entry(log, k) = Entry(log, l)
    BY <1>2, <1>3, <1>5
  <2>2. QED
    BY <1>3, <2>1
<1>7. \A r \in rows : \E k \in 1..n : g[k] = r
  <2> SUFFICES ASSUME NEW r \in rows PROVE \E k \in 1..n : g[k] = r
    OBVIOUS
  <2>1. PICK j \in DOMAIN log : f[j] = r
    BY <1>2
  <2>2. PICK k \in 1..n : Entry(log, k) = j
    BY <1>4
  <2>3. QED
    BY <1>5, <2>1, <2>2
<1>8. \A k \in 1..n : Matches(sorted[k], g[k], now)
  BY <1>2, <1>3, <1>5
<1>9. Tells(sorted, rows, now)
  BY <1>1, <1>5, <1>6, <1>7, <1>8 DEF Tells
<1>10. QED
  BY <1>9 DEF sorted

\* Of the same things there are equally many events as rows.
LEMMA TellsAsMany ==
  ASSUME NEW now, NEW rows, NEW log \in Seq(Event), Tells(log, rows, now),
         NEW K \in SUBSET DOMAIN log, NEW Q \in SUBSET rows,
         \A k \in DOMAIN log, r \in rows : Matches(log[k], r, now) => (k \in K <=> r \in Q)
  PROVE  Cardinality(K) = Cardinality(Q)
<1>1. PICK f \in [DOMAIN log -> rows] :
        /\ \A k, l \in DOMAIN log : f[k] = f[l] => k = l
        /\ \A r \in rows : \E k \in DOMAIN log : f[k] = r
        /\ \A k \in DOMAIN log : Matches(log[k], f[k], now)
  BY DEF Tells
<1> DEFINE g == [k \in K |-> f[k]]
<1>2. \A k \in DOMAIN log : k \in K <=> f[k] \in Q
  BY <1>1
<1>3. g \in [K -> Q] /\ \A k \in K : g[k] = f[k]
  BY <1>2
<1> HIDE DEF g
<1>4. \A k, l \in K : g[k] = g[l] => k = l
  BY <1>1, <1>3
<1>5. \A r \in Q : \E k \in K : g[k] = r
  BY <1>1, <1>2, <1>3
<1>6. g \in Bijection(K, Q)
  BY <1>3, <1>4, <1>5 DEF Bijection, Injection, Surjection, IsInjective
<1>7. IsFiniteSet(K)
  <2>1. DOMAIN log = 1..Len(log) /\ Len(log) \in Nat
    OBVIOUS
  <2>2. IsFiniteSet(1..Len(log))
    BY <2>1, FS_Interval
  <2>3. QED
    BY <2>1, <2>2, FS_Subset
<1>8. QED
  BY <1>6, <1>7, FS_Bijection DEF ExistsBijection

\* Every download tells the session's rows, those without a time as of some
\* moment after the session ended.
ClockInv ==
  \A n \in DOMAIN downloads :
    \E now \in Nat : now >= Ended /\ Tells(downloads[n], Rows(session), now)

LEMMA ClockStep == StoreInv /\ ClockInv /\ [Next]_vars => ClockInv'
<1> SUFFICES ASSUME StoreInv, ClockInv, [Next]_vars PROVE ClockInv'
  OBVIOUS
<1>1. ASSUME NEW ids, Download(ids),
             LET places == DOMAIN SessionEvents(session, Now(downloads))
             IN  ids \in Injection(places, places)
      PROVE  ClockInv'
  <2> DEFINE plain == SessionEvents(session, Now(downloads))
             log == Mint(plain, ids)
             now == Now(downloads)
  <2>1. session \in Session /\ None \notin Int
    BY StoreAssumption DEF StoreInv
  <2>2. Tells(plain, Rows(session), now)
    BY <2>1, SessionTells
  <2>3. /\ log \in Seq(Event) /\ events' = ReplayOrder(log)
        /\ now \in Nat /\ now >= Ended
        /\ DOMAIN log = DOMAIN plain
        /\ \A i \in DOMAIN plain : /\ log[i].event_type = plain[i].event_type
                                   /\ log[i].event_time = plain[i].event_time
    BY <1>1, Minted
  <2> HIDE DEF plain, log, now
  <2>4. Tells(log, Rows(session), now)
    BY <2>2, <2>3, TellsWithIds
  <2>5. Tells(events', Rows(session), now)
    BY <2>3, <2>4, TellsSorted
  <2>6. downloads \in Seq(Sorted) /\ downloads' = Append(downloads, events') /\ session' = session
    BY <1>1 DEF StoreInv, Download
  <2>7. events' \in Sorted
    BY <1>1, DownloadSorted
  <2>8. /\ DOMAIN downloads' = 1..(Len(downloads) + 1) /\ Len(downloads) \in Nat
        /\ DOMAIN downloads = 1..Len(downloads)
        /\ \A n \in DOMAIN downloads : downloads'[n] = downloads[n]
        /\ downloads'[Len(downloads) + 1] = events'
    BY <2>6, <2>7
  <2>9. Rows(session)' = Rows(session)
    BY <2>6 DEF Rows
  <2>10. ASSUME NEW n \in DOMAIN downloads'
         PROVE  \E t \in Nat : t >= Ended /\ Tells(downloads'[n], Rows(session), t)
    <3>1. n \in DOMAIN downloads \/ n = Len(downloads) + 1
      BY <2>8
    <3>2. QED
      BY <2>3, <2>5, <2>8, <3>1 DEF ClockInv
  <2>11. QED
    BY <2>9, <2>10 DEF ClockInv
<1>2. CASE UNCHANGED <<session, downloads>>
  <2>1. Rows(session)' = Rows(session)
    BY <1>2 DEF Rows
  <2>2. QED
    BY <1>2, <2>1 DEF ClockInv
<1>3. CASE OpenForWriting \/ WriteLine \/ TearLine \/ Close \/ Crash \/ OpenForReading
            \/ ReadLine \/ ReadFragment \/ EndOfFile \/ UNCHANGED vars
  <2>1. UNCHANGED <<session, downloads>>
    BY <1>3 DEF OpenForWriting, WriteLine, TearLine, Close, Crash, OpenForReading, ReadLine,
             ReadFragment, EndOfFile, writerVars, vars
  <2>2. QED
    BY <1>2, <2>1
<1>4. QED
  BY <1>1, <1>3 DEF Next

(* DownloadKeepsOneClock for every session: of each type a download holds as *)
(* many events up to any moment of the session as the tables have rows, and  *)
(* in all as many, with no event before one of an earlier time               *)
(* (load_session_events 100-106).                                            *)
THEOREM DownloadAlwaysKeepsOneClock == Spec => []DownloadKeepsOneClock
<1>1. Init => StoreInv /\ ClockInv
  BY InitKeepsStore DEF Init, ClockInv
<1>2. StoreInv /\ ClockInv => DownloadKeepsOneClock
  <2> SUFFICES ASSUME StoreInv, ClockInv,
                      NEW n \in DOMAIN downloads, NEW type \in EventType
               PROVE  LET d == downloads[n]
                          times == [k \in {j \in DOMAIN d : d[j].event_type = type} |-> d[k].event_time]
                          rows == {r \in Rows(session) : r.type = type}
                      IN  /\ \A moment \in 0..(Ended - 1) :
                               Cardinality({k \in DOMAIN times : times[k] <= moment})
                                 = Cardinality({r \in rows : r.time # None /\ r.time <= moment})
                          /\ Cardinality(DOMAIN times) = Cardinality(rows)
                          /\ \A k \in 1..(Len(d) - 1) : d[k].event_time <= d[k + 1].event_time
    BY DEF DownloadKeepsOneClock
  <2> DEFINE d == downloads[n]
             all == Rows(session)
             rows == {r \in all : r.type = type}
             told == {k \in DOMAIN d : d[k].event_type = type}
             times == [k \in told |-> d[k].event_time]
  <2>1. d \in Sorted /\ d \in Seq(Event) /\ DOMAIN d = 1..Len(d) /\ Len(d) \in Nat
    BY DEF StoreInv, Sorted
  <2>2. PICK now \in Nat : now >= Ended /\ Tells(d, all, now)
    BY DEF ClockInv
  <2>3. \A moment \in 0..(Ended - 1) : ~(now <= moment)
    BY <2>2, StoreAssumption
  <2> HIDE DEF d, all
  <2>4. Cardinality(told) = Cardinality(rows)
    <3>1. \A k \in DOMAIN d, r \in all : Matches(d[k], r, now) => (k \in told <=> r \in rows)
      BY DEF Matches
    <3>2. told \in SUBSET DOMAIN d /\ rows \in SUBSET all
      OBVIOUS
    <3> HIDE DEF told, rows
    <3>3. QED
      BY <2>1, <2>2, <3>1, <3>2, TellsAsMany
  <2>5. ASSUME NEW moment \in 0..(Ended - 1)
        PROVE  Cardinality({k \in DOMAIN times : times[k] <= moment})
                 = Cardinality({r \in rows : r.time # None /\ r.time <= moment})
    <3> DEFINE toldEarly == {k \in DOMAIN times : times[k] <= moment}
               early == {r \in rows : r.time # None /\ r.time <= moment}
    <3>1. \A k \in DOMAIN d, r \in all : Matches(d[k], r, now) => (k \in toldEarly <=> r \in early)
      BY <2>3 DEF Matches
    <3>2. toldEarly \in SUBSET DOMAIN d /\ early \in SUBSET all
      OBVIOUS
    <3> HIDE DEF toldEarly, early
    <3>3. Cardinality(toldEarly) = Cardinality(early)
      BY <2>1, <2>2, <3>1, <3>2, TellsAsMany
    <3>4. QED
      BY <3>3 DEF toldEarly, early
  <2>6. ASSUME NEW k \in 1..(Len(d) - 1) PROVE d[k].event_time <= d[k + 1].event_time
    <3>1. k \in DOMAIN d /\ k + 1 \in DOMAIN d /\ k < k + 1
      BY <2>1
    <3>2. KeyLess(d[k], d[k + 1])
      BY <2>1, <3>1 DEF Sorted
    <3>3. d[k].event_time \in Nat /\ d[k + 1].event_time \in Nat
      BY <2>1, <3>1, KeyFields
    <3>4. QED
      BY <3>2, <3>3 DEF KeyLess
  <2>7. QED
    BY <2>4, <2>5, <2>6 DEF d, all
<1>3. QED
  BY <1>1, <1>2, StoreStep, ClockStep, PTL DEF Spec

-----------------------------------------------------------------------------
(* The quality report.  What its passes remember and have reported is told  *)
(* by the part of the log, in replay order, that they have looked at.        *)

\* How many events the pass over laps, and the one over the pit lane, have seen.
LapsTo == CASE pass = "timestamps" -> 0 [] pass = "laps" -> at [] OTHER -> Len(ordered)
PitsTo == CASE pass \in {"timestamps", "laps"} -> 0 [] pass = "pits" -> at [] OTHER -> Len(ordered)

ReportType ==
  /\ raw \in Seq(Event) /\ ordered \in Seq(Event) /\ Len(ordered) = Len(raw)
  /\ pass \in {"timestamps", "laps", "pits", "weather", "done"}
  /\ at \in 0..Len(ordered)
  /\ seen_laps \in [Driver -> SUBSET Nat]
  /\ last_lap \in [Driver -> Optional(Nat)]
  /\ last_tyre_age \in [Driver -> Optional(Nat)]

\* Of the first n events, the laps of d that have a number.
Numbered(d, n) == {i \in NumberedLaps : i <= n /\ ordered[i].driver_id = d}

\* Their numbers are remembered, and the highest of them.
LapMemory(n) ==
  \A d \in Driver :
    /\ seen_laps[d] = {ordered[i].lap : i \in Numbered(d, n)}
    /\ \A i \in Numbered(d, n) : last_lap[d] # None /\ ordered[i].lap <= last_lap[d]
    /\ last_lap[d] # None => \E i \in Numbered(d, n) : ordered[i].lap = last_lap[d]

Repeats(j) == \E i \in NumberedLaps : i < j /\ SameCar(i, j) /\ ordered[i].lap = ordered[j].lap
Backward(j) == \E i \in NumberedLaps : i < j /\ SameCar(i, j) /\ ordered[i].lap > ordered[j].lap

LapReports(n) ==
  /\ Reported("duplicate_lap") = {j \in NumberedLaps : j <= n /\ Repeats(j)}
  /\ Reported("lap_out_of_order") = {j \in NumberedLaps : j <= n /\ Backward(j)}

\* What sets d's tyre age: fresh tyres, or a lap that states it.
Fresh(d, n) == Of({"PitStopCompleted", "TyreCompoundChanged"}, d, n)
Aged(d, n) == {i \in Of({"LapCompleted"}, d, n) : ordered[i].tyre_age # None}
LastOf(S, i) == i \in S /\ \A k \in S : k <= i

TyreMemory(n) ==
  \A d \in Driver :
    IF last_tyre_age[d] = None THEN Fresh(d, n) \cup Aged(d, n) = {}
    ELSE \E i \in Fresh(d, n) \cup Aged(d, n) :
           /\ LastOf(Fresh(d, n) \cup Aged(d, n), i)
           /\ last_tyre_age[d] = IF i \in Aged(d, n) THEN ordered[i].tyre_age ELSE 0

Worn(j) ==
  /\ IsLap(ordered[j]) /\ ordered[j].tyre_age # None
  /\ \E i \in Aged(ordered[j].driver_id, j - 1) :
       /\ ordered[i].tyre_age > ordered[j].tyre_age
       /\ LastOf(Fresh(ordered[j].driver_id, j - 1) \cup Aged(ordered[j].driver_id, j - 1), i)

TyreReports(n) == Reported("tyre_age_decreased") = {j \in DOMAIN ordered : j <= n /\ Worn(j)}

\* d is in the pit lane after n events.
PitEvents(d, n) == Of({"PitEntry", "PitExit"}, d, n)
InPit(d, n) == \E i \in PitEvents(d, n) : LastOf(PitEvents(d, n), i) /\ ordered[i].event_type = "PitEntry"
PitMemory(n) == in_pit = {d \in Driver : InPit(d, n)}

Stray(j) ==
  /\ ordered[j].event_type = "PitExit" /\ ordered[j].driver_id # None
  /\ ~InPit(ordered[j].driver_id, j - 1)

PitReports(n) == Reported("pit_exit_before_entry") = {j \in DOMAIN ordered : j <= n /\ Stray(j)}

QualityInv ==
  /\ ReportType
  /\ LapMemory(LapsTo) /\ LapReports(LapsTo)
  /\ TyreMemory(LapsTo) /\ TyreReports(LapsTo)
  /\ PitMemory(PitsTo) /\ PitReports(PitsTo)

-----------------------------------------------------------------------------
\* One more event, and whether it is one of those looked for.
LEMMA OneMoreOf ==
  ASSUME ReportType, NEW n \in Nat, n < Len(ordered), NEW types, NEW d
  PROVE  Of(types, d, n + 1) =
           Of(types, d, n) \cup (IF ordered[n + 1].event_type \in types /\ ordered[n + 1].driver_id = d
                                 THEN {n + 1} ELSE {})
<1>1. 1..(n + 1) = (1..n) \cup {n + 1}
  OBVIOUS
<1>2. QED
  BY <1>1 DEF Of

LEMMA OneMoreNumbered ==
  ASSUME ReportType, NEW n \in Nat, n < Len(ordered), NEW d
  PROVE  Numbered(d, n + 1) =
           Numbered(d, n) \cup (IF /\ IsLap(ordered[n + 1]) /\ ordered[n + 1].lap # None
                                   /\ ordered[n + 1].driver_id = d
                                THEN {n + 1} ELSE {})
<1>1. /\ ordered \in Seq(Event) /\ DOMAIN ordered = 1..Len(ordered) /\ Len(ordered) \in Nat
      /\ \A i \in DOMAIN ordered : i \in Nat
  BY DEF ReportType
<1>2. n + 1 \in DOMAIN ordered
  BY <1>1
<1>3. \A i : i \in NumberedLaps <=> i \in DOMAIN ordered /\ IsLap(ordered[i]) /\ ordered[i].lap # None
  BY DEF NumberedLaps
<1>4. \A i \in DOMAIN ordered : i <= n + 1 <=> i <= n \/ i = n + 1
  BY <1>1
<1>5. \A i : i \in Numbered(d, n + 1) <=> i \in Numbered(d, n) \/
               (/\ i = n + 1 /\ IsLap(ordered[n + 1]) /\ ordered[n + 1].lap # None
                /\ ordered[n + 1].driver_id = d)
  BY <1>2, <1>3, <1>4 DEF Numbered
<1>6. QED
  BY <1>5

\* Of the earlier events none is later than n.
LEMMA PlacesOf ==
  ASSUME NEW n \in Nat, NEW types, NEW d, NEW i \in Of(types, d, n)
  PROVE  i \in Nat /\ i >= 1 /\ i <= n /\ ordered[i].event_type \in types /\ ordered[i].driver_id = d
BY DEF Of

\* An event's fields, and its place.
LEMMA EventAt ==
  ASSUME ReportType, NEW j \in DOMAIN ordered
  PROVE  /\ j \in Nat /\ j >= 1 /\ j <= Len(ordered) /\ Len(ordered) \in Nat
         /\ ordered[j] \in Event
         /\ ordered[j].driver_id # None => ordered[j].driver_id \in Driver
         /\ ordered[j].lap # None => ordered[j].lap \in Nat
         /\ ordered[j].tyre_age # None => ordered[j].tyre_age \in Nat
<1>1. ordered \in Seq(Event)
  BY DEF ReportType
<1>2. ordered[j] \in Event /\ j \in 1..Len(ordered) /\ Len(ordered) \in Nat
  BY <1>1
<1>3. \A e \in Event : /\ e.driver_id # None => e.driver_id \in Driver
                       /\ e.lap # None => e.lap \in Nat
                       /\ e.tyre_age # None => e.tyre_age \in Nat
  BY DEF Event, Optional
<1>4. QED
  BY <1>2, <1>3

\* What a step reports is added to what was.
LEMMA Reporting ==
  ASSUME NEW found, Report(found), NEW c
  PROVE  Reported(c)' = Reported(c) \cup (IF c \in found THEN {at + 1} ELSE {})
<1> DEFINE issue(x) == [code |-> x, at |-> at + 1]
<1>0. \A x : issue(x).code = x /\ issue(x).at = at + 1
  OBVIOUS
<1>1. issues' = issues \cup {issue(x) : x \in found}
  BY DEF Report
<1> HIDE DEF issue
<1>2. \A p : p \in Reported(c)' <=> \E i \in issues' : i.code = c /\ i.at = p
  BY DEF Reported
<1>3. \A p : p \in Reported(c) <=> \E i \in issues : i.code = c /\ i.at = p
  BY DEF Reported
<1>4. \A p : (\E i \in {issue(x) : x \in found} : i.code = c /\ i.at = p) <=> c \in found /\ p = at + 1
  BY <1>0
<1>5. \A p : p \in Reported(c)' <=> p \in Reported(c) \/ (c \in found /\ p = at + 1)
  BY <1>1, <1>2, <1>3, <1>4
<1>6. QED
  BY <1>5

LEMMA NothingReported ==
  ASSUME NEW found, Report(found), NEW c, c \notin found
  PROVE  Reported(c)' = Reported(c)
<1>1. Reported(c)' = Reported(c) \cup (IF c \in found THEN {at + 1} ELSE {})
  BY Reporting
<1>2. Reported(c) \cup {} = Reported(c)
  OBVIOUS
<1>3. QED
  BY <1>1, <1>2

\* What the log says does not change with the report.
LEMMA LogStays ==
  ASSUME ordered' = ordered
  PROVE  /\ NumberedLaps' = NumberedLaps
         /\ \A d, n : Numbered(d, n)' = Numbered(d, n)
         /\ \A types, d, n : Of(types, d, n)' = Of(types, d, n)
         /\ \A j : /\ Repeats(j)' <=> Repeats(j)
                   /\ Backward(j)' <=> Backward(j)
                   /\ Worn(j)' <=> Worn(j)
                   /\ Stray(j)' <=> Stray(j)
         /\ \A d, n : /\ Fresh(d, n)' = Fresh(d, n) /\ Aged(d, n)' = Aged(d, n)
                      /\ PitEvents(d, n)' = PitEvents(d, n)
                      /\ InPit(d, n)' <=> InPit(d, n)
<1>1. NumberedLaps' = NumberedLaps
  BY DEF NumberedLaps
<1>2. \A d, n : Numbered(d, n)' = Numbered(d, n)
  BY <1>1 DEF Numbered
<1>3. \A types, d, n : Of(types, d, n)' = Of(types, d, n)
  BY DEF Of
<1>4. \A d, n : Fresh(d, n)' = Fresh(d, n) /\ Aged(d, n)' = Aged(d, n) /\ PitEvents(d, n)' = PitEvents(d, n)
  BY <1>3 DEF Fresh, Aged, PitEvents
<1>5. \A d, n : InPit(d, n)' <=> InPit(d, n)
  BY <1>4 DEF InPit
<1>6. \A j : (Repeats(j)' <=> Repeats(j)) /\ (Backward(j)' <=> Backward(j))
  BY <1>1 DEF Repeats, Backward, SameCar
<1>7. \A j : Worn(j)' <=> Worn(j)
  BY <1>4 DEF Worn
<1>8. \A j : Stray(j)' <=> Stray(j)
  BY <1>5 DEF Stray
<1>9. QED
  BY <1>1, <1>2, <1>3, <1>4, <1>5, <1>6, <1>7, <1>8

-----------------------------------------------------------------------------
(* The pass over laps. *)

\* The highest number so far and the numbers so far are enough to judge a lap.
LEMMA LapJudged ==
  ASSUME ReportType, NEW n \in Nat, n < Len(ordered), LapMemory(n),
         IsLap(ordered[n + 1]), ordered[n + 1].lap # None
  PROVE  LET e == ordered[n + 1]
         IN  /\ Repeats(n + 1) <=> e.lap \in seen_laps[e.driver_id]
             /\ Backward(n + 1) <=> last_lap[e.driver_id] # None /\ e.lap < last_lap[e.driver_id]
<1> DEFINE e == ordered[n + 1]
           d == e.driver_id
<1>1. n + 1 \in DOMAIN ordered
  BY DEF ReportType
<1>2. d \in Driver /\ e.lap \in Nat
  BY <1>1, EventAt DEF IsLap
<1>3. \A i \in DOMAIN ordered : i < n + 1 <=> i <= n
  BY EventAt
<1>4. \A i \in NumberedLaps : i \in DOMAIN ordered /\ ordered[i].lap \in Nat
  BY EventAt DEF NumberedLaps
<1>5. \A i : i \in NumberedLaps /\ i < n + 1 /\ SameCar(i, n + 1) <=> i \in Numbered(d, n)
  BY <1>3, <1>4 DEF Numbered, SameCar
<1>6. /\ seen_laps[d] = {ordered[i].lap : i \in Numbered(d, n)}
      /\ \A i \in Numbered(d, n) : last_lap[d] # None /\ ordered[i].lap <= last_lap[d]
      /\ last_lap[d] # None => \E i \in Numbered(d, n) : ordered[i].lap = last_lap[d]
  BY <1>2 DEF LapMemory
<1>7. last_lap[d] # None => last_lap[d] \in Nat
  BY <1>2 DEF ReportType, Optional
<1>8. Repeats(n + 1) <=> \E i \in Numbered(d, n) : ordered[i].lap = e.lap
  BY <1>5 DEF Repeats
<1>9. Backward(n + 1) <=> \E i \in Numbered(d, n) : ordered[i].lap > e.lap
  BY <1>5 DEF Backward
<1>10. \A i \in Numbered(d, n) : ordered[i].lap \in Nat
  BY <1>4 DEF Numbered
<1> HIDE DEF e, d
<1>11. Repeats(n + 1) <=> e.lap \in seen_laps[d]
  BY <1>6, <1>8
<1>12. Backward(n + 1) <=> last_lap[d] # None /\ e.lap < last_lap[d]
  <2>1. ASSUME NEW i \in Numbered(d, n), ordered[i].lap > e.lap
        PROVE  last_lap[d] # None /\ e.lap < last_lap[d]
    BY <1>2, <1>6, <1>7, <1>10, <2>1
  <2>2. ASSUME last_lap[d] # None, e.lap < last_lap[d]
        PROVE  \E i \in Numbered(d, n) : ordered[i].lap > e.lap
    <3>1. PICK i \in Numbered(d, n) : ordered[i].lap = last_lap[d]
      BY <1>6, <2>2
    <3>2. QED
      BY <1>2, <1>7, <2>2, <3>1
  <2>3. QED
    BY <1>9, <2>1, <2>2
<1>13. QED
  BY <1>11, <1>12 DEF e, d

\* Fresh tyres, or the last age stated, are enough to judge the next one.
LEMMA TyresJudged ==
  ASSUME ReportType, NEW n \in Nat, n < Len(ordered), TyreMemory(n),
         IsLap(ordered[n + 1]), ordered[n + 1].tyre_age # None
  PROVE  LET e == ordered[n + 1]
         IN  Worn(n + 1) <=> /\ last_tyre_age[e.driver_id] # None
                             /\ e.tyre_age < last_tyre_age[e.driver_id]
<1> DEFINE e == ordered[n + 1]
           d == e.driver_id
           marks == Fresh(d, n) \cup Aged(d, n)
<1>1. n + 1 \in DOMAIN ordered /\ (n + 1) - 1 = n
  BY DEF ReportType
<1>2. d \in Driver /\ e.tyre_age \in Nat
  BY <1>1, EventAt DEF IsLap
<1>3. \A i \in marks : i \in Nat
  BY PlacesOf DEF Fresh, Aged
<1>4. \A i \in Aged(d, n) : ordered[i].tyre_age \in Nat
  <2> SUFFICES ASSUME NEW i \in Aged(d, n) PROVE ordered[i].tyre_age \in Nat
    OBVIOUS
  <2>1. i \in Nat /\ i >= 1 /\ i <= n /\ ordered[i].tyre_age # None
    BY PlacesOf DEF Aged
  <2>2. i \in DOMAIN ordered
    BY <2>1 DEF ReportType
  <2>3. QED
    BY <2>1, <2>2, EventAt
<1>5. IF last_tyre_age[d] = None THEN marks = {}
      ELSE \E i \in marks : LastOf(marks, i)
             /\ last_tyre_age[d] = IF i \in Aged(d, n) THEN ordered[i].tyre_age ELSE 0
  BY <1>2 DEF TyreMemory
<1>6. Worn(n + 1) <=> \E i \in Aged(d, n) : ordered[i].tyre_age > e.tyre_age /\ LastOf(marks, i)
  BY <1>1 DEF Worn
<1>7. Aged(d, n) \subseteq marks
  OBVIOUS
<1> HIDE DEF e, d, marks
<1>8. \A i, k : LastOf(marks, i) /\ LastOf(marks, k) => i = k
  BY <1>3 DEF LastOf
<1>9. ASSUME Worn(n + 1)
      PROVE  last_tyre_age[d] # None /\ e.tyre_age < last_tyre_age[d]
  <2>1. PICK i \in Aged(d, n) : ordered[i].tyre_age > e.tyre_age /\ LastOf(marks, i)
    BY <1>6, <1>9
  <2>2. last_tyre_age[d] # None
    BY <1>5, <1>7, <2>1
  <2>3. last_tyre_age[d] = ordered[i].tyre_age
    BY <1>5, <1>8, <2>1, <2>2
  <2>4. QED
    BY <1>2, <1>4, <2>1, <2>2, <2>3
<1>10. ASSUME last_tyre_age[d] # None, e.tyre_age < last_tyre_age[d]
       PROVE  Worn(n + 1)
  <2>1. PICK i \in marks : /\ LastOf(marks, i)
                           /\ last_tyre_age[d] = IF i \in Aged(d, n) THEN ordered[i].tyre_age ELSE 0
    BY <1>5, <1>10
  <2>2. i \in Aged(d, n)
    <3>1. ~(e.tyre_age < 0)
      BY <1>2
    <3>2. QED
      BY <1>10, <2>1, <3>1
  <2>3. ordered[i].tyre_age > e.tyre_age
    BY <1>2, <1>4, <1>10, <2>1, <2>2
  <2>4. QED
    BY <1>6, <2>1, <2>2, <2>3
<1>11. QED
  BY <1>9, <1>10 DEF e, d

\* A lap is remembered, numbered or not.
LEMMA LapRemembered ==
  ASSUME ReportType, NEW n \in Nat, n < Len(ordered), LapMemory(n), IsLap(ordered[n + 1]),
         ordered' = ordered,
         seen_laps' = [seen_laps EXCEPT ![ordered[n + 1].driver_id] =
                         @ \cup NewlySeen(ordered[n + 1].lap)],
         last_lap' = [last_lap EXCEPT ![ordered[n + 1].driver_id] =
                        HighestLap(@, ordered[n + 1].lap)]
  PROVE  /\ seen_laps' \in [Driver -> SUBSET Nat] /\ last_lap' \in [Driver -> Optional(Nat)]
         /\ LapMemory(n + 1)'
<1> DEFINE e == ordered[n + 1]
           car == e.driver_id
<1>1. n + 1 \in DOMAIN ordered
  BY DEF ReportType
<1>2. car \in Driver /\ e.lap \in Nat \cup {None}
  BY <1>1, EventAt DEF IsLap
<1>3. seen_laps \in [Driver -> SUBSET Nat] /\ last_lap \in [Driver -> Nat \cup {None}]
  BY DEF ReportType, Optional
<1>4. /\ seen_laps' = [seen_laps EXCEPT ![car] = @ \cup NewlySeen(e.lap)]
      /\ last_lap' = [last_lap EXCEPT ![car] = HighestLap(@, e.lap)]
  OBVIOUS
<1>5. \A d : Numbered(d, n + 1) = Numbered(d, n) \cup (IF d = car /\ e.lap # None THEN {n + 1} ELSE {})
  BY OneMoreNumbered
<1>6. \A d : Numbered(d, n + 1)' = Numbered(d, n + 1)
  BY LogStays
<1>7. \A d \in Driver : \A i \in Numbered(d, n) : ordered[i].lap \in Nat
  BY EventAt DEF Numbered, NumberedLaps
<1>8. e.lap = ordered[n + 1].lap
  OBVIOUS
<1> HIDE DEF e, car
<1>9. /\ seen_laps'[car] = seen_laps[car] \cup NewlySeen(e.lap)
      /\ last_lap'[car] = HighestLap(last_lap[car], e.lap)
      /\ \A d \in Driver : d # car => seen_laps'[d] = seen_laps[d] /\ last_lap'[d] = last_lap[d]
  BY <1>2, <1>3, <1>4
<1>10. \A old \in Nat \cup {None} : HighestLap(old, e.lap) \in Nat \cup {None}
  BY <1>2 DEF HighestLap
<1>11. NewlySeen(e.lap) \in SUBSET Nat
  BY <1>2 DEF NewlySeen
<1>12. seen_laps' \in [Driver -> SUBSET Nat] /\ last_lap' \in [Driver -> Optional(Nat)]
  <2>1. seen_laps' \in [Driver -> SUBSET Nat]
    <3>1. \A d \in Driver : seen_laps'[d] \in SUBSET Nat
      BY <1>2, <1>3, <1>9, <1>11
    <3>2. seen_laps' = [d \in Driver |-> seen_laps'[d]]
      BY <1>3, <1>4
    <3>3. QED
      BY <3>1, <3>2
  <2>2. last_lap' \in [Driver -> Nat \cup {None}]
    BY <1>3, <1>4, <1>10
  <2>3. QED
    BY <2>1, <2>2 DEF Optional
<1>13. ASSUME NEW d \in Driver
       PROVE  /\ seen_laps'[d] = {ordered[i].lap : i \in Numbered(d, n + 1)}
              /\ \A i \in Numbered(d, n + 1) : last_lap'[d] # None /\ ordered[i].lap <= last_lap'[d]
              /\ last_lap'[d] # None => \E i \in Numbered(d, n + 1) : ordered[i].lap = last_lap'[d]
  <2>1. /\ seen_laps[d] = {ordered[i].lap : i \in Numbered(d, n)}
        /\ \A i \in Numbered(d, n) : last_lap[d] # None /\ ordered[i].lap <= last_lap[d]
        /\ last_lap[d] # None => \E i \in Numbered(d, n) : ordered[i].lap = last_lap[d]
    BY DEF LapMemory
  <2>2. CASE d # car \/ e.lap = None
    <3>1. Numbered(d, n + 1) = Numbered(d, n)
      BY <1>5, <2>2
    <3>2. e.lap = None => NewlySeen(e.lap) = {} /\ \A old : HighestLap(old, e.lap) = old
      BY DEF NewlySeen, HighestLap
    <3>3. seen_laps'[d] = seen_laps[d] /\ last_lap'[d] = last_lap[d]
      BY <1>9, <2>2, <3>2
    <3>4. QED
      BY <2>1, <3>1, <3>3
  <2>3. CASE d = car /\ e.lap # None
    <3>1. Numbered(d, n + 1) = Numbered(d, n) \cup {n + 1} /\ e.lap \in Nat
      BY <1>2, <1>5, <2>3
    <3>2. seen_laps'[d] = seen_laps[d] \cup {e.lap}
      BY <1>9, <2>3 DEF NewlySeen
    <3>3. last_lap'[d] = IF last_lap[d] = None \/ e.lap > last_lap[d] THEN e.lap ELSE last_lap[d]
      BY <1>9, <2>3 DEF HighestLap
    <3>4. last_lap[d] # None => last_lap[d] \in Nat
      BY <1>3
    <3>5. \A m \in Nat : m # None
      BY NoneAssumption
    <3>6. seen_laps'[d] = {ordered[i].lap : i \in Numbered(d, n + 1)}
      BY <1>8, <2>1, <3>1, <3>2
    <3>7. \A i \in Numbered(d, n) : last_lap'[d] # None /\ ordered[i].lap <= last_lap'[d]
      BY <1>7, <2>1, <3>1, <3>3, <3>4, <3>5
    <3>8. last_lap'[d] # None /\ e.lap <= last_lap'[d]
      BY <3>1, <3>3, <3>4, <3>5
    <3>9. \E i \in Numbered(d, n + 1) : ordered[i].lap = last_lap'[d]
      BY <1>8, <2>1, <3>1, <3>3
    <3>10. QED
      BY <1>8, <3>1, <3>6, <3>7, <3>8, <3>9
  <2>4. QED
    BY <2>2, <2>3
<1>14. LapMemory(n + 1)'
  BY <1>6, <1>13 DEF LapMemory
<1>15. QED
  BY <1>12, <1>14

\* Fresh tyres and stated ages are remembered.
LEMMA TyresRemembered ==
  ASSUME ReportType, NEW n \in Nat, n < Len(ordered), TyreMemory(n), ordered' = ordered,
         \A d \in Driver :
           last_tyre_age'[d] = IF n + 1 \in Fresh(d, n + 1) THEN 0
                               ELSE IF n + 1 \in Aged(d, n + 1) THEN ordered[n + 1].tyre_age
                               ELSE last_tyre_age[d]
  PROVE  TyreMemory(n + 1)'
<1> SUFFICES ASSUME NEW d \in Driver
             PROVE  IF last_tyre_age'[d] = None THEN Fresh(d, n + 1) \cup Aged(d, n + 1) = {}
                    ELSE \E i \in Fresh(d, n + 1) \cup Aged(d, n + 1) :
                           /\ LastOf(Fresh(d, n + 1) \cup Aged(d, n + 1), i)
                           /\ last_tyre_age'[d] = IF i \in Aged(d, n + 1) THEN ordered[i].tyre_age ELSE 0
  <2>1. \A x : Fresh(x, n + 1)' = Fresh(x, n + 1) /\ Aged(x, n + 1)' = Aged(x, n + 1)
    BY LogStays
  <2>2. QED
    BY <2>1 DEF TyreMemory, LastOf
<1> DEFINE old == Fresh(d, n) \cup Aged(d, n)
           new == Fresh(d, n + 1) \cup Aged(d, n + 1)
           e == ordered[n + 1]
           fresh == e.event_type \in {"PitStopCompleted", "TyreCompoundChanged"} /\ e.driver_id = d
           aged == e.event_type \in {"LapCompleted"} /\ e.driver_id = d /\ e.tyre_age # None
<1>1. Fresh(d, n + 1) = Fresh(d, n) \cup (IF fresh THEN {n + 1} ELSE {})
  BY OneMoreOf DEF Fresh
<1>2. Aged(d, n + 1) = Aged(d, n) \cup (IF aged THEN {n + 1} ELSE {})
  <2>1. Of({"LapCompleted"}, d, n + 1) =
          Of({"LapCompleted"}, d, n)
            \cup (IF e.event_type \in {"LapCompleted"} /\ e.driver_id = d THEN {n + 1} ELSE {})
    BY OneMoreOf
  <2>2. QED
    BY <2>1 DEF Aged
<1>3. \A i \in old : i \in Nat /\ i <= n
  BY PlacesOf DEF Fresh, Aged
<1>4. Fresh(d, n) \subseteq old /\ Aged(d, n) \subseteq old
  OBVIOUS
<1>5. ~(fresh /\ aged)
  OBVIOUS
<1>6. /\ IF last_tyre_age[d] = None THEN old = {}
         ELSE \E i \in old : LastOf(old, i)
                /\ last_tyre_age[d] = IF i \in Aged(d, n) THEN ordered[i].tyre_age ELSE 0
  BY DEF TyreMemory
<1>7. new = old \cup (IF fresh \/ aged THEN {n + 1} ELSE {})
  BY <1>1, <1>2
<1>8. e.tyre_age = ordered[n + 1].tyre_age
  OBVIOUS
<1>9. 0 # None
  BY NoneAssumption
<1> HIDE DEF old, new, e, fresh, aged
<1>10. n + 1 \notin old
  BY <1>3
<1>11. /\ n + 1 \in Fresh(d, n + 1) <=> fresh
       /\ n + 1 \in Aged(d, n + 1) <=> aged
  BY <1>1, <1>2, <1>4, <1>10
<1>12. last_tyre_age'[d] = IF fresh THEN 0 ELSE IF aged THEN e.tyre_age ELSE last_tyre_age[d]
  BY <1>8, <1>11
<1>13. CASE fresh \/ aged
  <2>1. new = old \cup {n + 1}
    BY <1>7, <1>13
  <2>2. LastOf(new, n + 1)
    <3>1. \A i \in new : i <= n + 1
      BY <1>3, <2>1
    <3>2. QED
      BY <2>1, <3>1 DEF LastOf
  <2>3. last_tyre_age'[d] = IF n + 1 \in Aged(d, n + 1) THEN ordered[n + 1].tyre_age ELSE 0
    BY <1>5, <1>8, <1>11, <1>12, <1>13
  <2>4. last_tyre_age'[d] # None
    <3>1. aged => e.tyre_age # None
      BY DEF aged
    <3>2. QED
      BY <1>5, <1>9, <1>12, <1>13, <3>1
  <2>5. QED
    BY <2>1, <2>2, <2>3, <2>4 DEF new
<1>14. CASE ~fresh /\ ~aged
  <2>1. new = old /\ Aged(d, n + 1) = Aged(d, n) /\ last_tyre_age'[d] = last_tyre_age[d]
    BY <1>2, <1>7, <1>12, <1>14
  <2>2. IF last_tyre_age'[d] = None THEN new = {}
        ELSE \E i \in new : LastOf(new, i)
               /\ last_tyre_age'[d] = IF i \in Aged(d, n + 1) THEN ordered[i].tyre_age ELSE 0
    BY <1>6, <2>1
  <2>3. QED
    BY <2>2 DEF new
<1>15. QED
  BY <1>13, <1>14

\* What a step reports of laps is right if it judges them by what it remembers.
LEMMA LapsReported ==
  ASSUME ReportType, NEW n \in Nat, n < Len(ordered), at = n, ordered' = ordered,
         LapMemory(n), LapReports(n), NEW found, Report(found),
         LET e == ordered[n + 1]
             numbered == IsLap(e) /\ e.lap # None
         IN  /\ "duplicate_lap" \in found <=> numbered /\ e.lap \in seen_laps[e.driver_id]
             /\ "lap_out_of_order" \in found <=>
                  numbered /\ last_lap[e.driver_id] # None /\ e.lap < last_lap[e.driver_id]
  PROVE  LapReports(n + 1)'
<1> DEFINE numbered == IsLap(ordered[n + 1]) /\ ordered[n + 1].lap # None
<1>1. n + 1 \in DOMAIN ordered
  BY DEF ReportType
<1>2. numbered <=> n + 1 \in NumberedLaps
  BY <1>1 DEF NumberedLaps
<1>3. /\ "duplicate_lap" \in found <=> n + 1 \in NumberedLaps /\ Repeats(n + 1)
      /\ "lap_out_of_order" \in found <=> n + 1 \in NumberedLaps /\ Backward(n + 1)
  BY <1>2, LapJudged
<1>4. \A c : Reported(c)' = Reported(c) \cup (IF c \in found THEN {n + 1} ELSE {})
  BY Reporting
<1>5. \A j \in NumberedLaps : j <= n + 1 <=> j <= n \/ j = n + 1
  BY EventAt DEF NumberedLaps
<1>6. /\ Reported("duplicate_lap") = {j \in NumberedLaps : j <= n /\ Repeats(j)}
      /\ Reported("lap_out_of_order") = {j \in NumberedLaps : j <= n /\ Backward(j)}
  BY DEF LapReports
<1>7. \A j : j \in Reported("duplicate_lap")' <=> j \in NumberedLaps /\ j <= n + 1 /\ Repeats(j)
  BY <1>3, <1>4, <1>5, <1>6
<1>8. \A j : j \in Reported("lap_out_of_order")' <=> j \in NumberedLaps /\ j <= n + 1 /\ Backward(j)
  BY <1>3, <1>4, <1>5, <1>6
<1>9. /\ NumberedLaps' = NumberedLaps
      /\ \A j : (Repeats(j)' <=> Repeats(j)) /\ (Backward(j)' <=> Backward(j))
  BY LogStays
<1>10. Reported("duplicate_lap")' = {j \in NumberedLaps' : j <= n + 1 /\ Repeats(j)'}
  BY <1>7, <1>9
<1>11. Reported("lap_out_of_order")' = {j \in NumberedLaps' : j <= n + 1 /\ Backward(j)'}
  BY <1>8, <1>9
<1>12. QED
  BY <1>10, <1>11 DEF LapReports

LEMMA TyresReported ==
  ASSUME ReportType, NEW n \in Nat, n < Len(ordered), at = n, ordered' = ordered,
         TyreMemory(n), TyreReports(n), NEW found, Report(found),
         LET e == ordered[n + 1]
         IN  "tyre_age_decreased" \in found <=>
               /\ IsLap(e) /\ e.tyre_age # None
               /\ last_tyre_age[e.driver_id] # None /\ e.tyre_age < last_tyre_age[e.driver_id]
  PROVE  TyreReports(n + 1)'
<1>1. n + 1 \in DOMAIN ordered
  BY DEF ReportType
<1>2. Worn(n + 1) => IsLap(ordered[n + 1]) /\ ordered[n + 1].tyre_age # None
  BY DEF Worn
<1>3. "tyre_age_decreased" \in found <=> Worn(n + 1)
  BY <1>2, TyresJudged
<1>4. Reported("tyre_age_decreased")' =
        Reported("tyre_age_decreased") \cup (IF "tyre_age_decreased" \in found THEN {n + 1} ELSE {})
  BY Reporting
<1>5. \A j \in DOMAIN ordered : j <= n + 1 <=> j <= n \/ j = n + 1
  BY EventAt
<1>6. Reported("tyre_age_decreased") = {j \in DOMAIN ordered : j <= n /\ Worn(j)}
  BY DEF TyreReports
<1>7. \A j : j \in Reported("tyre_age_decreased")' <=> j \in DOMAIN ordered /\ j <= n + 1 /\ Worn(j)
  BY <1>1, <1>3, <1>4, <1>5, <1>6
<1>8. \A j : Worn(j)' <=> Worn(j)
  BY LogStays
<1>9. Reported("tyre_age_decreased")' = {j \in DOMAIN ordered' : j <= n + 1 /\ Worn(j)'}
  BY <1>7, <1>8
<1>10. QED
  BY <1>9 DEF TyreReports

-----------------------------------------------------------------------------
(* The pass over the pit lane. *)

\* Whether a car is in the pit lane after one more event.
LEMMA InPitAfter ==
  ASSUME ReportType, NEW n \in Nat, n < Len(ordered), NEW d
  PROVE  LET e == ordered[n + 1]
         IN  InPit(d, n + 1) <=>
               IF e.driver_id = d /\ e.event_type \in {"PitEntry", "PitExit"}
               THEN e.event_type = "PitEntry" ELSE InPit(d, n)
<1> DEFINE e == ordered[n + 1]
           moves == e.event_type \in {"PitEntry", "PitExit"} /\ e.driver_id = d
<1>1. PitEvents(d, n + 1) = PitEvents(d, n) \cup (IF moves THEN {n + 1} ELSE {})
  BY OneMoreOf DEF PitEvents
<1>2. \A i \in PitEvents(d, n) : i \in Nat /\ i <= n
  BY PlacesOf DEF PitEvents
<1>3. e.event_type = ordered[n + 1].event_type
  OBVIOUS
<1>4. moves <=> e.driver_id = d /\ e.event_type \in {"PitEntry", "PitExit"}
  OBVIOUS
<1> HIDE DEF e, moves
<1>5. CASE ~moves
  <2>1. PitEvents(d, n + 1) = PitEvents(d, n)
    BY <1>1, <1>5
  <2>2. InPit(d, n + 1) <=> InPit(d, n)
    BY <2>1 DEF InPit
  <2>3. QED
    BY <1>4, <1>5, <2>2 DEF e
<1>6. CASE moves
  <2>1. PitEvents(d, n + 1) = PitEvents(d, n) \cup {n + 1}
    BY <1>1, <1>6
  <2>2. \A i \in PitEvents(d, n + 1) : i \in Nat /\ i <= n + 1
    BY <1>2, <2>1
  <2>3. \A i : LastOf(PitEvents(d, n + 1), i) <=> i = n + 1
    BY <2>1, <2>2 DEF LastOf
  <2>4. InPit(d, n + 1) <=> e.event_type = "PitEntry"
    BY <1>3, <2>1, <2>3 DEF InPit
  <2>5. QED
    BY <1>4, <1>6, <2>4 DEF e
<1>7. QED
  BY <1>5, <1>6

LEMMA PitLaneStep ==
  ASSUME ReportType, NEW n \in Nat, n < Len(ordered), pass = "pits", at = n,
         PitMemory(n), PitReports(n), CheckPit(ordered[n + 1])
  PROVE  PitMemory(n + 1)' /\ PitReports(n + 1)'
<1> DEFINE e == ordered[n + 1]
           exits == e.event_type = "PitExit" /\ e.driver_id # None
           enters == e.event_type = "PitEntry" /\ e.driver_id # None
           found == IF exits /\ e.driver_id \notin in_pit THEN {"pit_exit_before_entry"} ELSE {}
<1>1. n + 1 \in DOMAIN ordered /\ (n + 1) - 1 = n
  BY DEF ReportType
<1>2. e.driver_id # None => e.driver_id \in Driver
  BY <1>1, EventAt
<1>3. /\ Report(found)
      /\ in_pit' = IF enters THEN in_pit \cup {e.driver_id}
                   ELSE IF exits THEN in_pit \ {e.driver_id} ELSE in_pit
      /\ ordered' = ordered
  BY DEF CheckPit, Look
<1>4. in_pit = {d \in Driver : InPit(d, n)}
  BY DEF PitMemory
<1>5. \A d \in Driver : d # None
  BY NoneAssumption
<1>6. \A d : InPit(d, n + 1) <=>
               IF e.driver_id = d /\ e.event_type \in {"PitEntry", "PitExit"}
               THEN e.event_type = "PitEntry" ELSE InPit(d, n)
  BY InPitAfter
<1>7. \A d \in Driver : d \in in_pit' <=> InPit(d, n + 1)
  BY <1>3, <1>4, <1>5, <1>6
<1>8. in_pit' \subseteq Driver
  BY <1>2, <1>3, <1>4
<1>9. \A d : InPit(d, n + 1)' <=> InPit(d, n + 1)
  BY <1>3, LogStays
<1>10. PitMemory(n + 1)'
  <2>1. in_pit' = {d \in Driver : InPit(d, n + 1)'}
    BY <1>7, <1>8, <1>9
  <2>2. QED
    BY <2>1 DEF PitMemory
<1>11. "pit_exit_before_entry" \in found <=> Stray(n + 1)
  <2>1. exits => (e.driver_id \in in_pit <=> InPit(e.driver_id, n))
    BY <1>2, <1>4
  <2>2. Stray(n + 1) <=> exits /\ ~InPit(e.driver_id, n)
    BY <1>1 DEF Stray
  <2>3. QED
    BY <2>1, <2>2
<1> HIDE DEF found
<1>12. Reported("pit_exit_before_entry")' =
         Reported("pit_exit_before_entry")
           \cup (IF "pit_exit_before_entry" \in found THEN {n + 1} ELSE {})
  BY <1>3, Reporting
<1>13. \A j \in DOMAIN ordered : j <= n + 1 <=> j <= n \/ j = n + 1
  BY EventAt
<1>14. Reported("pit_exit_before_entry") = {j \in DOMAIN ordered : j <= n /\ Stray(j)}
  BY DEF PitReports
<1>15. \A j : j \in Reported("pit_exit_before_entry")' <=> j \in DOMAIN ordered /\ j <= n + 1 /\ Stray(j)
  BY <1>1, <1>11, <1>12, <1>13, <1>14
<1>16. \A j : Stray(j)' <=> Stray(j)
  BY <1>3, LogStays
<1>17. Reported("pit_exit_before_entry")' = {j \in DOMAIN ordered' : j <= n + 1 /\ Stray(j)'}
  BY <1>3, <1>15, <1>16
<1>18. QED
  BY <1>10, <1>17 DEF PitReports

-----------------------------------------------------------------------------
\* A part of the invariant whose memory and reports stay as they are stays.
LEMMA PartsStay ==
  ASSUME ordered' = ordered, NEW n
  PROVE  /\ UNCHANGED <<seen_laps, last_lap>> /\ LapMemory(n) => LapMemory(n)'
         /\ UNCHANGED last_tyre_age /\ TyreMemory(n) => TyreMemory(n)'
         /\ UNCHANGED in_pit /\ PitMemory(n) => PitMemory(n)'
         /\ /\ Reported("duplicate_lap")' = Reported("duplicate_lap")
            /\ Reported("lap_out_of_order")' = Reported("lap_out_of_order")
            /\ LapReports(n)
            => LapReports(n)'
         /\ Reported("tyre_age_decreased")' = Reported("tyre_age_decreased") /\ TyreReports(n) => TyreReports(n)'
         /\ Reported("pit_exit_before_entry")' = Reported("pit_exit_before_entry") /\ PitReports(n)
            => PitReports(n)'
<1>1. UNCHANGED <<seen_laps, last_lap>> /\ LapMemory(n) => LapMemory(n)'
  BY LogStays DEF LapMemory
<1>2. UNCHANGED last_tyre_age /\ TyreMemory(n) => TyreMemory(n)'
  <2>1. \A d : Fresh(d, n)' = Fresh(d, n) /\ Aged(d, n)' = Aged(d, n)
    BY LogStays
  <2>2. QED
    BY <2>1 DEF TyreMemory, LastOf
<1>3. UNCHANGED in_pit /\ PitMemory(n) => PitMemory(n)'
  BY LogStays DEF PitMemory
<1>4. /\ Reported("duplicate_lap")' = Reported("duplicate_lap")
      /\ Reported("lap_out_of_order")' = Reported("lap_out_of_order")
      /\ LapReports(n)
      => LapReports(n)'
  BY LogStays DEF LapReports
<1>5. Reported("tyre_age_decreased")' = Reported("tyre_age_decreased") /\ TyreReports(n) => TyreReports(n)'
  BY LogStays DEF TyreReports
<1>6. Reported("pit_exit_before_entry")' = Reported("pit_exit_before_entry") /\ PitReports(n) => PitReports(n)'
  BY LogStays DEF PitReports
<1>7. QED
  BY <1>1, <1>2, <1>3, <1>4, <1>5, <1>6

\* The sorted log holds the events of the log.
LEMMA InitKeepsQuality == ReportInit => QualityInv
<1> SUFFICES ASSUME ReportInit PROVE QualityInv
  OBVIOUS
<1>1. raw \in Seq(Event) /\ ordered = ReplayOrder(raw)
  BY QualityAssumption DEF ReportInit
<1>2. ordered \in Seq(Event) /\ Len(ordered) = Len(raw) /\ Len(raw) \in Nat
  <2>1. \A k \in 1..Len(raw) : ReplayOrder(raw)[k] \in Event
    BY <1>1, EntryRank
  <2>2. ordered = [k \in 1..Len(raw) |-> ReplayOrder(raw)[k]] /\ Len(raw) \in Nat
    BY <1>1 DEF ReplayOrder
  <2>3. QED
    BY <2>1, <2>2
<1>3. ReportType
  BY <1>1, <1>2 DEF ReportInit, ReportType, Optional
<1>4. \A i \in DOMAIN ordered : ~(i <= 0)
  BY <1>3, EventAt
<1>5. \A types, d : Of(types, d, 0) = {}
  BY DEF Of
<1>6. \A d : Numbered(d, 0) = {} /\ Fresh(d, 0) = {} /\ Aged(d, 0) = {} /\ PitEvents(d, 0) = {}
  BY <1>4, <1>5 DEF Numbered, NumberedLaps, Fresh, Aged, PitEvents
<1>7. LapMemory(0) /\ TyreMemory(0) /\ PitMemory(0)
  BY <1>6 DEF ReportInit, LapMemory, TyreMemory, PitMemory, InPit
<1>8. \A c : Reported(c) = {}
  BY DEF ReportInit, Reported
<1>9. LapReports(0) /\ TyreReports(0) /\ PitReports(0)
  BY <1>4, <1>8 DEF LapReports, TyreReports, PitReports, NumberedLaps
<1>10. LapsTo = 0 /\ PitsTo = 0
  BY DEF ReportInit, LapsTo, PitsTo
<1>11. QED
  BY <1>3, <1>7, <1>9, <1>10 DEF QualityInv

\* A step of the pass over laps.
LEMMA LapPassStep ==
  ASSUME QualityInv, NEW e, ResetTyreAge(e) \/ CheckLap(e) \/ SkipInLaps(e)
  PROVE  QualityInv'
<1> DEFINE found == IF CheckLap(e) THEN LapIssues(e) ELSE {}
<1>1. /\ pass = "laps" /\ at < Len(ordered) /\ e = ordered[at + 1]
      /\ at' = at + 1 /\ UNCHANGED <<raw, ordered, pass, in_pit>>
  BY DEF ResetTyreAge, CheckLap, SkipInLaps, Look
<1>2. ReportType /\ LapsTo = at /\ PitsTo = 0
  BY <1>1 DEF QualityInv, LapsTo, PitsTo
<1>3. at \in Nat /\ at + 1 \in 0..Len(ordered) /\ at + 1 \in DOMAIN ordered
  BY <1>1, <1>2 DEF ReportType
<1>0. PICK n : n = at
  OBVIOUS
<1>4. LapsTo' = n + 1 /\ PitsTo' = 0
  BY <1>0, <1>1 DEF LapsTo, PitsTo
<1>5. /\ LapMemory(n) /\ LapReports(n) /\ TyreMemory(n) /\ TyreReports(n)
      /\ PitMemory(0) /\ PitReports(0)
  BY <1>0, <1>2 DEF QualityInv
<1>6. Report(found)
  BY DEF ResetTyreAge, CheckLap, SkipInLaps, Report
<1>7. CheckLap(e) <=> IsLap(e)
  BY DEF ResetTyreAge, CheckLap, SkipInLaps, IsLap
<1>8. /\ "duplicate_lap" \in found <=> IsLap(e) /\ e.lap # None /\ e.lap \in seen_laps[e.driver_id]
      /\ "lap_out_of_order" \in found <=>
           /\ IsLap(e) /\ e.lap # None
           /\ last_lap[e.driver_id] # None /\ e.lap < last_lap[e.driver_id]
      /\ "tyre_age_decreased" \in found <=>
           /\ IsLap(e) /\ e.tyre_age # None
           /\ last_tyre_age[e.driver_id] # None /\ e.tyre_age < last_tyre_age[e.driver_id]
      /\ "pit_exit_before_entry" \notin found
  BY <1>7 DEF LapIssues, Error, Warning
<1> HIDE DEF found
<1>9. LapReports(n + 1)' /\ TyreReports(n + 1)'
  BY <1>0, <1>1, <1>2, <1>3, <1>5, <1>6, <1>8, LapsReported, TyresReported
<1>10. PitMemory(0)' /\ PitReports(0)'
  <2>1. Reported("pit_exit_before_entry")' = Reported("pit_exit_before_entry")
    BY <1>6, <1>8, NothingReported
  <2>2. QED
    BY <1>1, <1>5, <2>1, PartsStay
<1>11. /\ seen_laps' \in [Driver -> SUBSET Nat] /\ last_lap' \in [Driver -> Optional(Nat)]
       /\ LapMemory(n + 1)'
  <2>1. CASE IsLap(e)
    <3>1. /\ seen_laps' = [seen_laps EXCEPT ![e.driver_id] = @ \cup NewlySeen(e.lap)]
          /\ last_lap' = [last_lap EXCEPT ![e.driver_id] = HighestLap(@, e.lap)]
      BY <1>7, <2>1 DEF CheckLap
    <3>2. QED
      BY <1>0, <1>1, <1>2, <1>3, <1>5, <2>1, <3>1, LapRemembered
  <2>2. CASE ~IsLap(e)
    <3>1. UNCHANGED <<seen_laps, last_lap>>
      BY <1>7, <2>2 DEF ResetTyreAge, SkipInLaps, lapVars
    <3>2. \A d : Numbered(d, n + 1) = Numbered(d, n)
      <4>1. n \in Nat /\ n < Len(ordered) /\ ~IsLap(ordered[n + 1])
        BY <1>0, <1>1, <1>3, <2>2
      <4>2. \A d : Numbered(d, n + 1) = Numbered(d, n) \cup {}
        BY <1>2, <4>1, OneMoreNumbered
      <4>3. QED
        BY <4>2
    <3>3. LapMemory(n + 1)
      BY <1>5, <3>2 DEF LapMemory
    <3>4. LapMemory(n + 1)'
      BY <1>1, <3>1, <3>3, PartsStay
    <3>5. QED
      BY <1>2, <3>1, <3>4 DEF ReportType
  <2>3. QED
    BY <2>1, <2>2
<1>12. last_tyre_age' \in [Driver -> Optional(Nat)] /\ TyreMemory(n + 1)'
  <2>1. /\ e.driver_id # None => e.driver_id \in Driver
        /\ e.tyre_age # None => e.tyre_age \in Nat
    BY <1>1, <1>2, <1>3, EventAt
  <2>2. last_tyre_age \in [Driver -> Nat \cup {None}]
    BY <1>2 DEF ReportType, Optional
  <2>3. \A d \in Driver :
          /\ n + 1 \in Fresh(d, n + 1) <=>
               e.event_type \in {"PitStopCompleted", "TyreCompoundChanged"} /\ e.driver_id = d
          /\ n + 1 \in Aged(d, n + 1) <=>
               e.event_type = "LapCompleted" /\ e.driver_id = d /\ e.tyre_age # None
    <3>1. n + 1 \in 1..(n + 1) /\ e = ordered[n + 1]
      BY <1>0, <1>1, <1>3
    <3>2. QED
      BY <3>1 DEF Fresh, Aged, Of
  <2>4. \A d \in Driver : d # None
    BY NoneAssumption
  <2>5. \A d \in Driver :
          last_tyre_age'[d] = IF n + 1 \in Fresh(d, n + 1) THEN 0
                              ELSE IF n + 1 \in Aged(d, n + 1) THEN ordered[n + 1].tyre_age
                              ELSE last_tyre_age[d]
    <3>1. CASE ResetTyreAge(e)
      <4>1. /\ e.event_type \in {"PitStopCompleted", "TyreCompoundChanged"}
            /\ last_tyre_age' = IF e.driver_id = None THEN last_tyre_age
                                ELSE [last_tyre_age EXCEPT ![e.driver_id] = 0]
        BY <3>1 DEF ResetTyreAge
      <4>2. QED
        BY <2>1, <2>2, <2>3, <2>4, <4>1
    <3>2. CASE CheckLap(e)
      <4>1. /\ IsLap(e)
            /\ last_tyre_age' = [last_tyre_age EXCEPT ![e.driver_id] =
                                   IF e.tyre_age = None THEN @ ELSE e.tyre_age]
        BY <3>2 DEF CheckLap
      <4>2. e.event_type = "LapCompleted" /\ e.driver_id \in Driver
        BY <2>1, <4>1 DEF IsLap
      <4>3. QED
        BY <1>0, <1>1, <2>2, <2>3, <4>1, <4>2
    <3>3. CASE SkipInLaps(e)
      <4>1. /\ e.event_type \notin {"PitStopCompleted", "TyreCompoundChanged"} /\ ~IsLap(e)
            /\ last_tyre_age' = last_tyre_age
        BY <3>3 DEF SkipInLaps, lapVars
      <4>2. QED
        BY <2>3, <2>4, <4>1 DEF IsLap
    <3>4. QED
      BY <3>1, <3>2, <3>3
  <2>6. TyreMemory(n + 1)'
    BY <1>0, <1>1, <1>2, <1>3, <1>5, <2>5, TyresRemembered
  <2>7. last_tyre_age' \in [Driver -> Nat \cup {None}]
    BY <2>1, <2>2 DEF ResetTyreAge, CheckLap, SkipInLaps, lapVars
  <2>8. QED
    BY <2>6, <2>7 DEF Optional
<1>13. ReportType'
  BY <1>1, <1>2, <1>3, <1>11, <1>12 DEF ReportType
<1>14. QED
  BY <1>4, <1>9, <1>10, <1>11, <1>12, <1>13 DEF QualityInv

\* A step of another pass over the events reports nothing of laps or tyres.
LEMMA OtherPassStep ==
  ASSUME QualityInv, NEW e, CheckTimestamp(e) \/ CheckPit(e) \/ CheckWeather(e)
  PROVE  QualityInv'
<1>1. /\ pass \in {"timestamps", "pits", "weather"} /\ at < Len(ordered) /\ at' = at + 1
      /\ UNCHANGED <<raw, ordered, pass, lapVars>>
  BY DEF CheckTimestamp, CheckPit, CheckWeather, Look, QualityInv, ReportType
<1>2. ReportType
  BY DEF QualityInv
<1>3. at \in Nat /\ at + 1 \in 0..Len(ordered)
  BY <1>1, <1>2 DEF ReportType
<1>4. LapsTo' = LapsTo
  BY <1>1 DEF LapsTo
<1>5. \E found \in SUBSET {"timestamp_backward", "pit_exit_before_entry",
                           "track_temp_implausible", "air_temp_implausible"} :
        Report(found) /\ ("pit_exit_before_entry" \in found => pass = "pits")
  <2>1. CASE CheckTimestamp(e)
    BY <2>1 DEF CheckTimestamp
  <2>2. CASE CheckPit(e)
    BY <2>2 DEF CheckPit, Look
  <2>3. CASE CheckWeather(e)
    <3> DEFINE found == {c \in Warning :
                 \/ c = "track_temp_implausible" /\ e.event_type = "WeatherUpdated"
                    /\ e.weather \in TrackImplausible
                 \/ c = "air_temp_implausible" /\ e.event_type = "WeatherUpdated"
                    /\ e.weather \in AirImplausible}
    <3>1. Report(found)
      BY <2>3 DEF CheckWeather
    <3>2. found \subseteq {"track_temp_implausible", "air_temp_implausible"}
      OBVIOUS
    <3> HIDE DEF found
    <3>3. QED
      BY <3>1, <3>2
  <2>4. QED
    BY <2>1, <2>2, <2>3
<1>6. PICK found \in SUBSET {"timestamp_backward", "pit_exit_before_entry",
                             "track_temp_implausible", "air_temp_implausible"} :
        Report(found) /\ ("pit_exit_before_entry" \in found => pass = "pits")
  BY <1>5
<1>7. /\ Reported("duplicate_lap")' = Reported("duplicate_lap")
      /\ Reported("lap_out_of_order")' = Reported("lap_out_of_order")
      /\ Reported("tyre_age_decreased")' = Reported("tyre_age_decreased")
  BY <1>6, NothingReported
<1>8. LapMemory(LapsTo) /\ LapReports(LapsTo) /\ TyreMemory(LapsTo) /\ TyreReports(LapsTo)
  BY DEF QualityInv
<1>9. LapMemory(LapsTo)' /\ LapReports(LapsTo)' /\ TyreMemory(LapsTo)' /\ TyreReports(LapsTo)'
  <2>1. \A m : /\ LapMemory(m) => LapMemory(m)'
               /\ LapReports(m) => LapReports(m)'
               /\ TyreMemory(m) => TyreMemory(m)'
               /\ TyreReports(m) => TyreReports(m)'
    BY <1>1, <1>7, PartsStay DEF lapVars
  <2>2. \A m : m = LapsTo => LapMemory(m)' /\ LapReports(m)' /\ TyreMemory(m)' /\ TyreReports(m)'
    BY <1>8, <2>1
  <2>3. QED
    BY <1>4, <2>2
<1>10. PitMemory(PitsTo)' /\ PitReports(PitsTo)'
  <2>1. CASE CheckPit(e)
    <3>1. pass = "pits" /\ e = ordered[at + 1]
      BY <2>1 DEF CheckPit, Look
    <3>2. PitsTo = at /\ PitsTo' = at + 1
      BY <1>1, <3>1 DEF PitsTo
    <3>3. PICK n : n = at
      OBVIOUS
    <3>4. PitMemory(n) /\ PitReports(n) /\ CheckPit(ordered[n + 1])
      BY <2>1, <3>1, <3>2, <3>3 DEF QualityInv
    <3>5. PitMemory(n + 1)' /\ PitReports(n + 1)'
      BY <1>1, <1>2, <1>3, <3>1, <3>3, <3>4, PitLaneStep
    <3>6. QED
      BY <3>2, <3>3, <3>5
  <2>2. CASE ~CheckPit(e)
    <3>1. pass # "pits" /\ in_pit' = in_pit
      BY <2>2 DEF CheckTimestamp, CheckWeather, Look
    <3>2. PitsTo' = PitsTo
      BY <1>1, <3>1 DEF PitsTo
    <3>3. Reported("pit_exit_before_entry")' = Reported("pit_exit_before_entry")
      BY <1>6, <3>1, NothingReported
    <3>4. \A m : m = PitsTo => PitMemory(m)' /\ PitReports(m)'
      BY <1>1, <3>1, <3>3, PartsStay DEF QualityInv
    <3>5. QED
      BY <3>2, <3>4
  <2>3. QED
    BY <2>1, <2>2
<1>11. ReportType'
  BY <1>1, <1>2, <1>3 DEF ReportType, lapVars
<1>12. QED
  BY <1>9, <1>10, <1>11 DEF QualityInv

LEMMA NextPassStep ==
  ASSUME QualityInv, NextPass
  PROVE  QualityInv'
<1>1. /\ at = Len(raw) /\ UNCHANGED <<raw, ordered, lapVars, in_pit, issues>>
      /\ \/ pass = "timestamps" /\ pass' = "laps"
         \/ pass = "laps" /\ pass' = "pits"
         \/ pass = "pits" /\ pass' = "weather"
         \/ pass = "weather" /\ pass' = "done"
      /\ at' = IF pass' = "done" THEN at ELSE 0
  BY DEF NextPass
<1>2. ReportType
  BY DEF QualityInv
<1>3. at = Len(ordered) /\ Len(ordered) \in Nat
  BY <1>1, <1>2 DEF ReportType
<1>4. LapsTo' = LapsTo /\ PitsTo' = PitsTo
  BY <1>1, <1>3 DEF LapsTo, PitsTo
<1>5. \A c : Reported(c)' = Reported(c)
  BY <1>1 DEF Reported
<1>6. \A m : /\ m = LapsTo => LapMemory(m)' /\ LapReports(m)' /\ TyreMemory(m)' /\ TyreReports(m)'
             /\ m = PitsTo => PitMemory(m)' /\ PitReports(m)'
  BY <1>1, <1>5, PartsStay DEF QualityInv, lapVars
<1>7. ReportType'
  BY <1>1, <1>2, <1>3 DEF ReportType, lapVars
<1>8. QED
  BY <1>4, <1>6, <1>7 DEF QualityInv

LEMMA QualityStep == QualityInv /\ [ReportNext]_reportVars => QualityInv'
<1> SUFFICES ASSUME QualityInv, [ReportNext]_reportVars PROVE QualityInv'
  OBVIOUS
<1>1. CASE NextPass
  BY <1>1, NextPassStep
<1>2. CASE \E e \in Range(raw) : ResetTyreAge(e) \/ CheckLap(e) \/ SkipInLaps(e)
  BY <1>2, LapPassStep
<1>3. CASE \E e \in Range(raw) : CheckTimestamp(e) \/ CheckPit(e) \/ CheckWeather(e)
  BY <1>3, OtherPassStep
<1>4. CASE UNCHANGED reportVars
  <2>1. UNCHANGED <<raw, ordered, pass, at, seen_laps, last_lap, last_tyre_age, in_pit, issues>>
    BY <1>4 DEF reportVars, lapVars
  <2>2. LapsTo' = LapsTo /\ PitsTo' = PitsTo /\ \A c : Reported(c)' = Reported(c)
    BY <2>1 DEF LapsTo, PitsTo, Reported
  <2>3. \A m : /\ m = LapsTo => LapMemory(m)' /\ LapReports(m)' /\ TyreMemory(m)' /\ TyreReports(m)'
               /\ m = PitsTo => PitMemory(m)' /\ PitReports(m)'
    BY <2>1, <2>2, PartsStay DEF QualityInv
  <2>4. ReportType'
    BY <2>1 DEF QualityInv, ReportType
  <2>5. QED
    BY <2>2, <2>3, <2>4 DEF QualityInv
<1>5. QED
  BY <1>1, <1>2, <1>3, <1>4 DEF ReportNext

LEMMA QualityAlways == ReportSpec => []QualityInv
<1>1. QED
  BY InitKeepsQuality, QualityStep, PTL DEF ReportSpec

\* When a report is done all its passes have seen the whole log.
LEMMA AllSeen ==
  ASSUME QualityInv, Done
  PROVE  /\ LapReports(Len(ordered)) /\ TyreReports(Len(ordered)) /\ PitReports(Len(ordered))
         /\ \A j \in DOMAIN ordered : j <= Len(ordered)
<1>1. LapsTo = Len(ordered) /\ PitsTo = Len(ordered)
  BY DEF Done, LapsTo, PitsTo
<1>2. QED
  BY <1>1, EventAt DEF QualityInv

(* LapIssuesAreExact for every log: the highest number and the set of        *)
(* numbers that _check_laps keeps per car (102-124) say as much as the whole *)
(* log so far.                                                               *)
THEOREM LapIssuesAlwaysExact == ReportSpec => []LapIssuesAreExact
<1>1. QualityInv => LapIssuesAreExact
  <2> SUFFICES ASSUME QualityInv, Done PROVE LapIssuesAreExact
    BY DEF LapIssuesAreExact
  <2>1. \A j \in NumberedLaps : j <= Len(ordered)
    BY AllSeen DEF NumberedLaps
  <2>2. /\ Reported("duplicate_lap") = {j \in NumberedLaps : j <= Len(ordered) /\ Repeats(j)}
        /\ Reported("lap_out_of_order") = {j \in NumberedLaps : j <= Len(ordered) /\ Backward(j)}
    BY AllSeen DEF LapReports
  <2>3. Reported("duplicate_lap") = {j \in NumberedLaps : \E i \in NumberedLaps :
          i < j /\ SameCar(i, j) /\ ordered[i].lap = ordered[j].lap}
    BY <2>1, <2>2 DEF Repeats
  <2>4. Reported("lap_out_of_order") = {j \in NumberedLaps : \E i \in NumberedLaps :
          i < j /\ SameCar(i, j) /\ ordered[i].lap > ordered[j].lap}
    BY <2>1, <2>2 DEF Backward
  <2>5. QED
    BY <2>3, <2>4 DEF LapIssuesAreExact
<1>2. QED
  BY <1>1, QualityAlways, PTL

(* OkLogCountsLapsUp for every log: of two laps of a car that do not count   *)
(* up, the later is reported, and either report is an error (ok).            *)
THEOREM OkLogsCountUp == ReportSpec => []OkLogCountsLapsUp
<1>1. QualityInv => OkLogCountsLapsUp
  <2> SUFFICES ASSUME QualityInv, Done, Ok,
                      NEW i \in NumberedLaps, NEW j \in NumberedLaps, i < j, SameCar(i, j)
               PROVE  ordered[i].lap < ordered[j].lap
    BY DEF OkLogCountsLapsUp
  <2>1. \A c : c \in Error => Reported(c) = {}
    BY DEF Ok, Reported
  <2>2. Reported("duplicate_lap") = {} /\ Reported("lap_out_of_order") = {}
    BY <2>1 DEF Error
  <2>3. j <= Len(ordered)
    BY AllSeen DEF NumberedLaps
  <2>4. ~Repeats(j) /\ ~Backward(j)
    BY <2>2, <2>3, AllSeen DEF LapReports
  <2>5. ordered[i].lap \in Nat /\ ordered[j].lap \in Nat
    BY EventAt DEF NumberedLaps, QualityInv
  <2>6. QED
    BY <2>4, <2>5 DEF Repeats, Backward
<1>2. QED
  BY <1>1, QualityAlways, PTL

(* PitIssuesAreExact for every log: membership of in_pit is what the car's   *)
(* last pit event says (_check_pit_ordering).                                *)
THEOREM PitIssuesAlwaysExact == ReportSpec => []PitIssuesAreExact
<1>1. QualityInv => PitIssuesAreExact
  <2> SUFFICES ASSUME QualityInv, Done PROVE PitIssuesAreExact
    BY DEF PitIssuesAreExact
  <2> DEFINE Unentered(j) ==
               LET before == Of({"PitEntry", "PitExit"}, ordered[j].driver_id, j - 1)
               IN  \A i \in before : (\A k \in before : k <= i) => ordered[i].event_type # "PitEntry"
  <2>1. \A j : Unentered(j) <=> ~InPit(ordered[j].driver_id, j - 1)
    BY DEF InPit, PitEvents, LastOf
  <2>2. \A j \in DOMAIN ordered : j <= Len(ordered)
    BY AllSeen
  <2>3. Reported("pit_exit_before_entry") = {j \in DOMAIN ordered : j <= Len(ordered) /\ Stray(j)}
    BY AllSeen DEF PitReports
  <2> HIDE DEF Unentered
  <2>4. Reported("pit_exit_before_entry") =
          {j \in DOMAIN ordered : /\ ordered[j].event_type = "PitExit" /\ ordered[j].driver_id # None
                                  /\ Unentered(j)}
    BY <2>1, <2>2, <2>3 DEF Stray
  <2>5. QED
    BY <2>4 DEF PitIssuesAreExact, Unentered
<1>2. QED
  BY <1>1, QualityAlways, PTL

(* TyreWarningsAreExact for every log: one remembered age per car is that of *)
(* its last aged lap, or nought after fresh tyres, of which no lap can be    *)
(* younger (_check_laps 89-92, 147-160).                                     *)
THEOREM TyreWarningsAlwaysExact == ReportSpec => []TyreWarningsAreExact
<1>1. QualityInv => TyreWarningsAreExact
  <2> SUFFICES ASSUME QualityInv, Done PROVE TyreWarningsAreExact
    BY DEF TyreWarningsAreExact
  <2> DEFINE Laps(j) == Of({"LapCompleted"}, ordered[j].driver_id, j - 1)
             Sets(j) == Of({"PitStopCompleted", "TyreCompoundChanged"}, ordered[j].driver_id, j - 1)
             Younger(j) == \E i \in Laps(j) :
               /\ ordered[i].tyre_age # None /\ ordered[i].tyre_age > ordered[j].tyre_age
               /\ \A k \in Sets(j) : k < i
               /\ \A k \in Laps(j) : k <= i \/ ordered[k].tyre_age = None
  <2>1. ASSUME NEW j \in DOMAIN ordered
        PROVE  Younger(j) <=>
                 \E i \in Aged(ordered[j].driver_id, j - 1) :
                   /\ ordered[i].tyre_age > ordered[j].tyre_age
                   /\ LastOf(Fresh(ordered[j].driver_id, j - 1) \cup Aged(ordered[j].driver_id, j - 1), i)
    <3>1. j - 1 \in Nat
      BY EventAt DEF QualityInv
    <3>2. /\ Fresh(ordered[j].driver_id, j - 1) = Sets(j)
          /\ Aged(ordered[j].driver_id, j - 1) = {i \in Laps(j) : ordered[i].tyre_age # None}
      BY DEF Fresh, Aged
    <3>3. /\ \A i \in Laps(j) : i \in Nat /\ ordered[i].event_type \in {"LapCompleted"}
          /\ \A k \in Sets(j) : /\ k \in Nat
                                /\ ordered[k].event_type \in {"PitStopCompleted", "TyreCompoundChanged"}
      BY <3>1, PlacesOf
    <3>4. \A i \in Laps(j), k \in Sets(j) : k < i <=> k <= i
      <4>1. \A i \in Laps(j), k \in Sets(j) : i # k
        BY <3>3
      <4>2. QED
        BY <3>3, <4>1
    <3> HIDE DEF Laps, Sets
    <3>5. ASSUME NEW i \in Laps(j), ordered[i].tyre_age # None
          PROVE  LastOf(Sets(j) \cup {k \in Laps(j) : ordered[k].tyre_age # None}, i) <=>
                   /\ \A k \in Sets(j) : k < i
                   /\ \A k \in Laps(j) : k <= i \/ ordered[k].tyre_age = None
      BY <3>4, <3>5 DEF LastOf
    <3>6. QED
      BY <3>2, <3>5
  <2>2. \A j \in DOMAIN ordered : j <= Len(ordered)
    BY AllSeen
  <2>3. Reported("tyre_age_decreased") = {j \in DOMAIN ordered : j <= Len(ordered) /\ Worn(j)}
    BY AllSeen DEF TyreReports
  <2> HIDE DEF Younger
  <2>4. Reported("tyre_age_decreased") =
          {j \in DOMAIN ordered : /\ IsLap(ordered[j]) /\ ordered[j].tyre_age # None
                                  /\ Younger(j)}
    BY <2>1, <2>2, <2>3 DEF Worn
  <2>5. QED
    BY <2>4 DEF TyreWarningsAreExact, Younger
<1>2. QED
  BY <1>1, QualityAlways, PTL

=============================================================================
