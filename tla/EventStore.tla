----------------------------- MODULE EventStore ------------------------------
(***************************************************************************)
(* storage/event_store.py with its writer, scripts/download_history.py,    *)
(* and its reader, services/race_service.load_events.                      *)
(*                                                                         *)
(* A download turns the rows of a session into events (FastF1Session),     *)
(* each with an event_id minted at that moment, and saves them as JSON     *)
(* lines: the file is emptied first and then filled line by line.  The     *)
(* writer can die at any moment, and a reader opens the file whenever it   *)
(* likes and reads on, line by line, whatever becomes of the file.         *)
(*                                                                         *)
(* A place in the file is counted in lines, though it is one in bytes.     *)
(* The lines of two downloads of a session differ in the digits of ids and *)
(* times, so the same place is between two lines of each, unless events of *)
(* one moment have swapped theirs.  A line that is half of one download    *)
(* and half of another is taken for either or for none.                    *)
(***************************************************************************)
EXTENDS FastF1Session

CONSTANTS Sessions,     \* what FastF1 may hold of the session
          Ended,        \* a time after every one in it
          MaxDownloads  \* bound: downloads of the session

\* Each download happens at a later time than the last.
Now(downloads) == Ended + Len(downloads)

ASSUME StoreAssumption ==
  /\ Sessions \subseteq Session /\ None \notin Int
  /\ Ended \in Nat /\ MaxDownloads \in Nat \ {0}
  /\ \A s \in Sessions, now \in Ended..(Ended + MaxDownloads) :
       SessionEvents(s, now) \in Seq({e \in Event : e.event_time <= now})

VARIABLES
  session,    \* what FastF1 holds; it does not change
  writer,     \* "idle" | "loaded" | "writing"
  events,     \* _events of the writer's store
  written,    \* how many of its lines are on disk
  file,       \* the lines on disk, None before the first save
  torn,       \* the last line on disk is cut short
  loaded,     \* the last load_events: its status, the lines it has read, and
              \* whether the file was emptied after it had opened it
  downloads,  \* history: what each download delivered
  complete    \* history: what each finished save left on disk

writerVars == <<writer, events, written, file, torn, downloads, complete>>
vars == <<session, writerVars, loaded>>

\* A load that has read nothing: "none" | "missing" | "invalid" | "reading"
Without(status) == [status |-> status, lines |-> <<>>, overtaken |-> FALSE]

Init ==
  /\ session \in Sessions
  /\ writer = "idle" /\ events = <<>> /\ written = 0
  /\ file = None /\ torn = FALSE /\ downloads = <<>> /\ complete = <<>>
  /\ loaded = Without("none")

-----------------------------------------------------------------------------
\* uuid4 never repeats.  How the ids of a download compare with each other is
\* all that the replay order sees of them, so they are an order of its events.
Mint(raw, ids) ==
  [i \in DOMAIN raw |-> [raw[i] EXCEPT !.event_id = Len(downloads) * Len(raw) + ids[i]]]

\* load_session_events: its passes one after the other, sorted.
Download(ids) ==
  /\ writer = "idle" /\ Len(downloads) < MaxDownloads
  /\ events' = ReplayOrder(Mint(SessionEvents(session, Now(downloads)), ids))
  /\ downloads' = Append(downloads, events')
  /\ writer' = "loaded" /\ written' = 0
  /\ UNCHANGED <<session, file, torn, complete, loaded>>

\* Mutant: p.open("a")
OpenForAppending ==
  /\ writer = "loaded"
  /\ writer' = "writing" /\ written' = 0
  /\ file' = (IF file = None THEN <<>> ELSE file)
  /\ torn' = FALSE
  /\ UNCHANGED <<session, events, downloads, complete, loaded>>

\* to_jsonl: p.open("w")
OpenForWriting ==
  /\ writer = "loaded"
  /\ writer' = "writing" /\ written' = 0
  /\ file' = <<>> /\ torn' = FALSE
  /\ loaded' = (IF loaded.status = "reading" THEN [loaded EXCEPT !.overtaken = TRUE] ELSE loaded)
  /\ UNCHANGED <<session, events, downloads, complete>>

\* The next line of events() reaches the disk.
WriteLine ==
  /\ writer = "writing" /\ written < Len(events)
  /\ written' = written + 1
  /\ file' = Append(file, ReplayOrder(events)[written + 1])
  /\ torn' = FALSE
  /\ UNCHANGED <<session, writer, events, downloads, complete, loaded>>

\* Only its first part has, for now.
TearLine ==
  /\ writer = "writing" /\ written < Len(events)
  /\ torn' = TRUE
  /\ UNCHANGED <<session, writer, events, written, file, downloads, complete, loaded>>

Close ==
  /\ writer = "writing" /\ written = Len(events)
  /\ writer' = "idle"
  /\ complete' = Append(complete, file)
  /\ UNCHANGED <<session, events, written, file, torn, downloads, loaded>>

\* The writer dies; the disk keeps what has reached it.
Crash ==
  /\ writer # "idle"
  /\ writer' = "idle" /\ events' = <<>> /\ written' = 0
  /\ UNCHANGED <<session, file, torn, downloads, complete, loaded>>

-----------------------------------------------------------------------------
\* load_events opens the file, which raises if there is none.
OpenForReading ==
  /\ loaded.status # "reading"
  /\ loaded' = Without(IF file = None THEN "missing" ELSE "reading")
  /\ UNCHANGED <<session, writerVars>>

\* from_jsonl appends the next line.
ReadLine ==
  LET place == Len(loaded.lines) + 1
  IN  /\ loaded.status = "reading" /\ place <= Len(file)
      /\ loaded' = [loaded EXCEPT !.lines = Append(@, file[place])]
      /\ UNCHANGED <<session, writerVars>>

\* The next line is cut short, or the file now there has the middle of a line
\* at the reader's place: there is nothing to parse, which raises.
ReadFragment ==
  LET place == Len(loaded.lines) + 1
  IN  /\ loaded.status = "reading"
      /\ \/ torn /\ place = Len(file) + 1
         \/ loaded.overtaken /\ place \in 2..(Len(file) + 1)
      /\ loaded' = Without("invalid")
      /\ UNCHANGED <<session, writerVars>>

\* The file, which may be shorter by now, ends here.
EndOfFile ==
  LET place == Len(loaded.lines) + 1
  IN  /\ loaded.status = "reading" /\ place > Len(file)
      /\ torn => place > Len(file) + 1
      /\ loaded' = [loaded EXCEPT !.status = "ok"]
      /\ UNCHANGED <<session, writerVars>>

\* What it returns is asked for through events(), which sorts it.
Loaded == ReplayOrder(loaded.lines)

Next ==
  \/ \E ids \in LET places == DOMAIN SessionEvents(session, Now(downloads))
                IN  Injection(places, places) : Download(ids)
  \/ OpenForWriting
  \/ WriteLine
  \/ TearLine
  \/ Close
  \/ Crash
  \/ OpenForReading
  \/ ReadLine
  \/ ReadFragment
  \/ EndOfFile

Spec == Init /\ [][Next]_vars

-----------------------------------------------------------------------------
(* What a reader gets is a prefix, in replay order, of one download, with    *)
(* never an event missing before one that is there, while a save runs or     *)
(* after one died, unless a save empties the file while it is being read.    *)
(* Then it may be pieced together from several downloads, but every line     *)
(* keeps its place and none is of an older download than one before it       *)
(* (to_jsonl 40-47, from_jsonl 49-57).                                       *)
LoadedKeepsItsPlaces ==
  loaded.status = "ok" =>
    /\ ~loaded.overtaken => \E d \in Range(downloads) : IsPrefix(Loaded, d)
    /\ \E from \in [DOMAIN loaded.lines -> DOMAIN downloads] :
         /\ \A i \in DOMAIN from : loaded.lines[i] = downloads[from[i]][i]
         /\ \A i, j \in DOMAIN from : i <= j => from[i] <= from[j]

\* The rows of a session as [type, time], the time on the wall clock.
Rows(s) ==
  LET clock(time) == IF time = None \/ s.date = None \/ s.start = None THEN None
                     ELSE (s.date - s.start) + time
      row(type, time, i) == [type |-> type, time |-> time, place |-> i]
  IN  {r \in {row("LapCompleted", clock(s.laps[i].time), i) : i \in DOMAIN s.laps}
             \cup {row("PitStopCompleted", clock(s.laps[i].time), i) :
                    i \in {j \in DOMAIN s.laps : s.laps[j].pit_in}} : r.time # None}
      \cup {row("WeatherUpdated", clock(s.weather[i].time), i) : i \in DOMAIN s.weather}
      \cup {row("SafetyCarDeployed", clock(s.track_status[i].time), i) :
             i \in {j \in DOMAIN s.track_status : s.track_status[j].code \in {"4", "6"}}}
      \cup {row("YellowFlagStarted", clock(s.track_status[i].time), i) :
             i \in {j \in DOMAIN s.track_status : s.track_status[j].code = "2"}}
      \cup {row("RedFlagStarted", clock(s.track_status[i].time), i) :
             i \in {j \in DOMAIN s.track_status : s.track_status[j].code = "5"}}
      \cup {row("RaceControlMessagePublished", s.messages[i].time, i) : i \in DOMAIN s.messages}

(* Four tables with two kinds of clock become one: up to any moment a        *)
(* download holds, of each type, as many events as the tables hold rows by   *)
(* then, rows without a time come after all of them, and a lap without one   *)
(* is the only row that is lost (load_session_events 100-106).               *)
DownloadKeepsOneClock ==
  LET all == Rows(session)
  IN  \A n \in DOMAIN downloads, type \in EventType :
        LET d == downloads[n]
            times == [k \in {j \in DOMAIN d : d[j].event_type = type} |-> d[k].event_time]
            rows == {r \in all : r.type = type}
        IN  /\ \A moment \in 0..(Ended - 1) :
                 Cardinality({k \in DOMAIN times : times[k] <= moment})
                   = Cardinality({r \in rows : r.time # None /\ r.time <= moment})
            /\ Cardinality(DOMAIN times) = Cardinality(rows)
            /\ \A k \in 1..(Len(d) - 1) : d[k].event_time <= d[k + 1].event_time

\* An event without its id: what it says, and what the reducer folds.
Content(e) == [e EXCEPT !.event_id = 0]

(* Downloading the session again gives a log that replays the same events in *)
(* the same order ("the final tiebreak keeps replay stable and reproducible  *)
(* even when two events share both timestamps", domain/events.py:89).        *)
DownloadsReplayAlike ==
  \A c, d \in Range(complete) : [k \in DOMAIN c |-> Content(c[k])]
                                  = [k \in DOMAIN d |-> Content(d[k])]
=============================================================================
