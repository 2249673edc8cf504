---------------------------- MODULE MCEventStore -----------------------------
(* A session with an anchor, where a car ends its in-lap and, at the same    *)
(* moment, stops, and a lap has no end time; one where a race control        *)
(* message, absolutely timed, comes between two track states; and one        *)
(* without an anchor, whose rows but the message are stamped with the time   *)
(* of the download and whose laps are lost.                                  *)
EXTENDS EventStore

CONSTANTS ver, soft, rain

LapRow1(time, number, age, in) ==
  [time |-> time, driver |-> ver, number |-> number, position |-> 1,
   compound |-> soft, tyre_life |-> age, pit_in |-> in]
StatusRow1(time, code) == [time |-> time, code |-> code]

Anchored ==
  [date |-> 5, start |-> 3, laps |-> <<LapRow1(4, 1, 14, TRUE), LapRow1(None, 2, 1, FALSE)>>,
   weather |-> <<[time |-> 1, weather |-> rain]>>, track_status |-> <<>>, messages |-> <<>>]

Flagged ==
  [date |-> 5, start |-> 3, laps |-> <<>>, weather |-> <<>>,
   track_status |-> <<StatusRow1(0, "1"), StatusRow1(4, "5"), StatusRow1(1, "6"), StatusRow1(2, "7")>>,
   messages |-> <<[time |-> 4]>>]

Unanchored ==
  [date |-> 5, start |-> None, laps |-> <<LapRow1(4, 1, 14, TRUE)>>,
   weather |-> <<[time |-> 1, weather |-> rain]>>, track_status |-> <<StatusRow1(2, "2")>>,
   messages |-> <<[time |-> 3]>>]

MCSessions == {Anchored, Flagged, Unanchored}
AnchoredOnly == {Anchored}
=============================================================================
