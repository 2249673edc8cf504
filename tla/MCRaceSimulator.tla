-------------------------- MODULE MCRaceSimulator --------------------------
(* Three cars and the last three laps: level and close cars, cars that have  *)
(* stopped before and cars that have not, a car out from the start, an input *)
(* without laps left.  Times count in eighths, so three safety cars that     *)
(* halve the gaps leave whole numbers.                                       *)
EXTENDS RaceSimulator

GripOf == [c \in Compound |-> IF c = soft THEN -8 ELSE IF c = hard THEN 8 ELSE 0]
DegOf  == [c \in Compound |-> IF c = soft THEN 8 ELSE 0]
Noises == {0, 16}

Base == [total_laps |-> 6, current_lap |-> 3, clean_air_pace |-> <<80, 88, 80>>,
         tyre_compound |-> <<medium, soft, medium>>, tyre_age |-> <<3, 1, 3>>,
         pit_count |-> <<0, 1, 0>>, gap_to_leader |-> <<0, 8, 80>>,
         retired |-> {3}, circuit_sc_multiplier |-> 1]
Starts == {Base,
           [Base EXCEPT !.total_laps = 5, !.retired = {}, !.gap_to_leader = <<8, 0, 8>>],
           [Base EXCEPT !.circuit_sc_multiplier = 0, !.gap_to_leader = <<0, 0, 80>>],
           [Base EXCEPT !.current_lap = 7, !.retired = {}]}
=============================================================================
