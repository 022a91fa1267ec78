--------------------------- MODULE MCMeasuringTests ---------------------------
(* Instances of MeasuringTests for TLC. *)
EXTENDS MeasuringTests

\* Levels further apart than the tolerance, and readings at its edges.
MCLevels == <<4, 8>>
MCReadings == {2, 3, 5, 6, 7, 9, 10}
=============================================================================
