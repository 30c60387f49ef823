------------------------------ MODULE MCClock ------------------------------
(* Instances of ClockServer for TLC. *)
EXTENDS ClockServer

\* The ends of a second and an instant between them
SomeFractions == {0, 3906250, 999999999}

\* The last second of daylight saving west of Greenwich, and the one after it
EndOfSummer == [s \in 0 .. 1 |-> IF s = 0 THEN -14400 ELSE -18000]
=============================================================================
