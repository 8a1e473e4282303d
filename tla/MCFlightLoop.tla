---------------------------- MODULE MCFlightLoop ----------------------------
(***************************************************************************)
(* Finite instances of FlightLoop for TLC.                                 *)
(***************************************************************************)
EXTENDS FlightLoop

Sticks(thrusts, boxes) == [thrust : thrusts, arm : BOOLEAN, box : boxes]

\* Throttle low or up; the FAILSAFE switch is also tried, with ARM on.
DropFrames ==
  Sticks({0, 1}, {FALSE}) \cup {[thrust |-> 0, arm |-> TRUE, box |-> TRUE]}

\* The ARM switch on, the throttle low or at hover.
LandFrames == {f \in Sticks({0, 3}, {FALSE}) : f.arm}

\* the PID commands idle thrust or hover
PidSteps == {0, 3}
=============================================================================
