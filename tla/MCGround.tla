------------------------------ MODULE MCGround ------------------------------
(***************************************************************************)
(* Finite instances of Ground for TLC.                                     *)
(***************************************************************************)
EXTENDS Ground

Written(version, stale, acc) ==
  [valid |-> TRUE, version |-> version, fits |-> TRUE,
   config |-> [Default EXCEPT !.stale = stale, !.tagged = (stale = {}), !.acc = acc]]

\* A blank EEPROM; this revision's image, calibrated; and the two older layouts
\* with what can be stale in them.
Images ==
  { [Written("other", {}, "zero") EXCEPT !.valid = FALSE],
    Written("V4", {}, "cal"),
    Written("V3", {"gravity"}, "cal"),
    Written("V2", StaleRows, "zero") }
=============================================================================
