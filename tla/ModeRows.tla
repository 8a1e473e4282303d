------------------------------ MODULE ModeRows ------------------------------
(***************************************************************************)
(* How Actuator::updateModeMask (Actuator.cpp) turns the mode conditions   *)
(* into the set of modes the pilot requests.  A row is either an AUX range *)
(* or a link to another mode; OR rows each switch their mode on, AND rows  *)
(* do so together.  The code folds the rows, in their order, into two      *)
(* masks, the linked rows in a second pass, and resolves them by XOR.      *)
(***************************************************************************)
EXTENDS Integers, Sequences, Functions

CONSTANTS
  Aux,     \* AUX ranges (a channel with its bounds) that rows may name
  Present  \* those on channels the receiver provides

Modes == {"ARMED", "ANGLE", "ALTHOLD", "AIRMODE", "FAILSAFE"}

\* ActuatorCondition.  linkId 0 is MODE_ARMED and means "no link", so nothing
\* links to ARMED; aux "none" is a range with min >= max.
Row ==
  [id : Modes, and : BOOLEAN, aux : Aux \cup {"none"},
   link : (Modes \ {"ARMED"}) \cup {"none"}]

\* modeConditionHasLink
HasLink(row) == row.link # "none"

\* modeConditionLinkValid: no linked ARM, no link to itself, no chain of links
LinkValid(rows, row) ==
  /\ HasLink(row)
  /\ row.id # "ARMED"
  /\ row.link # row.id
  /\ \A r \in Range(rows) : r.id = row.link => ~HasLink(r)

\* the two masks of updateModeMask
NoMasks == [and |-> {}, new |-> {}]

\* Mutant: an OR row that is off clears its mode.
MarkLast(masks, row, active) ==
  IF row.and
  THEN [and |-> masks.and \cup {row.id},
        new |-> IF active THEN masks.new ELSE masks.new \cup {row.id}]
  ELSE [and |-> masks.and \ {row.id},
        new |-> IF active THEN masks.new \cup {row.id} ELSE masks.new \ {row.id}]

\* updateMasksForCondition: an active OR row decides its mode for good; while
\* none has, AND rows mark it in the and mask, and an inactive one in the new.
Mark(masks, row, active) ==
  IF row.id \in masks.new \ masks.and \/ (~row.and /\ ~active) THEN masks
  ELSE IF row.and
  THEN [and |-> masks.and \cup {row.id},
        new |-> IF active THEN masks.new ELSE masks.new \cup {row.id}]
  ELSE [and |-> masks.and \ {row.id}, new |-> masks.new \cup {row.id}]

On(masks, mode) == (mode \in masks.and) # (mode \in masks.new)

\* A physical row takes part when its range is one and its channel exists.
Physical(row) == ~HasLink(row) /\ row.aux \in Present

\* The masks after each row of the first pass.
FirstMasks(rows, on) ==
  LET masks[i \in 0..Len(rows)] ==
        IF i = 0 THEN NoMasks
        ELSE IF Physical(rows[i]) THEN Mark(masks[i - 1], rows[i], rows[i].aux \in on)
        ELSE masks[i - 1]
  IN  masks

FirstPass(rows, on) == FirstMasks(rows, on)[Len(rows)]

\* The masks after each row of the second pass.  A link reads them as they are.
SecondMasks(rows, masks1) ==
  LET masks[i \in 0..Len(rows)] ==
        IF i = 0 THEN masks1
        ELSE IF LinkValid(rows, rows[i])
        THEN Mark(masks[i - 1], rows[i], On(masks[i - 1], rows[i].link))
        ELSE masks[i - 1]
  IN  masks

SecondPass(rows, masks1) == SecondMasks(rows, masks1)[Len(rows)]

\* The requested modes when the AUX values lie in the ranges "on".
Requested(rows, on) ==
  LET masks == SecondPass(rows, FirstPass(rows, on))
  IN  {mode \in Modes : On(masks, mode)}

-----------------------------------------------------------------------------

(* What the rows mean, without order, masks or passes. *)

\* The rows that ask for a mode together: one of the OR rows holds, or there
\* are AND rows and all of them hold.
Decides(asking, holding) ==
  \/ \E row \in asking \cap holding : ~row.and
  \/ (\E row \in asking : row.and) /\ (\A row \in asking : row.and => row \in holding)

Asking(rows, mode) ==
  {row \in Range(rows) : row.id = mode /\ (Physical(row) \/ LinkValid(rows, row))}

InRange(rows, on) == {row \in Range(rows) : ~HasLink(row) /\ row.aux \in on}

\* A linked row holds when the rows of the mode it names ask for that mode.
Followed(rows, on) ==
  {row \in Range(rows) :
     HasLink(row) /\ Decides(Asking(rows, row.link), InRange(rows, on))}

Meant(rows, on) ==
  {mode \in Modes : Decides(Asking(rows, mode), InRange(rows, on) \cup Followed(rows, on))}
=============================================================================
