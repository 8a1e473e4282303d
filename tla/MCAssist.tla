------------------------------ MODULE MCAssist ------------------------------
(***************************************************************************)
(* A finite instance of Assist for TLC.                                    *)
(***************************************************************************)
EXTENDS Assist

OrRow(mode, range) == [id |-> mode, and |-> FALSE, aux |-> range, link |-> "none"]
AndRow(mode, range) == [OrRow(mode, range) EXCEPT !.and = TRUE]
LinkRow(mode, source) == [OrRow(mode, "none") EXCEPT !.link = source]

\* ARM and ALTHOLD on switches of their own, ANGLE linked to ALTHOLD
BootTables ==
  {<<OrRow("ARMED", "s1"), LinkRow("ANGLE", "ALTHOLD"), OrRow("ALTHOLD", "s2"),
     OrRow("AIRMODE", "none")>>}

\* The last row becomes one that counts with, beside or against the others, on
\* a channel the receiver has or lacks, a link that makes a chain, or, in the
\* short form, a second ARM row whatever it was; one edit is beyond the table.
RowEdits ==
  [at : {4}, short : {FALSE},
   row : {AndRow("ALTHOLD", "s3"), AndRow("ALTHOLD", "lost"),
          OrRow("ANGLE", "s3"), OrRow("AIRMODE", "s1"), OrRow("FAILSAFE", "s3"),
          LinkRow("ALTHOLD", "FAILSAFE")}]
  \cup [at : {4}, short : {TRUE}, row : {OrRow("ARMED", "s3")}]
  \cup [at : {6}, short : {FALSE}, row : {OrRow("ARMED", "s3")}]

Read(thrust, stick, est) ==
  [thrust |-> thrust, stick |-> stick, est |-> est, gyro |-> TRUE,
   blocked |-> FALSE]

\* All is well with the throttle low or high; or one or two things are not.
SomeReadings ==
  {Read(0, s, "both") : s \in Stick}
  \cup {Read(1, s, "both") : s \in {"centred", "deflected"}}
  \cup {Read(0, "centred", e) : e \in {"none", "attitude"}}
  \cup {[Read(0, "centred", "none") EXCEPT !.gyro = FALSE],
        [Read(0, "centred", "both") EXCEPT !.blocked = TRUE]}
=============================================================================
