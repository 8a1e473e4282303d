----------------------------- MODULE LinkGuard -----------------------------
(***************************************************************************)
(* What the receiver failsafe promises, whatever procedure is configured:  *)
(* the pilot's sticks fly the craft only over a trusted link; trust, once  *)
(* lost, is regained only by an uninterrupted streak of Qualify ticks; and *)
(* the craft is armed only over a trusted link.  It may be disarmed at any *)
(* time, and it may keep flying untrusted, under the failsafe's control.   *)
(***************************************************************************)
EXTENDS Naturals

CONSTANT Qualify   \* ticks of healthy link that restore trust

VARIABLES
  flying,   \* the craft is armed
  trusted,  \* the receiver link may fly it
  streak,   \* ticks the link has been healthy while not trusted
  sticks    \* the sticks are being passed to the controller

guard == <<flying, trusted, streak, sticks>>

Init == ~flying /\ ~trusted /\ streak = 0 /\ ~sticks

\* Time passes over a healthy but untrusted link.
Prove ==
  /\ ~trusted /\ streak < Qualify
  /\ streak' = streak + 1
  /\ UNCHANGED <<flying, trusted, sticks>>

\* An untrusted link is withheld, or interrupted; sticks may move the outputs
\* of a disarmed craft.
Withhold ==
  /\ ~trusted /\ ~trusted'
  /\ streak' \in {0, streak}
  /\ sticks' \in BOOLEAN /\ flying' \in {flying, FALSE}
  /\ ~(flying' /\ sticks')

Regain ==
  /\ ~trusted /\ streak = Qualify
  /\ trusted' = TRUE /\ streak' = 0 /\ sticks' = TRUE
  /\ UNCHANGED flying

\* The failsafe takes over: stage 1, landing or drop.
Lose ==
  /\ trusted /\ ~trusted'
  /\ streak' = 0
  /\ sticks' = FALSE
  /\ flying' \in {flying, FALSE}

Fly == trusted /\ sticks' = TRUE /\ UNCHANGED <<flying, trusted, streak>>

Arm == trusted /\ flying' = TRUE /\ UNCHANGED <<trusted, streak, sticks>>

Disarm == flying' = FALSE /\ UNCHANGED <<trusted, streak, sticks>>

Next == Prove \/ Withhold \/ Regain \/ Lose \/ Fly \/ Arm \/ Disarm

Spec == Init /\ [][Next]_guard
=============================================================================
