--------------------------- MODULE LossyCampaign ----------------------------
(***************************************************************************)
(* What a run of the network benchmark still promises when workers fail:   *)
(* measurements are taken one at a time and in the order of the table, the *)
(* one in progress can be lost, for good or to be taken again at once, and *)
(* the report is issued when none is left.                                 *)
(***************************************************************************)
EXTENDS Integers

CONSTANT Plan   \* the measurements <<test case, MSS>> of the table

VARIABLES
  left,       \* the measurements not done with, the one in progress included
  recorded,   \* the measurements whose output has been recorded
  active,     \* the measurement in progress, if any
  reported    \* the report has been issued

vars == <<left, recorded, active, reported>>

Before(x, y) == x[1] < y[1] \/ (x[1] = y[1] /\ x[2] < y[2])

Init == left = Plan /\ recorded = {} /\ active = {} /\ reported = FALSE

Start ==
  /\ active = {}
  /\ \E m \in left :
       /\ active' = {m}
       /\ \A k \in left : k = m \/ Before(m, k)
  /\ UNCHANGED <<left, recorded, reported>>

Finish ==
  /\ active # {}
  /\ active' = {}
  /\ recorded' = recorded \cup active
  /\ left' = left \ active
  /\ UNCHANGED reported

Lose ==
  /\ active # {}
  /\ active' = {}
  /\ left' \in {left, left \ active}
  /\ UNCHANGED <<recorded, reported>>

Report ==
  /\ left = {}
  /\ reported' = TRUE
  /\ UNCHANGED <<left, recorded, active>>

Next == Start \/ Finish \/ Lose \/ Report
=============================================================================
