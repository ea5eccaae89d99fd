------------------------------ MODULE Campaign ------------------------------
(***************************************************************************)
(* What a run of the network benchmark promises: every measurement of the  *)
(* plan is taken once, one at a time and in the order of the table, and    *)
(* the report is issued once, after the last of them.                      *)
(***************************************************************************)
EXTENDS Integers

CONSTANT Plan   \* the measurements <<test case, MSS>> of the table

VARIABLES
  measured,   \* the measurements whose output has been recorded
  active,     \* the measurement in progress, if any
  reported    \* the report has been issued

vars == <<measured, active, reported>>

TypeOK ==
  /\ measured \subseteq Plan
  /\ active \subseteq Plan
  /\ reported \in BOOLEAN

Before(x, y) == x[1] < y[1] \/ (x[1] = y[1] /\ x[2] < y[2])

Init == measured = {} /\ active = {} /\ reported = FALSE

Start ==
  /\ active = {}
  /\ \E m \in Plan :
       /\ active' = {m}
       /\ m \notin measured
       /\ \A k \in Plan \ measured : k = m \/ Before(m, k)
  /\ UNCHANGED <<measured, reported>>

Finish ==
  /\ active # {}
  /\ measured' = measured \cup active
  /\ active' = {}
  /\ UNCHANGED reported

Report ==
  /\ measured = Plan
  /\ active = {}
  /\ reported' = TRUE
  /\ UNCHANGED <<measured, active>>

Next == Start \/ Finish \/ Report

Spec == Init /\ [][Next]_vars
=============================================================================
