------------------------------ MODULE MCRunbook ------------------------------
(* The runbook with two resources of two entries, one of which is given.   *)
EXTENDS Runbook

CONSTANTS r1, r2, given, left

SuppliedGiven == [r \in {r1, r2} |-> [k \in {given} |-> "new"]]

AllOrNothing ==
  {[k \in {given, left} |-> v] : v \in {"old", "default"}}
=============================================================================
