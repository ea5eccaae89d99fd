----------------------------- MODULE AdminBatch -----------------------------
(***************************************************************************)
(* The operations of the runbook that send one batch of requests and then  *)
(* wait for its futures one after the other: topics, partitions, ACLs and  *)
(* alter_configs.  They differ in the exceptions they survive.             *)
(***************************************************************************)
EXTENDS AdminClient

VARIABLE reported   \* what was printed about each resource

TopicOps == {"create_topics", "delete_topics", "create_partitions"}

AclOps == {"create_acls", "delete_acls"}

BatchOps == TopicOps \cup AclOps \cup {"alter_configs"}

BatchTypeOK == reported \in [Resources -> {"nothing", "success", "failure"}]

BatchInit == reported = [r \in Resources |-> "nothing"]

(* "except Exception", "except KafkaException", and "raise". *)
Survives(kind) ==
  \/ operation \in TopicOps
  \/ operation \in AclOps /\ kind = "kafka"

SendBatch ==
  /\ operation \in BatchOps
  /\ Goto("main", "call", "loop")
  /\ request' = [r \in Resources |-> SuppliedOr(r, Unset)]
  /\ future' = [r \in Resources |-> "pending"]
  /\ inFlight' = Resources
  /\ UNCHANGED <<applied, configs, failures, at, reported>>

(* The next of fs.items(). *)
NextFuture(r) ==
  /\ Goto("main", "loop", "result")
  /\ reported[r] = "nothing"
  /\ at' = [at EXCEPT !["main"] = r]
  /\ UNCHANGED <<clientVars, reported>>

ReportOn(r, what) ==
  /\ Goto("main", "result", "loop")
  /\ at["main"] = r
  /\ reported' = [reported EXCEPT ![r] = what]
  /\ UNCHANGED <<clientVars, at>>

(* Mutant: the future is awaited but its result is not asked for. *)
ReportSuccess_Unasked(r) == Resolved(r) /\ ReportOn(r, "success")

(* f.result() returns. *)
ReportSuccess(r) == future[r] = "done" /\ ReportOn(r, "success")

(* f.result() raises, and the loop goes on. *)
ReportFailure(r) ==
  /\ future[r] \in {"kafka", "other"}
  /\ Survives(future[r])
  /\ ReportOn(r, "failure")

(* Mutant: the exception ends the loop and is forgotten. *)
Raise_Swallowed(r) ==
  /\ Goto("main", "result", "done")
  /\ at["main"] = r
  /\ future[r] \in {"kafka", "other"}
  /\ ~Survives(future[r])
  /\ UNCHANGED <<clientVars, at, reported>>

(* f.result() raises, and the script ends with that. *)
Raise(r) ==
  /\ Goto("main", "result", "raised")
  /\ at["main"] = r
  /\ future[r] \in {"kafka", "other"}
  /\ ~Survives(future[r])
  /\ UNCHANGED <<clientVars, at, reported>>

BatchEnds ==
  /\ Goto("main", "loop", "done")
  /\ \A r \in Resources : reported[r] # "nothing"
  /\ UNCHANGED <<clientVars, at, reported>>

BatchStep ==
  \/ SendBatch
  \/ \E r \in Resources :
       NextFuture(r) \/ ReportSuccess(r) \/ ReportFailure(r) \/ Raise(r)
  \/ BatchEnds
=============================================================================
