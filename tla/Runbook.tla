------------------------------ MODULE Runbook -------------------------------
(***************************************************************************)
(* The Kafka admin runbook: one operation per run of the script, against a *)
(* broker whose configuration other clients write, too.  When the main     *)
(* thread has ended no callback runs any more, but the broker may still    *)
(* handle requests.                                                        *)
(***************************************************************************)
EXTENDS AdminBatch, DeltaAlterConfigs

Operations == BatchOps \cup {"delta_alter_configs"}

vars == <<operation, clientVars, pc, at, reported, deltaVars, otherVars>>

Init ==
  /\ operation \in Operations
  /\ pc = [t \in Threads |-> IF t = "main" THEN "call" ELSE "idle"]
  /\ at = [t \in Threads |-> CHOOSE r \in Resources : TRUE]
  /\ AdminInit
  /\ BatchInit
  /\ DeltaInit

(* The client raises an exception instead of returning futures; only the   *)
(* ACL operations catch one, ValueError.                                   *)
CallRejected ==
  /\ Fails
  /\ \/ Goto("main", "call", "raised")
     \/ operation \in AclOps /\ Goto("main", "call", "done")
  /\ UNCHANGED <<request, future, inFlight, applied, configs, at, reported,
                 deltaVars, otherVars>>

MainStep ==
  /\ ~Ended
  /\ \/ CallRejected
     \/ BatchStep /\ UNCHANGED <<deltaVars, otherVars>>
     \/ DeltaMain /\ UNCHANGED <<reported, otherVars>>
  /\ UNCHANGED operation

BatchResolve(r) ==
  /\ operation \in BatchOps
  /\ Resolve(r)
  /\ UNCHANGED <<pc, at, reported, deltaVars>>

BackgroundStep ==
  /\ ~Ended
  /\ \/ \E r \in Resources : BatchResolve(r)
     \/ DeltaBackground /\ UNCHANGED reported
  /\ UNCHANGED <<operation, otherVars>>

BrokerApplies(r) ==
  /\ Apply(r)
  /\ UNCHANGED <<operation, pc, at, reported, deltaVars, otherVars>>

OthersStep ==
  /\ \E r \in Resources, k \in ConfigKeys,
          value \in ConfigValues \cup {Default} : OtherWrites(r, k, value)
  /\ UNCHANGED <<operation, reported>>

Next ==
  \/ MainStep
  \/ BackgroundStep
  \/ \E r \in Resources : BrokerApplies(r)
  \/ OthersStep

Spec == Init /\ [][Next]_vars

(* Neither thread stops, and the broker handles what has reached it.       *)
FairSpec ==
  /\ Spec
  /\ WF_vars(MainStep)
  /\ WF_vars(BackgroundStep)
  /\ \A r \in Resources : WF_vars(BrokerApplies(r))

-----------------------------------------------------------------------------
isDelta == operation = "delta_alter_configs"

(* Every variable has its type, and the counter of WaitZero stays between  *)
(* zero and the number of resources.                                       *)
TypeOK ==
  /\ operation \in Operations
  /\ AdminTypeOK
  /\ BatchTypeOK
  /\ DeltaTypeOK
  /\ pc \in [Threads -> {"call", "loop", "result", "hook", "merge", "chain",
                         "decr", "set", "check", "sleep", "clear", "idle",
                         "done", "raised"}]
  /\ at \in [Threads -> Resources]

(* decr() is never called more often than there are resources, whichever   *)
(* thread runs a callback and however often: the assertion in decr holds.  *)
AssertHolds == \A t \in Threads : pc[t] = "decr" => cnt > 0

(* wait() returns only when the alteration of every resource has an        *)
(* outcome: nothing is in flight that the user has not been told about.    *)
ReturnsWhenAllDone ==
  isDelta /\ pc["main"] = "done" => \A r \in Resources : Resolved(r)

(* decr sets the event, and wait clears it, without the lock of the        *)
(* counter; still no wake-up is lost: while the main thread sleeps it has  *)
(* been woken, a callback is running or an answer is to come, unless a     *)
(* callback raised.                                                        *)
NoLostWakeup ==
  pc["main"] = "sleep" =>
    \/ event
    \/ pc["background"] # "idle"
    \/ \E r \in Resources : "pending" \in {describe[r], future[r]}
    \/ broken # {}

(* What the batch operations print is true: a success they report has      *)
(* happened at the broker.                                                 *)
ReportsAreTrue ==
  \A r \in Resources : reported[r] = "success" => r \in applied

(* A batch operation that sent its requests ends with an exception or      *)
(* after it reported on each of them: no outcome is passed over.           *)
NothingUnreported ==
  /\ operation \in BatchOps
  /\ pc["main"] = "done"
  /\ \E r \in Resources : future[r] # "none"
  => \A r \in Resources : reported[r] # "nothing"

Outcome(r) ==
  CASE future[r] = "done" -> "success"
    [] future[r] \in {"kafka", "other"} \/ describe[r] = "kafka"
       \/ r \in broken -> "failure"
    [] OTHER -> "open"

Promise == INSTANCE ConfigUpdate WITH
  contended <- raced,
  updated <- applied,
  outcome <- [r \in Resources |-> Outcome(r)],
  returned <- pc["main"] = "done"

(* example_delta_alter_configs modifies just the supplied entries, once,   *)
(* whatever the order of callbacks, results and requests; what others      *)
(* write between its reading and its writing is all it may revert.         *)
ImplementsConfigUpdate ==
  (isDelta => Promise!Init) /\ [][isDelta => Promise!Next]_(Promise!vars)

(* Every operation ends, unless a callback of the delta operation raised.  *)
OperationEnds == <>(Ended \/ broken # {})

(* The comment at the end of example_delta_alter_configs: it waits for the *)
(* callbacks to be triggered and the operations to complete, and so ends   *)
(* when they have.                                                         *)
WaitEnds == <>Ended
=============================================================================
