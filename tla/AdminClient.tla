---------------------------- MODULE AdminClient -----------------------------
(***************************************************************************)
(* The Kafka admin client as the runbook                                   *)
(* (incubator/disaster-recovery-replicator/scripts/test-runbook.py) relies *)
(* on it: a call returns a future for each resource at once, the broker    *)
(* handles each request on its own, and a thread in the background sets    *)
(* the results of the futures.                                             *)
(***************************************************************************)
EXTENDS Integers, FiniteSets

CONSTANTS
  Resources,     \* what the arguments name: topics, bindings, resources
  ConfigKeys,
  ConfigValues,
  Default,       \* an entry that is not set: is_default
  Supplied,      \* the entries given in the arguments, for each resource
  InitialConfigs,\* bound: configurations that resources begin with
  MaxFailures    \* bound: how many calls and requests fail

Configs == [ConfigKeys -> ConfigValues \cup {Default}]

ASSUME AdminAssumption ==
  /\ IsFiniteSet(Resources) /\ Resources # {}
  /\ Default \notin ConfigValues
  /\ \A r \in Resources : \E K \in SUBSET ConfigKeys :
       Supplied[r] \in [K -> ConfigValues]
  /\ InitialConfigs \subseteq Configs
  /\ MaxFailures \in Nat

Threads == {"main", "background"}

VARIABLES
  operation,   \* sys.argv[2]
  configs,     \* the configuration of each resource at the broker
  request,     \* the configuration an alter request writes, as a whole
  future,      \* the future of each request
  inFlight,    \* requests that the broker may still handle
  applied,     \* requests that the broker has carried out
  failures,    \* failures so far
  pc, at       \* where a thread is, and with which resource

clientVars == <<request, future, inFlight, applied, configs, failures>>

AlterOps == {"alter_configs", "delta_alter_configs"}

FutureStates == {"none", "pending", "done", "kafka", "other"}

AdminTypeOK ==
  /\ configs \in [Resources -> Configs]
  /\ request \in [Resources -> Configs]
  /\ future \in [Resources -> FutureStates]
  /\ inFlight \subseteq Resources
  /\ applied \subseteq Resources
  /\ failures \in 0..MaxFailures

Unset == [k \in ConfigKeys |-> Default]

(* What only operations on topics and ACLs name has no configuration.      *)
AdminInit ==
  /\ configs \in [Resources -> IF operation \in AlterOps
                                THEN InitialConfigs ELSE {Unset}]
  /\ request = [r \in Resources |-> Unset]
  /\ future = [r \in Resources |-> "none"]
  /\ inFlight = {}
  /\ applied = {}
  /\ failures = 0

SuppliedOr(r, config) ==
  [k \in ConfigKeys |->
     IF k \in DOMAIN Supplied[r] THEN Supplied[r][k] ELSE config[k]]

Fails == failures < MaxFailures /\ failures' = failures + 1

Goto(t, from, to) == pc[t] = from /\ pc' = [pc EXCEPT ![t] = to]

Ended == pc["main"] \in {"done", "raised"}

Resolved(r) == future[r] \notin {"none", "pending"}

-----------------------------------------------------------------------------
(* Altering a configuration replaces all of it. *)
Apply(r) ==
  /\ r \in inFlight
  /\ inFlight' = inFlight \ {r}
  /\ applied' = applied \cup {r}
  /\ configs' = IF operation \in AlterOps
                  THEN [configs EXCEPT ![r] = request[r]] ELSE configs
  /\ UNCHANGED <<request, future, failures>>

(* The future of r gets its result: success, or an exception because the   *)
(* broker refused or because no answer came in time, whatever the broker   *)
(* did or is still going to do.                                            *)
Resolve(r) ==
  /\ future[r] = "pending"
  /\ \/ /\ r \in applied
        /\ future' = [future EXCEPT ![r] = "done"]
        /\ UNCHANGED <<inFlight, failures>>
     \/ /\ Fails
        /\ \E kind \in {"kafka", "other"} :
             future' = [future EXCEPT ![r] = kind]
        /\ inFlight' \in {inFlight, inFlight \ {r}}
  /\ UNCHANGED <<request, applied, configs>>
=============================================================================
