------------------------- MODULE DeltaAlterConfigs --------------------------
(***************************************************************************)
(* example_delta_alter_configs of the runbook: read the configuration of   *)
(* each resource, merge it under the supplied entries, and write it back,  *)
(* in callbacks; the main thread waits on a counter and an event,          *)
(* WaitZero.  A callback runs in the thread that completes its future, or  *)
(* in the thread that adds it if the future is complete already.           *)
(***************************************************************************)
EXTENDS AdminClient

CONSTANT MaxWrites   \* bound: how often another client writes an entry

ASSUME WritesAssumption == MaxWrites \in Nat

VARIABLES
  describe,   \* the futures of describe_configs
  remote,     \* the configurations they have read
  hooked,     \* describe futures that have their callback
  chained,    \* alter futures that have theirs
  cnt, event, \* WaitZero
  broken,     \* resources whose callback raised an exception
  raced,      \* entries written by others between reading and writing back
  writes      \* writes of others so far

readVars == <<describe, remote>>
callbackVars == <<hooked, chained, broken>>
latchVars == <<cnt, event>>
deltaVars == <<readVars, callbackVars, latchVars>>
otherVars == <<raced, writes>>

(* Mutant: one resource is forgotten. *)
WaitCount_Short == Cardinality(Resources) - 1

(* len(resources); the arguments name each resource once. *)
WaitCount == Cardinality(Resources)

DeltaTypeOK ==
  /\ describe \in [Resources -> FutureStates]
  /\ remote \in [Resources -> Configs]
  /\ hooked \subseteq Resources
  /\ chained \subseteq Resources
  /\ cnt \in 0..WaitCount
  /\ event \in BOOLEAN
  /\ broken \subseteq Resources
  /\ raced \subseteq Resources \X ConfigKeys
  /\ writes \in 0..MaxWrites

DeltaInit ==
  /\ describe = [r \in Resources |-> "none"]
  /\ remote = [r \in Resources |-> Unset]
  /\ hooked = {}
  /\ chained = {}
  /\ cnt = WaitCount
  /\ event = FALSE
  /\ broken = {}
  /\ raced = {}
  /\ writes = 0

-----------------------------------------------------------------------------
(* The main thread up to wait(). *)
SendDescribe ==
  /\ operation = "delta_alter_configs"
  /\ Goto("main", "call", "hook")
  /\ describe' = [r \in Resources |-> "pending"]
  /\ UNCHANGED <<clientVars, at, remote, callbackVars, latchVars>>

Run(t, r, place) ==
  /\ pc' = [pc EXCEPT ![t] = place]
  /\ at' = [at EXCEPT ![t] = r]

HookDescribe(r) ==
  /\ pc["main"] = "hook"
  /\ r \notin hooked
  /\ hooked' = hooked \cup {r}
  /\ IF describe[r] = "pending" THEN UNCHANGED <<pc, at>>
                                ELSE Run("main", r, "merge")
  /\ UNCHANGED <<clientVars, readVars, chained, broken, latchVars>>

StartWait ==
  /\ Goto("main", "hook", "check")
  /\ hooked = Resources
  /\ UNCHANGED <<clientVars, at, deltaVars>>

-----------------------------------------------------------------------------
(* The background thread between two callbacks. *)
(* Mutant: the callback runs even if it has not been added yet. *)
DescribeArrives_Unhooked(r) ==
  /\ pc["background"] = "idle"
  /\ describe[r] = "pending"
  /\ describe' = [describe EXCEPT ![r] = "done"]
  /\ remote' = [remote EXCEPT ![r] = configs[r]]
  /\ Run("background", r, "merge")
  /\ UNCHANGED <<clientVars, callbackVars, latchVars>>

DescribeArrives(r) ==
  /\ pc["background"] = "idle"
  /\ describe[r] = "pending"
  /\ \/ /\ describe' = [describe EXCEPT ![r] = "done"]
        /\ remote' = [remote EXCEPT ![r] = configs[r]]
        /\ UNCHANGED failures
     \/ /\ Fails
        /\ describe' = [describe EXCEPT ![r] = "kafka"]
        /\ UNCHANGED remote
  /\ IF r \in hooked THEN Run("background", r, "merge")
                      ELSE UNCHANGED <<pc, at>>
  /\ UNCHANGED <<request, future, inFlight, applied, configs, callbackVars,
                 latchVars>>

AlterArrives(r) ==
  /\ operation = "delta_alter_configs"
  /\ pc["background"] = "idle"
  /\ Resolve(r)
  /\ IF r \in chained THEN Run("background", r, "decr")
                       ELSE UNCHANGED <<pc, at>>
  /\ UNCHANGED deltaVars

-----------------------------------------------------------------------------
(* The callbacks, in thread t. *)
CallbackEnds(t) ==
  pc' = [pc EXCEPT ![t] = IF t = "main" THEN "hook" ELSE "idle"]

(* Mutant: set_config overwrites. *)
Merged_Overwritten(r) ==
  [k \in ConfigKeys |-> IF remote[r][k] # Default
                          THEN remote[r][k] ELSE SuppliedOr(r, remote[r])[k]]

(* Entries that are not default are set, without overwriting; the others   *)
(* are left out and so become default.                                     *)
Merged(r) == SuppliedOr(r, remote[r])

AlterMerged(t, r) ==
  /\ Goto(t, "merge", "chain")
  /\ at[t] = r
  /\ describe[r] = "done"
  /\ request' = [request EXCEPT ![r] = Merged(r)]
  /\ future' = [future EXCEPT ![r] = "pending"]
  /\ inFlight' = inFlight \cup {r}
  /\ UNCHANGED <<applied, configs, failures, at, deltaVars>>

(* fut.result() or alter_configs raises; what runs the callbacks logs it.  *)
CallbackRaises(t, r) ==
  /\ pc[t] = "merge"
  /\ at[t] = r
  /\ \/ describe[r] # "done" /\ UNCHANGED failures
     \/ describe[r] = "done" /\ Fails
  /\ CallbackEnds(t)
  /\ broken' = broken \cup {r}
  /\ UNCHANGED <<request, future, inFlight, applied, configs, at, readVars,
                 hooked, chained, latchVars>>

(* Mutant: the resource is counted when its request has been sent. *)
Chain_Unchained(t, r) ==
  /\ Goto(t, "chain", "decr")
  /\ at[t] = r
  /\ UNCHANGED <<clientVars, at, deltaVars>>

Chain(t, r) ==
  /\ pc[t] = "chain"
  /\ at[t] = r
  /\ IF Resolved(r)
       THEN pc' = [pc EXCEPT ![t] = "decr"] /\ UNCHANGED chained
       ELSE CallbackEnds(t) /\ chained' = chained \cup {r}
  /\ UNCHANGED <<clientVars, at, readVars, hooked, broken, latchVars>>

(* Mutant: a failed alteration is reported but not counted. *)
Decr_SuccessOnly(t, r) ==
  /\ Goto(t, "decr", "set")
  /\ at[t] = r
  /\ cnt' = IF future[r] = "done" THEN cnt - 1 ELSE cnt
  /\ UNCHANGED <<clientVars, at, readVars, callbackVars, event>>

(* decr(): under the lock, and then event.set() without it. *)
Decr(t, r) ==
  /\ Goto(t, "decr", "set")
  /\ at[t] = r
  /\ cnt' = cnt - 1
  /\ UNCHANGED <<clientVars, at, readVars, callbackVars, event>>

Signal(t) ==
  /\ pc[t] = "set"
  /\ event' = TRUE
  /\ CallbackEnds(t)
  /\ UNCHANGED <<clientVars, at, readVars, callbackVars, cnt>>

Callback(t) ==
  \/ \E r \in Resources :
       AlterMerged(t, r) \/ CallbackRaises(t, r) \/ Chain(t, r) \/ Decr(t, r)
  \/ Signal(t)

-----------------------------------------------------------------------------
(* wait(): the counter is read under the lock, the event without it. *)
Check ==
  /\ pc["main"] = "check"
  /\ pc' = [pc EXCEPT !["main"] = IF cnt > 0 THEN "sleep" ELSE "done"]
  /\ UNCHANGED <<clientVars, at, deltaVars>>

Wake ==
  /\ event
  /\ Goto("main", "sleep", "clear")
  /\ UNCHANGED <<clientVars, at, deltaVars>>

(* Mutant: the wait goes on without reading the counter again. *)
Clear_Unread ==
  /\ Goto("main", "clear", "sleep")
  /\ event' = FALSE
  /\ UNCHANGED <<clientVars, at, readVars, callbackVars, cnt>>

Clear ==
  /\ Goto("main", "clear", "check")
  /\ event' = FALSE
  /\ UNCHANGED <<clientVars, at, readVars, callbackVars, cnt>>

DeltaMain ==
  \/ SendDescribe
  \/ \E r \in Resources : HookDescribe(r)
  \/ Callback("main")
  \/ StartWait
  \/ Check
  \/ Wake
  \/ Clear

DeltaBackground ==
  \/ \E r \in Resources : DescribeArrives(r) \/ AlterArrives(r)
  \/ Callback("background")

(* Another client writes one entry of r. *)
OtherWrites(r, k, value) ==
  /\ operation \in AlterOps
  /\ writes < MaxWrites
  /\ writes' = writes + 1
  /\ configs[r][k] # value
  /\ configs' = [configs EXCEPT ![r][k] = value]
  /\ raced' = IF describe[r] = "done" /\ r \notin applied
                THEN raced \cup {<<r, k>>} ELSE raced
  /\ UNCHANGED <<request, future, inFlight, applied, failures, pc, at,
                 deltaVars>>
=============================================================================
