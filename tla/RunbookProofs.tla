--------------------------- MODULE RunbookProofs ----------------------------
(***************************************************************************)
(* Any number of resources, entries, failures and writes of others: the    *)
(* latch of example_delta_alter_configs counts every resource exactly once *)
(* and opens when all outcomes are known, the operation implements the     *)
(* update it promises, and what the batch operations print is true.        *)
(***************************************************************************)
EXTENDS Runbook, FiniteSetTheorems, TLAPS

(* Thread t is in a callback for r and has not counted it yet. *)
In(t, r, places) == pc[t] \in places /\ at[t] = r

callbackPlaces == {"merge", "chain", "decr"}

Heard(r) == describe[r] \in {"done", "kafka"}

(* r has been counted by decr, or is not going to be. *)
Counted(r) ==
  Resolved(r) /\ \A t \in Threads : ~In(t, r, {"chain", "decr"})

Open == {r \in Resources : ~Counted(r)}

-----------------------------------------------------------------------------
(* Types, but for the bounds of the counter. *)
Types ==
  /\ operation \in Operations
  /\ AdminTypeOK
  /\ BatchTypeOK
  /\ describe \in [Resources -> FutureStates]
  /\ remote \in [Resources -> Configs]
  /\ hooked \subseteq Resources
  /\ chained \subseteq Resources
  /\ event \in BOOLEAN
  /\ broken \subseteq Resources
  /\ raced \subseteq Resources \X ConfigKeys
  /\ writes \in 0..MaxWrites
  /\ pc \in [Threads -> {"call", "loop", "result", "hook", "merge", "chain",
                         "decr", "set", "check", "sleep", "clear", "idle",
                         "done", "raised"}]
  /\ at \in [Threads -> Resources]

Places ==
  /\ pc["main"] \in
       IF isDelta THEN {"call", "hook", "merge", "chain", "decr", "set",
                        "check", "sleep", "clear", "done", "raised"}
                  ELSE {"call", "loop", "result", "done", "raised"}
  /\ pc["background"] \in
       IF isDelta THEN {"idle", "merge", "chain", "decr", "set"} ELSE {"idle"}
  /\ ~isDelta => \A r \in Resources : describe[r] = "none"
  /\ pc["main"] = "call" =>
       \A r \in Resources : future[r] = "none" /\ describe[r] = "none"
  /\ isDelta /\ pc["main"] \notin {"call", "raised"} =>
       \A r \in Resources : describe[r] # "none"

(* How far r is: its callbacks run one at a time, the first one once the   *)
(* describe future is complete, the second one once the alter future is.   *)
Stage(r) ==
  /\ ~(In("main", r, callbackPlaces) /\ In("background", r, callbackPlaces))
  /\ \A t \in Threads :
       /\ In(t, r, callbackPlaces) => r \in hooked /\ Heard(r)
       /\ In(t, r, {"merge"}) => future[r] = "none" /\ r \notin broken
       /\ In(t, r, {"chain"}) => future[r] # "none" /\ r \notin chained
       /\ In(t, r, {"decr"}) => Resolved(r)
  /\ r \in chained => future[r] # "none"
  /\ future[r] # "none" =>
       r \in hooked /\ describe[r] = "done" /\ r \notin broken
  /\ r \in broken => r \in hooked /\ Heard(r)
  /\ describe[r] # "other"
  /\ future[r] = "pending" /\ r \notin chained =>
       In("main", r, {"chain"}) \/ In("background", r, {"chain"})

Stages == isDelta => \A r \in Resources : Stage(r)

(* What is written back is what was read, but for supplied entries.        *)
Update(r) ==
  /\ future[r] = "none" => r \notin inFlight /\ r \notin applied
  /\ r \in inFlight =>
       /\ r \notin applied
       /\ describe[r] = "done"
       /\ request[r] = SuppliedOr(r, remote[r])
  /\ describe[r] = "done" /\ r \notin applied =>
       \A k \in ConfigKeys :
         configs[r][k] = remote[r][k] \/ <<r, k>> \in raced

Updates == isDelta => \A r \in Resources : Update(r)

(* The latch counts the resources that are still open. *)
Latch == cnt = IF isDelta THEN Cardinality(Open) ELSE Cardinality(Resources)

Truth ==
  /\ \A r \in Resources : future[r] = "done" => r \in applied
  /\ ReportsAreTrue
  /\ NothingUnreported
  /\ ReturnsWhenAllDone

IInv == Types /\ Places /\ Stages /\ Updates /\ Latch /\ Truth

-----------------------------------------------------------------------------
LEMMA OpenIsFinite ==
  /\ IsFiniteSet(Resources) /\ Cardinality(Resources) \in Nat
  /\ IsFiniteSet(Open)
  /\ Cardinality(Open) \in 0..WaitCount
<1>1. IsFiniteSet(Resources) /\ Open \subseteq Resources
  BY AdminAssumption DEF Open
<1>2. IsFiniteSet(Open) /\ Cardinality(Open) <= Cardinality(Resources)
  BY <1>1, FS_Subset
<1>3. Cardinality(Resources) \in Nat /\ Cardinality(Open) \in Nat
  BY <1>1, <1>2, FS_CardinalityType
<1> QED
  BY <1>1, <1>2, <1>3 DEF WaitCount

LEMMA FailsType == ASSUME Types, Fails PROVE failures' \in 0..MaxFailures
<1>1. MaxFailures \in Nat /\ failures \in 0..MaxFailures
  BY AdminAssumption DEF Types, AdminTypeOK
<1> QED
  BY <1>1 DEF Fails

LEMMA SuppliedOrType ==
  ASSUME NEW r \in Resources, NEW config \in Configs
  PROVE  SuppliedOr(r, config) \in Configs
<1>1. PICK K \in SUBSET ConfigKeys : Supplied[r] \in [K -> ConfigValues]
  BY AdminAssumption
<1> QED
  BY <1>1 DEF SuppliedOr, Configs

(* A step that counts nobody keeps the latch as it is. *)
LEMMA LatchStays ==
  ASSUME Latch, operation' = operation, cnt' = cnt,
         isDelta => \A r \in Resources : Counted(r)' <=> Counted(r)
  PROVE  Latch'
<1>1. isDelta => Open' = Open
  BY DEF Open
<1> QED
  BY <1>1 DEF Latch, isDelta

(* The describe requests are sent.                                         *)
LEMMA SendDescribeKeepsIInv ==
  ASSUME IInv, isDelta,
         SendDescribe, UNCHANGED <<operation, reported, otherVars>>
  PROVE  IInv'
<1> USE DEF clientVars, deltaVars, readVars, callbackVars, latchVars, otherVars
<1>1. /\ pc["main"] = "call" /\ pc' = [pc EXCEPT !["main"] = "hook"]
      /\ describe' = [r \in Resources |-> "pending"]
      /\ UNCHANGED <<operation, reported, clientVars, at, remote, callbackVars,
                     latchVars, otherVars>>
  BY DEF SendDescribe, Goto
<1>2. Types'
  BY <1>1 DEF IInv, Types, AdminTypeOK, BatchTypeOK, FutureStates
<1>3. Places'
  BY <1>1 DEF IInv, Types, Places, isDelta, Threads
<1>4. ASSUME NEW q \in Resources PROVE Stage(q)'
  <2>1. Stage(q) /\ Types /\ Places
    BY DEF IInv, Stages
  <2> QED
    BY <1>1, <2>1 DEF Types, Places, AdminTypeOK, Stage, isDelta, Threads, In,
                      Heard, Resolved, callbackPlaces, FutureStates
<1>5. ASSUME NEW q \in Resources PROVE Update(q)'
  <2>1. Update(q) /\ Stage(q) /\ Types /\ Places
    BY DEF IInv, Stages, Updates
  <2> QED
    BY <1>1, <2>1 DEF Types, Places, AdminTypeOK, Stage, Update, isDelta,
                      SuppliedOr, In, callbackPlaces, Configs
<1>6. Latch'
  <2>1. ASSUME NEW q \in Resources PROVE Counted(q)' <=> Counted(q)
    <3>1. Stage(q) /\ Types /\ Places
      BY DEF IInv, Stages
    <3> QED
      BY <1>1, <3>1 DEF Types, Places, AdminTypeOK, Stage, Counted, In,
                        Resolved, Threads, isDelta, callbackPlaces
  <2> QED
    BY <1>1, <2>1, LatchStays DEF IInv
<1>7. Truth'
  BY <1>1 DEF IInv, Types, Stages, Stage, AdminTypeOK, Truth, ReportsAreTrue,
              NothingUnreported, ReturnsWhenAllDone, Resolved, isDelta, Threads,
              In, callbackPlaces, BatchOps, TopicOps, AclOps
<1> QED
  BY <1>1, <1>2, <1>3, <1>4, <1>5, <1>6, <1>7
  DEF IInv, Stages, Updates, isDelta

(* A describe future gets its callback, which may run at once.             *)
LEMMA HookDescribeKeepsIInv ==
  ASSUME IInv, isDelta, NEW r \in Resources,
         HookDescribe(r), UNCHANGED <<operation, reported, otherVars>>
  PROVE  IInv'
<1> USE DEF clientVars, deltaVars, readVars, callbackVars, latchVars, otherVars
<1>1. /\ pc["main"] = "hook" /\ r \notin hooked /\ hooked' = hooked \cup {r}
      /\ IF describe[r] = "pending"
           THEN UNCHANGED <<pc, at>>
           ELSE /\ pc' = [pc EXCEPT !["main"] = "merge"]
                /\ at' = [at EXCEPT !["main"] = r]
      /\ UNCHANGED <<operation, reported, clientVars, readVars, chained, broken,
                     latchVars, otherVars>>
  BY DEF HookDescribe, Run
<1>2. Types'
  BY <1>1 DEF IInv, Types, AdminTypeOK, BatchTypeOK, FutureStates
<1>3. Places'
  BY <1>1 DEF IInv, Types, Places, isDelta, Threads
<1>4. ASSUME NEW q \in Resources PROVE Stage(q)'
  <2>1. Stage(q) /\ Stage(r) /\ Types /\ Places
    BY DEF IInv, Stages
  <2>2. describe[r] # "pending" =>
          Heard(r) /\ future[r] = "none" /\ r \notin broken \cup chained
    <3>1. future[r] = "none" /\ r \notin chained /\ describe[r] # "other"
      BY <1>1, <2>1 DEF Stage
    <3>2. describe[r] \in FutureStates /\ describe[r] # "none"
      BY <1>1, <2>1 DEF Types, Places
    <3>3. describe[r] # "pending" => Heard(r)
      BY <3>1, <3>2 DEF Heard, FutureStates
    <3>4. r \notin broken
      BY <1>1, <2>1 DEF Stage
    <3> QED
      BY <3>1, <3>3, <3>4
  <2>3. CASE describe[r] = "pending"
    BY <1>1, <2>1, <2>3 DEF Stage, In, Heard, Resolved
  <2>4. CASE describe[r] # "pending"
    BY <1>1, <2>1, <2>2, <2>4 DEF Types, Stage, Threads, In, Heard, Resolved,
                                  callbackPlaces
  <2> QED
    BY <2>3, <2>4
<1>5. ASSUME NEW q \in Resources PROVE Update(q)'
  <2>1. Update(q) /\ Stage(q) /\ Types /\ Places
    BY DEF IInv, Stages, Updates
  <2> QED
    BY <1>1, <2>1 DEF Types, Places, AdminTypeOK, Stage, Update, isDelta,
                      SuppliedOr, In, callbackPlaces, Configs
<1>6. Latch'
  <2>1. ASSUME NEW q \in Resources PROVE Counted(q)' <=> Counted(q)
    <3>1. Stage(q) /\ Types /\ Places
      BY DEF IInv, Stages
    <3> QED
      BY <1>1, <3>1 DEF Types, Places, AdminTypeOK, Stage, Counted, In,
                        Resolved, Threads, isDelta, callbackPlaces
  <2> QED
    BY <1>1, <2>1, LatchStays DEF IInv
<1>7. Truth'
  BY <1>1 DEF IInv, Types, Stages, Stage, AdminTypeOK, Truth, ReportsAreTrue,
              NothingUnreported, ReturnsWhenAllDone, Resolved, isDelta, Threads,
              In, callbackPlaces, BatchOps, TopicOps, AclOps
<1> QED
  BY <1>1, <1>2, <1>3, <1>4, <1>5, <1>6, <1>7
  DEF IInv, Stages, Updates, isDelta

(* The answer to a describe request arrives.                               *)
LEMMA DescribeArrivesKeepsIInv ==
  ASSUME IInv, isDelta, NEW r \in Resources,
         DescribeArrives(r), UNCHANGED <<operation, reported, otherVars>>
  PROVE  IInv'
<1> USE DEF clientVars, deltaVars, readVars, callbackVars, latchVars, otherVars
<1>1. /\ pc["background"] = "idle" /\ describe[r] = "pending"
      /\ failures' \in 0..MaxFailures
      /\ \/ /\ describe' = [describe EXCEPT ![r] = "done"]
            /\ remote' = [remote EXCEPT ![r] = configs[r]]
         \/ /\ describe' = [describe EXCEPT ![r] = "kafka"]
            /\ UNCHANGED remote
      /\ IF r \in hooked
           THEN /\ pc' = [pc EXCEPT !["background"] = "merge"]
                /\ at' = [at EXCEPT !["background"] = r]
           ELSE UNCHANGED <<pc, at>>
      /\ UNCHANGED <<operation, reported, request, future, inFlight, applied,
                     configs, callbackVars, latchVars, otherVars>>
  BY FailsType DEF DescribeArrives, Run, IInv, Types, AdminTypeOK
<1>2. Types'
  BY <1>1 DEF IInv, Types, AdminTypeOK, BatchTypeOK, FutureStates
<1>3. Places'
  BY <1>1 DEF IInv, Types, Places, isDelta, Threads
<1>4. ASSUME NEW q \in Resources PROVE Stage(q)'
  <2>1. Stage(q) /\ Types /\ Places
    BY DEF IInv, Stages
  <2> QED
    BY <1>1, <2>1 DEF Types, Places, AdminTypeOK, Stage, isDelta, Threads, In,
                      Heard, Resolved, callbackPlaces, FutureStates
<1>5. ASSUME NEW q \in Resources PROVE Update(q)'
  <2>1. Update(q) /\ Stage(q) /\ Types /\ Places
    BY DEF IInv, Stages, Updates
  <2> QED
    BY <1>1, <2>1 DEF Types, Places, AdminTypeOK, Stage, Update, isDelta,
                      SuppliedOr, In, callbackPlaces, Configs
<1>6. Latch'
  <2>1. ASSUME NEW q \in Resources PROVE Counted(q)' <=> Counted(q)
    <3>1. Stage(q) /\ Types /\ Places
      BY DEF IInv, Stages
    <3> QED
      BY <1>1, <3>1 DEF Types, Places, AdminTypeOK, Stage, Counted, In,
                        Resolved, Threads, isDelta, callbackPlaces
  <2> QED
    BY <1>1, <2>1, LatchStays DEF IInv
<1>7. Truth'
  BY <1>1 DEF IInv, Types, Stages, Stage, AdminTypeOK, Truth, ReportsAreTrue,
              NothingUnreported, ReturnsWhenAllDone, Resolved, isDelta, Threads,
              In, callbackPlaces, BatchOps, TopicOps, AclOps
<1> QED
  BY <1>1, <1>2, <1>3, <1>4, <1>5, <1>6, <1>7
  DEF IInv, Stages, Updates, isDelta

(* The outcome of an alteration arrives.                                   *)
LEMMA AlterArrivesKeepsIInv ==
  ASSUME IInv, isDelta, NEW r \in Resources,
         AlterArrives(r), UNCHANGED <<operation, reported, otherVars>>
  PROVE  IInv'
<1> USE DEF clientVars, deltaVars, readVars, callbackVars, latchVars, otherVars
<1>1. /\ pc["background"] = "idle" /\ future[r] = "pending"
      /\ failures' \in 0..MaxFailures
      /\ \/ r \in applied /\ future' = [future EXCEPT ![r] = "done"]
         \/ \E kind \in {"kafka", "other"} :
              future' = [future EXCEPT ![r] = kind]
      /\ inFlight' \in {inFlight, inFlight \ {r}}
      /\ IF r \in chained
           THEN /\ pc' = [pc EXCEPT !["background"] = "decr"]
                /\ at' = [at EXCEPT !["background"] = r]
           ELSE UNCHANGED <<pc, at>>
      /\ UNCHANGED <<operation, reported, request, applied, configs, deltaVars,
                     otherVars>>
  BY FailsType DEF AlterArrives, Resolve, Run, IInv, Types, AdminTypeOK
<1>2. Types'
  BY <1>1 DEF IInv, Types, AdminTypeOK, BatchTypeOK, FutureStates
<1>3. Places'
  BY <1>1 DEF IInv, Types, Places, isDelta, Threads
<1>4. ASSUME NEW q \in Resources PROVE Stage(q)'
  <2>1. Stage(q) /\ Types /\ Places
    BY DEF IInv, Stages
  <2> QED
    BY <1>1, <2>1 DEF Types, Places, AdminTypeOK, Stage, isDelta, Threads, In,
                      Heard, Resolved, callbackPlaces, FutureStates
<1>5. ASSUME NEW q \in Resources PROVE Update(q)'
  <2>1. Update(q) /\ Stage(q) /\ Types /\ Places
    BY DEF IInv, Stages, Updates
  <2> QED
    BY <1>1, <2>1 DEF Types, Places, AdminTypeOK, Stage, Update, isDelta,
                      SuppliedOr, In, callbackPlaces, Configs
<1>6. Latch'
  <2>1. ASSUME NEW q \in Resources PROVE Counted(q)' <=> Counted(q)
    <3>1. Stage(q) /\ Types /\ Places
      BY DEF IInv, Stages
    <3> QED
      BY <1>1, <3>1 DEF Types, Places, AdminTypeOK, Stage, Counted, In,
                        Resolved, Threads, isDelta, callbackPlaces
  <2> QED
    BY <1>1, <2>1, LatchStays DEF IInv
<1>7. Truth'
  BY <1>1 DEF IInv, Types, Stages, Stage, AdminTypeOK, Truth, ReportsAreTrue,
              NothingUnreported, ReturnsWhenAllDone, Resolved, isDelta, Threads,
              In, callbackPlaces, BatchOps, TopicOps, AclOps
<1> QED
  BY <1>1, <1>2, <1>3, <1>4, <1>5, <1>6, <1>7
  DEF IInv, Stages, Updates, isDelta

(* The merged configuration is sent.                                       *)
LEMMA AlterMergedKeepsIInv ==
  ASSUME IInv, isDelta, NEW t \in Threads, NEW r \in Resources,
         AlterMerged(t, r), UNCHANGED <<operation, reported, otherVars>>
  PROVE  IInv'
<1> USE DEF clientVars, deltaVars, readVars, callbackVars, latchVars, otherVars
<1>1. /\ pc[t] = "merge" /\ at[t] = r /\ describe[r] = "done"
      /\ pc' = [pc EXCEPT ![t] = "chain"]
      /\ request' = [request EXCEPT ![r] = SuppliedOr(r, remote[r])]
      /\ future' = [future EXCEPT ![r] = "pending"]
      /\ inFlight' = inFlight \cup {r}
      /\ UNCHANGED <<operation, reported, applied, configs, failures, at,
                     deltaVars, otherVars>>
  BY DEF AlterMerged, Merged, Goto
<1>2. Types'
  BY <1>1, SuppliedOrType
  DEF IInv, Types, AdminTypeOK, BatchTypeOK, FutureStates
<1>3. Places'
  BY <1>1 DEF IInv, Types, Places, isDelta, Threads
<1>4. ASSUME NEW q \in Resources PROVE Stage(q)'
  <2>1. Stage(q) /\ Types /\ Places
    BY DEF IInv, Stages
  <2> QED
    BY <1>1, <2>1 DEF Types, Places, AdminTypeOK, Stage, isDelta, Threads, In,
                      Heard, Resolved, callbackPlaces, FutureStates
<1>5. ASSUME NEW q \in Resources PROVE Update(q)'
  <2>1. Update(q) /\ Stage(q) /\ Types /\ Places
    BY DEF IInv, Stages, Updates
  <2> QED
    BY <1>1, <2>1 DEF Types, Places, AdminTypeOK, Stage, Update, isDelta,
                      SuppliedOr, In, callbackPlaces, Configs
<1>6. Latch'
  <2>1. ASSUME NEW q \in Resources PROVE Counted(q)' <=> Counted(q)
    <3>1. Stage(q) /\ Types /\ Places
      BY DEF IInv, Stages
    <3> QED
      BY <1>1, <3>1 DEF Types, Places, AdminTypeOK, Stage, Counted, In,
                        Resolved, Threads, isDelta, callbackPlaces
  <2> QED
    BY <1>1, <2>1, LatchStays DEF IInv
<1>7. Truth'
  BY <1>1 DEF IInv, Types, Stages, Stage, AdminTypeOK, Truth, ReportsAreTrue,
              NothingUnreported, ReturnsWhenAllDone, Resolved, isDelta, Threads,
              In, callbackPlaces, BatchOps, TopicOps, AclOps
<1> QED
  BY <1>1, <1>2, <1>3, <1>4, <1>5, <1>6, <1>7
  DEF IInv, Stages, Updates, isDelta

(* A callback raises an exception.                                         *)
LEMMA CallbackRaisesKeepsIInv ==
  ASSUME IInv, isDelta, NEW t \in Threads, NEW r \in Resources,
         CallbackRaises(t, r), UNCHANGED <<operation, reported, otherVars>>
  PROVE  IInv'
<1> USE DEF clientVars, deltaVars, readVars, callbackVars, latchVars, otherVars
<1>1. /\ pc[t] = "merge" /\ at[t] = r
      /\ failures' \in 0..MaxFailures
      /\ pc' = [pc EXCEPT ![t] = IF t = "main" THEN "hook" ELSE "idle"]
      /\ broken' = broken \cup {r}
      /\ UNCHANGED <<operation, reported, request, future, inFlight, applied,
                     configs, at, readVars, hooked, chained, latchVars,
                     otherVars>>
  BY FailsType DEF CallbackRaises, CallbackEnds, IInv, Types, AdminTypeOK
<1>2. Types'
  BY <1>1 DEF IInv, Types, AdminTypeOK, BatchTypeOK, FutureStates
<1>3. Places'
  BY <1>1 DEF IInv, Types, Places, isDelta, Threads
<1>4. ASSUME NEW q \in Resources PROVE Stage(q)'
  <2>1. Stage(q) /\ Types /\ Places
    BY DEF IInv, Stages
  <2> QED
    BY <1>1, <2>1 DEF Types, Places, AdminTypeOK, Stage, isDelta, Threads, In,
                      Heard, Resolved, callbackPlaces, FutureStates
<1>5. ASSUME NEW q \in Resources PROVE Update(q)'
  <2>1. Update(q) /\ Stage(q) /\ Types /\ Places
    BY DEF IInv, Stages, Updates
  <2> QED
    BY <1>1, <2>1 DEF Types, Places, AdminTypeOK, Stage, Update, isDelta,
                      SuppliedOr, In, callbackPlaces, Configs
<1>6. Latch'
  <2>1. ASSUME NEW q \in Resources PROVE Counted(q)' <=> Counted(q)
    <3>1. Stage(q) /\ Types /\ Places
      BY DEF IInv, Stages
    <3> QED
      BY <1>1, <3>1 DEF Types, Places, AdminTypeOK, Stage, Counted, In,
                        Resolved, Threads, isDelta, callbackPlaces
  <2> QED
    BY <1>1, <2>1, LatchStays DEF IInv
<1>7. Truth'
  BY <1>1 DEF IInv, Types, Stages, Stage, AdminTypeOK, Truth, ReportsAreTrue,
              NothingUnreported, ReturnsWhenAllDone, Resolved, isDelta, Threads,
              In, callbackPlaces, BatchOps, TopicOps, AclOps
<1> QED
  BY <1>1, <1>2, <1>3, <1>4, <1>5, <1>6, <1>7
  DEF IInv, Stages, Updates, isDelta

(* An alter future gets its callback, which may run at once.               *)
LEMMA ChainKeepsIInv ==
  ASSUME IInv, isDelta, NEW t \in Threads, NEW r \in Resources,
         Chain(t, r), UNCHANGED <<operation, reported, otherVars>>
  PROVE  IInv'
<1> USE DEF clientVars, deltaVars, readVars, callbackVars, latchVars, otherVars
<1>1. /\ pc[t] = "chain" /\ at[t] = r
      /\ IF Resolved(r)
           THEN pc' = [pc EXCEPT ![t] = "decr"] /\ UNCHANGED chained
           ELSE /\ pc' = [pc EXCEPT ![t] =
                             IF t = "main" THEN "hook" ELSE "idle"]
                /\ chained' = chained \cup {r}
      /\ UNCHANGED <<operation, reported, clientVars, at, readVars, hooked,
                     broken, latchVars, otherVars>>
  BY DEF Chain, CallbackEnds
<1>2. Types'
  BY <1>1 DEF IInv, Types, AdminTypeOK, BatchTypeOK, FutureStates
<1>3. Places'
  BY <1>1 DEF IInv, Types, Places, isDelta, Threads
<1>4. ASSUME NEW q \in Resources PROVE Stage(q)'
  <2>1. Stage(q) /\ Types /\ Places
    BY DEF IInv, Stages
  <2> QED
    BY <1>1, <2>1 DEF Types, Places, AdminTypeOK, Stage, isDelta, Threads, In,
                      Heard, Resolved, callbackPlaces, FutureStates
<1>5. ASSUME NEW q \in Resources PROVE Update(q)'
  <2>1. Update(q) /\ Stage(q) /\ Types /\ Places
    BY DEF IInv, Stages, Updates
  <2> QED
    BY <1>1, <2>1 DEF Types, Places, AdminTypeOK, Stage, Update, isDelta,
                      SuppliedOr, In, callbackPlaces, Configs
<1>6. Latch'
  <2>1. ASSUME NEW q \in Resources PROVE Counted(q)' <=> Counted(q)
    <3>1. Stage(q) /\ Types /\ Places
      BY DEF IInv, Stages
    <3> QED
      BY <1>1, <3>1 DEF Types, Places, AdminTypeOK, Stage, Counted, In,
                        Resolved, Threads, isDelta, callbackPlaces
  <2> QED
    BY <1>1, <2>1, LatchStays DEF IInv
<1>7. Truth'
  BY <1>1 DEF IInv, Types, Stages, Stage, AdminTypeOK, Truth, ReportsAreTrue,
              NothingUnreported, ReturnsWhenAllDone, Resolved, isDelta, Threads,
              In, callbackPlaces, BatchOps, TopicOps, AclOps
<1> QED
  BY <1>1, <1>2, <1>3, <1>4, <1>5, <1>6, <1>7
  DEF IInv, Stages, Updates, isDelta

(* A thread goes on, without a resource, from one place to another.        *)
LEMMA MoveKeepsIInv ==
  ASSUME IInv, isDelta, NEW t \in Threads,
         NEW from \in {"call", "hook", "set", "check", "sleep", "clear"},
         NEW to \in {"hook", "idle", "check", "sleep", "clear", "done",
                     "raised"},
         pc[t] = from, pc' = [pc EXCEPT ![t] = to],
         t = "main" <=> to # "idle",
         from = "call" => to = "raised",
         to = "done" => ~(cnt > 0),
         event' \in BOOLEAN, failures' \in 0..MaxFailures,
         UNCHANGED <<operation, reported, request, future, inFlight, applied,
                     configs, at, readVars, callbackVars, cnt, otherVars>>
  PROVE  IInv'
<1> USE DEF clientVars, deltaVars, readVars, callbackVars, latchVars, otherVars
<1>1. Types'
  BY DEF IInv, Types, AdminTypeOK, BatchTypeOK, FutureStates
<1>2. Places'
  BY DEF IInv, Types, Places, isDelta, Threads
<1>3. ASSUME NEW q \in Resources PROVE Stage(q)'
  <2>1. Stage(q) /\ Types /\ Places
    BY DEF IInv, Stages
  <2> QED
    BY <2>1 DEF Types, Places, AdminTypeOK, Stage, isDelta, Threads, In,
                      Heard, Resolved, callbackPlaces, FutureStates
<1>4. ASSUME NEW q \in Resources PROVE Update(q)'
  <2>1. Update(q) /\ Stage(q) /\ Types /\ Places
    BY DEF IInv, Stages, Updates
  <2> QED
    BY <2>1 DEF Types, Places, AdminTypeOK, Stage, Update, isDelta,
                      SuppliedOr, In, callbackPlaces, Configs
<1>5. Latch'
  <2>1. ASSUME NEW q \in Resources PROVE Counted(q)' <=> Counted(q)
    <3>1. Stage(q) /\ Types /\ Places
      BY DEF IInv, Stages
    <3> QED
      BY <3>1 DEF Types, Places, AdminTypeOK, Stage, Counted, In,
                        Resolved, Threads, isDelta, callbackPlaces
  <2> QED
    BY <2>1, LatchStays DEF IInv
<1>6. Truth'
  <2>1. to = "done" => \A r \in Resources : Resolved(r)
    <3>1. to = "done" => Cardinality(Open) = 0
      BY OpenIsFinite DEF IInv, Latch
    <3>2. to = "done" => Open = {}
      BY <3>1, OpenIsFinite, FS_EmptySet
    <3> QED
      BY <3>2 DEF Open, Counted
  <2>2. ReturnsWhenAllDone'
    BY <2>1 DEF IInv, Types, Truth, ReturnsWhenAllDone, Resolved, Threads
  <2>3. NothingUnreported'
    BY DEF NothingUnreported, isDelta, BatchOps, TopicOps, AclOps
  <2> QED
    BY <2>2, <2>3 DEF IInv, Truth, ReportsAreTrue
<1> QED
  BY <1>1, <1>2, <1>3, <1>4, <1>5, <1>6
  DEF IInv, Stages, Updates, isDelta

(* The main thread between the callbacks, and the event.                   *)
LEMMA WaitKeepsIInv ==
  ASSUME IInv, isDelta,
         \/ CallRejected
         \/ \E t \in Threads : Signal(t)
         \/ StartWait \/ Check \/ Wake \/ Clear,
         UNCHANGED <<operation, reported, otherVars>>
  PROVE  IInv'
<1> USE DEF clientVars, deltaVars, readVars, callbackVars, latchVars, otherVars
<1>1. /\ event \in BOOLEAN /\ failures \in 0..MaxFailures
      /\ Threads = {"main", "background"}
  BY DEF IInv, Types, AdminTypeOK, Threads
<1>2. CASE CallRejected
  <2>1. failures' \in 0..MaxFailures
    BY <1>2, FailsType DEF CallRejected, IInv
  <2>2. pc["main"] = "call" /\ pc' = [pc EXCEPT !["main"] = "raised"]
    BY <1>2 DEF CallRejected, Goto, AclOps, isDelta
  <2> QED
    BY <1>1, <1>2, <2>1, <2>2, MoveKeepsIInv DEF CallRejected
<1>3. ASSUME NEW t \in Threads, Signal(t) PROVE IInv'
  <2>1. CASE t = "main"
    BY <1>1, <1>3, <2>1, MoveKeepsIInv DEF Signal, CallbackEnds
  <2>2. CASE t = "background"
    BY <1>1, <1>3, <2>2, MoveKeepsIInv DEF Signal, CallbackEnds
  <2> QED
    BY <1>1, <2>1, <2>2
<1>4. CASE StartWait
  BY <1>1, <1>4, MoveKeepsIInv DEF StartWait, Goto
<1>5. CASE Check
  <2>1. CASE cnt > 0
    BY <1>1, <1>5, <2>1, MoveKeepsIInv DEF Check
  <2>2. CASE ~(cnt > 0)
    BY <1>1, <1>5, <2>2, MoveKeepsIInv DEF Check
  <2> QED
    BY <2>1, <2>2
<1>6. CASE Wake
  BY <1>1, <1>6, MoveKeepsIInv DEF Wake, Goto
<1>7. CASE Clear
  BY <1>1, <1>7, MoveKeepsIInv DEF Clear, Goto
<1> QED
  BY <1>2, <1>3, <1>4, <1>5, <1>6, <1>7

(* The broker carries out a request.                                       *)
LEMMA BrokerAppliesKeepsIInv ==
  ASSUME IInv, isDelta, NEW r \in Resources,
         BrokerApplies(r)
  PROVE  IInv'
<1> USE DEF clientVars, deltaVars, readVars, callbackVars, latchVars, otherVars
<1>1. /\ r \in inFlight /\ inFlight' = inFlight \ {r}
      /\ applied' = applied \cup {r}
      /\ configs' = [configs EXCEPT ![r] = request[r]]
      /\ UNCHANGED <<operation, pc, at, reported, deltaVars, otherVars, request,
                     future, failures>>
  BY DEF BrokerApplies, Apply, AlterOps, isDelta
<1>2. Types'
  BY <1>1 DEF IInv, Types, AdminTypeOK, BatchTypeOK, FutureStates
<1>3. Places'
  BY <1>1 DEF IInv, Types, Places, isDelta, Threads
<1>4. ASSUME NEW q \in Resources PROVE Stage(q)'
  <2>1. Stage(q) /\ Types /\ Places
    BY DEF IInv, Stages
  <2> QED
    BY <1>1, <2>1 DEF Types, Places, AdminTypeOK, Stage, isDelta, Threads, In,
                      Heard, Resolved, callbackPlaces, FutureStates
<1>5. ASSUME NEW q \in Resources PROVE Update(q)'
  <2>1. Update(q) /\ Stage(q) /\ Types /\ Places
    BY DEF IInv, Stages, Updates
  <2> QED
    BY <1>1, <2>1 DEF Types, Places, AdminTypeOK, Stage, Update, isDelta,
                      SuppliedOr, In, callbackPlaces, Configs
<1>6. Latch'
  <2>1. ASSUME NEW q \in Resources PROVE Counted(q)' <=> Counted(q)
    <3>1. Stage(q) /\ Types /\ Places
      BY DEF IInv, Stages
    <3> QED
      BY <1>1, <3>1 DEF Types, Places, AdminTypeOK, Stage, Counted, In,
                        Resolved, Threads, isDelta, callbackPlaces
  <2> QED
    BY <1>1, <2>1, LatchStays DEF IInv
<1>7. Truth'
  BY <1>1 DEF IInv, Types, Stages, Stage, AdminTypeOK, Truth, ReportsAreTrue,
              NothingUnreported, ReturnsWhenAllDone, Resolved, isDelta, Threads,
              In, callbackPlaces, BatchOps, TopicOps, AclOps
<1> QED
  BY <1>1, <1>2, <1>3, <1>4, <1>5, <1>6, <1>7
  DEF IInv, Stages, Updates, isDelta

(* Another client writes an entry.                                         *)
LEMMA OthersStepKeepsIInv ==
  ASSUME IInv, isDelta,
         NEW r \in Resources, NEW k \in ConfigKeys,
         NEW value \in ConfigValues \cup {Default}, OtherWrites(r, k, value),
         UNCHANGED <<operation, reported>>
  PROVE  IInv'
<1> USE DEF clientVars, deltaVars, readVars, callbackVars, latchVars, otherVars
<1>1. /\ writes' \in 0..MaxWrites
      /\ configs' = [configs EXCEPT ![r][k] = value]
      /\ raced' = IF describe[r] = "done" /\ r \notin applied
                    THEN raced \cup {<<r, k>>} ELSE raced
      /\ UNCHANGED <<operation, reported, request, future, inFlight, applied,
                     failures, pc, at, deltaVars>>
  <2>1. writes' \in 0..MaxWrites
    BY WritesAssumption DEF OtherWrites, IInv, Types
  <2> QED
    BY <2>1 DEF OtherWrites
<1>2. Types'
  <2>1. configs' \in [Resources -> Configs]
    BY <1>1 DEF IInv, Types, AdminTypeOK, Configs
  <2>2. raced' \subseteq Resources \X ConfigKeys
    BY <1>1 DEF IInv, Types
  <2> QED
    BY <1>1, <2>1, <2>2 DEF IInv, Types, AdminTypeOK, BatchTypeOK
<1>3. Places'
  BY <1>1 DEF IInv, Types, Places, isDelta, Threads
<1>4. ASSUME NEW q \in Resources PROVE Stage(q)'
  <2>1. Stage(q) /\ Types /\ Places
    BY DEF IInv, Stages
  <2> QED
    BY <1>1, <2>1 DEF Types, Places, AdminTypeOK, Stage, isDelta, Threads, In,
                      Heard, Resolved, callbackPlaces, FutureStates
<1>5. ASSUME NEW q \in Resources PROVE Update(q)'
  <2>1. Update(q) /\ Stage(q) /\ Types /\ Places
    BY DEF IInv, Stages, Updates
  <2> QED
    BY <1>1, <2>1 DEF Types, Places, AdminTypeOK, Stage, Update, isDelta,
                      SuppliedOr, In, callbackPlaces, Configs
<1>6. Latch'
  <2>1. ASSUME NEW q \in Resources PROVE Counted(q)' <=> Counted(q)
    <3>1. Stage(q) /\ Types /\ Places
      BY DEF IInv, Stages
    <3> QED
      BY <1>1, <3>1 DEF Types, Places, AdminTypeOK, Stage, Counted, In,
                        Resolved, Threads, isDelta, callbackPlaces
  <2> QED
    BY <1>1, <2>1, LatchStays DEF IInv
<1>7. Truth'
  BY <1>1 DEF IInv, Types, Stages, Stage, AdminTypeOK, Truth, ReportsAreTrue,
              NothingUnreported, ReturnsWhenAllDone, Resolved, isDelta, Threads,
              In, callbackPlaces, BatchOps, TopicOps, AclOps
<1> QED
  BY <1>1, <1>2, <1>3, <1>4, <1>5, <1>6, <1>7
  DEF IInv, Stages, Updates, isDelta

(* decr: a resource that was open is counted.                              *)
LEMMA DecrKeepsIInv ==
  ASSUME IInv, isDelta, NEW t \in Threads, NEW r \in Resources,
         Decr(t, r), UNCHANGED <<operation, reported, otherVars>>
  PROVE  IInv'
<1> USE DEF clientVars, deltaVars, readVars, callbackVars, latchVars, otherVars
<1>1. /\ pc[t] = "decr" /\ at[t] = r /\ pc' = [pc EXCEPT ![t] = "set"]
      /\ cnt' = cnt - 1
      /\ UNCHANGED <<operation, reported, clientVars, at, readVars, event,
                     callbackVars, otherVars>>
  BY DEF Decr, Goto
<1>2. Types'
  BY <1>1 DEF IInv, Types, AdminTypeOK, BatchTypeOK, FutureStates
<1>3. Places'
  BY <1>1 DEF IInv, Types, Places, isDelta, Threads
<1>4. ASSUME NEW q \in Resources PROVE Stage(q)'
  <2>1. Stage(q) /\ Types /\ Places
    BY DEF IInv, Stages
  <2> QED
    BY <1>1, <2>1 DEF Types, Places, AdminTypeOK, Stage, isDelta, Threads, In,
                      Heard, Resolved, callbackPlaces, FutureStates
<1>5. ASSUME NEW q \in Resources PROVE Update(q)'
  <2>1. Update(q) /\ Stage(q) /\ Types /\ Places
    BY DEF IInv, Stages, Updates
  <2> QED
    BY <1>1, <2>1 DEF Types, Places, AdminTypeOK, Stage, Update, isDelta,
                      SuppliedOr, In, callbackPlaces, Configs
<1>6. Latch'
  <2>1. r \in Open
    BY <1>1 DEF Open, Counted, In
  <2>2. Open' = Open \ {r}
    BY <1>1 DEF IInv, Types, Stages, Stage, Open, Counted, In, Resolved,
                Threads, isDelta, callbackPlaces
  <2>3. Cardinality(Open') = Cardinality(Open) - 1
    BY <2>1, <2>2, OpenIsFinite, FS_RemoveElement
  <2> QED
    BY <1>1, <2>3 DEF IInv, Latch, isDelta
<1>7. Truth'
  BY <1>1 DEF IInv, Types, Stages, Stage, AdminTypeOK, Truth, ReportsAreTrue,
              NothingUnreported, ReturnsWhenAllDone, Resolved, isDelta, Threads,
              In, callbackPlaces, BatchOps, TopicOps, AclOps
<1> QED
  BY <1>1, <1>2, <1>3, <1>4, <1>5, <1>6, <1>7
  DEF IInv, Stages, Updates, isDelta

-----------------------------------------------------------------------------
LEMMA BatchFrame ==
  ASSUME IInv, ~isDelta, UNCHANGED <<operation, cnt>>, Types', Places', Truth'
  PROVE  IInv'
BY LatchStays DEF IInv, Stages, Updates, isDelta

(* A step of an operation that sends one batch of requests.                *)
LEMMA BatchKeepsIInv ==
  ASSUME IInv, ~isDelta, UNCHANGED <<operation, deltaVars, otherVars>>,
         BatchStep \/ (CallRejected /\ UNCHANGED reported)
         \/ \E r \in Resources : BatchResolve(r) /\ UNCHANGED otherVars
  PROVE  IInv'
<1> USE DEF clientVars, deltaVars, readVars, callbackVars, latchVars, otherVars
<1>1. Types /\ Places /\ Truth /\ ~isDelta' /\ Threads = {"main", "background"}
  BY DEF IInv, isDelta, Threads
<1>2. SUFFICES Types' /\ Places' /\ Truth'
  BY <1>1, BatchFrame
<1>3. CASE CallRejected /\ UNCHANGED reported
  <2>1. failures' \in 0..MaxFailures
    BY <1>1, <1>3, FailsType DEF CallRejected
  <2>2. Types' /\ Places'
    BY <1>1, <1>3, <2>1 DEF CallRejected, Goto, Types, Places, AdminTypeOK,
                            BatchTypeOK
  <2>3. Truth'
    BY <1>1, <1>3 DEF CallRejected, Goto, Types, Places, Truth, ReportsAreTrue,
                      NothingUnreported, ReturnsWhenAllDone
  <2> QED
    BY <2>2, <2>3
<1>4. CASE SendBatch
  <2>1. request' \in [Resources -> Configs]
    <3>1. Unset \in Configs
      BY DEF Unset, Configs
    <3> QED
      BY <1>4, <3>1, SuppliedOrType DEF SendBatch
  <2>2. Types' /\ Places'
    BY <1>1, <1>4, <2>1 DEF SendBatch, Goto, Types, Places, AdminTypeOK,
                            BatchTypeOK, FutureStates
  <2>3. Truth'
    BY <1>1, <1>4 DEF SendBatch, Goto, Types, Places, Truth, ReportsAreTrue,
                      NothingUnreported, ReturnsWhenAllDone
  <2> QED
    BY <2>2, <2>3
<1>5. CASE \E r \in Resources : NextFuture(r)
  <2>1. PICK r \in Resources : NextFuture(r)
    BY <1>5
  <2>2. Types' /\ Places'
    BY <1>1, <2>1 DEF NextFuture, Goto, Types, Places, AdminTypeOK, BatchTypeOK
  <2>3. Truth'
    BY <1>1, <2>1 DEF NextFuture, Goto, Types, Truth, ReportsAreTrue,
                      NothingUnreported, ReturnsWhenAllDone
  <2> QED
    BY <2>2, <2>3
<1>6. ASSUME NEW r \in Resources, ReportSuccess(r) \/ ReportFailure(r)
      PROVE  Types' /\ Places' /\ Truth'
  <2>1. Types' /\ Places'
    BY <1>1, <1>6 DEF ReportSuccess, ReportFailure, ReportOn, Goto, Types,
                      Places, AdminTypeOK, BatchTypeOK
  <2>2. Truth'
    BY <1>1, <1>6 DEF ReportSuccess, ReportFailure, ReportOn, Goto, Types,
                      Truth, BatchTypeOK, ReportsAreTrue, NothingUnreported,
                      ReturnsWhenAllDone
  <2> QED
    BY <2>1, <2>2
<1>7. CASE \E r \in Resources : Raise(r)
  <2>1. Types' /\ Places'
    BY <1>1, <1>7 DEF Raise, Goto, Types, Places, AdminTypeOK, BatchTypeOK
  <2>2. Truth'
    BY <1>1, <1>7 DEF Raise, Goto, Types, Truth, ReportsAreTrue,
                      NothingUnreported, ReturnsWhenAllDone
  <2> QED
    BY <2>1, <2>2
<1>8. CASE BatchEnds
  <2>1. Types' /\ Places'
    BY <1>1, <1>8 DEF BatchEnds, Goto, Types, Places, AdminTypeOK, BatchTypeOK
  <2>2. Truth'
    BY <1>1, <1>8 DEF BatchEnds, Goto, Types, Truth, ReportsAreTrue,
                      NothingUnreported, ReturnsWhenAllDone
  <2> QED
    BY <2>1, <2>2
<1>9. ASSUME NEW r \in Resources, BatchResolve(r)
      PROVE  Types' /\ Places' /\ Truth'
  <2>1. failures' \in 0..MaxFailures /\ future[r] = "pending"
    BY <1>1, <1>9, FailsType DEF BatchResolve, Resolve, Types, AdminTypeOK
  <2>2. Types' /\ Places'
    BY <1>1, <1>9, <2>1 DEF BatchResolve, Resolve, Types, Places, AdminTypeOK,
                            BatchTypeOK, FutureStates
  <2>3. Truth'
    BY <1>1, <1>9, <2>1 DEF BatchResolve, Resolve, Types, AdminTypeOK, Truth,
                            ReportsAreTrue, NothingUnreported,
                            ReturnsWhenAllDone
  <2> QED
    BY <2>2, <2>3
<1> QED
  BY <1>3, <1>4, <1>5, <1>6, <1>7, <1>8, <1>9 DEF BatchStep

(* The broker and other clients while a batch operation runs.              *)
LEMMA BatchEnvironmentKeepsIInv ==
  ASSUME IInv, ~isDelta, OthersStep \/ \E r \in Resources : BrokerApplies(r)
  PROVE  IInv'
<1> USE DEF clientVars, deltaVars, readVars, callbackVars, latchVars, otherVars
<1>1. /\ Types /\ Places /\ Truth
      /\ UNCHANGED <<operation, cnt, pc, at, reported, future, describe>>
      /\ \A r \in applied : r \in applied'
  BY DEF IInv, OthersStep, OtherWrites, BrokerApplies, Apply
<1>2. Places' /\ Truth'
  BY <1>1 DEF Places, Truth, ReportsAreTrue, NothingUnreported,
              ReturnsWhenAllDone, Resolved, isDelta
<1>3. ASSUME NEW r \in Resources, BrokerApplies(r) PROVE Types'
  BY <1>1, <1>3 DEF BrokerApplies, Apply, Types, AdminTypeOK, BatchTypeOK
<1>4. ASSUME OthersStep PROVE Types'
  <2>1. PICK r \in Resources, k \in ConfigKeys,
             value \in ConfigValues \cup {Default} : OtherWrites(r, k, value)
    BY <1>4 DEF OthersStep
  <2>2. writes' \in 0..MaxWrites
    BY <1>1, <2>1, WritesAssumption DEF OtherWrites, Types
  <2>3. configs' \in [Resources -> Configs]
    BY <1>1, <2>1 DEF OtherWrites, Types, AdminTypeOK, Configs
  <2>4. raced' \subseteq Resources \X ConfigKeys
    BY <1>1, <2>1 DEF OtherWrites, Types
  <2>5. UNCHANGED <<request, inFlight, applied, failures, deltaVars>>
    BY <2>1 DEF OtherWrites
  <2>6. AdminTypeOK' /\ BatchTypeOK'
    BY <1>1, <2>3, <2>5 DEF Types, AdminTypeOK, BatchTypeOK
  <2> QED
    BY <1>1, <2>2, <2>4, <2>5, <2>6 DEF Types
<1> QED
  BY <1>1, <1>2, <1>3, <1>4, BatchFrame

-----------------------------------------------------------------------------
LEMMA DeltaNextKeepsIInv == ASSUME IInv, isDelta, Next PROVE IInv'
<1>1. Places /\ operation \notin BatchOps
  BY DEF IInv, isDelta, BatchOps, TopicOps, AclOps
<1>2. ~BatchStep /\ \A r \in Resources : ~BatchResolve(r)
  BY <1>1 DEF Places, BatchStep, SendBatch, NextFuture, ReportSuccess,
              ReportFailure, ReportOn, Raise, BatchEnds, BatchResolve, Goto,
              isDelta
<1>3. ASSUME NEW t \in Threads, Callback(t),
             UNCHANGED <<operation, reported, otherVars>>
      PROVE  IInv'
  BY <1>3, AlterMergedKeepsIInv, CallbackRaisesKeepsIInv, ChainKeepsIInv,
     DecrKeepsIInv, WaitKeepsIInv DEF Callback
<1>4. CASE MainStep
  <2>1. CASE CallRejected
    BY <1>4, <2>1, WaitKeepsIInv DEF MainStep, CallRejected
  <2>2. CASE DeltaMain /\ UNCHANGED <<operation, reported, otherVars>>
    BY <1>3, <2>2, SendDescribeKeepsIInv, HookDescribeKeepsIInv, WaitKeepsIInv
    DEF DeltaMain, Threads
  <2> QED
    BY <1>2, <1>4, <2>1, <2>2 DEF MainStep
<1>5. CASE BackgroundStep
  BY <1>2, <1>3, <1>5, DescribeArrivesKeepsIInv, AlterArrivesKeepsIInv
  DEF BackgroundStep, DeltaBackground, Threads
<1>6. CASE OthersStep
  BY <1>6, OthersStepKeepsIInv DEF OthersStep
<1> QED
  BY <1>4, <1>5, <1>6, BrokerAppliesKeepsIInv DEF Next

LEMMA BatchNextKeepsIInv == ASSUME IInv, ~isDelta, Next PROVE IInv'
<1>1. Places /\ Threads = {"main", "background"}
  BY DEF IInv, Threads
<1>2. ~DeltaMain
  BY <1>1 DEF Places, DeltaMain, SendDescribe, HookDescribe, Callback,
              AlterMerged, CallbackRaises, Chain, Decr, Signal, StartWait,
              Check, Wake, Clear, Goto, isDelta
<1>3. ~DeltaBackground
  BY <1>1 DEF Places, DeltaBackground, DescribeArrives, AlterArrives, Callback,
              AlterMerged, CallbackRaises, Chain, Decr, Signal, Goto, isDelta
<1>4. CASE MainStep
  BY <1>2, <1>4, BatchKeepsIInv DEF MainStep, CallRejected
<1>5. CASE BackgroundStep
  BY <1>3, <1>5, BatchKeepsIInv DEF BackgroundStep, BatchResolve
<1> QED
  BY <1>4, <1>5, BatchEnvironmentKeepsIInv DEF Next

LEMMA InitIInv == Init => IInv
<1> SUFFICES ASSUME Init PROVE IInv
  OBVIOUS
<1> USE DEF Init, AdminInit, BatchInit, DeltaInit
<1>1. /\ MaxFailures \in Nat /\ MaxWrites \in Nat
      /\ InitialConfigs \subseteq Configs
      /\ Unset \in Configs /\ Resources # {}
  BY AdminAssumption, WritesAssumption DEF Unset, Configs
<1>2. Types
  <2>1. configs \in [Resources -> Configs]
    BY <1>1
  <2>2. pc \in [Threads -> {"call", "idle"}] /\ at \in [Threads -> Resources]
    BY <1>1
  <2>3. AdminTypeOK /\ BatchTypeOK
    BY <1>1, <2>1 DEF AdminTypeOK, BatchTypeOK, FutureStates
  <2>4. /\ describe \in [Resources -> FutureStates]
        /\ remote \in [Resources -> Configs]
        /\ writes \in 0..MaxWrites
    BY <1>1 DEF FutureStates
  <2> QED
    BY <2>2, <2>3, <2>4 DEF Types
<1>3. Places
  BY DEF Places, Threads
<1>4. Stages
  BY DEF Stages, Stage, In, callbackPlaces, Threads
<1>5. Updates
  BY DEF Updates, Update
<1>6. Latch
  <2>1. Open = Resources
    BY DEF Open, Counted, Resolved
  <2> QED
    BY <2>1 DEF Latch, WaitCount
<1>7. Truth
  BY DEF Truth, ReportsAreTrue, NothingUnreported, ReturnsWhenAllDone, Threads
<1> QED
  BY <1>2, <1>3, <1>4, <1>5, <1>6, <1>7 DEF IInv

LEMMA StutterIInv == ASSUME IInv, UNCHANGED vars PROVE IInv'
<1> USE DEF vars, clientVars, deltaVars, readVars, callbackVars, latchVars,
            otherVars
<1>1. Types' /\ Places'
  BY DEF IInv, Types, AdminTypeOK, BatchTypeOK, Places, isDelta
<1>2. Stages' /\ Updates'
  BY DEF IInv, Stages, Stage, Updates, Update, isDelta, In, Heard, Resolved,
         SuppliedOr
<1>3. Latch'
  BY LatchStays DEF IInv, Counted, Resolved, In
<1>4. Truth'
  BY DEF IInv, Truth, ReportsAreTrue, NothingUnreported, ReturnsWhenAllDone,
         Resolved, isDelta
<1> QED
  BY <1>1, <1>2, <1>3, <1>4 DEF IInv

(* The invariant holds, whatever the order of calls, results, callbacks,   *)
(* requests, failures and writes of others.                                *)
THEOREM InvariantHolds == Spec => []IInv
<1>1. IInv /\ [Next]_vars => IInv'
  BY DeltaNextKeepsIInv, BatchNextKeepsIInv, StutterIInv
<1> QED
  BY <1>1, InitIInv, PTL DEF Spec

-----------------------------------------------------------------------------
(* Every variable keeps its type, and the counter of WaitZero never leaves *)
(* 0..len(resources).                                                      *)
THEOREM TypeCorrect == Spec => []TypeOK
<1>1. IInv => TypeOK
  <2> SUFFICES ASSUME IInv PROVE TypeOK
    OBVIOUS
  <2>1. cnt \in 0..WaitCount
    BY OpenIsFinite DEF IInv, Latch, WaitCount
  <2> QED
    BY <2>1 DEF IInv, Types, TypeOK, DeltaTypeOK
<1> QED
  BY <1>1, InvariantHolds, PTL

(* The assertion of decr never fails: a resource is counted once, however  *)
(* the two threads share the callbacks.                                    *)
THEOREM AssertionHolds == Spec => []AssertHolds
<1>1. IInv => AssertHolds
  <2> SUFFICES ASSUME IInv, NEW t \in Threads, pc[t] = "decr" PROVE cnt > 0
    BY DEF AssertHolds
  <2>1. isDelta
    BY DEF IInv, Places, Threads
  <2>2. at[t] \in Open
    BY DEF IInv, Types, Open, Counted, In
  <2>3. Cardinality(Open) \in Nat /\ Cardinality(Open) # 0
    BY <2>2, OpenIsFinite, FS_EmptySet
  <2> QED
    BY <2>1, <2>3 DEF IInv, Latch
<1> QED
  BY <1>1, InvariantHolds, PTL

(* wait() does not return before every alteration has an outcome.          *)
THEOREM WaitIsLongEnough == Spec => []ReturnsWhenAllDone
<1>1. IInv => ReturnsWhenAllDone
  BY DEF IInv, Truth
<1> QED
  BY <1>1, InvariantHolds, PTL

(* A success that a batch operation prints has happened at the broker.     *)
THEOREM ReportsTellTheTruth == Spec => []ReportsAreTrue
<1>1. IInv => ReportsAreTrue
  BY DEF IInv, Truth
<1> QED
  BY <1>1, InvariantHolds, PTL

(* No batch operation ends quietly before it reported on every future.     *)
THEOREM NothingIsPassedOver == Spec => []NothingUnreported
<1>1. IInv => NothingUnreported
  BY DEF IInv, Truth
<1> QED
  BY <1>1, InvariantHolds, PTL

-----------------------------------------------------------------------------
(* No wake-up is lost.                                                     *)

(* A described resource whose callback was added is being merged, has been *)
(* sent back, or its callback raised.                                      *)
Merging(r) ==
  r \in hooked /\ Heard(r) /\ future[r] = "none" =>
    r \in broken \/ In("main", r, {"merge"}) \/ In("background", r, {"merge"})

(* The main thread has added every callback before it waits, and falls     *)
(* asleep only after it saw a resource that was not counted; whoever       *)
(* counts the last one is about to wake it.                                *)
Waiting ==
  /\ isDelta => \A r \in Resources : Merging(r)
  /\ pc["main"] \in {"check", "sleep", "clear"} => hooked = Resources
  /\ pc["main"] = "sleep" /\ cnt = 0 => event \/ pc["background"] = "set"

LEMMA CallbackKeepsWaiting ==
  ASSUME IInv, Waiting, isDelta, NEW t \in Threads, Callback(t),
         UNCHANGED <<operation, reported, otherVars>>
  PROVE  Waiting'
<1> USE DEF clientVars, deltaVars, readVars, callbackVars, latchVars, Threads
<1>1. Types /\ Stages /\ isDelta' /\ UNCHANGED <<hooked, describe>>
  BY DEF IInv, isDelta, Callback, AlterMerged, CallbackRaises, Chain, Decr,
         Signal
<1>2. CASE \E r \in Resources : AlterMerged(t, r)
  BY <1>1, <1>2 DEF AlterMerged, Goto, Waiting, Merging, Heard, In, Types,
                    AdminTypeOK
<1>3. CASE \E r \in Resources : CallbackRaises(t, r)
  BY <1>1, <1>3 DEF CallbackRaises, CallbackEnds, Waiting, Merging, Heard, In,
                    Types
<1>4. CASE \E r \in Resources : Chain(t, r)
  BY <1>1, <1>4 DEF Chain, CallbackEnds, Waiting, Merging, Heard, In, Types
<1>5. CASE \E r \in Resources : Decr(t, r)
  BY <1>1, <1>5 DEF Decr, Goto, Waiting, Merging, Heard, In, Types
<1>6. CASE Signal(t)
  BY <1>1, <1>6 DEF Signal, CallbackEnds, Waiting, Merging, Heard, In, Types
<1> QED
  BY <1>2, <1>3, <1>4, <1>5, <1>6 DEF Callback

LEMMA MainKeepsWaiting ==
  ASSUME IInv, Waiting, isDelta, MainStep
  PROVE  Waiting'
<1> USE DEF clientVars, deltaVars, readVars, callbackVars, latchVars, Threads
<1>1. Types /\ Places /\ Stages /\ isDelta' /\ operation \notin BatchOps
  BY DEF IInv, isDelta, MainStep, BatchOps, TopicOps, AclOps
<1>2. CASE CallRejected
  BY <1>1, <1>2 DEF CallRejected, Goto, Waiting, Merging, Heard, In, Types
<1>3. CASE SendDescribe
  BY <1>1, <1>3 DEF SendDescribe, Goto, Waiting, Merging, Heard, In, Types
<1>4. ASSUME NEW r \in Resources, HookDescribe(r)
      PROVE  Waiting'
  <2>1. /\ pc["main"] = "hook" /\ hooked' = hooked \cup {r}
        /\ UNCHANGED <<describe, future, broken, cnt, event>>
        /\ \/ describe[r] = "pending" /\ UNCHANGED <<pc, at>>
           \/ /\ pc' = [pc EXCEPT !["main"] = "merge"]
              /\ at' = [at EXCEPT !["main"] = r]
    BY <1>4 DEF HookDescribe, Run
  <2>2. Merging(r)'
    BY <1>1, <2>1 DEF Merging, Heard, In, Types
  <2>3. ASSUME NEW q \in Resources \ {r} PROVE Merging(q)'
    BY <1>1, <2>1 DEF Waiting, Merging, Heard, In, Types
  <2> QED
    BY <1>1, <2>1, <2>2, <2>3 DEF Waiting, Types
<1>5. CASE StartWait
  BY <1>1, <1>5 DEF StartWait, Goto, Waiting, Merging, Heard, In, Types
<1>6. CASE Check
  BY <1>1, <1>6 DEF Check, Waiting, Merging, Heard, In, Types
<1>7. CASE Wake
  BY <1>1, <1>7 DEF Wake, Goto, Waiting, Merging, Heard, In, Types
<1>8. CASE Clear
  BY <1>1, <1>8 DEF Clear, Goto, Waiting, Merging, Heard, In, Types
<1>9. ~BatchStep
  BY <1>1 DEF Places, BatchStep, SendBatch, NextFuture, ReportSuccess,
              ReportFailure, ReportOn, Raise, BatchEnds, Goto, isDelta
<1> QED
  BY <1>2, <1>3, <1>4, <1>5, <1>6, <1>7, <1>8, <1>9, CallbackKeepsWaiting
  DEF MainStep, DeltaMain

LEMMA BackgroundKeepsWaiting ==
  ASSUME IInv, Waiting, isDelta, BackgroundStep
  PROVE  Waiting'
<1> USE DEF clientVars, deltaVars, readVars, callbackVars, latchVars, Threads
<1>1. Types /\ Places /\ Stages /\ isDelta' /\ operation \notin BatchOps
  BY DEF IInv, isDelta, BackgroundStep, BatchOps, TopicOps, AclOps
<1>2. CASE \E r \in Resources : DescribeArrives(r)
  BY <1>1, <1>2 DEF DescribeArrives, Run, Waiting, Merging, Heard, In, Types
<1>3. CASE \E r \in Resources : AlterArrives(r)
  BY <1>1, <1>3 DEF AlterArrives, Resolve, Run, Waiting, Merging, Heard, In,
                    Types, AdminTypeOK
<1> QED
  BY <1>1, <1>2, <1>3, CallbackKeepsWaiting
  DEF BackgroundStep, DeltaBackground, BatchResolve

LEMMA NextKeepsWaiting ==
  ASSUME IInv, IInv', Waiting, [Next]_vars
  PROVE  Waiting'
<1>1. CASE ~isDelta
  <2>1. operation' = operation
    BY DEF Next, MainStep, BackgroundStep, BrokerApplies, OthersStep, vars
  <2>2. ~isDelta' /\ Places'
    BY <1>1, <2>1 DEF isDelta, IInv
  <2> QED
    BY <2>2 DEF Places, Waiting
<1>2. CASE isDelta /\ (OthersStep \/ (\E r \in Resources : BrokerApplies(r))
                       \/ UNCHANGED vars)
  BY <1>2 DEF OthersStep, OtherWrites, BrokerApplies, Apply, vars, clientVars,
              deltaVars, readVars, callbackVars, latchVars, otherVars, Waiting,
              Merging, Heard, In, isDelta
<1> QED
  BY <1>1, <1>2, MainKeepsWaiting, BackgroundKeepsWaiting DEF Next

(* A resource that is still open when the main thread sleeps and the other *)
(* thread has nothing to do waits for an answer, or its callback raised.   *)
LEMMA SleepHasAReason ==
  ASSUME IInv, Waiting
  PROVE  NoLostWakeup
<1> SUFFICES ASSUME pc["main"] = "sleep", ~event, pc["background"] = "idle"
             PROVE  \/ \E r \in Resources :
                         "pending" \in {describe[r], future[r]}
                    \/ broken # {}
  BY DEF NoLostWakeup
<1>1. isDelta /\ cnt # 0 /\ hooked = Resources
  BY DEF IInv, Places, Waiting
<1>2. PICK r \in Resources : ~Counted(r)
  BY <1>1, FS_EmptySet DEF IInv, Latch, Open
<1>3. ~Resolved(r)
  BY <1>2 DEF Counted, In, Threads
<1>4. Types /\ Stage(r) /\ Merging(r) /\ describe[r] # "none"
  BY <1>1 DEF IInv, Places, Stages, Waiting
<1>5. CASE future[r] = "none" /\ describe[r] # "pending"
  <2>1. Heard(r)
    BY <1>4, <1>5 DEF Types, FutureStates, Stage, Heard
  <2> QED
    BY <1>1, <1>4, <1>5, <2>1 DEF Merging, In
<1> QED
  BY <1>3, <1>5 DEF Resolved

(* The main thread never sleeps in wait() when nothing is left that could  *)
(* wake it, unless a callback raised: however decr, wait, the answers and  *)
(* the failures interleave.                                                *)
THEOREM WakeupIsNeverLost == Spec => []NoLostWakeup
<1>1. Init => Waiting
  BY DEF Init, AdminInit, DeltaInit, Threads, Waiting, Merging
<1>2. Spec => []Waiting
  BY <1>1, NextKeepsWaiting, InvariantHolds, PTL DEF Spec
<1> QED
  BY <1>2, SleepHasAReason, InvariantHolds, PTL

-----------------------------------------------------------------------------
(* The refinement of ConfigUpdate.                                         *)
Returned == pc["main"] = "done"

LEMMA NothingHappens ==
  ASSUME UNCHANGED <<configs, raced, applied>>, Returned' <=> Returned,
         \A r \in Resources : Outcome(r)' = Outcome(r)
  PROVE  UNCHANGED Promise!vars
<1>1. (pc["main"] = "done")' = (pc["main"] = "done")
  BY DEF Returned
<1> QED
  BY <1>1 DEF Promise!vars

LEMMA OutcomeIsLearnt ==
  ASSUME NEW r \in Resources, Outcome(r) = "open",
         NEW result \in {"success", "failure"}, Outcome(r)' = result,
         result = "success" => r \in applied,
         UNCHANGED <<configs, raced, applied>>, Returned' <=> Returned,
         \A q \in Resources \ {r} : Outcome(q)' = Outcome(q)
  PROVE  Promise!Next
<1>1. (pc["main"] = "done")' = (pc["main"] = "done")
  BY DEF Returned
<1>2. Promise!Learn(r, result)
  BY <1>1 DEF Promise!Learn
<1> QED
  BY <1>2 DEF Promise!Next

(* The three kinds of outcome. *)
LEMMA Outcomes ==
  ASSUME NEW r \in Resources, Stage(r)
  PROVE  /\ future[r] = "done" => Outcome(r) = "success"
         /\ \/ future[r] \in {"kafka", "other"}
            \/ future[r] # "done" /\ (describe[r] = "kafka" \/ r \in broken)
            => Outcome(r) = "failure"
         /\ /\ future[r] \notin {"done", "kafka", "other"}
            /\ describe[r] # "kafka" /\ r \notin broken
            => Outcome(r) = "open"
BY DEF Outcome, Stage

LEMMA SameOutcome ==
  ASSUME NEW r \in Resources, future[r]' = future[r],
         describe[r]' = "kafka" <=> describe[r] = "kafka",
         r \in broken' <=> r \in broken
  PROVE  Outcome(r)' = Outcome(r)
BY DEF Outcome

LEMMA MainImplements ==
  ASSUME IInv, isDelta, UNCHANGED <<operation, otherVars>>,
         SendDescribe \/ (\E r \in Resources : HookDescribe(r)) \/ StartWait
         \/ Wake \/ Clear \/ (\E t \in Threads : Signal(t))
         \/ (\E t \in Threads, r \in Resources : Chain(t, r) \/ Decr(t, r))
  PROVE  UNCHANGED Promise!vars
<1> USE DEF clientVars, deltaVars, readVars, callbackVars, latchVars, otherVars
<1>1. /\ UNCHANGED <<configs, raced, applied, future, broken>>
      /\ \A r \in Resources : describe[r]' = "kafka" <=> describe[r] = "kafka"
  BY DEF IInv, Places, SendDescribe, HookDescribe, StartWait, Wake, Clear,
         Signal, Chain, Decr, Goto
<1>2. Returned' <=> Returned
  BY DEF IInv, Types, Threads, Returned, SendDescribe, HookDescribe, Run,
         StartWait, Wake, Clear, Signal, Chain, Decr, CallbackEnds, Goto
<1> QED
  BY <1>1, <1>2, SameOutcome, NothingHappens

LEMMA CheckImplements ==
  ASSUME IInv, isDelta, Check, UNCHANGED <<operation, reported, otherVars>>
  PROVE  Promise!Next \/ UNCHANGED Promise!vars
<1> USE DEF clientVars, deltaVars, readVars, callbackVars, latchVars, otherVars
<1>1. /\ UNCHANGED <<configs, raced, applied, future, broken, describe>>
      /\ pc["main"] = "check"
  BY DEF Check
<1>2. \A r \in Resources : Outcome(r)' = Outcome(r)
  BY <1>1, SameOutcome
<1>3. CASE cnt > 0
  BY <1>1, <1>2, <1>3, NothingHappens DEF Check, Returned, IInv, Types, Threads
<1>4. CASE ~(cnt > 0)
  <2>1. IInv'
    BY WaitKeepsIInv DEF Check
  <2>2. pc'["main"] = "done"
    BY <1>4 DEF Check, IInv, Types, Threads
  <2>3. \A r \in Resources : Resolved(r)
    BY <1>1, <2>1, <2>2 DEF IInv, Truth, ReturnsWhenAllDone, isDelta, Resolved
  <2>4. \A r \in Resources : Outcome(r) # "open"
    BY <2>3, Outcomes
    DEF Resolved, IInv, Types, AdminTypeOK, FutureStates, Stages
  <2>5. Promise!Return
    BY <1>1, <1>2, <2>2, <2>4 DEF Promise!Return
  <2> QED
    BY <2>5 DEF Promise!Next
<1> QED
  BY <1>3, <1>4

(* An answer that says that the broker did not describe a resource.        *)
LEMMA DescribeImplements ==
  ASSUME IInv, isDelta, NEW r \in Resources, DescribeArrives(r),
         UNCHANGED <<operation, otherVars>>
  PROVE  Promise!Next \/ UNCHANGED Promise!vars
<1> USE DEF clientVars, deltaVars, readVars, callbackVars, latchVars, otherVars
<1>1. /\ UNCHANGED <<configs, raced, applied, future, broken>>
      /\ \A q \in Resources \ {r} : describe'[q] = describe[q]
      /\ describe[r] = "pending" /\ describe'[r] \in {"done", "kafka"}
  BY DEF DescribeArrives, IInv, Types
<1>2. Returned' <=> Returned
  BY DEF IInv, Types, Threads, Returned, DescribeArrives, Run
<1>3. \A q \in Resources \ {r} : Outcome(q)' = Outcome(q)
  BY <1>1, SameOutcome
<1>4. CASE describe'[r] = "done"
  BY <1>1, <1>2, <1>3, <1>4, SameOutcome, NothingHappens
<1>5. CASE describe'[r] = "kafka"
  <2>1. Stage(r)
    BY DEF IInv, Stages
  <2>2. future[r] = "none" /\ r \notin broken
    BY <1>1, <2>1 DEF Stage, Heard
  <2>3. Outcome(r) = "open" /\ Outcome(r)' = "failure"
    BY <1>1, <1>5, <2>2 DEF Outcome
  <2> QED
    BY <1>1, <1>2, <1>3, <2>3, OutcomeIsLearnt
<1> QED
  BY <1>1, <1>4, <1>5

(* The outcome of an alteration becomes known. *)
LEMMA AlterImplements ==
  ASSUME IInv, isDelta, NEW r \in Resources, AlterArrives(r),
         UNCHANGED <<operation, otherVars>>
  PROVE  Promise!Next
<1> USE DEF clientVars, deltaVars, readVars, callbackVars, latchVars, otherVars
<1>1. /\ UNCHANGED <<configs, raced, applied, describe, broken>>
      /\ \A q \in Resources \ {r} : future'[q] = future[q]
      /\ future[r] = "pending" /\ future'[r] \in {"done", "kafka", "other"}
      /\ future'[r] = "done" => r \in applied
  BY DEF AlterArrives, Resolve, IInv, Types, AdminTypeOK
<1>2. Returned' <=> Returned
  BY DEF IInv, Types, Threads, Returned, AlterArrives, Run
<1>3. \A q \in Resources \ {r} : Outcome(q)' = Outcome(q)
  BY <1>1, SameOutcome
<1>4. describe[r] = "done" /\ r \notin broken
  BY <1>1 DEF IInv, Stages, Stage
<1>5. Outcome(r) = "open"
  BY <1>1, <1>4 DEF Outcome
<1>6. Outcome(r)' = IF future'[r] = "done" THEN "success" ELSE "failure"
  BY <1>1, <1>4 DEF Outcome
<1> QED
  BY <1>1, <1>2, <1>3, <1>5, <1>6, OutcomeIsLearnt

(* Sending the merged configuration is not yet an update. *)
LEMMA MergeImplements ==
  ASSUME IInv, isDelta, NEW t \in Threads, NEW r \in Resources,
         AlterMerged(t, r), UNCHANGED <<operation, otherVars>>
  PROVE  UNCHANGED Promise!vars
<1> USE DEF clientVars, deltaVars, readVars, callbackVars, latchVars, otherVars
<1>1. /\ UNCHANGED <<configs, raced, applied, describe, broken>>
      /\ \A q \in Resources \ {r} : future'[q] = future[q]
      /\ future'[r] = "pending" /\ describe[r] = "done"
  BY DEF AlterMerged, IInv, Types, AdminTypeOK
<1>2. Returned' <=> Returned
  BY DEF IInv, Types, Threads, Returned, AlterMerged, Goto
<1>3. future[r] = "none" /\ r \notin broken
  BY DEF IInv, Stages, Stage, AlterMerged, Goto, In
<1>4. Outcome(r) = "open" /\ Outcome(r)' = "open"
  BY <1>1, <1>3 DEF Outcome
<1> QED
  BY <1>1, <1>2, <1>4, SameOutcome, NothingHappens

(* A callback that raises an exception is a failure. *)
LEMMA RaiseImplements ==
  ASSUME IInv, isDelta, NEW t \in Threads, NEW r \in Resources,
         CallbackRaises(t, r), UNCHANGED <<operation, otherVars>>
  PROVE  Promise!Next \/ UNCHANGED Promise!vars
<1> USE DEF clientVars, deltaVars, readVars, callbackVars, latchVars, otherVars
<1>1. /\ UNCHANGED <<configs, raced, applied, describe, future>>
      /\ broken' = broken \cup {r}
  BY DEF CallbackRaises
<1>2. Returned' <=> Returned
  BY DEF IInv, Types, Threads, Returned, CallbackRaises, CallbackEnds
<1>3. \A q \in Resources \ {r} : Outcome(q)' = Outcome(q)
  BY <1>1, SameOutcome
<1>4. future[r] = "none" /\ r \notin broken
  BY DEF IInv, Stages, Stage, CallbackRaises, In
<1>5. Outcome(r)' = "failure"
  BY <1>1, <1>4 DEF Outcome
<1>6. Outcome(r) \in {"open", "failure"}
  BY <1>4 DEF Outcome
<1>7. CASE Outcome(r) = "failure"
  BY <1>1, <1>2, <1>3, <1>5, <1>7, NothingHappens
<1>8. CASE Outcome(r) = "open"
  BY <1>1, <1>2, <1>3, <1>5, <1>8, OutcomeIsLearnt
<1> QED
  BY <1>6, <1>7, <1>8

(* The broker replaces the configuration by the supplied entries and by    *)
(* what it had, except where others have written since it was read.        *)
LEMMA ApplyImplements ==
  ASSUME IInv, isDelta, NEW r \in Resources, BrokerApplies(r)
  PROVE  Promise!Next
<1> USE DEF clientVars, deltaVars, readVars, callbackVars, latchVars, otherVars
<1>1. /\ applied' = applied \cup {r} /\ r \in inFlight
      /\ configs' = [configs EXCEPT ![r] = request[r]]
      /\ UNCHANGED <<raced, future, describe, broken, pc>>
  BY DEF BrokerApplies, Apply, AlterOps, isDelta
<1>2. Update(r) /\ request[r] \in Configs
  BY DEF IInv, Types, AdminTypeOK, Updates
<1>3. \A q \in Resources : Outcome(q)' = Outcome(q)
  BY <1>1, SameOutcome
<1>4. \A k \in ConfigKeys :
        IF k \in DOMAIN Supplied[r]
          THEN request[r][k] = Supplied[r][k]
          ELSE request[r][k] = configs[r][k] \/ <<r, k>> \in raced
  BY <1>1, <1>2 DEF Update, SuppliedOr
<1>5. Promise!Configs = Configs
  BY DEF Promise!Configs, Configs
<1>6. Promise!Update(r)
  BY <1>1, <1>2, <1>3, <1>4, <1>5 DEF Promise!Update, Update
<1> QED
  BY <1>6 DEF Promise!Next

LEMMA OthersImplement ==
  ASSUME IInv, isDelta, OthersStep
  PROVE  Promise!Next
<1> USE DEF clientVars, deltaVars, readVars, callbackVars, latchVars, otherVars
<1>1. PICK r \in Resources, k \in ConfigKeys,
           value \in ConfigValues \cup {Default} : OtherWrites(r, k, value)
  BY DEF OthersStep
<1>2. \A q \in Resources : Outcome(q)' = Outcome(q)
  BY <1>1, SameOutcome DEF OtherWrites
<1>3. Promise!OtherWrites(r, k, value)
  BY <1>1, <1>2 DEF OtherWrites, Promise!OtherWrites
<1> QED
  BY <1>3 DEF Promise!Next

(* A refused first call ends the operation before it began. *)
LEMMA RejectionImplements ==
  ASSUME IInv, isDelta, CallRejected
  PROVE  UNCHANGED Promise!vars
<1> USE DEF clientVars, deltaVars, readVars, callbackVars, latchVars, otherVars
<1>1. UNCHANGED <<configs, raced, applied, describe, broken, future>>
  BY DEF CallRejected
<1>2. Returned' <=> Returned
  BY DEF IInv, Types, Threads, Returned, CallRejected, Goto, isDelta, AclOps
<1> QED
  BY <1>1, <1>2, SameOutcome, NothingHappens

LEMMA StepImplements ==
  ASSUME IInv, isDelta, Next
  PROVE  Promise!Next \/ UNCHANGED Promise!vars
<1>1. Places /\ operation \notin BatchOps /\ Threads = {"main", "background"}
  BY DEF IInv, isDelta, BatchOps, TopicOps, AclOps, Threads
<1>2. ~BatchStep /\ \A r \in Resources : ~BatchResolve(r)
  BY <1>1 DEF Places, BatchStep, SendBatch, NextFuture, ReportSuccess,
              ReportFailure, ReportOn, Raise, BatchEnds, BatchResolve, Goto,
              isDelta
<1>3. ASSUME NEW t \in Threads, Callback(t),
             UNCHANGED <<operation, reported, otherVars>>
      PROVE  Promise!Next \/ UNCHANGED Promise!vars
  BY <1>3, MergeImplements, RaiseImplements, MainImplements DEF Callback
<1>4. CASE MainStep
  <2>1. CASE CallRejected
    BY <2>1, RejectionImplements
  <2>2. CASE DeltaMain /\ UNCHANGED <<operation, reported, otherVars>>
    BY <1>1, <1>3, <2>2, MainImplements, CheckImplements DEF DeltaMain
  <2> QED
    BY <1>2, <1>4, <2>1, <2>2 DEF MainStep
<1>5. CASE BackgroundStep
  BY <1>1, <1>2, <1>3, <1>5, DescribeImplements, AlterImplements
  DEF BackgroundStep, DeltaBackground
<1> QED
  BY <1>4, <1>5, ApplyImplements, OthersImplement DEF Next

LEMMA InitImplements == Init => (isDelta => Promise!Init)
<1> SUFFICES ASSUME Init PROVE Promise!Init
  OBVIOUS
<1>1. configs \in [Resources -> Configs] /\ Promise!Configs = Configs
  BY InitIInv DEF IInv, Types, AdminTypeOK, Promise!Configs, Configs
<1>2. \A r \in Resources : Outcome(r) = "open"
  BY DEF Init, AdminInit, DeltaInit, Outcome
<1>3. (pc["main"] = "done") = FALSE
  BY DEF Init, Threads
<1> QED
  BY <1>1, <1>2, <1>3 DEF Promise!Init, Init, AdminInit, DeltaInit

(* example_delta_alter_configs implements the update that it promises:     *)
(* each resource once, just the supplied entries and what others contended *)
(* for, true outcomes, and no return before all outcomes are known.        *)
THEOREM UpdateIsImplemented == Spec => ImplementsConfigUpdate
<1>1. IInv /\ [Next]_vars => [isDelta => Promise!Next]_(Promise!vars)
  <2> SUFFICES ASSUME IInv, isDelta, [Next]_vars
               PROVE  Promise!Next \/ UNCHANGED Promise!vars
    OBVIOUS
  <2>1. CASE UNCHANGED vars
    <3>1. /\ UNCHANGED <<configs, raced, applied, describe, broken, future>>
          /\ Returned' <=> Returned
      BY <2>1 DEF vars, clientVars, deltaVars, readVars, callbackVars,
                  otherVars, Returned
    <3> QED
      BY <3>1, SameOutcome, NothingHappens
  <2> QED
    BY <2>1, StepImplements
<1> QED
  BY <1>1, InvariantHolds, InitImplements, PTL DEF ImplementsConfigUpdate, Spec
=============================================================================
