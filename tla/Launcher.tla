------------------------------ MODULE Launcher ------------------------------
(***************************************************************************)
(* The launcher of the network benchmark (launch.go): for each iteration,  *)
(* clean the namespace, create the services and the controllers, find the  *)
(* orchestrator's Pod, poll its log for the CSV data and write them to a   *)
(* file; at the end, or when a creation fails, clean the namespace.  Each  *)
(* API call is one step; a call that fails changes nothing.                *)
(***************************************************************************)
EXTENDS Cluster, Sequences

CONSTANTS
  Iterations,   \* the -iterations flag
  Faults,       \* what fails: API calls, the disk, Pods
  MaxFaults     \* bound: how many failures happen in a behaviour

FaultKinds == {"list", "delete rc", "delete pod", "delete service",
               "create", "write", "pod"}

ASSUME LauncherAssumption ==
  /\ Iterations \in Nat \ {0}
  /\ Faults \subseteq FaultKinds
  /\ MaxFaults \in Nat

VARIABLES
  pc,         \* the call that is made next
  ending,     \* main's own cleanup, after executeTests
  iteration,  \* i, counted from 1; 0 when no test is executed
  todo,       \* what the current loop has not handled yet
  podName,    \* orchestratorPodName, << >> before it is found
  csvdata,    \* the data read: the iteration whose campaign they are from
  results,    \* the files written: in which iteration, with which data
  failures    \* what has failed so far, in order

launcherVars ==
  <<pc, ending, iteration, todo, podName, csvdata, results, failures>>
vars == <<clusterVars, launcherVars>>

Calls == {"list rcs", "delete rcs", "list pods", "delete pods",
          "list services", "delete services", "create orch service",
          "create w2 service", "create rcs", "find", "poll", "write", "done"}

NoData == -1

PodNames == {p.name : p \in pods}

(* With -cleanup (and with -iterations 0) there is only main's cleanup.     *)
Init ==
  /\ EmptyNamespace \/ OrphanedResources
  /\ pc = "list rcs"
  /\ ending \in BOOLEAN
  /\ iteration = IF ending THEN 0 ELSE 1
  /\ todo = {}
  /\ podName = << >>
  /\ csvdata = NoData
  /\ results = << >>
  /\ failures = << >>

Fails(kind) ==
  /\ kind \in Faults
  /\ Len(failures) < MaxFaults
  /\ failures' = Append(failures, kind)

Failed(kinds) == \E k \in DOMAIN failures : failures[k] \in kinds

Goto(from, to) == pc = from /\ pc' = to

-----------------------------------------------------------------------------
(* cleanup *)

AfterCleanup == IF ending THEN "done" ELSE "create orch service"

(* A List that fails ends cleanup; its caller goes on all the same. *)
ListFails ==
  /\ pc \in {"list rcs", "list pods", "list services"}
  /\ Fails("list")
  /\ pc' = AfterCleanup
  /\ UNCHANGED <<clusterVars, ending, iteration, todo, podName, csvdata,
                 results>>

List(call, found, next) ==
  /\ Goto(call, next)
  /\ todo' = found
  /\ UNCHANGED <<clusterVars, ending, iteration, podName, csvdata, results,
                 failures>>

LoopEnds(loop, next) ==
  /\ Goto(loop, next)
  /\ todo = {}
  /\ UNCHANGED <<clusterVars, ending, iteration, todo, podName, csvdata,
                 results, failures>>

Handle(loop, x) ==
  /\ pc = loop
  /\ x \in todo
  /\ todo' = todo \ {x}
  /\ UNCHANGED <<pc, ending, iteration, podName, csvdata, results>>

(* An object that could not be deleted is reported and left behind. *)
DeleteFails(loop, kind) ==
  /\ \E x \in todo : Handle(loop, x)
  /\ Fails(kind)
  /\ UNCHANGED clusterVars

(* The Pods of a deleted controller stay: cleanup deletes them itself. *)
DeleteRC ==
  /\ \E rc \in todo : Handle("delete rcs", rc) /\ rcs' = Without(rcs, rc)
  /\ UNCHANGED <<services, pods, addresses, instances, failures>>

(* Mutant: the Pods get a grace period and are still there afterwards. *)
DeletePod_Graceful ==
  /\ \E name \in todo : Handle("delete pods", name)
  /\ UNCHANGED <<clusterVars, failures>>

(* With a grace period of 0 the Pod is gone at once.  To delete one that   *)
(* is gone already is an error that is reported and changes nothing.       *)
DeletePod ==
  /\ \E name \in todo :
       /\ Handle("delete pods", name)
       /\ pods' = {p \in pods : p.name # name}
  /\ UNCHANGED <<services, rcs, addresses, instances, failures>>

DeleteService ==
  /\ \E s \in todo :
       /\ Handle("delete services", s)
       /\ services' = Without(services, s)
  /\ UNCHANGED <<rcs, pods, addresses, instances, failures>>

Cleanup ==
  \/ ListFails
  \/ List("list rcs", DOMAIN rcs, "delete rcs")
  \/ DeleteRC
  \/ DeleteFails("delete rcs", "delete rc")
  \/ LoopEnds("delete rcs", "list pods")
  \/ List("list pods", PodNames, "delete pods")
  \/ DeletePod
  \/ DeleteFails("delete pods", "delete pod")
  \/ LoopEnds("delete pods", "list services")
  \/ List("list services", DOMAIN services, "delete services")
  \/ DeleteService
  \/ DeleteFails("delete services", "delete service")
  \/ LoopEnds("delete services", AfterCleanup)

-----------------------------------------------------------------------------
(* createServices and createRCs *)

(* Mutant: the program exits at once. *)
CreateFails_Exits(exists) ==
  /\ (exists /\ UNCHANGED failures) \/ Fails("create")
  /\ pc' = "done"
  /\ UNCHANGED <<clusterVars, ending, iteration, todo, podName, csvdata,
                 results>>

(* Mutant: the call is tried again. *)
CreateFails_Retried(exists) ==
  /\ (exists /\ UNCHANGED failures) \/ Fails("create")
  /\ UNCHANGED <<clusterVars, pc, ending, iteration, todo, podName, csvdata,
                 results>>

(* The object exists, or the call fails: executeTests returns, and main    *)
(* cleans up.                                                              *)
CreateFails(exists) ==
  /\ (exists /\ UNCHANGED failures) \/ Fails("create")
  /\ pc' = "list rcs"
  /\ ending' = TRUE
  /\ UNCHANGED <<clusterVars, iteration, todo, podName, csvdata,
                 results>>

CreateService(s, call, next) ==
  /\ pc = call
  /\ \/ CreateFails(s \in DOMAIN services)
     \/ /\ s \notin DOMAIN services
        /\ services' = With(services, s, addresses + 1)
        /\ addresses' = addresses + 1
        /\ pc' = next
        /\ todo' = IF next = "create rcs" THEN Apps ELSE {}
        /\ UNCHANGED <<rcs, pods, instances, ending, iteration, podName,
                       csvdata, results, failures>>

(* The orchestrator's controller is created before those of the workers. *)
CreateRC ==
  /\ pc = "create rcs"
  /\ \E rc \in todo :
       /\ Orch \in todo => rc = Orch
       /\ \/ CreateFails(rc \in DOMAIN rcs)
          \/ /\ rc \notin DOMAIN rcs
             /\ Handle("create rcs", rc)
             /\ rcs' = With(rcs, rc, iteration)
             /\ UNCHANGED <<services, pods, addresses, instances, failures>>

(* Mutant: the controllers are created before the second service. *)
Create_RCsEarly ==
  \/ CreateService(Orch, "create orch service", "create rcs")
  \/ CreateRC
  \/ LoopEnds("create rcs", "create w2 service")
  \/ CreateService(W2, "create w2 service", "find")

Create ==
  \/ CreateService(Orch, "create orch service", "create w2 service")
  \/ CreateService(W2, "create w2 service", "create rcs")
  \/ CreateRC
  \/ LoopEnds("create rcs", "find")

-----------------------------------------------------------------------------
(* The loops that wait: each round asks the API again.                     *)

FindPod ==
  /\ Goto("find", "poll")
  /\ \E p \in PodsOf(Orch) : podName' = p.name
  /\ UNCHANGED <<clusterVars, ending, iteration, todo, csvdata, results,
                 failures>>

(* The log of the Pod holds both markers. *)
PollSucceeds ==
  /\ Goto("poll", "write")
  /\ \E p \in pods : p.name = podName /\ p.reported /\ csvdata' = p.born
  /\ UNCHANGED <<clusterVars, ending, iteration, todo, podName, results,
                 failures>>

(* No Pod yet; no such Pod any more, or no CSV data in its log. *)
WaitOn ==
  /\ \/ pc = "find" /\ PodsOf(Orch) = {}
     \/ pc = "poll" /\ \A p \in pods : p.name = podName => ~p.reported
  /\ UNCHANGED vars

(* Mutant: one iteration too many. *)
WriteResults_OneMore ==
  /\ Goto("write", "list rcs")
  /\ results' = Append(results, [iteration |-> iteration, data |-> csvdata])
  /\ IF iteration <= Iterations
       THEN iteration' = iteration + 1 /\ UNCHANGED ending
       ELSE ending' = TRUE /\ UNCHANGED iteration
  /\ podName' = << >>
  /\ csvdata' = NoData
  /\ UNCHANGED <<clusterVars, todo, failures>>

(* The next iteration, or main's cleanup. *)
WriteResults ==
  /\ Goto("write", "list rcs")
  /\ results' = Append(results, [iteration |-> iteration, data |-> csvdata])
  /\ IF iteration < Iterations
       THEN iteration' = iteration + 1 /\ UNCHANGED ending
       ELSE ending' = TRUE /\ UNCHANGED iteration
  /\ podName' = << >>
  /\ csvdata' = NoData
  /\ UNCHANGED <<clusterVars, todo, failures>>

(* Mutant: the polling loop ends although nothing was written. *)
WriteFails_MovesOn ==
  /\ Goto("write", "list rcs")
  /\ Fails("write")
  /\ IF iteration < Iterations
       THEN iteration' = iteration + 1 /\ UNCHANGED ending
       ELSE ending' = TRUE /\ UNCHANGED iteration
  /\ podName' = << >>
  /\ csvdata' = NoData
  /\ UNCHANGED <<clusterVars, todo, results>>

(* The data are dropped, and read again at once. *)
WriteFails ==
  /\ Goto("write", "poll")
  /\ Fails("write")
  /\ csvdata' = NoData
  /\ UNCHANGED <<clusterVars, ending, iteration, todo, podName, results>>

Collect == FindPod \/ PollSucceeds \/ WriteResults \/ WriteFails

-----------------------------------------------------------------------------
LauncherStep == Cleanup \/ Create \/ Collect

PodFault ==
  /\ Fails("pod")
  /\ \E p \in pods : PodLost(p)
  /\ UNCHANGED <<pc, ending, iteration, todo, podName, csvdata,
                 results>>

ClusterStep ==
  /\ \/ \E app \in Apps : ControllerMakesPod(app)
     \/ \E p \in pods : CampaignReports(p)
  /\ UNCHANGED launcherVars

Next == LauncherStep \/ WaitOn \/ ClusterStep \/ PodFault

Spec == Init /\ [][Next]_vars

(* The launcher never waits but in its two polling loops, the controllers  *)
(* do their work, and a campaign that can run does.                        *)
FairSpec ==
  /\ Spec
  /\ WF_vars(LauncherStep)
  /\ \A app \in Apps :
       WF_vars(ControllerMakesPod(app) /\ UNCHANGED launcherVars)
  /\ WF_vars((\E p \in pods : CampaignReports(p)) /\ UNCHANGED launcherVars)

-----------------------------------------------------------------------------
TypeOK ==
  /\ ClusterTypeOK
  /\ pc \in Calls
  /\ ending \in BOOLEAN
  /\ iteration \in 0..Iterations
  /\ todo \subseteq Apps \/ todo \subseteq Apps \X Nat
  /\ podName \in {<< >>} \cup Apps \X Nat
  /\ csvdata \in {NoData} \cup 0..Iterations
  /\ results \in Seq([iteration : 1..Iterations, data : 0..Iterations])
  /\ failures \in Seq(Faults)
  /\ Len(failures) \in 0..MaxFaults

(* "Cleanup existing rcs, pods and services in our namespace" comes before  *)
(* every iteration, so what is written as the results of an iteration was  *)
(* measured by Pods of that iteration.                                     *)
ResultsAreCurrent ==
  \A k \in DOMAIN results : results[k].data = results[k].iteration

(* That is so unless a Pod could not be deleted, although the first Pod    *)
(* whose name matches is polled, anything with the two markers in its log  *)
(* is taken, and a cleanup that a failed List cut short is ignored.        *)
ResultsAreCurrentIfPodsGo == ~Failed({"delete pod"}) => ResultsAreCurrent

(* No iteration is skipped or written twice, and unless something failed   *)
(* the launcher ends with the results of every iteration.                  *)
ResultsInOrder ==
  /\ \A k \in DOMAIN results : results[k].iteration = k
  /\ pc = "done" /\ iteration > 0 /\ failures = << >> =>
       Len(results) = Iterations

(* While the launcher waits for the results, every Pod has the addresses   *)
(* of both services in its environment: services are created before the    *)
(* controllers, and the Pods of earlier iterations are gone, unless they   *)
(* could not be deleted.                                                   *)
PodsKnowServices ==
  pc \in {"find", "poll", "write"} /\ ~Failed({"delete pod"}) =>
    /\ DOMAIN services = ServiceNames
    /\ \A p \in pods : p.env = services

(* Unless a call of a cleanup failed the launcher leaves an empty          *)
(* namespace behind, also when a creation failed half-way: controllers are *)
(* deleted before Pods, so no Pod is made again behind its back.           *)
NothingLeftBehind ==
  pc = "done" /\ ~Failed({"list", "delete rc", "delete pod",
                         "delete service"}) =>
    rcs = Nothing /\ pods = {} /\ services = Nothing

(* The launcher ends, whatever fails, unless a Pod is lost or left over.   *)
LauncherEnds == <>(pc = "done" \/ Failed({"pod", "delete pod"}))

(* "The pods orchestrate themselves, we just wait for the results file to  *)
(* show up in the orchestrator container": once the orchestrator of an     *)
(* iteration has reported, the results of the iteration get written.       *)
ReportIsCollected ==
  \A k \in 1..Iterations :
    (pc = "poll" /\ iteration = k /\ \E p \in PodsOf(Orch) : p.reported)
      ~> (Len(results) >= k)
=============================================================================
