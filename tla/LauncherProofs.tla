--------------------------- MODULE LauncherProofs ---------------------------
(***************************************************************************)
(* The launcher, for any set of workers that has netperf-w2, any number of *)
(* iterations and any failures: results belong to the iteration they are   *)
(* written for, no iteration is skipped or written twice, and nothing is   *)
(* left behind, unless the failures that the properties name happen.       *)
(*                                                                         *)
(* The argument: services are deleted after the Pods, and creating one     *)
(* that exists ends the tests.  So when the first service of an iteration  *)
(* can be created, every Pod belongs to a controller that was not deleted; *)
(* and creating that controller again fails.                               *)
(***************************************************************************)
EXTENDS Launcher, TLAPS

App(p) == p.name[1]

Envs == UNION {[S -> Nat] : S \in SUBSET ServiceNames}

PodRecords ==
  [name : Apps \X Nat, born : 0..Iterations, env : Envs, reported : BOOLEAN]

(* Types of the cluster; an application has one Pod at most. *)
ClusterTypes ==
  /\ services \in [DOMAIN services -> 1..addresses]
  /\ DOMAIN services \subseteq ServiceNames
  /\ rcs \in [DOMAIN rcs -> 0..Iterations]
  /\ DOMAIN rcs \subseteq Apps
  /\ pods \subseteq PodRecords
  /\ \A p \in pods : \A s \in DOMAIN p.env : p.env[s] \in 1..addresses
  /\ \A p, q \in pods : App(p) = App(q) => p = q
  /\ addresses \in Nat
  /\ instances \in [Apps -> Nat]

LauncherTypes ==
  /\ pc \in Calls
  /\ ending \in BOOLEAN
  /\ iteration \in 0..Iterations
  /\ todo \subseteq Apps \/ todo \subseteq Apps \X Nat
  /\ podName \in {<< >>} \cup Apps \X Nat
  /\ csvdata \in {NoData} \cup 0..Iterations
  /\ results \in Seq([iteration : 1..Iterations, data : 0..Iterations])
  /\ failures \in Seq(Faults)
  /\ Len(failures) \in 0..MaxFaults

Creating == {"create orch service", "create w2 service", "create rcs"}

Waiting == {"find", "poll", "write"}

Places ==
  /\ pc \in Creating \cup Waiting => ~ending
  /\ pc = "done" => ending
  /\ ~ending => iteration >= 1
  /\ pc = "create w2 service" => Orch \in DOMAIN services
  /\ pc \in {"create rcs"} \cup Waiting => DOMAIN services = ServiceNames
  /\ pc = "create rcs" => todo \subseteq Apps
  /\ pc \in Waiting => todo = {}
  /\ pc = "write" => csvdata # NoData

(* Every Pod belongs to a controller that exists. *)
Controlled == \A p \in pods : App(p) \in DOMAIN rcs

(* The controller of app and its Pod are those of this iteration. *)
Ready(app) ==
  /\ app \in DOMAIN rcs
  /\ rcs[app] = iteration
  /\ \A p \in pods : App(p) = app => p.born = iteration /\ p.env = services

(* Services of an earlier iteration or launcher are still there. *)
ServicesRemain == Orch \in DOMAIN services

PodsGo ==
  /\ pc \in {"list rcs", "delete rcs", "list pods", "delete pods"} /\ ~ending
       => ServicesRemain \/ (pods = {} /\ DOMAIN rcs = {})
  /\ pc = "delete pods" =>
       \A p \in pods : App(p) \in DOMAIN rcs \/ p.name \in todo
  /\ pc \in {"list services", "delete services", "create w2 service",
             "create rcs"} => Controlled
  /\ pc = "create orch service" => ServicesRemain \/ Controlled
  /\ pc \in {"create rcs"} \cup Waiting => \A app \in Apps \ todo : Ready(app)
  /\ pc = "write" => csvdata = iteration
  /\ ResultsAreCurrent

Counted ==
  /\ \A k \in DOMAIN results : results[k].iteration = k
  /\ ~ending => Len(results) = iteration - 1
  /\ failures = << >> /\ ending /\ iteration > 0 => Len(results) = Iterations

cleanupFaults == {"list", "delete rc", "delete pod", "delete service"}

Cleaned ==
  /\ pc = "delete rcs" => DOMAIN rcs \subseteq todo
  /\ pc \in {"list pods", "delete pods", "list services", "delete services",
             "create orch service", "create w2 service", "done"}
       => DOMAIN rcs = {}
  /\ pc = "delete pods" => PodNames \subseteq todo
  /\ pc \in {"list services", "delete services", "create orch service",
             "create w2 service", "done"} => pods = {}
  /\ pc = "delete services" => DOMAIN services \subseteq todo
  /\ pc \in {"create orch service", "done"} => DOMAIN services = {}
  /\ pc = "create w2 service" => W2 \notin DOMAIN services
  /\ pc = "create rcs" => DOMAIN rcs \cap todo = {}

IInv ==
  /\ ClusterTypes
  /\ LauncherTypes
  /\ Places
  /\ ~Failed({"delete pod"}) => PodsGo
  /\ Counted
  /\ ~Failed(cleanupFaults) => Cleaned

-----------------------------------------------------------------------------
LEMMA Names ==
  /\ Orch \in Apps /\ W2 \in Apps /\ ServiceNames \subseteq Apps
  /\ Orch \in ServiceNames /\ W2 \in ServiceNames /\ Orch # W2
BY ClusterAssumption DEF Apps, ServiceNames, Orch, W2

(* A failure is added to those there were. *)
LEMMA FailsAdds ==
  ASSUME failures \in Seq(Faults), NEW kind, Fails(kind), NEW kinds
  PROVE  /\ Failed(kinds)' <=> Failed(kinds) \/ kind \in kinds
         /\ failures' \in Seq(Faults) /\ failures' # << >>
         /\ Len(failures') = Len(failures) + 1
         /\ Len(failures) < MaxFaults
<1>1. /\ failures' = Append(failures, kind) /\ kind \in Faults
      /\ Len(failures) \in Nat /\ DOMAIN failures = 1 .. Len(failures)
      /\ Len(failures) < MaxFaults
  BY DEF Fails
<1>2. /\ failures' \in Seq(Faults) /\ Len(failures') = Len(failures) + 1
      /\ DOMAIN failures' = 1 .. Len(failures) + 1
      /\ failures'[Len(failures) + 1] = kind
      /\ \A k \in 1 .. Len(failures) : failures'[k] = failures[k]
  BY <1>1
<1>3. failures' # << >>
  <2>1. Len(<< >>) = 0
    OBVIOUS
  <2> QED
    BY <1>1, <1>2, <2>1
<1>4. Failed(kinds)' <=> Failed(kinds) \/ kind \in kinds
  <2>1. Failed(kinds)' <=> \E k \in 1 .. Len(failures) + 1 :
                             failures'[k] \in kinds
    BY <1>2 DEF Failed
  <2>2. Failed(kinds) <=> \E k \in 1 .. Len(failures) : failures[k] \in kinds
    BY <1>1 DEF Failed
  <2> QED
    BY <1>1, <1>2, <2>1, <2>2
<1> QED
  BY <1>1, <1>2, <1>3, <1>4

LEMMA SameFailed ==
  ASSUME UNCHANGED failures
  PROVE  /\ Failed({"delete pod"})' <=> Failed({"delete pod"})
         /\ Failed(cleanupFaults)' <=> Failed(cleanupFaults)
BY DEF Failed, cleanupFaults

(* What a failing call does to the failures that the invariant looks at. *)
LEMMA FailureAdds ==
  ASSUME LauncherTypes, NEW kind, Fails(kind)
  PROVE  /\ failures' \in Seq(Faults) /\ Len(failures') \in 0..MaxFaults
         /\ failures' # << >>
         /\ Failed({"delete pod"})' <=>
              Failed({"delete pod"}) \/ kind = "delete pod"
         /\ Failed(cleanupFaults)' <=>
              Failed(cleanupFaults) \/ kind \in cleanupFaults
<1>1. failures \in Seq(Faults) /\ Len(failures) \in Nat /\ MaxFaults \in Nat
  BY LauncherAssumption DEF LauncherTypes
<1>2. /\ failures' \in Seq(Faults) /\ failures' # << >>
      /\ Len(failures') = Len(failures) + 1 /\ Len(failures) < MaxFaults
  BY <1>1, FailsAdds
<1>3. Len(failures') \in 0..MaxFaults
  BY <1>1, <1>2
<1>4. Failed({"delete pod"})' <=>
        Failed({"delete pod"}) \/ kind \in {"delete pod"}
  BY <1>1, FailsAdds
<1>5. Failed(cleanupFaults)' <=> Failed(cleanupFaults) \/ kind \in cleanupFaults
  <2> DEFINE ks == {"list", "delete rc", "delete pod", "delete service"}
  <2>1. Failed(ks)' <=> Failed(ks) \/ kind \in ks
    BY <1>1, FailsAdds
  <2> QED
    BY <2>1 DEF cleanupFaults
<1> QED
  BY <1>2, <1>3, <1>4, <1>5

(* Facts about numbers that are used below. *)
LEMMA NextNumber ==
  ASSUME NEW n \in Nat
  PROVE  /\ n + 1 \in Nat /\ n + 1 \in 1 .. n + 1 /\ n < n + 1
         /\ \A x \in 1..n : x \in 1 .. n + 1
         /\ \A x \in 1 .. n + 1 : x \in 1..n \/ x = n + 1
OBVIOUS

LEMMA InitInv == Init => IInv
<1> SUFFICES ASSUME Init PROVE IInv
  OBVIOUS
<1>1. pc = "list rcs" /\ ending \in BOOLEAN /\ todo = {} /\ podName = << >>
      /\ csvdata = NoData /\ results = << >> /\ failures = << >>
      /\ iteration = IF ending THEN 0 ELSE 1
  BY DEF Init
<1>7. (ending => iteration = 0) /\ (~ending => iteration = 1)
  <2>1. iteration = IF ending THEN 0 ELSE 1
    BY <1>1
  <2>2. ASSUME ending PROVE iteration = 0
    BY <2>1, <2>2
  <2>3. ASSUME ~ending PROVE iteration = 1
    BY <2>1, <2>3
  <2> QED
    BY <2>2, <2>3, Zenon
<1>8. DOMAIN results = {} /\ Len(results) = 0 /\ Len(failures) = 0
  <2>1. DOMAIN << >> = {} /\ Len(<< >>) = 0
    OBVIOUS
  <2>2. results = << >> /\ failures = << >>
    BY <1>1
  <2> QED
    BY ONLY <2>1, <2>2, Zenon
<1>2. LauncherTypes
  <2>1. Iterations \in Nat \ {0} /\ MaxFaults \in Nat
    BY LauncherAssumption
  <2>2. iteration \in 0..Iterations
    BY <1>7, <2>1
  <2>3. /\ results \in Seq([iteration : 1..Iterations, data : 0..Iterations])
        /\ failures \in Seq(Faults)
    <3>1. \A S : << >> \in Seq(S)
      OBVIOUS
    <3> QED
      BY <1>1, <3>1
  <2>4. Len(failures) \in 0..MaxFaults
    BY <1>8, <2>1
  <2> QED
    BY <1>1, <2>2, <2>3, <2>4 DEF LauncherTypes, Calls
<1>3. Places /\ Counted /\ Cleaned
  <2>1. Places /\ Cleaned
    <3>1. Cleaned
      BY <1>1 DEF Cleaned
    <3>2. ~ending => iteration >= 1
      <4>1. CASE ending
        BY <4>1
      <4>2. CASE ~ending
        BY <1>7, <4>2
      <4> QED
        BY <4>1, <4>2
    <3> QED
      BY <1>1, <3>1, <3>2 DEF Places, Creating, Waiting
  <2>2. /\ ~ending => Len(results) = iteration - 1
        /\ ~(ending /\ iteration > 0)
    BY <1>7, <1>8
  <2> QED
    BY <1>8, <2>1, <2>2 DEF Counted
<1>6. ResultsAreCurrent
  BY <1>8 DEF ResultsAreCurrent
<1>4. CASE EmptyNamespace
  <2>1. ClusterTypes
    BY <1>4 DEF EmptyNamespace, ClusterTypes, Nothing
  <2>2. PodsGo
    BY <1>1, <1>4, <1>6 DEF EmptyNamespace, PodsGo, Nothing, Waiting
  <2> QED
    BY <1>2, <1>3, <2>1, <2>2 DEF IInv
<1>5. CASE OrphanedResources
  <2>1. /\ services \in [ServiceNames -> 1..2] /\ DOMAIN services = ServiceNames
        /\ rcs \in [Apps -> 0..Iterations] /\ DOMAIN rcs = Apps
        /\ addresses = 2 /\ instances \in [Apps -> Nat]
    <3>1. 0 \in 0..Iterations
      BY LauncherAssumption
    <3> QED
      BY <1>5, <3>1 DEF OrphanedResources
  <2>2. \A p \in pods : \E a \in Apps :
          p = [name |-> <<a, 1>>, born |-> 0, env |-> services,
               reported |-> (a = Orch)]
    BY <1>5 DEF OrphanedResources
  <2>3. services \in Envs
    BY <2>1 DEF Envs
  <2>4. ASSUME NEW p \in pods
        PROVE  p \in PodRecords /\ p.env = services
    <3>1. PICK a \in Apps : p = [name |-> <<a, 1>>, born |-> 0,
                                 env |-> services, reported |-> (a = Orch)]
      BY <2>2
    <3>2. /\ (a = Orch) \in BOOLEAN /\ 0 \in 0..Iterations
          /\ <<a, 1>> \in Apps \X Nat
      BY LauncherAssumption
    <3> QED
      BY <2>3, <3>1, <3>2 DEF PodRecords
  <2>5. \A p, q \in pods : App(p) = App(q) => p = q
    BY <2>2 DEF App
  <2>6. ClusterTypes
    BY <2>1, <2>4, <2>5 DEF ClusterTypes
  <2>7. PodsGo
    BY <1>1, <1>6, <2>1, Names DEF PodsGo, ServicesRemain, Waiting
  <2> QED
    BY <1>2, <1>3, <2>6, <2>7 DEF IInv
<1> QED
  BY <1>4, <1>5 DEF Init

-----------------------------------------------------------------------------
(* cleanup *)

LEMMA ListFailsKeepsInv == IInv /\ ListFails => IInv'
<1> SUFFICES ASSUME IInv, ListFails PROVE IInv'
  OBVIOUS
<1>1. /\ pc \in {"list rcs", "list pods", "list services"}
      /\ pc' = IF ending THEN "done" ELSE "create orch service"
      /\ UNCHANGED <<services, rcs, pods, addresses, instances, ending,
                     iteration, todo, podName, csvdata, results>>
  BY DEF ListFails, AfterCleanup, clusterVars
<1>2. /\ failures' \in Seq(Faults) /\ Len(failures') \in 0..MaxFaults
      /\ failures' # << >>
      /\ Failed({"delete pod"})' <=> Failed({"delete pod"})
      /\ Failed(cleanupFaults)'
  <2>1. PICK kind : kind = "list" /\ Fails(kind)
    BY DEF ListFails
  <2>2. kind # "delete pod" /\ kind \in cleanupFaults
    BY <2>1 DEF cleanupFaults
  <2> QED
    BY <2>1, <2>2, FailureAdds DEF IInv
<1>3. ClusterTypes'
  BY <1>1 DEF IInv, ClusterTypes, App
<1>4. LauncherTypes'
  BY <1>1, <1>2 DEF IInv, LauncherTypes, Calls
<1>5. Places'
  BY <1>1 DEF IInv, Places, Creating, Waiting
<1>6. ~Failed({"delete pod"})' => PodsGo'
  BY <1>1, <1>2 DEF IInv, PodsGo, Waiting, ServicesRemain, Controlled,
                    Ready, App, ResultsAreCurrent
<1>7. Counted'
  BY <1>1, <1>2 DEF IInv, Counted
<1> QED
  BY <1>2, <1>3, <1>4, <1>5, <1>6, <1>7 DEF IInv

LEMMA ListKeepsInv ==
  ASSUME IInv,
         \/ List("list rcs", DOMAIN rcs, "delete rcs")
         \/ List("list pods", PodNames, "delete pods")
         \/ List("list services", DOMAIN services, "delete services")
  PROVE  IInv'
<1>1. /\ UNCHANGED <<services, rcs, pods, addresses, instances, ending,
                     iteration, podName, csvdata, results, failures>>
      /\ \/ pc = "list rcs" /\ pc' = "delete rcs" /\ todo' = DOMAIN rcs
         \/ pc = "list pods" /\ pc' = "delete pods" /\ todo' = PodNames
         \/ /\ pc = "list services" /\ pc' = "delete services"
            /\ todo' = DOMAIN services
  BY DEF List, Goto, clusterVars
<1>2. todo' \subseteq Apps \/ todo' \subseteq Apps \X Nat
  <2>1. DOMAIN rcs \subseteq Apps /\ DOMAIN services \subseteq Apps
    BY Names DEF IInv, ClusterTypes
  <2>2. \A p \in pods : p.name \in Apps \X Nat
    BY DEF IInv, ClusterTypes, PodRecords
  <2>3. PodNames \subseteq Apps \X Nat
    BY <2>2 DEF PodNames
  <2> QED
    BY <1>1, <2>1, <2>3
<1>3. ClusterTypes'
  BY <1>1 DEF IInv, ClusterTypes, App
<1>4. LauncherTypes'
  BY <1>1, <1>2 DEF IInv, LauncherTypes, Calls
<1>5. Places'
  BY <1>1 DEF IInv, Places, Creating, Waiting
<1>6. ~Failed({"delete pod"})' => PodsGo'
  BY <1>1, SameFailed DEF IInv, PodsGo, Waiting, ServicesRemain, Controlled,
                          Ready, App, ResultsAreCurrent, PodNames
<1>7. Counted'
  BY <1>1 DEF IInv, Counted
<1>8. ~Failed(cleanupFaults)' => Cleaned'
  BY <1>1, SameFailed DEF IInv, Cleaned, PodNames
<1> QED
  BY <1>3, <1>4, <1>5, <1>6, <1>7, <1>8 DEF IInv

LEMMA LoopEndsKeepsInv ==
  ASSUME IInv,
         \/ LoopEnds("delete rcs", "list pods")
         \/ LoopEnds("delete pods", "list services")
         \/ LoopEnds("delete services", AfterCleanup)
         \/ LoopEnds("create rcs", "find")
  PROVE  IInv'
<1>1. /\ UNCHANGED <<services, rcs, pods, addresses, instances, ending,
                     iteration, todo, podName, csvdata, results, failures>>
      /\ todo = {}
      /\ \/ pc = "delete rcs" /\ pc' = "list pods"
         \/ pc = "delete pods" /\ pc' = "list services"
         \/ /\ pc = "delete services"
            /\ pc' = IF ending THEN "done" ELSE "create orch service"
         \/ pc = "create rcs" /\ pc' = "find"
  BY DEF LoopEnds, Goto, clusterVars, AfterCleanup
<1>2. ClusterTypes'
  BY <1>1 DEF IInv, ClusterTypes, App
<1>3. LauncherTypes'
  BY <1>1 DEF IInv, LauncherTypes, Calls
<1>4. Places'
  BY <1>1 DEF IInv, Places, Creating, Waiting
<1>5. ~Failed({"delete pod"})' => PodsGo'
  BY <1>1, SameFailed DEF IInv, PodsGo, Waiting, ServicesRemain, Controlled,
                          Ready, App, ResultsAreCurrent
<1>6. Counted'
  BY <1>1 DEF IInv, Counted
<1>7. ~Failed(cleanupFaults)' => Cleaned'
  BY <1>1, SameFailed DEF IInv, Cleaned, PodNames
<1> QED
  BY <1>2, <1>3, <1>4, <1>5, <1>6, <1>7 DEF IInv

(* One turn of a deleting loop, whether the call fails or not. *)
LEMMA DeleteKeepsInv ==
  ASSUME IInv,
         \/ DeleteRC \/ DeleteFails("delete rcs", "delete rc")
         \/ DeletePod \/ DeleteFails("delete pods", "delete pod")
         \/ DeleteService \/ DeleteFails("delete services", "delete service")
  PROVE  IInv'
<1>1. ASSUME NEW loop, NEW x, Handle(loop, x)
      PROVE  /\ pc = loop /\ x \in todo /\ todo' = todo \ {x}
             /\ UNCHANGED <<pc, ending, iteration, podName, csvdata, results>>
  BY <1>1 DEF Handle
<1>2. ASSUME NEW f, NEW x
      PROVE  /\ DOMAIN Without(f, x) = DOMAIN f \ {x}
             /\ \A y \in DOMAIN f \ {x} : Without(f, x)[y] = f[y]
             /\ Without(f, x) \in [DOMAIN f \ {x} -> {f[y] : y \in DOMAIN f}]
  BY DEF Without
<1>3. ASSUME NEW loop \in {"delete rcs", "delete pods", "delete services"},
             NEW kind \in cleanupFaults, DeleteFails(loop, kind),
             loop = "delete pods" => kind = "delete pod"
      PROVE  IInv'
  <2>1. PICK x \in todo : Handle(loop, x)
    BY <1>3 DEF DeleteFails
  <2>2. /\ pc = loop /\ todo' = todo \ {x}
        /\ UNCHANGED <<pc, ending, iteration, podName, csvdata, results>>
        /\ UNCHANGED <<services, rcs, pods, addresses, instances>>
    BY <1>1, <1>3, <2>1 DEF DeleteFails, clusterVars
  <2>3. /\ failures' \in Seq(Faults) /\ Len(failures') \in 0..MaxFaults
        /\ failures' # << >> /\ Failed(cleanupFaults)'
        /\ Failed({"delete pod"})' <=>
             Failed({"delete pod"}) \/ kind = "delete pod"
    BY <1>3, FailureAdds DEF DeleteFails, IInv
  <2>4. ClusterTypes'
    BY <2>2 DEF IInv, ClusterTypes, App
  <2>5. LauncherTypes'
    BY <2>2, <2>3 DEF IInv, LauncherTypes
  <2>6. Places'
    BY <1>3, <2>2 DEF IInv, Places, Creating, Waiting
  <2>7. ~Failed({"delete pod"})' => PodsGo'
    BY <1>3, <2>2, <2>3 DEF IInv, PodsGo, Waiting, ServicesRemain, Controlled,
                            Ready, App, ResultsAreCurrent
  <2>8. Counted'
    BY <2>2, <2>3 DEF IInv, Counted
  <2> QED
    BY <2>3, <2>4, <2>5, <2>6, <2>7, <2>8 DEF IInv
<1>4. CASE DeleteRC
  <2>1. PICK x \in todo : Handle("delete rcs", x) /\ rcs' = Without(rcs, x)
    BY <1>4 DEF DeleteRC
  <2>2. /\ pc = "delete rcs" /\ todo' = todo \ {x}
        /\ UNCHANGED <<pc, ending, iteration, podName, csvdata, results>>
        /\ UNCHANGED <<services, pods, addresses, instances, failures>>
    BY <1>1, <1>4, <2>1 DEF DeleteRC
  <2>3. /\ DOMAIN rcs' = DOMAIN rcs \ {x}
        /\ rcs' \in [DOMAIN rcs' -> 0..Iterations]
    BY <1>2, <2>1 DEF IInv, ClusterTypes, Without
  <2>4. ClusterTypes'
    BY <2>2, <2>3 DEF IInv, ClusterTypes, App
  <2>5. LauncherTypes'
    BY <2>2 DEF IInv, LauncherTypes
  <2>6. Places'
    BY <2>2 DEF IInv, Places, Creating, Waiting
  <2>7. ~Failed({"delete pod"})' => PodsGo'
    BY <2>2, <2>3, SameFailed DEF IInv, PodsGo, Waiting, ServicesRemain,
                                  ResultsAreCurrent
  <2>8. Counted'
    BY <2>2 DEF IInv, Counted
  <2>9. ~Failed(cleanupFaults)' => Cleaned'
    BY <2>2, <2>3, SameFailed DEF IInv, Cleaned
  <2> QED
    BY <2>4, <2>5, <2>6, <2>7, <2>8, <2>9 DEF IInv
<1>5. CASE DeletePod
  <2>1. PICK x \in todo : /\ Handle("delete pods", x)
                          /\ pods' = {p \in pods : p.name # x}
    BY <1>5 DEF DeletePod
  <2>2. /\ pc = "delete pods" /\ todo' = todo \ {x}
        /\ UNCHANGED <<pc, ending, iteration, podName, csvdata, results>>
        /\ UNCHANGED <<services, rcs, addresses, instances, failures>>
    BY <1>1, <1>5, <2>1 DEF DeletePod
  <2>3. pods' \subseteq pods /\ \A p \in pods' : p.name # x
    BY <2>1
  <2>4. ClusterTypes'
    BY <2>2, <2>3 DEF IInv, ClusterTypes, App
  <2>5. LauncherTypes'
    BY <2>2 DEF IInv, LauncherTypes
  <2>6. Places'
    BY <2>2 DEF IInv, Places, Creating, Waiting
  <2>7. ~Failed({"delete pod"})' => PodsGo'
    BY <2>2, <2>3, SameFailed DEF IInv, PodsGo, Waiting, ServicesRemain, App,
                                  ResultsAreCurrent
  <2>8. Counted'
    BY <2>2 DEF IInv, Counted
  <2>9. ~Failed(cleanupFaults)' => Cleaned'
    BY <2>2, <2>3, SameFailed DEF IInv, Cleaned, PodNames
  <2> QED
    BY <2>4, <2>5, <2>6, <2>7, <2>8, <2>9 DEF IInv
<1>6. CASE DeleteService
  <2>1. PICK x \in todo : /\ Handle("delete services", x)
                          /\ services' = Without(services, x)
    BY <1>6 DEF DeleteService
  <2>2. /\ pc = "delete services" /\ todo' = todo \ {x}
        /\ UNCHANGED <<pc, ending, iteration, podName, csvdata, results>>
        /\ UNCHANGED <<rcs, pods, addresses, instances, failures>>
    BY <1>1, <1>6, <2>1 DEF DeleteService
  <2>3. /\ DOMAIN services' = DOMAIN services \ {x}
        /\ services' \in [DOMAIN services' -> 1..addresses]
    BY <1>2, <2>1 DEF IInv, ClusterTypes, Without
  <2>4. ClusterTypes'
    BY <2>2, <2>3 DEF IInv, ClusterTypes, App
  <2>5. LauncherTypes'
    BY <2>2 DEF IInv, LauncherTypes
  <2>6. Places'
    BY <2>2 DEF IInv, Places, Creating, Waiting
  <2>7. ~Failed({"delete pod"})' => PodsGo'
    BY <2>2, SameFailed DEF IInv, PodsGo, Waiting, Controlled, App,
                            ResultsAreCurrent
  <2>8. Counted'
    BY <2>2 DEF IInv, Counted
  <2>9. ~Failed(cleanupFaults)' => Cleaned'
    BY <2>2, <2>3, SameFailed DEF IInv, Cleaned
  <2> QED
    BY <2>4, <2>5, <2>6, <2>7, <2>8, <2>9 DEF IInv
<1> QED
  BY <1>3, <1>4, <1>5, <1>6 DEF cleanupFaults

LEMMA CleanupKeepsInv == IInv /\ Cleanup => IInv'
BY ListFailsKeepsInv, ListKeepsInv, LoopEndsKeepsInv, DeleteKeepsInv
   DEF Cleanup

-----------------------------------------------------------------------------
(* createServices and createRCs *)

(* A creation that fails, or fails because the object exists, ends the     *)
(* tests; without any failure before it, it cannot exist.                  *)
LEMMA CreateFailsKeepsInv ==
  ASSUME IInv, pc \in Creating, NEW exists, CreateFails(exists),
         failures = << >> => ~exists
  PROVE  IInv'
<1>1. /\ pc' = "list rcs" /\ ending' = TRUE
      /\ UNCHANGED <<services, rcs, pods, addresses, instances, iteration,
                     todo, podName, csvdata, results>>
  BY DEF CreateFails, clusterVars
<1>2. /\ failures' \in Seq(Faults) /\ Len(failures') \in 0..MaxFaults
      /\ failures' # << >>
      /\ ~Failed({"delete pod"})' => ~Failed({"delete pod"})
  <2>1. CASE Fails("create")
    BY <2>1, FailureAdds DEF IInv
  <2>2. CASE exists /\ UNCHANGED failures
    BY <2>2, SameFailed DEF IInv, LauncherTypes
  <2> QED
    BY <2>1, <2>2 DEF CreateFails
<1>3. ClusterTypes'
  BY <1>1 DEF IInv, ClusterTypes, App
<1>4. LauncherTypes'
  BY <1>1, <1>2 DEF IInv, LauncherTypes, Calls
<1>5. Places'
  BY <1>1 DEF IInv, Places, Creating, Waiting
<1>6. ~Failed({"delete pod"})' => PodsGo'
  BY <1>1, <1>2 DEF IInv, PodsGo, Waiting, ResultsAreCurrent
<1>7. Counted'
  BY <1>1, <1>2 DEF IInv, Counted
<1>8. Cleaned'
  BY <1>1 DEF Cleaned
<1> QED
  BY <1>3, <1>4, <1>5, <1>6, <1>7, <1>8 DEF IInv

LEMMA NothingFailed ==
  ASSUME failures = << >>
  PROVE  ~Failed(cleanupFaults)
BY DEF Failed

LEMMA WithIs ==
  ASSUME NEW f, NEW x, NEW v, NEW T, f \in [DOMAIN f -> T], v \in T
  PROVE  /\ DOMAIN With(f, x, v) = DOMAIN f \cup {x}
         /\ With(f, x, v) \in [DOMAIN f \cup {x} -> T]
         /\ With(f, x, v)[x] = v
         /\ \A y \in DOMAIN f \ {x} : With(f, x, v)[y] = f[y]
BY DEF With

LEMMA CreateServiceKeepsInv ==
  ASSUME IInv,
         \/ CreateService(Orch, "create orch service", "create w2 service")
         \/ CreateService(W2, "create w2 service", "create rcs")
  PROVE  IInv'
<1> USE Names
<1>1. ASSUME NEW s \in ServiceNames, s \notin DOMAIN services,
             services' = With(services, s, addresses + 1),
             addresses' = addresses + 1, UNCHANGED <<rcs, pods, instances>>
      PROVE  ClusterTypes' /\ DOMAIN services' = DOMAIN services \cup {s}
  <2>1. /\ addresses \in Nat /\ addresses' \in Nat
        /\ addresses + 1 \in 1..addresses'
        /\ 1..addresses \subseteq 1..addresses'
    <3>1. addresses \in Nat /\ addresses' = addresses + 1
      BY <1>1 DEF IInv, ClusterTypes
    <3> QED
      BY <3>1, NextNumber
  <2>2. services \in [DOMAIN services -> 1..addresses']
    BY <2>1 DEF IInv, ClusterTypes
  <2>3. /\ DOMAIN services' = DOMAIN services \cup {s}
        /\ services' \in [DOMAIN services' -> 1..addresses']
    BY <1>1, <2>1, <2>2, WithIs
  <2>4. \A p \in pods : \A x \in DOMAIN p.env : p.env[x] \in 1..addresses'
    BY <2>1 DEF IInv, ClusterTypes
  <2> QED
    BY <1>1, <2>1, <2>3, <2>4 DEF IInv, ClusterTypes, App
<1>2. CASE CreateService(Orch, "create orch service", "create w2 service")
  <2>1. CASE CreateFails(Orch \in DOMAIN services)
    <3>1. failures = << >> => Orch \notin DOMAIN services
      BY <1>2, NothingFailed DEF CreateService, IInv, Cleaned
    <3>2. pc \in Creating
      BY <1>2 DEF CreateService, Creating
    <3> QED
      BY <2>1, <3>1, <3>2, CreateFailsKeepsInv
  <2>2. CASE ~CreateFails(Orch \in DOMAIN services)
    <3>1. /\ pc = "create orch service" /\ pc' = "create w2 service"
          /\ Orch \notin DOMAIN services /\ todo' = {}
          /\ services' = With(services, Orch, addresses + 1)
          /\ addresses' = addresses + 1
          /\ UNCHANGED <<rcs, pods, instances, ending, iteration, podName,
                         csvdata, results, failures>>
      BY <1>2, <2>2 DEF CreateService
    <3>2. ClusterTypes' /\ DOMAIN services' = DOMAIN services \cup {Orch}
      BY <1>1, <3>1
    <3>3. LauncherTypes'
      BY <3>1 DEF IInv, LauncherTypes, Calls
    <3>4. Places'
      BY <3>1, <3>2 DEF IInv, Places, Creating, Waiting
    <3>5. ~Failed({"delete pod"})' => PodsGo'
      BY <3>1, <3>2, SameFailed
         DEF IInv, PodsGo, Waiting, ServicesRemain, Controlled, App,
             ResultsAreCurrent
    <3>6. Counted'
      BY <3>1 DEF IInv, Counted
    <3>7. ~Failed(cleanupFaults)' => Cleaned'
      BY <3>1, <3>2, SameFailed DEF IInv, Cleaned
    <3> QED
      BY <3>2, <3>3, <3>4, <3>5, <3>6, <3>7 DEF IInv
  <2> QED
    BY <2>1, <2>2
<1>3. CASE CreateService(W2, "create w2 service", "create rcs")
  <2>1. CASE CreateFails(W2 \in DOMAIN services)
    <3>1. failures = << >> => W2 \notin DOMAIN services
      BY <1>3, NothingFailed DEF CreateService, IInv, Cleaned
    <3>2. pc \in Creating
      BY <1>3 DEF CreateService, Creating
    <3> QED
      BY <2>1, <3>1, <3>2, CreateFailsKeepsInv
  <2>2. CASE ~CreateFails(W2 \in DOMAIN services)
    <3>1. /\ pc = "create w2 service" /\ pc' = "create rcs"
          /\ W2 \notin DOMAIN services /\ todo' = Apps
          /\ services' = With(services, W2, addresses + 1)
          /\ addresses' = addresses + 1
          /\ UNCHANGED <<rcs, pods, instances, ending, iteration, podName,
                         csvdata, results, failures>>
      BY <1>3, <2>2 DEF CreateService
    <3>2. ClusterTypes' /\ DOMAIN services' = DOMAIN services \cup {W2}
      BY <1>1, <3>1
    <3>3. LauncherTypes'
      BY <3>1 DEF IInv, LauncherTypes, Calls
    <3>4. Places'
      <4>1. DOMAIN services' = ServiceNames
        <5>1. Orch \in DOMAIN services /\ DOMAIN services \subseteq ServiceNames
          BY <3>1 DEF IInv, Places, ClusterTypes
        <5> QED
          BY <3>2, <5>1 DEF ServiceNames
      <4> QED
        BY <3>1, <4>1 DEF IInv, Places, Creating, Waiting
    <3>5. ~Failed({"delete pod"})' => PodsGo'
      BY <3>1, <3>2, SameFailed
         DEF IInv, PodsGo, Waiting, ServicesRemain, Controlled, App,
             ResultsAreCurrent
    <3>6. Counted'
      BY <3>1 DEF IInv, Counted
    <3>7. ~Failed(cleanupFaults)' => Cleaned'
      BY <3>1, <3>2, SameFailed DEF IInv, Cleaned
    <3> QED
      BY <3>2, <3>3, <3>4, <3>5, <3>6, <3>7 DEF IInv
  <2> QED
    BY <2>1, <2>2
<1> QED
  BY <1>2, <1>3

LEMMA CreateRCKeepsInv == IInv /\ CreateRC => IInv'
<1> SUFFICES ASSUME IInv, CreateRC PROVE IInv'
  OBVIOUS
<1>1. PICK rc \in todo :
        /\ pc = "create rcs"
        /\ \/ CreateFails(rc \in DOMAIN rcs)
           \/ /\ rc \notin DOMAIN rcs
              /\ Handle("create rcs", rc)
              /\ rcs' = With(rcs, rc, iteration)
              /\ UNCHANGED <<services, pods, addresses, instances, failures>>
  BY DEF CreateRC
<1>2. CASE CreateFails(rc \in DOMAIN rcs)
  <2>1. failures = << >> => rc \notin DOMAIN rcs
    BY <1>1, NothingFailed DEF IInv, Cleaned
  <2>2. pc \in Creating
    BY <1>1 DEF Creating
  <2> QED
    BY <1>2, <2>1, <2>2, CreateFailsKeepsInv
<1>3. CASE ~CreateFails(rc \in DOMAIN rcs)
  <2>1. /\ rc \notin DOMAIN rcs /\ pc = "create rcs" /\ todo' = todo \ {rc}
        /\ rcs' = With(rcs, rc, iteration)
        /\ UNCHANGED <<services, pods, addresses, instances, failures, pc,
                       ending, iteration, podName, csvdata, results>>
    BY <1>1, <1>3 DEF Handle
  <2>2. rc \in Apps
    BY <1>1 DEF IInv, Places
  <2>3. /\ DOMAIN rcs' = DOMAIN rcs \cup {rc} /\ rcs'[rc] = iteration
        /\ rcs' \in [DOMAIN rcs' -> 0..Iterations]
        /\ \A a \in DOMAIN rcs : rcs'[a] = rcs[a]
    <3>1. rcs \in [DOMAIN rcs -> 0..Iterations] /\ iteration \in 0..Iterations
      BY DEF IInv, ClusterTypes, LauncherTypes
    <3>2. /\ DOMAIN With(rcs, rc, iteration) = DOMAIN rcs \cup {rc}
          /\ With(rcs, rc, iteration) \in
               [DOMAIN rcs \cup {rc} -> 0..Iterations]
          /\ With(rcs, rc, iteration)[rc] = iteration
          /\ \A a \in DOMAIN rcs \ {rc} :
               With(rcs, rc, iteration)[a] = rcs[a]
      BY <3>1 DEF With
    <3> QED
      BY <2>1, <3>2
  <2>4. ClusterTypes'
    BY <2>1, <2>2, <2>3 DEF IInv, ClusterTypes, App
  <2>5. LauncherTypes'
    BY <2>1 DEF IInv, LauncherTypes
  <2>6. Places'
    BY <2>1 DEF IInv, Places, Creating, Waiting
  <2>7. ~Failed({"delete pod"})' => PodsGo'
    <3> SUFFICES ASSUME ~Failed({"delete pod"}) PROVE PodsGo'
      BY <2>1, SameFailed
    <3>1. Controlled /\ \A a \in Apps \ todo : Ready(a)
      BY <2>1 DEF IInv, PodsGo
    <3>2. \A a \in Apps \ todo' : Ready(a)'
      <4> SUFFICES ASSUME NEW a \in Apps \ todo' PROVE Ready(a)'
        OBVIOUS
      <4>1. CASE a = rc
        BY <2>1, <2>3, <3>1, <4>1 DEF Controlled, Ready
      <4>2. CASE a # rc
        <5>1. a \in Apps \ todo /\ Ready(a) /\ a \in DOMAIN rcs
          BY <2>1, <3>1, <4>2 DEF Ready
        <5>2. rcs'[a] = iteration' /\ a \in DOMAIN rcs'
          BY <2>1, <2>3, <5>1 DEF Ready
        <5> QED
          BY <2>1, <5>1, <5>2 DEF Ready, App
      <4> QED
        BY <4>1, <4>2
    <3> QED
      BY <2>1, <2>3, <3>1, <3>2
         DEF IInv, PodsGo, Waiting, Controlled, App, ResultsAreCurrent
  <2>8. Counted'
    BY <2>1 DEF IInv, Counted
  <2>9. ~Failed(cleanupFaults)' => Cleaned'
    BY <2>1, <2>3, SameFailed DEF IInv, Cleaned
  <2> QED
    BY <2>4, <2>5, <2>6, <2>7, <2>8, <2>9 DEF IInv
<1> QED
  BY <1>2, <1>3

LEMMA CreateKeepsInv == IInv /\ Create => IInv'
BY CreateServiceKeepsInv, CreateRCKeepsInv, LoopEndsKeepsInv DEF Create

-----------------------------------------------------------------------------
(* The loops that wait, and the cluster. *)

LEMMA FindAndPollKeepInv == IInv /\ (FindPod \/ PollSucceeds) => IInv'
<1> SUFFICES ASSUME IInv, FindPod \/ PollSucceeds PROVE IInv'
  OBVIOUS
<1>1. /\ UNCHANGED <<services, rcs, pods, addresses, instances, ending,
                     iteration, todo, results, failures>>
      /\ \/ /\ pc = "find" /\ pc' = "poll" /\ UNCHANGED csvdata
            /\ \E p \in pods : podName' = p.name
         \/ /\ pc = "poll" /\ pc' = "write" /\ UNCHANGED podName
            /\ \E p \in pods : csvdata' = p.born
  BY DEF FindPod, PollSucceeds, Goto, clusterVars, PodsOf
<1>2. \A p \in pods : /\ p.name \in Apps \X Nat /\ p.born \in 0..Iterations
                      /\ App(p) \in Apps
  BY DEF IInv, ClusterTypes, PodRecords, App
<1>3. ClusterTypes'
  BY <1>1 DEF IInv, ClusterTypes, App
<1>4. LauncherTypes'
  BY <1>1, <1>2 DEF IInv, LauncherTypes, Calls
<1>5. Places'
  <2>1. pc' = "write" => csvdata' # NoData
    BY <1>1, <1>2, LauncherAssumption DEF NoData
  <2> QED
    BY <1>1, <2>1 DEF IInv, Places, Creating, Waiting
<1>6. ~Failed({"delete pod"})' => PodsGo'
  <2> SUFFICES ASSUME ~Failed({"delete pod"}) PROVE PodsGo'
    BY <1>1, SameFailed
  <2>1. todo = {} /\ \A a \in Apps \ todo : Ready(a)
    BY <1>1 DEF IInv, Places, PodsGo, Waiting
  <2>2. pc' = "write" => csvdata' = iteration
    BY <1>1, <1>2, <2>1 DEF Ready
  <2> QED
    BY <1>1, <2>1, <2>2
       DEF IInv, PodsGo, Waiting, Ready, App, ResultsAreCurrent
<1>7. Counted'
  BY <1>1 DEF IInv, Counted
<1>8. Cleaned'
  BY <1>1 DEF Cleaned
<1> QED
  BY <1>3, <1>4, <1>5, <1>6, <1>7, <1>8 DEF IInv

LEMMA WriteResultsKeepsInv == IInv /\ WriteResults => IInv'
<1> SUFFICES ASSUME IInv, WriteResults PROVE IInv'
  OBVIOUS
<1> DEFINE result == [iteration |-> iteration, data |-> csvdata]
<1>1. /\ pc = "write" /\ pc' = "list rcs"
      /\ results' = Append(results, result)
      /\ IF iteration < Iterations
           THEN iteration' = iteration + 1 /\ UNCHANGED ending
           ELSE ending' = TRUE /\ UNCHANGED iteration
      /\ podName' = << >> /\ csvdata' = NoData
      /\ UNCHANGED <<services, rcs, pods, addresses, instances, todo, failures>>
  BY DEF WriteResults, Goto, clusterVars
<1>2. /\ ~ending /\ iteration \in 1..Iterations /\ Iterations \in Nat
      /\ DOMAIN services = ServiceNames /\ todo = {}
      /\ csvdata \in 0..Iterations
  <2>1. /\ ~ending /\ iteration \in 0..Iterations /\ iteration >= 1
        /\ DOMAIN services = ServiceNames /\ todo = {}
        /\ csvdata \in {NoData} \cup 0..Iterations /\ csvdata # NoData
    BY <1>1 DEF IInv, Places, LauncherTypes, Waiting
  <2>2. Iterations \in Nat
    BY LauncherAssumption
  <2> QED
    BY <2>1, <2>2
<1>3. /\ results \in Seq([iteration : 1..Iterations, data : 0..Iterations])
      /\ result \in [iteration : 1..Iterations, data : 0..Iterations]
      /\ result.iteration = iteration /\ result.data = csvdata
  BY <1>2 DEF IInv, LauncherTypes
<1> HIDE DEF result
<1>4. /\ results' \in Seq([iteration : 1..Iterations, data : 0..Iterations])
      /\ Len(results) \in Nat /\ DOMAIN results = 1 .. Len(results)
      /\ Len(results') = Len(results) + 1
      /\ DOMAIN results' = 1 .. Len(results) + 1
      /\ \A k \in DOMAIN results : results'[k] = results[k]
      /\ results'[Len(results) + 1] = result
  <2> DEFINE R == [iteration : 1..Iterations, data : 0..Iterations]
  <2>1. results \in Seq(R) /\ result \in R /\ results' = Append(results, result)
    BY <1>1, <1>3
  <2> HIDE DEF R
  <2>2. /\ results' \in Seq(R)
        /\ Len(results) \in Nat /\ DOMAIN results = 1 .. Len(results)
        /\ Len(results') = Len(results) + 1
        /\ DOMAIN results' = 1 .. Len(results) + 1
        /\ \A k \in DOMAIN results : results'[k] = results[k]
        /\ results'[Len(results) + 1] = result
    BY <2>1
  <2> QED
    BY <2>2 DEF R
<1>5. Len(results) = iteration - 1
  BY <1>2 DEF IInv, Counted
<1>6. ClusterTypes'
  BY <1>1 DEF IInv, ClusterTypes, App
<1>12. /\ iteration' \in 1..Iterations /\ ending' \in BOOLEAN
       /\ ~ending' => iteration' = iteration + 1
       /\ ending' => iteration = Iterations
  <2>1. CASE iteration < Iterations
    <3>1. iteration' = iteration + 1 /\ ending' = ending /\ ~ending
      BY <1>1, <1>2, <2>1
    <3>2. iteration + 1 \in 1..Iterations
      BY <1>2, <2>1
    <3> QED
      BY <3>1, <3>2, <1>1 DEF IInv, LauncherTypes
  <2>2. CASE ~(iteration < Iterations)
    <3>1. iteration' = iteration /\ ending' = TRUE
      BY <1>1, <2>2
    <3>2. iteration = Iterations
      BY <1>2, <2>2
    <3> QED
      BY <1>2, <3>1, <3>2
  <2> QED
    BY <2>1, <2>2
<1>7. LauncherTypes'
  <2>1. iteration' \in 0..Iterations
    BY <1>12
  <2>2. podName' \in {<< >>} \cup Apps \X Nat
        /\ csvdata' \in {NoData} \cup 0..Iterations /\ pc' \in Calls
        /\ todo' \subseteq Apps
    BY <1>1, <1>2 DEF Calls
  <2> QED
    BY <1>1, <1>4, <1>12, <2>1, <2>2 DEF IInv, LauncherTypes
<1>8. Places'
  <2>1. iteration' >= 1
    BY <1>2, <1>12
  <2> QED
    BY <1>1, <2>1 DEF Places, Creating, Waiting
<1>9. ~Failed({"delete pod"})' => PodsGo'
  <2> SUFFICES ASSUME ~Failed({"delete pod"}) PROVE PodsGo'
    BY <1>1, SameFailed
  <2>1. csvdata = iteration /\ ResultsAreCurrent
    BY <1>1 DEF IInv, PodsGo
  <2>2. ResultsAreCurrent'
    <3> SUFFICES ASSUME NEW k \in DOMAIN results'
                 PROVE  results'[k].data = results'[k].iteration
      BY DEF ResultsAreCurrent
    <3>1. CASE k \in DOMAIN results
      BY <1>4, <2>1, <3>1 DEF ResultsAreCurrent
    <3>2. CASE k \notin DOMAIN results
      <4>1. k = Len(results) + 1
        <5>1. /\ k \in 1 .. Len(results) + 1 /\ k \notin 1 .. Len(results)
              /\ Len(results) \in Nat
          BY <1>4, <3>2
        <5> QED
          BY <5>1, NextNumber
      <4> QED
        BY <1>3, <1>4, <2>1, <4>1
    <3> QED
      BY <3>1, <3>2
  <2>3. ServicesRemain'
    BY <1>1, <1>2, Names DEF ServicesRemain
  <2> QED
    BY <1>1, <2>2, <2>3 DEF PodsGo, Waiting
<1>10. Counted'
  <2>1. \A k \in DOMAIN results' : results'[k].iteration = k
    <3> SUFFICES ASSUME NEW k \in DOMAIN results'
                 PROVE  results'[k].iteration = k
      OBVIOUS
    <3>1. CASE k \in DOMAIN results
      BY <1>4, <3>1 DEF IInv, Counted
    <3>2. CASE k \notin DOMAIN results
      <4>1. k = Len(results) + 1 /\ k = iteration
        BY <1>2, <1>4, <1>5, <3>2
      <4> QED
        BY <1>3, <1>4, <4>1
    <3> QED
      BY <3>1, <3>2
  <2>3. Len(results') = iteration
    BY <1>2, <1>4, <1>5
  <2>2. /\ ~ending' => Len(results') = iteration' - 1
        /\ ending' => Len(results') = Iterations
    <3>1. CASE ending'
      BY <1>12, <2>3, <3>1
    <3>2. CASE ~ending'
      BY <1>2, <1>12, <2>3, <3>2
    <3> QED
      BY <3>1, <3>2
  <2> QED
    BY <2>1, <2>2 DEF Counted
<1>11. Cleaned'
  BY <1>1 DEF Cleaned
<1> QED
  BY <1>6, <1>7, <1>8, <1>9, <1>10, <1>11 DEF IInv

LEMMA WriteFailsKeepsInv == IInv /\ WriteFails => IInv'
<1> SUFFICES ASSUME IInv, WriteFails PROVE IInv'
  OBVIOUS
<1>1. /\ pc = "write" /\ pc' = "poll" /\ csvdata' = NoData
      /\ UNCHANGED <<services, rcs, pods, addresses, instances, ending,
                     iteration, todo, podName, results>>
  BY DEF WriteFails, Goto, clusterVars
<1>2. /\ failures' \in Seq(Faults) /\ Len(failures') \in 0..MaxFaults
      /\ failures' # << >>
      /\ Failed({"delete pod"})' <=> Failed({"delete pod"})
  <2>1. PICK kind : kind = "write" /\ Fails(kind)
    BY DEF WriteFails
  <2>2. kind # "delete pod"
    BY <2>1
  <2> QED
    BY <2>1, <2>2, FailureAdds DEF IInv
<1>3. ClusterTypes'
  BY <1>1 DEF IInv, ClusterTypes, App
<1>4. LauncherTypes'
  BY <1>1, <1>2 DEF IInv, LauncherTypes, Calls
<1>5. Places'
  BY <1>1 DEF IInv, Places, Creating, Waiting
<1>6. ~Failed({"delete pod"})' => PodsGo'
  BY <1>1, <1>2 DEF IInv, PodsGo, Waiting, Ready, App, ResultsAreCurrent
<1>7. Counted'
  BY <1>1, <1>2 DEF IInv, Counted
<1>8. Cleaned'
  BY <1>1 DEF Cleaned
<1> QED
  BY <1>3, <1>4, <1>5, <1>6, <1>7, <1>8 DEF IInv

LEMMA MakesPodKeepsInv ==
  ASSUME IInv, NEW app \in Apps, ControllerMakesPod(app),
         UNCHANGED launcherVars
  PROVE  IInv'
<1> DEFINE pod == [name |-> <<app, instances[app] + 1>>, born |-> rcs[app],
                   env |-> services, reported |-> FALSE]
<1>1. /\ app \in DOMAIN rcs /\ \A p \in pods : App(p) # app
      /\ instances' = [instances EXCEPT ![app] = @ + 1]
      /\ pods' = pods \cup {[name |-> <<app, instances'[app]>>,
                             born |-> rcs[app], env |-> services,
                             reported |-> FALSE]}
      /\ UNCHANGED <<services, rcs, addresses>>
  BY DEF ControllerMakesPod, PodsOf, App
<1>2. instances' \in [Apps -> Nat] /\ instances'[app] = instances[app] + 1
      /\ instances[app] + 1 \in Nat
  <2>1. instances \in [Apps -> Nat]
    BY DEF IInv, ClusterTypes
  <2>2. instances[app] \in Nat /\ instances[app] + 1 \in Nat
    BY <2>1
  <2> QED
    BY <1>1, <2>1, <2>2
<1>3. pods' = pods \cup {pod}
  BY <1>1, <1>2
<1>4. /\ pod \in PodRecords /\ App(pod) = app /\ pod.born = rcs[app]
      /\ pod.env = services
  <2>1. services \in Envs
    <3>1. DOMAIN services \in SUBSET ServiceNames
          /\ services \in [DOMAIN services -> Nat]
      <4>1. /\ services \in [DOMAIN services -> 1..addresses]
            /\ DOMAIN services \subseteq ServiceNames
        BY DEF IInv, ClusterTypes
      <4>2. 1..addresses \subseteq Nat
        OBVIOUS
      <4> QED
        BY <4>1, <4>2
    <3> QED
      BY <3>1 DEF Envs
  <2>2. rcs[app] \in 0..Iterations
    BY <1>1 DEF IInv, ClusterTypes
  <2> QED
    BY <1>2, <2>1, <2>2 DEF PodRecords, App
<1> HIDE DEF pod
<1>5. UNCHANGED <<pc, ending, iteration, todo, podName, csvdata, results,
                  failures>>
  BY DEF launcherVars
<1>6. ClusterTypes'
  <2>1. \A p \in pods' : \A s \in DOMAIN p.env : p.env[s] \in 1..addresses
    BY <1>3, <1>4 DEF IInv, ClusterTypes
  <2>2. \A p, q \in pods' : App(p) = App(q) => p = q
    BY <1>1, <1>3, <1>4 DEF IInv, ClusterTypes
  <2>3. pods' \subseteq PodRecords
    BY <1>3, <1>4 DEF IInv, ClusterTypes
  <2> QED
    BY <1>1, <1>2, <2>1, <2>2, <2>3 DEF IInv, ClusterTypes, App
<1>7. LauncherTypes'
  BY <1>5 DEF IInv, LauncherTypes
<1>8. Places'
  BY <1>1, <1>5 DEF IInv, Places
<1>9. ~Failed({"delete pod"})' => PodsGo'
  <2> SUFFICES ASSUME ~Failed({"delete pod"}) PROVE PodsGo'
    BY <1>5, SameFailed
  <2>1. PodsGo
    BY DEF IInv
  <2>2. Controlled => Controlled'
    BY <1>1, <1>3, <1>4 DEF Controlled, App
  <2>3. \A a \in Apps : Ready(a) => Ready(a)'
    BY <1>1, <1>3, <1>4, <1>5 DEF Ready, App
  <2>4. (\A p \in pods : App(p) \in DOMAIN rcs \/ p.name \in todo) =>
        (\A p \in pods' : App(p) \in DOMAIN rcs \/ p.name \in todo)
    BY <1>1, <1>3, <1>4
  <2> QED
    BY <1>1, <1>5, <2>1, <2>2, <2>3, <2>4
       DEF PodsGo, ServicesRemain, ResultsAreCurrent, App
<1>10. Counted'
  BY <1>5 DEF IInv, Counted
<1>11. ~Failed(cleanupFaults)' => Cleaned'
  <2>1. DOMAIN rcs # {} /\ DOMAIN rcs' = DOMAIN rcs
    BY <1>1
  <2> QED
    BY <1>1, <1>5, <2>1, SameFailed DEF IInv, Cleaned
<1> QED
  BY <1>6, <1>7, <1>8, <1>9, <1>10, <1>11 DEF IInv

(* A Pod whose log changes, or that is lost, disturbs nothing. *)
LEMMA PodsChangeKeepsInv ==
  ASSUME IInv, ClusterTypes', LauncherTypes',
         UNCHANGED <<services, rcs, pc, ending, iteration, todo, podName,
                     csvdata, results>>,
         \A p \in pods' : \E q \in pods :
           p.name = q.name /\ p.born = q.born /\ p.env = q.env,
         UNCHANGED failures \/ Fails("pod")
  PROVE  IInv'
<1>1. /\ Failed({"delete pod"})' <=> Failed({"delete pod"})
      /\ Failed(cleanupFaults)' <=> Failed(cleanupFaults)
      /\ failures' = << >> => failures = << >>
  <2>1. CASE UNCHANGED failures
    BY <2>1, SameFailed
  <2>2. CASE Fails("pod")
    <3>1. PICK kind : kind = "pod" /\ Fails(kind)
      BY <2>2
    <3>2. kind # "delete pod" /\ kind \notin cleanupFaults
      BY <3>1 DEF cleanupFaults
    <3> QED
      BY <3>1, <3>2, FailureAdds DEF IInv
  <2> QED
    BY <2>1, <2>2
<1>2. Places'
  BY DEF IInv, Places
<1>3. ~Failed({"delete pod"})' => PodsGo'
  <2> SUFFICES ASSUME ~Failed({"delete pod"}) PROVE PodsGo'
    BY <1>1
  <2>1. PodsGo
    BY DEF IInv
  <2>2. Controlled => Controlled'
    BY DEF Controlled, App
  <2>3. \A a \in Apps : Ready(a) => Ready(a)'
    BY DEF Ready, App
  <2>4. (\A p \in pods : App(p) \in DOMAIN rcs \/ p.name \in todo) =>
        (\A p \in pods' : App(p) \in DOMAIN rcs \/ p.name \in todo)
    BY DEF App
  <2>5. pods = {} => pods' = {}
    OBVIOUS
  <2> QED
    BY <2>1, <2>2, <2>3, <2>4, <2>5
       DEF PodsGo, ServicesRemain, ResultsAreCurrent, App
<1>4. Counted'
  BY <1>1 DEF IInv, Counted
<1>5. ~Failed(cleanupFaults)' => Cleaned'
  <2>1. PodNames' \subseteq PodNames /\ (pods = {} => pods' = {})
    BY DEF PodNames
  <2> QED
    BY <1>1, <2>1 DEF IInv, Cleaned
<1> QED
  BY <1>2, <1>3, <1>4, <1>5 DEF IInv

LEMMA ReportKeepsInv ==
  ASSUME IInv, NEW p \in pods, CampaignReports(p), UNCHANGED launcherVars
  PROVE  IInv'
<1> DEFINE q == [p EXCEPT !.reported = TRUE]
<1>1. /\ pods' = (pods \ {p}) \cup {q}
      /\ UNCHANGED <<services, rcs, addresses, instances>>
      /\ UNCHANGED <<pc, ending, iteration, todo, podName, csvdata, results,
                     failures>>
  BY DEF CampaignReports, launcherVars
<1>2. /\ q \in PodRecords /\ q.name = p.name /\ q.born = p.born
      /\ q.env = p.env
  BY DEF IInv, ClusterTypes, PodRecords
<1> HIDE DEF q
<1>3. ClusterTypes'
  <2>1. pods' \subseteq PodRecords
    BY <1>1, <1>2 DEF IInv, ClusterTypes
  <2>2. \A r \in pods' : \A s \in DOMAIN r.env : r.env[s] \in 1..addresses
    BY <1>1, <1>2 DEF IInv, ClusterTypes
  <2>3. \A r, t \in pods' : App(r) = App(t) => r = t
    <3>1. App(q) = App(p)
      BY <1>2 DEF App
    <3>2. \A r, t \in pods : App(r) = App(t) => r = t
      BY DEF IInv, ClusterTypes
    <3> QED
      BY <1>1, <3>1, <3>2
  <2>4. \A r, t \in pods' : App(r)' = App(t)' => r = t
    BY <2>3 DEF App
  <2> QED
    BY <1>1, <2>1, <2>2, <2>4 DEF IInv, ClusterTypes
<1>4. LauncherTypes'
  BY <1>1 DEF IInv, LauncherTypes
<1> QED
  BY <1>1, <1>2, <1>3, <1>4, PodsChangeKeepsInv

LEMMA PodFaultKeepsInv == IInv /\ PodFault => IInv'
<1> SUFFICES ASSUME IInv, PodFault PROVE IInv'
  OBVIOUS
<1>1. /\ pods' \subseteq pods /\ Fails("pod")
      /\ UNCHANGED <<services, rcs, addresses, instances>>
      /\ UNCHANGED <<pc, ending, iteration, todo, podName, csvdata, results>>
  BY DEF PodFault, PodLost
<1>2. failures' \in Seq(Faults) /\ Len(failures') \in 0..MaxFaults
  BY <1>1, FailureAdds DEF IInv
<1>3. ClusterTypes'
  BY <1>1 DEF IInv, ClusterTypes, App
<1>4. LauncherTypes'
  BY <1>1, <1>2 DEF IInv, LauncherTypes
<1> QED
  BY <1>1, <1>3, <1>4, PodsChangeKeepsInv

LEMMA StutterKeepsInv == IInv /\ UNCHANGED vars => IInv'
<1> SUFFICES ASSUME IInv, UNCHANGED vars PROVE IInv'
  OBVIOUS
<1>1. /\ UNCHANGED <<services, rcs, pods, addresses, instances>>
      /\ UNCHANGED <<pc, ending, iteration, todo, podName, csvdata, results,
                     failures>>
  BY DEF vars, clusterVars, launcherVars
<1>2. ClusterTypes'
  BY <1>1 DEF IInv, ClusterTypes, App
<1>3. LauncherTypes'
  BY <1>1 DEF IInv, LauncherTypes
<1> QED
  BY <1>1, <1>2, <1>3, PodsChangeKeepsInv

LEMMA NextKeepsInv == IInv /\ [Next]_vars => IInv'
<1> SUFFICES ASSUME IInv, [Next]_vars PROVE IInv'
  OBVIOUS
<1>1. CASE LauncherStep
  BY <1>1, CleanupKeepsInv, CreateKeepsInv, FindAndPollKeepInv,
     WriteResultsKeepsInv, WriteFailsKeepsInv DEF LauncherStep, Collect
<1>2. CASE WaitOn \/ UNCHANGED vars
  BY <1>2, StutterKeepsInv DEF WaitOn
<1>3. CASE ClusterStep
  BY <1>3, MakesPodKeepsInv, ReportKeepsInv DEF ClusterStep
<1>4. CASE PodFault
  BY <1>4, PodFaultKeepsInv
<1> QED
  BY <1>1, <1>2, <1>3, <1>4 DEF Next

-----------------------------------------------------------------------------
(* The invariant of the iterations. *)
THEOREM InvariantHolds == Spec => []IInv
BY InitInv, NextKeepsInv, PTL DEF Spec

(* Every variable has its type, the namespace's included. *)
THEOREM TypeCorrect == Spec => []TypeOK
<1>1. IInv => TypeOK
  <2> SUFFICES ASSUME IInv PROVE TypeOK
    OBVIOUS
  <2>1. Iterations \in Nat
    BY LauncherAssumption
  <2>2. ASSUME NEW p \in pods PROVE IsPod(p)
    <3>1. p \in PodRecords
      BY DEF IInv, ClusterTypes
    <3>2. p.born \in Nat /\ p.name \in Apps \X Nat /\ p.reported \in BOOLEAN
      BY <2>1, <3>1 DEF PodRecords
    <3>3. DOMAIN p.env \subseteq ServiceNames
      BY <3>1 DEF PodRecords, Envs
    <3> QED
      BY <3>2, <3>3 DEF IsPod, Named, IInv, ClusterTypes
  <2>3. \A p, q \in pods : p.name = q.name => p = q
    BY DEF IInv, ClusterTypes, App
  <2>4. Named(services, ServiceNames, 1..addresses) /\ Named(rcs, Apps, Nat)
    <3>1. /\ services \in [DOMAIN services -> 1..addresses]
          /\ DOMAIN services \subseteq ServiceNames
          /\ rcs \in [DOMAIN rcs -> 0..Iterations] /\ DOMAIN rcs \subseteq Apps
      BY DEF IInv, ClusterTypes
    <3>2. 0..Iterations \subseteq Nat
      BY <2>1
    <3>3. \A x \in DOMAIN services : services[x] \in 1..addresses
      BY <3>1
    <3>4. \A x \in DOMAIN rcs : rcs[x] \in Nat
      BY <3>1, <3>2
    <3> QED
      BY <3>1, <3>3, <3>4 DEF Named
  <2>5. ClusterTypeOK
    BY <2>2, <2>3, <2>4 DEF ClusterTypeOK, IInv, ClusterTypes
  <2> QED
    BY <2>5 DEF TypeOK, IInv, LauncherTypes
<1> QED
  BY <1>1, InvariantHolds, PTL

(* The results of an iteration are those of its own Pods, unless a Pod     *)
(* could not be deleted.                                                   *)
THEOREM ResultsBelong == Spec => []ResultsAreCurrentIfPodsGo
<1>1. IInv => ResultsAreCurrentIfPodsGo
  BY DEF IInv, PodsGo, ResultsAreCurrentIfPodsGo
<1> QED
  BY <1>1, InvariantHolds, PTL

(* No iteration is skipped or written twice. *)
THEOREM ResultsAreInOrder == Spec => []ResultsInOrder
<1>1. IInv => ResultsInOrder
  BY DEF IInv, Counted, Places, ResultsInOrder
<1> QED
  BY <1>1, InvariantHolds, PTL

(* While the launcher waits, every Pod knows both services. *)
THEOREM PodsAreInformed == Spec => []PodsKnowServices
<1>1. IInv => PodsKnowServices
  <2> SUFFICES ASSUME IInv, pc \in Waiting, ~Failed({"delete pod"})
               PROVE  /\ DOMAIN services = ServiceNames
                      /\ \A p \in pods : p.env = services
    BY DEF PodsKnowServices, Waiting
  <2>1. todo = {} /\ DOMAIN services = ServiceNames
        /\ \A a \in Apps \ todo : Ready(a)
    BY DEF IInv, Places, PodsGo
  <2>2. \A p \in pods : App(p) \in Apps
    BY DEF IInv, ClusterTypes, PodRecords, App
  <2> QED
    BY <2>1, <2>2 DEF Ready
<1> QED
  BY <1>1, InvariantHolds, PTL

(* The launcher leaves an empty namespace, unless its cleanup failed. *)
THEOREM NamespaceIsLeftEmpty == Spec => []NothingLeftBehind
<1>1. IInv => NothingLeftBehind
  <2> SUFFICES ASSUME IInv, pc = "done", ~Failed(cleanupFaults)
               PROVE  rcs = Nothing /\ pods = {} /\ services = Nothing
    BY DEF NothingLeftBehind, cleanupFaults
  <2>1. DOMAIN rcs = {} /\ pods = {} /\ DOMAIN services = {}
    BY DEF IInv, Cleaned
  <2> QED
    BY <2>1 DEF IInv, ClusterTypes, Nothing
<1> QED
  BY <1>1, InvariantHolds, PTL
=============================================================================
