------------------------------ MODULE Cluster -------------------------------
(***************************************************************************)
(* The namespace that the launcher of the network benchmark works on, as   *)
(* far as launch.go relies on it: services, replication controllers, their *)
(* Pods, and the benchmark that the Pods run among themselves.             *)
(***************************************************************************)
EXTENDS Integers

CONSTANT WorkerApps   \* netperf-w1, netperf-w2, ...

Orch == "netperf-orch"

W2 == "netperf-w2"

(* The second service is that of worker 2, which is always launched. *)
ASSUME ClusterAssumption == W2 \in WorkerApps

Apps == {Orch} \cup WorkerApps

ServiceNames == {Orch, W2}

VARIABLES
  services,   \* [existing services -> their cluster IP]
  rcs,        \* [existing controllers -> the iteration that created them]
  pods,       \* the Pods that exist
  addresses,  \* cluster IPs given out so far: no two services share one
  instances   \* instances[app]: Pods of app made so far

clusterVars == <<services, rcs, pods, addresses, instances>>

(* f gives each of some of the names in S an attribute in T. *)
Named(f, S, T) == DOMAIN f \subseteq S /\ \A x \in DOMAIN f : f[x] \in T

Nothing == [x \in {} |-> 0]

Without(f, x) == [y \in DOMAIN f \ {x} |-> f[y]]

With(f, x, v) == [y \in DOMAIN f \cup {x} |-> IF y = x THEN v ELSE f[y]]

(* A Pod's name is its application and a number.  "born" is the iteration  *)
(* whose controller made it, "env" the <SERVICE>_SERVICE_HOST variables it *)
(* was started with; "reported" says that the CSV data is in its log.      *)
IsPod(p) ==
  /\ p.name \in Apps \X Nat
  /\ p.born \in Nat
  /\ Named(p.env, ServiceNames, 1..addresses)
  /\ p.reported \in BOOLEAN

PodsOf(app) == {p \in pods : p.name[1] = app}

ClusterTypeOK ==
  /\ Named(services, ServiceNames, 1..addresses)
  /\ Named(rcs, Apps, Nat)
  /\ \A p \in pods : IsPod(p)
  /\ \A p, q \in pods : p.name = q.name => p = q
  /\ addresses \in Nat
  /\ instances \in [Apps -> Nat]

(* The namespace is empty, or an earlier launcher was killed after its     *)
(* benchmark had finished and left everything in place.                    *)
EmptyNamespace ==
  /\ services = Nothing
  /\ rcs = Nothing
  /\ pods = {}
  /\ addresses = 0
  /\ instances = [a \in Apps |-> 0]

OrphanedResources ==
  /\ services = [s \in ServiceNames |-> IF s = Orch THEN 1 ELSE 2]
  /\ rcs = [a \in Apps |-> 0]
  /\ pods = {[name |-> <<a, 1>>, born |-> 0, env |-> services,
              reported |-> (a = Orch)] : a \in Apps}
  /\ addresses = 2
  /\ instances = [a \in Apps |-> 1]

-----------------------------------------------------------------------------
(* A controller with one replica takes over any Pod that has its label,    *)
(* and makes a Pod if there is none.                                       *)
ControllerMakesPod(app) ==
  /\ app \in DOMAIN rcs
  /\ PodsOf(app) = {}
  /\ instances' = [instances EXCEPT ![app] = @ + 1]
  /\ pods' = pods \cup {[name |-> <<app, instances'[app]>>, born |-> rcs[app],
                         env |-> services, reported |-> FALSE]}
  /\ UNCHANGED <<services, rcs, addresses>>

(* The workers dial the address of the orchestrator in their environment;  *)
(* the service leads to the Pod labelled netperf-orch.  When all of them   *)
(* reach it the campaign runs to its report: what NetPerf promises.        *)
CampaignReports(p) ==
  /\ p \in PodsOf(Orch)
  /\ ~p.reported
  /\ Orch \in DOMAIN services
  /\ \A w \in WorkerApps : \E q \in PodsOf(w) :
       Orch \in DOMAIN q.env /\ q.env[Orch] = services[Orch]
  /\ pods' = (pods \ {p}) \cup {[p EXCEPT !.reported = TRUE]}
  /\ UNCHANGED <<services, rcs, addresses, instances>>

(* A Pod is evicted or lost with its node. *)
PodLost(p) ==
  /\ pods' = pods \ {p}
  /\ UNCHANGED <<services, rcs, addresses, instances>>
=============================================================================
