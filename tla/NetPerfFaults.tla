--------------------------- MODULE NetPerfFaults ----------------------------
(***************************************************************************)
(* The network benchmark in a cluster: connections break, containers of    *)
(* workers die and are restarted, Pods are replaced, the orchestrator's    *)
(* container is restarted.  The program persists nothing and never repeats *)
(* a call.                                                                 *)
(***************************************************************************)
EXTENDS NetPerf, FiniteSets

CONSTANTS
  Faults,      \* the kinds of fault that happen
  MaxFaults,   \* bound: how many faults happen in a behaviour
  LateCalls    \* a request can be handled after its connection is gone

FaultKinds == {"connection", "container", "pod", "orchestrator"}

ASSUME FaultsAssumption ==
  /\ Faults \subseteq FaultKinds
  /\ MaxFaults \in Nat
  /\ LateCalls \in BOOLEAN

VARIABLES
  faults,     \* how many faults have happened
  late,       \* requests that outlived their connection
  disturbed   \* the orchestrator was restarted, or it handled such a request

faultVars == <<vars, faults, late, disturbed>>

(* A request read from its connection by the server before the connection  *)
(* went away: a goroutine of net/rpc runs its handler and its reply goes   *)
(* nowhere.  "id" tells apart two requests with the same arguments.        *)
LateRequests ==
  [id : 1..MaxFaults, worker : Workers, ip : PodIPs,
   call : {"RegisterClient", "ReceiveOutput"}, item : WorkItems]

FInit == Init /\ faults = 0 /\ late = {} /\ disturbed = FALSE

Fault(kind) ==
  /\ kind \in Faults
  /\ faults < MaxFaults
  /\ faults' = faults + 1

RequestOf(w) ==
  [id |-> faults + 1, worker |-> w, ip |-> MyIP(w), item |-> item[w],
   call |-> IF pc[w] = "registering" THEN "RegisterClient"
                                     ELSE "ReceiveOutput"]

(* The connection of w is gone: a request that was in flight is lost, or   *)
(* handled later.  A handled request has lost its reply.                   *)
Disconnect(w) ==
  /\ connected' = [connected EXCEPT ![w] = FALSE]
  /\ \/ UNCHANGED late
     \/ /\ LateCalls
        /\ connected[w]
        /\ pc[w] \in {"registering", "reporting"}
        /\ late' = late \cup {RequestOf(w)}

(* Mutant: the orchestrator takes a worker it loses for idle. *)
BreakConnection_MarksIdle(w) ==
  /\ Fault("connection")
  /\ connected[w]
  /\ Disconnect(w)
  /\ w \in Registered
  /\ SetIdle(w, TRUE)
  /\ UNCHANGED <<MSS, Finished, currentJobIndex, dataPoints, dataPointKeys,
                 datapointsFlushed, stdout, pc, item, servers, podIP,
                 disturbed>>

BreakConnection(w) ==
  /\ Fault("connection")
  /\ connected[w]
  /\ Disconnect(w)
  /\ UNCHANGED <<orchVars, pc, item, servers, podIP, disturbed>>

(* The container of w ends, and the daemons it started end with it. *)
Die(w) ==
  /\ pc' = [pc EXCEPT ![w] = "down"]
  /\ servers' = [servers EXCEPT ![w] = FALSE]
  /\ Drop(w)

CrashWorker(w) ==
  /\ Fault("container")
  /\ pc[w] # "down"
  /\ Die(w)
  /\ Disconnect(w)
  /\ UNCHANGED <<orchVars, podIP, disturbed>>

(* The replication controller replaces the Pod of w. *)
ReplacePod(w) ==
  /\ Fault("pod")
  /\ Die(w)
  /\ Disconnect(w)
  /\ podIP' = [podIP EXCEPT ![w] = @ + 1]
  /\ UNCHANGED <<orchVars, disturbed>>

(* A new orchestrator process starts from its initial values; the requests *)
(* and the connections of the old one are gone.                            *)
RestartOrchestrator ==
  /\ Fault("orchestrator")
  /\ workerStateMap' = [w \in {} |-> [idle |-> TRUE, IP |-> MyIP(w)]]
  /\ MSS' = [n \in Cases |-> Testcases[n].MSS]
  /\ Finished' = [n \in Cases |-> FALSE]
  /\ currentJobIndex' = 1
  /\ dataPoints' = [n \in Cases |-> << >>]
  /\ dataPointKeys' = << >>
  /\ datapointsFlushed' = FALSE
  /\ stdout' = << >>
  /\ connected' = [w \in Workers |-> FALSE]
  /\ late' = {}
  /\ disturbed' = TRUE
  /\ UNCHANGED <<pc, item, servers, podIP>>

FaultStep ==
  \/ \E w \in Workers : BreakConnection(w) \/ CrashWorker(w) \/ ReplacePod(w)
  \/ RestartOrchestrator

-----------------------------------------------------------------------------
(* The kubelet restarts the container (restartPolicy Always). *)
RestartWorker(w) ==
  /\ Goto(w, "down", "dial")
  /\ UNCHANGED <<orchVars, item, connected, servers, podIP>>

(* RegisterClient fails: the worker leaves the inner loop and dials again. *)
RegisterFails(w) ==
  /\ ~connected[w]
  /\ pc[w] \in {"ask", "registering", "answered"}
  /\ pc' = [pc EXCEPT ![w] = "dial"]
  /\ Drop(w)
  /\ UNCHANGED <<orchVars, connected, servers, podIP>>

(* ReceiveOutput fails: log.Fatal ends the process. *)
ReportFails(w) ==
  /\ ~connected[w]
  /\ pc[w] \in {"run", "reporting", "reported"}
  /\ Die(w)
  /\ UNCHANGED <<orchVars, connected, podIP>>

Recover(w) == RestartWorker(w) \/ RegisterFails(w) \/ ReportFails(w)

HandleLate(request) ==
  /\ late' = late \ {request}
  /\ \/ /\ request.call = "RegisterClient"
        /\ \E reply \in Replies :
             RegisterClient(request.worker, request.ip, reply)
     \/ /\ request.call = "ReceiveOutput"
        /\ ReceiveOutput(request.item)
  /\ disturbed' = TRUE
  /\ UNCHANGED <<workerVars, faults>>

FStep(w) ==
  /\ Step(w) \/ Recover(w)
  /\ UNCHANGED <<faults, late, disturbed>>

FNext ==
  \/ \E w \in Workers : FStep(w)
  \/ \E request \in late : HandleLate(request)
  \/ FaultStep

FSpec == FInit /\ [][FNext]_faultVars

(* As in NetPerf, and a goroutine that runs a handler gets the lock. *)
FFairSpec ==
  /\ FSpec
  /\ \A w \in Workers : WF_faultVars(FStep(w))
  /\ WF_faultVars(\E request \in late : HandleLate(request))

-----------------------------------------------------------------------------
FTypeOK ==
  /\ TypeOK
  /\ faults \in 0..MaxFaults
  /\ late \subseteq LateRequests
  /\ disturbed \in BOOLEAN

(* Lost connections, dying containers and replaced Pods do not break       *)
(* mutual exclusion: only an orchestrator that has forgotten its workers,  *)
(* or that takes a request of the past for one of now, does.               *)
OneJobUnlessDisturbed == ~disturbed => OneJobAtATime

(* Nor do they file a point under another test case or MSS. *)
AttributionUnlessDisturbed == ~disturbed => Attribution

(* No measurement is recorded twice and each row's points come in the      *)
(* order of the sweep, whatever was lost: an iperf measurement is advanced *)
(* when it is handed out and so is not handed out again, a netperf one is  *)
(* handed out until its output has come.                                   *)
MeasuredOnce ==
  ~disturbed =>
    \A n \in Cases : \A i, j \in DOMAIN dataPoints[n] :
      i < j => dataPoints[n][i].mss < dataPoints[n][j].mss

(* The printed rows follow the table and none is printed twice, however    *)
(* many are missing, and even if points of the past were filed in them: a  *)
(* label is only appended for the current case, which only moves on.       *)
RowsFollowTable ==
  datapointsFlushed =>
    LET rows == stdout[1].rows IN
    \A i, j \in DOMAIN rows : i < j => rows[i].label < rows[j].label

(* Without faults the report is complete, although an iperf case is        *)
(* Finished before its last output is there and the next one is current.   *)
CompleteWithoutFaults == faults = 0 => CompleteReport

(* The measurements that the report shows. *)
Shown(rows) ==
  UNION {{<<rows[k].label, rows[k].points[i].mss>> :
            i \in DOMAIN rows[k].points} : k \in DOMAIN rows}

Printed == Shown(stdout[1].rows)

(* A fault never costs the report a netperf case: it is handed out again   *)
(* until an output has come, and that output is one of its own.            *)
NetperfIsMeasured ==
  datapointsFlushed /\ ~disturbed =>
    \A n \in Cases : IsNetperf(n) =>
      \E k \in DOMAIN stdout[1].rows :
        LET row == stdout[1].rows[k] IN
        /\ row.label = n
        /\ \E i \in DOMAIN row.points : row.points[i].from = <<n, 0>>

(* A fault costs the report one measurement at most: no output is taken    *)
(* twice while another one is missing, and what a lost worker had in hand  *)
(* is all that is skipped.                                                 *)
FewAreMissing ==
  datapointsFlushed /\ ~disturbed => Cardinality(Plan \ Printed) <= faults

(* A registered worker whose servers do not run and that has not been told *)
(* to start them is never told again: RegisterClient does so once.         *)
ServersLost ==
  {w \in Registered :
     ~servers[w] /\ ~(pc[w] = "answered" /\ item[w].kind = "server")}

(* A fault costs at most one worker its servers, and without a fault every *)
(* registered worker has them or is about to start them.                   *)
FewServersAreLost == ~disturbed => Cardinality(ServersLost) <= faults

-----------------------------------------------------------------------------
(* Until it is disturbed a run is a campaign that may lose measurements    *)
(* (LossyCampaign.tla) but keeps their order and reports after the last.   *)
Open(n) == {m \in Sweep(n) : ~Finished[n] /\ (IsNetperf(n) \/ m >= MSS[n])}

Left == Active \cup UNION {{<<n, m>> : m \in Open(n)} : n \in Cases}

Lossy == INSTANCE LossyCampaign
  WITH left <- Left, recorded <- Measured, active <- Active,
       reported <- datapointsFlushed

ImplementsLossyCampaign ==
  Lossy!Init /\ [][Lossy!Next \/ UNCHANGED Lossy!vars \/ disturbed']_faultVars
=============================================================================
