---------------------------- MODULE Orchestrator ----------------------------
(***************************************************************************)
(* The orchestrator of the network benchmark: the package variables of     *)
(* nptest.go and the two RPC handlers, each of which runs under globalLock *)
(* and is therefore one atomic step.  The handlers are relations between   *)
(* the state, the call's argument and (for RegisterClient) the reply; the  *)
(* modules that extend this one deliver the calls.                         *)
(***************************************************************************)
EXTENDS NetPerfTypes

VARIABLES
  workerStateMap,     \* [registered workers -> [idle, IP]]
  MSS,                \* testcases[n].MSS
  Finished,           \* testcases[n].Finished
  currentJobIndex,    \* index of the test case handed out last
  dataPoints,         \* points recorded per label; a label is a test case
  dataPointKeys,      \* labels in the order of their first point
  datapointsFlushed,
  stdout              \* the CSV blocks printed so far

orchVars == <<workerStateMap, MSS, Finished, currentJobIndex, dataPoints,
              dataPointKeys, datapointsFlushed, stdout>>

(* sentServerItem is written once and never read: left out. *)
WorkerState == [idle : BOOLEAN, IP : PodIPs]

(* A recorded point; "from" is the measurement its bandwidth came from. *)
Points == [mss : Int, from : Measurements]

(* What flushDataPointsToCsv prints, without the Maximum column. *)
CsvBlocks ==
  [header : Seq(Int), rows : Seq([label : Cases, points : Seq(Points)])]

Registered == DOMAIN workerStateMap

OrchestratorInit ==
  /\ workerStateMap = [w \in {} |-> [idle |-> TRUE, IP |-> <<w, 0>>]]
  /\ MSS = [n \in Cases |-> Testcases[n].MSS]
  /\ Finished = [n \in Cases |-> FALSE]
  /\ currentJobIndex = 1
  /\ dataPoints = [n \in Cases |-> << >>]
  /\ dataPointKeys = << >>
  /\ datapointsFlushed = FALSE
  /\ stdout = << >>

OrchestratorTypeOK ==
  /\ Registered \subseteq Workers
  /\ workerStateMap \in [Registered -> WorkerState]
  /\ MSS \in [Cases -> Nat]
  /\ Finished \in [Cases -> BOOLEAN]
  /\ currentJobIndex \in Cases
  /\ dataPoints \in [Cases -> Seq(Points)]
  /\ dataPointKeys \in Seq(Cases)
  /\ datapointsFlushed \in BOOLEAN
  /\ stdout \in Seq(CsvBlocks)

-----------------------------------------------------------------------------
(* RegisterClient *)

(* Mutant: allWorkersIdle is not consulted. *)
SystemIdleBut_Unchecked(w) == w \in Registered

(* allWorkersIdle() as RegisterClient(w) finds it: w itself was just set   *)
(* to idle.                                                                *)
SystemIdleBut(w) == \A v \in Registered \ {w} : workerStateMap[v].idle

SetIdle(w, idle) ==
  workerStateMap' = [workerStateMap EXCEPT ![w].idle = idle]

(* Mutant: the loop over the cases does not stop at the first unfinished.  *)
FirstUnfinished_Any(n) == n \in Cases /\ ~Finished[n]

(* The loop over the test cases leaves at the first unfinished one. *)
FirstUnfinished(n) ==
  /\ n \in Cases
  /\ ~Finished[n]
  /\ \A m \in Cases : m < n => Finished[m]

AllFinished == \A n \in Cases : Finished[n]

TargetHost(n) ==
  IF Testcases[n].ClusterIP
    THEN W2Service
    ELSE workerStateMap[Testcases[n].DestinationNode].IP

(* The work item for test case n; netperf items carry no MSS. *)
ItemFor(n) == ClientItem(n, TargetHost(n), IF IsNetperf(n) THEN 0 ELSE MSS[n])

(* Mutant: the MSS after the next one is compared with mssMax. *)
AdvanceSweep_Early(n) ==
  IF IsNetperf(n)
    THEN UNCHANGED <<MSS, Finished>>
    ELSE /\ MSS' = [MSS EXCEPT ![n] = @ + MssStepSize]
         /\ Finished' = [Finished EXCEPT ![n] = MSS[n] + 2 * MssStepSize > MssMax]

(* Mutant: a netperf case, too, is finished when it is handed out. *)
AdvanceSweep_AtOnce(n) ==
  IF IsNetperf(n)
    THEN Finished' = [Finished EXCEPT ![n] = TRUE] /\ UNCHANGED MSS
    ELSE /\ MSS' = [MSS EXCEPT ![n] = @ + MssStepSize]
         /\ Finished' = [Finished EXCEPT ![n] = MSS[n] + MssStepSize > MssMax]

(* An iperf case moves to its next MSS when it is handed out and is        *)
(* finished once that exceeds mssMax; netperf is finished by its output.   *)
AdvanceSweep(n) ==
  IF IsNetperf(n)
    THEN UNCHANGED <<MSS, Finished>>
    ELSE /\ MSS' = [MSS EXCEPT ![n] = @ + MssStepSize]
         /\ Finished' = [Finished EXCEPT ![n] = MSS[n] + MssStepSize > MssMax]

(* flushDataPointsToCsv: the MSS header is taken from some label with more *)
(* than one point, in the unspecified order of a Go map, or is left empty. *)
Column(n) == [i \in DOMAIN dataPoints[n] |-> dataPoints[n][i].mss]

(* Mutant: a label with a single point is not skipped. *)
Headers_NoSkip == {Column(n) : n \in {m \in Cases : dataPoints[m] # << >>}}

Headers ==
  LET multi == {n \in Cases : Len(dataPoints[n]) > 1}
  IN  IF multi = {} THEN {<< >>} ELSE {Column(n) : n \in multi}

Rows == [i \in DOMAIN dataPointKeys |->
           [label |-> dataPointKeys[i], points |-> dataPoints[dataPointKeys[i]]]]

FlushDataPointsToCsv ==
  \E header \in Headers :
    stdout' = Append(stdout, [header |-> header, rows |-> Rows])

(* Mutant: a new worker is left idle instead of told to start its servers. *)
Enroll_Idle(w, ip, reply) ==
  /\ w \notin Registered
  /\ reply = IdleItem
  /\ workerStateMap' = [v \in Registered \cup {w} |->
                          IF v = w THEN [idle |-> TRUE, IP |-> ip]
                                   ELSE workerStateMap[v]]
  /\ UNCHANGED <<MSS, Finished, currentJobIndex, dataPoints, dataPointKeys,
                 datapointsFlushed, stdout>>

(* A worker that is not in the map is enrolled as idle, with its IP, and   *)
(* told to start its servers.                                              *)
Enroll(w, ip, reply) ==
  /\ w \notin Registered
  /\ reply = ServerItem
  /\ workerStateMap' = [v \in Registered \cup {w} |->
                          IF v = w THEN [idle |-> TRUE, IP |-> ip]
                                   ELSE workerStateMap[v]]
  /\ UNCHANGED <<MSS, Finished, currentJobIndex, dataPoints, dataPointKeys,
                 datapointsFlushed, stdout>>

(* Another worker is busy, the next case starts elsewhere, or its          *)
(* destination has not registered yet.                                     *)
NothingFor(w) ==
  \/ ~SystemIdleBut(w)
  \/ \E n \in Cases :
       /\ FirstUnfinished(n)
       /\ \/ Testcases[n].SourceNode # w
          \/ Testcases[n].DestinationNode \notin Registered

(* Mutant: a known worker is not set idle before work is allocated. *)
StandBy_KeepsBusy(w, reply) ==
  /\ w \in Registered
  /\ NothingFor(w)
  /\ reply = IdleItem
  /\ UNCHANGED orchVars

StandBy(w, reply) ==
  /\ w \in Registered
  /\ NothingFor(w)
  /\ reply = IdleItem
  /\ SetIdle(w, TRUE)
  /\ UNCHANGED <<MSS, Finished, currentJobIndex, dataPoints, dataPointKeys,
                 datapointsFlushed, stdout>>

(* Hand the next measurement of the first unfinished case to w. *)
Allocate(w, n, reply) ==
  /\ w \in Registered
  /\ SystemIdleBut(w)
  /\ FirstUnfinished(n)
  /\ Testcases[n].SourceNode = w
  /\ Testcases[n].DestinationNode \in Registered
  /\ reply = ItemFor(n)
  /\ SetIdle(w, FALSE)
  /\ currentJobIndex' = n
  /\ AdvanceSweep(n)
  /\ UNCHANGED <<dataPoints, dataPointKeys, datapointsFlushed, stdout>>

(* Everything is finished: the CSV is printed, by the first poll only. *)
Conclude(w, reply) ==
  /\ w \in Registered
  /\ SystemIdleBut(w)
  /\ AllFinished
  /\ reply = IdleItem
  /\ SetIdle(w, TRUE)
  /\ IF datapointsFlushed THEN UNCHANGED stdout ELSE FlushDataPointsToCsv
  /\ datapointsFlushed' = TRUE
  /\ UNCHANGED <<MSS, Finished, currentJobIndex, dataPoints, dataPointKeys>>

Replies == {IdleItem, ServerItem} \cup {ItemFor(n) : n \in {m \in Cases :
             Testcases[m].DestinationNode \in Registered}}

RegisterClient(w, ip, reply) ==
  \/ Enroll(w, ip, reply)
  \/ StandBy(w, reply)
  \/ \E n \in Cases : Allocate(w, n, reply)
  \/ Conclude(w, reply)

-----------------------------------------------------------------------------
(* ReceiveOutput *)

RegisterDataPoint(label, point) ==
  /\ dataPoints' = [dataPoints EXCEPT ![label] = Append(@, point)]
  /\ dataPointKeys' = IF dataPoints[label] = << >>
                        THEN Append(dataPointKeys, label)
                        ELSE dataPointKeys

(* Mutant: the sweep is taken as it is now, one step ahead of the output.  *)
FiledMSS_Advanced(netperf) == IF netperf THEN 0 ELSE MSS[currentJobIndex]

(* The MSS an output is filed under: of the sweep that was advanced when   *)
(* the item was handed out; netperf outputs are filed under 0.             *)
FiledMSS(netperf) ==
  IF netperf THEN 0 ELSE MSS[currentJobIndex] - MssStepSize

(* The output is credited to currentJobIndex, whoever sent it.  The        *)
(* branch is taken on data.Type, the type of the item that was run.  The   *)
(* sender stays busy until it registers again.                             *)
ReceiveOutput(item) ==
  LET netperf == IsNetperf(item.test) IN
  /\ RegisterDataPoint(currentJobIndex,
       [mss |-> FiledMSS(netperf), from |-> MeasurementOf(item)])
  /\ Finished' = [Finished EXCEPT ![currentJobIndex] = @ \/ netperf]
  /\ UNCHANGED <<workerStateMap, MSS, currentJobIndex, datapointsFlushed,
                 stdout>>
=============================================================================
