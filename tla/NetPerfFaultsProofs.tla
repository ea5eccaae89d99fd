------------------------ MODULE NetPerfFaultsProofs -------------------------
(***************************************************************************)
(* What survives failures, for every table, any set of workers, any number *)
(* and any kind of faults: the types, and, until the orchestrator is       *)
(* restarted or handles a request of the past, mutual exclusion, the       *)
(* attribution of the points and their order.  The invariants of           *)
(* NetPerfProofs and NetPerfOrderProofs are preserved, because a fault can *)
(* only take a measurement away from a worker that the orchestrator goes   *)
(* on counting as busy.  And what the faults cost is bounded: each pays    *)
(* for one measurement, never of netperf, and for the servers of one       *)
(* worker at most.                                                         *)
(***************************************************************************)
EXTENDS NetPerfFaults, NetPerfReportProofs, FiniteSetTheorems

LateOutputs ==
  \A request \in late :
    request.call = "ReceiveOutput" => request.item \in ClientItems

FTypes == FTypeOK /\ HoldsClientItem /\ LateOutputs

FInv == FTypes /\ (~disturbed => IInv /\ OrderInv)

(* Workers only lose measurements. *)
LosesOnly ==
  /\ WorkerTypeOK'
  /\ HoldsClientItem'
  /\ \A v \in Workers : Holds(v)' => Holds(v) /\ item'[v] = item[v]

-----------------------------------------------------------------------------
LEMMA LosingWorkKeepsInvariants ==
  ASSUME IInv, OrderInv, UNCHANGED orchVars, LosesOnly
  PROVE  IInv' /\ OrderInv'
<1>1. OrderInv'
  BY LosingWorkKeepsOrder DEF orchVars, orderVars, LosesOnly
<1> USE DEF orchVars, LosesOnly
<1>2. TypeOK'
  BY DEF IInv, TypeOK, OrchestratorTypeOK, Registered
<1>3. BusyUnique' /\ Attribution'
  BY DEF IInv, BusyUnique, Attribution, Registered
<1>4. HolderIsBusy'
  BY DEF IInv, HolderIsBusy, Registered
<1>5. HolderIsCurrent'
  BY DEF IInv, HolderIsCurrent, MeasurementOf, FiledMSS
<1> QED
  BY <1>1, <1>2, <1>3, <1>4, <1>5 DEF IInv

(* The end of a container, whatever becomes of its connection. *)
LEMMA DieLosesOnly ==
  ASSUME WorkerTypeOK, HoldsClientItem, NEW w \in Workers, Die(w),
         connected' \in [Workers -> BOOLEAN], podIP' \in [Workers -> Nat]
  PROVE  LosesOnly
<1>1. /\ pc' = [pc EXCEPT ![w] = "down"]
      /\ servers' = [servers EXCEPT ![w] = FALSE]
      /\ item' = [item EXCEPT ![w] = IdleItem]
  BY DEF Die, Drop
<1>2. WorkerTypeOK'
  BY <1>1, ItemKinds DEF WorkerTypeOK, Locations
<1>3. HoldsClientItem'
  BY <1>1 DEF WorkerTypeOK, HoldsClientItem
<1>4. \A v \in Workers : Holds(v)' => Holds(v) /\ item'[v] = item[v]
  BY <1>1 DEF WorkerTypeOK, Holds
<1> QED
  BY <1>2, <1>3, <1>4 DEF LosesOnly

(* A request that outlives its connection is one that its worker sent. *)
LEMMA DisconnectTypes ==
  ASSUME FTypes, NEW w \in Workers, NEW kind, Fault(kind), Disconnect(w)
  PROVE  /\ faults' \in 0..MaxFaults
         /\ connected' \in [Workers -> BOOLEAN]
         /\ late' \subseteq LateRequests
         /\ LateOutputs'
<1>1. /\ WorkerTypeOK /\ faults \in 0..MaxFaults /\ MaxFaults \in Nat
      /\ faults < MaxFaults /\ faults' = faults + 1
  BY FaultsAssumption DEF FTypes, FTypeOK, TypeOK, Fault
<1>2. connected' \in [Workers -> BOOLEAN]
  BY <1>1 DEF WorkerTypeOK, Disconnect
<1>3. faults' \in 0..MaxFaults /\ faults + 1 \in 1..MaxFaults
  BY <1>1
<1>4. RequestOf(w) \in LateRequests
  BY <1>1, <1>3 DEF RequestOf, LateRequests, WorkerTypeOK, MyIP, PodIPs
<1>5. pc[w] \in {"registering", "reporting"}
        /\ RequestOf(w).call = "ReceiveOutput" =>
          RequestOf(w).item \in ClientItems
  BY DEF RequestOf, FTypes, HoldsClientItem
<1>6. late' \subseteq LateRequests
  BY <1>4 DEF Disconnect, FTypes, FTypeOK
<1>7. LateOutputs'
  <2>1. CASE UNCHANGED late
    BY <2>1 DEF FTypes, LateOutputs
  <2>2. CASE /\ pc[w] \in {"registering", "reporting"}
             /\ late' = late \cup {RequestOf(w)}
    BY <1>5, <2>2 DEF FTypes, LateOutputs
  <2> QED
    BY <2>1, <2>2 DEF Disconnect
<1> QED
  BY <1>2, <1>3, <1>6, <1>7

(* A step that does not concern the orchestrator. *)
LEMMA LosingWorkKeepsFInv ==
  ASSUME FInv, UNCHANGED <<orchVars, disturbed>>, LosesOnly,
         faults' \in 0..MaxFaults, late' \subseteq LateRequests, LateOutputs'
  PROVE  FInv'
<1>1. FTypes'
  BY DEF FInv, FTypes, FTypeOK, TypeOK, OrchestratorTypeOK, Registered,
         orchVars, LosesOnly
<1> QED
  BY <1>1, LosingWorkKeepsInvariants DEF FInv

(* The orchestrator starts from its initial values again.                  *)
LEMMA RestartIsInit == RestartOrchestrator => OrchestratorInit'
<1> SUFFICES ASSUME RestartOrchestrator PROVE OrchestratorInit'
  OBVIOUS
<1>1. workerStateMap' = [w \in {} |-> [idle |-> TRUE, IP |-> <<w, 0>>]]
  BY DEF RestartOrchestrator
<1> QED
  BY <1>1 DEF RestartOrchestrator, OrchestratorInit

LEMMA RestartKeepsFInv ==
  ASSUME FInv, RestartOrchestrator
  PROVE  FInv'
<1>1. OrchestratorInit'
  BY RestartIsInit
<1>2. OrchestratorTypeOK'
  BY <1>1, OrchestratorInitType, PTL
<1>3. WorkerTypeOK' /\ HoldsClientItem'
  BY DEF RestartOrchestrator, FInv, FTypes, FTypeOK, TypeOK, WorkerTypeOK,
         HoldsClientItem
<1>4. faults' \in 0..MaxFaults /\ late' = {} /\ disturbed' = TRUE
  BY FaultsAssumption
     DEF RestartOrchestrator, Fault, FInv, FTypes, FTypeOK
<1> QED
  BY <1>2, <1>3, <1>4 DEF FInv, FTypes, FTypeOK, TypeOK, LateOutputs

LEMMA FaultStepKeepsFInv ==
  ASSUME FInv, FaultStep
  PROVE  FInv'
<1>1. FTypes /\ WorkerTypeOK /\ HoldsClientItem
  BY DEF FInv, FTypes, FTypeOK, TypeOK
<1>2. ASSUME NEW w \in Workers, BreakConnection(w)
      PROVE  FInv'
  <2>1. /\ connected' \in [Workers -> BOOLEAN] /\ faults' \in 0..MaxFaults
        /\ late' \subseteq LateRequests /\ LateOutputs'
    BY <1>1, <1>2, DisconnectTypes DEF BreakConnection
  <2>2. UNCHANGED <<orchVars, pc, item, servers, podIP, disturbed>>
    BY <1>2 DEF BreakConnection
  <2>3. LosesOnly
    BY <1>1, <2>1, <2>2 DEF LosesOnly, WorkerTypeOK, HoldsClientItem, Holds
  <2> QED
    BY <2>1, <2>2, <2>3, LosingWorkKeepsFInv
<1>3. ASSUME NEW w \in Workers, CrashWorker(w)
      PROVE  FInv'
  <2>1. /\ connected' \in [Workers -> BOOLEAN] /\ faults' \in 0..MaxFaults
        /\ late' \subseteq LateRequests /\ LateOutputs'
    BY <1>1, <1>3, DisconnectTypes DEF CrashWorker
  <2>2. podIP' \in [Workers -> Nat]
    BY <1>1, <1>3 DEF CrashWorker, WorkerTypeOK
  <2>3. LosesOnly
    BY <1>1, <1>3, <2>1, <2>2, DieLosesOnly DEF CrashWorker
  <2> QED
    BY <1>3, <2>1, <2>3, LosingWorkKeepsFInv DEF CrashWorker
<1>4. ASSUME NEW w \in Workers, ReplacePod(w)
      PROVE  FInv'
  <2>1. /\ connected' \in [Workers -> BOOLEAN] /\ faults' \in 0..MaxFaults
        /\ late' \subseteq LateRequests /\ LateOutputs'
    BY <1>1, <1>4, DisconnectTypes DEF ReplacePod
  <2>2. podIP' \in [Workers -> Nat]
    BY <1>1, <1>4 DEF ReplacePod, WorkerTypeOK
  <2>3. LosesOnly
    BY <1>1, <1>4, <2>1, <2>2, DieLosesOnly DEF ReplacePod
  <2> QED
    BY <1>4, <2>1, <2>3, LosingWorkKeepsFInv DEF ReplacePod
<1> QED
  BY <1>2, <1>3, <1>4, RestartKeepsFInv DEF FaultStep

LEMMA RecoverLosesOnly ==
  ASSUME WorkerTypeOK, HoldsClientItem, NEW w \in Workers, Recover(w)
  PROVE  LosesOnly /\ UNCHANGED orchVars
<1>1. CASE RestartWorker(w)
  <2>1. /\ UNCHANGED <<orchVars, item, connected, servers, podIP>>
        /\ pc' = [pc EXCEPT ![w] = "dial"]
    BY <1>1 DEF RestartWorker, Goto
  <2> QED
    BY <2>1 DEF WorkerTypeOK, Locations, HoldsClientItem, Holds, LosesOnly
<1>2. CASE RegisterFails(w)
  <2>1. /\ UNCHANGED <<orchVars, connected, servers, podIP>>
        /\ pc' = [pc EXCEPT ![w] = "dial"]
        /\ item' = [item EXCEPT ![w] = IdleItem]
    BY <1>2 DEF RegisterFails, Drop
  <2>2. WorkerTypeOK' /\ HoldsClientItem'
    BY <2>1, ItemKinds DEF WorkerTypeOK, Locations, HoldsClientItem
  <2>3. \A v \in Workers : Holds(v)' => Holds(v) /\ item'[v] = item[v]
    BY <2>1 DEF WorkerTypeOK, Holds
  <2> QED
    BY <2>1, <2>2, <2>3 DEF LosesOnly
<1>3. CASE ReportFails(w)
  <2>1. Die(w) /\ UNCHANGED <<orchVars, connected, podIP>>
    BY <1>3 DEF ReportFails
  <2> QED
    BY <2>1, DieLosesOnly DEF WorkerTypeOK
<1> QED
  BY <1>1, <1>2, <1>3 DEF Recover

LEMMA FStepKeepsFInv ==
  ASSUME FInv, NEW w \in Workers, FStep(w)
  PROVE  FInv'
<1>1. /\ FTypes /\ WorkerTypeOK /\ HoldsClientItem /\ TypeOK
      /\ UNCHANGED <<faults, late, disturbed>>
  BY DEF FInv, FTypes, FTypeOK, TypeOK, FStep
<1>2. LateOutputs'
  BY <1>1 DEF FTypes, LateOutputs
<1>3. CASE Step(w)
  <2>1. TypeOK' /\ HoldsClientItem'
    BY <1>1, <1>3, StepType, StepHoldsClientItem
  <2>2. ~disturbed' => IInv' /\ OrderInv'
    BY <1>1, <1>3, StepIInv, StepOrder DEF FInv
  <2> QED
    BY <1>1, <1>2, <2>1, <2>2 DEF FInv, FTypes, FTypeOK
<1>4. CASE Recover(w)
  BY <1>1, <1>2, <1>4, RecoverLosesOnly, LosingWorkKeepsFInv
     DEF FTypes, FTypeOK
<1> QED
  BY <1>3, <1>4 DEF FStep

LEMMA HandleLateKeepsFInv ==
  ASSUME FInv, NEW request \in late, HandleLate(request)
  PROVE  FInv'
<1>1. /\ FTypes /\ OrchestratorTypeOK /\ WorkerTypeOK /\ HoldsClientItem
      /\ UNCHANGED <<workerVars, faults>> /\ disturbed' = TRUE
      /\ late' = late \ {request}
  BY DEF FInv, FTypes, FTypeOK, TypeOK, HandleLate
<1>2. request \in LateRequests
  BY <1>1 DEF FTypes, FTypeOK
<1>3. OrchestratorTypeOK'
  <2>1. CASE \E reply \in Replies :
               RegisterClient(request.worker, request.ip, reply)
    BY <1>1, <1>2, <2>1, RegisterClientType DEF LateRequests
  <2>2. CASE request.call = "ReceiveOutput" /\ ReceiveOutput(request.item)
    BY <1>1, <2>2, ReceiveOutputType DEF FTypes, LateOutputs
  <2> QED
    BY <2>1, <2>2 DEF HandleLate
<1>4. WorkerTypeOK' /\ HoldsClientItem'
  BY <1>1 DEF workerVars, WorkerTypeOK, HoldsClientItem
<1>5. late' \subseteq LateRequests /\ LateOutputs'
  BY <1>1 DEF FTypes, FTypeOK, LateOutputs
<1> QED
  BY <1>1, <1>3, <1>4, <1>5 DEF FInv, FTypes, FTypeOK, TypeOK

THEOREM FaultInvariantHolds == FSpec => []FInv
<1>1. FInit => FInv
  <2> SUFFICES ASSUME FInit PROVE FInv
    OBVIOUS
  <2>1. IInv /\ OrderInv
    BY InitIInv, InitOrder DEF FInit
  <2>2. faults = 0 /\ late = {} /\ disturbed = FALSE
    BY DEF FInit
  <2>3. faults \in 0..MaxFaults
    BY <2>2, FaultsAssumption
  <2> QED
    BY <2>1, <2>2, <2>3 DEF IInv, FInv, FTypes, FTypeOK, LateOutputs
<1>2. FInv /\ [FNext]_faultVars => FInv'
  <2> SUFFICES ASSUME FInv, [FNext]_faultVars PROVE FInv'
    OBVIOUS
  <2>1. CASE FNext
    BY <2>1, FStepKeepsFInv, HandleLateKeepsFInv, FaultStepKeepsFInv DEF FNext
  <2>2. CASE UNCHANGED faultVars
    <3>1. /\ UNCHANGED <<orchVars, disturbed, faults, late>> /\ UNCHANGED vars
          /\ WorkerTypeOK /\ HoldsClientItem
      BY <2>2 DEF faultVars, vars, FInv, FTypes, FTypeOK, TypeOK
    <3>2. LosesOnly
      BY <3>1 DEF vars, workerVars, LosesOnly, WorkerTypeOK, HoldsClientItem,
                  Holds
    <3>3. faults' \in 0..MaxFaults /\ late' \subseteq LateRequests
          /\ LateOutputs'
      BY <3>1 DEF FInv, FTypes, FTypeOK, LateOutputs
    <3> QED
      BY <3>1, <3>2, <3>3, LosingWorkKeepsFInv
  <2> QED
    BY <2>1, <2>2
<1> QED
  BY <1>1, <1>2, PTL DEF FSpec

-----------------------------------------------------------------------------
(* Every variable keeps its type, whatever fails and whenever a late       *)
(* request is handled.                                                     *)
THEOREM FTypeCorrect == FSpec => []FTypeOK
<1>1. FInv => FTypeOK
  BY DEF FInv, FTypes
<1> QED
  BY FaultInvariantHolds, <1>1, PTL

(* Mutual exclusion of the measurements survives lost connections, dying   *)
(* worker containers and replaced Pods.                                    *)
THEOREM MutualExclusionUnderFaults == FSpec => []OneJobUnlessDisturbed
<1>1. FInv => OneJobUnlessDisturbed
  BY DEF FInv, IInv, HolderIsBusy, BusyUnique, OneJobAtATime,
         OneJobUnlessDisturbed
<1> QED
  BY FaultInvariantHolds, <1>1, PTL

(* These failures can lose a point but never file one under another test   *)
(* case or MSS.                                                            *)
THEOREM PointsAreAttributedUnderFaults == FSpec => []AttributionUnlessDisturbed
<1>1. FInv => AttributionUnlessDisturbed
  BY DEF FInv, IInv, AttributionUnlessDisturbed
<1> QED
  BY FaultInvariantHolds, <1>1, PTL

(* Nor do they make a measurement count twice, or out of its order.        *)
THEOREM PointsAreOrderedUnderFaults == FSpec => []MeasuredOnce
<1>1. FInv => MeasuredOnce
  BY DEF FInv, OrderInv, RowsIncrease, Increasing, MeasuredOnce
<1> QED
  BY FaultInvariantHolds, <1>1, PTL

-----------------------------------------------------------------------------
(* What the orchestrator keeps to itself whatever calls it handles, those  *)
(* of the past included: its table (TableInv), and what it prints from it. *)

ReportInv ==
  IF datapointsFlushed THEN RowsFollowTable ELSE stdout = << >>

TableReportInv == TableInv /\ ReportInv

LEMMA SameReportInv ==
  ASSUME ReportInv, UNCHANGED <<datapointsFlushed, stdout>>
  PROVE  ReportInv'
BY DEF ReportInv, RowsFollowTable

LEMMA ConcludeReports ==
  ASSUME TableReportInv, NEW w, NEW reply, Conclude(w, reply)
  PROVE  ReportInv'
<1>1. datapointsFlushed' = TRUE /\ AllFinished
  BY DEF Conclude
<1>2. CASE datapointsFlushed
  BY <1>1, <1>2, SameReportInv DEF Conclude, TableReportInv
<1>3. CASE ~datapointsFlushed
  <2>1. stdout = << >> /\ FlushDataPointsToCsv
    BY <1>3 DEF Conclude, TableReportInv, ReportInv
  <2>2. PICK header \in Headers : stdout' = Append(stdout, Block(header))
    BY <2>1 DEF FlushDataPointsToCsv, Block
  <2>3. stdout'[1].rows = Rows
    <3>1. stdout' = <<Block(header)>>
      BY <2>1, <2>2
    <3> QED
      BY <3>1 DEF Block
  <2>4. RowsFollowTable'
    BY <1>1, <2>3
       DEF TableReportInv, TableInv, KeysIncrease, RowsFollowTable, Rows
  <2> QED
    BY <1>1, <2>4 DEF ReportInv
<1> QED
  BY <1>2, <1>3

LEMMA RegisterKeepsTable ==
  ASSUME OrchestratorTypeOK, TableReportInv, NEW w, NEW ip, NEW reply,
         RegisterClient(w, ip, reply)
  PROVE  TableReportInv'
<1>1. ASSUME NEW n \in Cases, Allocate(w, n, reply)
      PROVE  TableReportInv'
  BY <1>1, AllocateKeepsTable, SameReportInv DEF Allocate, TableReportInv
<1>2. CASE Enroll(w, ip, reply) \/ StandBy(w, reply)
  BY <1>2, SameTable, SameReportInv
     DEF Enroll, StandBy, TableReportInv, orderVars
<1>3. CASE Conclude(w, reply)
  BY <1>3, SameTable, ConcludeReports DEF Conclude, TableReportInv, orderVars
<1> QED
  BY <1>1, <1>2, <1>3 DEF RegisterClient

LEMMA OutputKeepsTable ==
  ASSUME OrchestratorTypeOK, TableReportInv, NEW i \in ClientItems,
         ReceiveOutput(i)
  PROVE  TableReportInv'
BY ReceiveKeepsTable, SameReportInv DEF ReceiveOutput, TableReportInv

LEMMA FNextKeepsTable ==
  ASSUME FInv, TableReportInv, [FNext]_faultVars
  PROVE  TableReportInv'
<1>1. OrchestratorTypeOK /\ WorkerTypeOK /\ HoldsClientItem /\ LateOutputs
  BY DEF FInv, FTypes, FTypeOK, TypeOK
<1>2. CASE UNCHANGED orchVars
  BY <1>2, SameTable, SameReportInv DEF orchVars, orderVars, TableReportInv
<1>3. CASE OrchestratorInit'
  <2>1. TableInv'
    BY <1>3, InitTable, PTL
  <2> QED
    BY <1>3, <2>1 DEF OrchestratorInit, ReportInv, TableReportInv
<1>4. ASSUME NEW w \in Workers, Step(w)
      PROVE  TableReportInv'
  <2>1. CASE WorkerStep(w)
    BY <1>2, <2>1 DEF WorkerStep
  <2>2. CASE HandleRegister(w)
    BY <1>1, <2>2, RegisterKeepsTable DEF HandleRegister
  <2>3. CASE HandleReceive(w)
    <3>1. item[w] \in ClientItems /\ ReceiveOutput(item[w])
      BY <1>1, <2>3 DEF HandleReceive, Acknowledge, Goto, HoldsClientItem
    <3> QED
      BY <1>1, <3>1, OutputKeepsTable
  <2> QED
    BY <1>4, <2>1, <2>2, <2>3 DEF Step
<1>5. ASSUME NEW request \in late, HandleLate(request)
      PROVE  TableReportInv'
  BY <1>1, <1>5, RegisterKeepsTable, OutputKeepsTable
     DEF HandleLate, LateOutputs
<1>6. CASE RestartOrchestrator
  <2>1. OrchestratorInit'
    BY <1>6, RestartIsInit
  <2> QED
    BY <1>3, <2>1
<1>7. CASE UNCHANGED faultVars
  BY <1>2, <1>7 DEF faultVars, vars
<1>8. ASSUME NEW w \in Workers, Recover(w)
      PROVE  TableReportInv'
  BY <1>1, <1>2, <1>8, RecoverLosesOnly
<1>9. ASSUME NEW w \in Workers,
             BreakConnection(w) \/ CrashWorker(w) \/ ReplacePod(w)
      PROVE  TableReportInv'
  BY <1>2, <1>9 DEF BreakConnection, CrashWorker, ReplacePod
<1> QED
  BY <1>4, <1>5, <1>6, <1>7, <1>8, <1>9 DEF FNext, FStep, FaultStep

THEOREM TableInvariantHolds == FSpec => []TableReportInv
<1>1. FInit => TableReportInv
  BY InitTable DEF FInit, Init, OrchestratorInit, TableReportInv, ReportInv
<1>2. FInv /\ TableReportInv /\ [FNext]_faultVars => TableReportInv'
  BY FNextKeepsTable
<1> QED
  BY <1>1, <1>2, FaultInvariantHolds, PTL DEF FSpec

(* The rows of the report keep the order of the table, whatever fails and  *)
(* whatever is handled late.                                               *)
THEOREM RowsAreOrderedUnderFaults == FSpec => []RowsFollowTable
<1>1. TableReportInv => RowsFollowTable
  BY DEF TableReportInv, ReportInv, RowsFollowTable
<1> QED
  BY <1>1, TableInvariantHolds, PTL

-----------------------------------------------------------------------------
(* The lossy campaign: what is open in the orchestrator's table is what is *)
(* left, and the measurement in progress.                                  *)
Opens == UNION {{<<n, m>> : m \in Open(n)} : n \in Cases}

(* The measurements that are neither recorded nor going to be taken. *)
Missing == Plan \ (Left \cup Measured)

LEMMA OpensIs ==
  /\ Left = Active \cup Opens
  /\ \A x : x \in Opens <=> \E n \in Cases : \E m \in Open(n) : x = <<n, m>>
BY DEF Left, Opens

LEMMA SweepIsPlan ==
  \A n \in Cases : \A m \in Sweep(n) : m \in Int /\ m <= MssMax
BY InitialTypes DEF Sweep, Initial

(* Handing out the first open measurement. *)
LEMMA LossyStart ==
  ASSUME IInv, IInv', SweepPosition, NEW n \in Cases,
         FirstUnfinished(n), AdvanceSweep(n), currentJobIndex' = n,
         UNCHANGED <<dataPoints, datapointsFlushed>>, ~Somebody, Somebody'
  PROVE  SweepPosition' /\ Lossy!Start
<1> USE CaseNumbers DEF CasesAreNumbers
<1>1. /\ MSS \in [Cases -> Nat] /\ Finished \in [Cases -> BOOLEAN]
      /\ n \in Nat /\ MssStepSize \in Nat \ {0} /\ MssMax \in Nat
  BY InitialTypes DEF IInv, TypeOK, OrchestratorTypeOK
<1>2. \A k \in Cases \ {n} : MSS'[k] = MSS[k] /\ Finished'[k] = Finished[k]
  BY <1>1 DEF AdvanceSweep
<1>3. IsNetperf(n) => MSS' = MSS /\ Finished' = Finished
  BY DEF AdvanceSweep
<1>4. ~IsNetperf(n) => /\ MSS'[n] = MSS[n] + MssStepSize
                       /\ Finished'[n] <=> MSS[n] + MssStepSize > MssMax
  BY <1>1 DEF AdvanceSweep
<1> DEFINE next == IF IsNetperf(n) THEN 0 ELSE MSS[n]
<1>5. Current' = <<n, next>>
  BY <1>1, <1>3, <1>4 DEF Current, FiledMSS, IsNetperf
<1>6. ASSUME ~IsNetperf(n)
      PROVE  /\ MSS[n] \in Sweep(n)
             /\ (MSS[n] + MssStepSize - Initial(n)) % MssStepSize = 0
             /\ \A m \in Sweep(n) : m < MSS[n] + MssStepSize
                                      <=> m < MSS[n] \/ m = MSS[n]
  <2>1. /\ MSS[n] \in Nat /\ MSS[n] >= Initial(n) /\ MSS[n] <= MssMax
        /\ (MSS[n] - Initial(n)) % MssStepSize = 0
    BY <1>1, <1>6 DEF SweepPosition, FirstUnfinished
  <2> QED
    BY <1>6, <2>1, SweepStep
<1>7. SweepPosition'
  BY <1>1, <1>2, <1>3, <1>4, <1>6, InitialTypes
     DEF SweepPosition, IsNetperf, Initial
<1>8. Active = {} /\ Active' = {<<n, next>>} /\ Measured' = Measured
  <2>1. Active = {}
    BY ActiveIs DEF IInv
  <2>2. Active' = {Current'}
    BY DEF IInv, HolderIsCurrent, Active, Somebody, Current
  <2> QED
    BY <1>5, <2>1, <2>2 DEF Measured
<1>9. next \in Open(n)
  BY <1>1, <1>6 DEF Open, Sweep, FirstUnfinished
<1>10. ASSUME NEW x \in Opens
       PROVE  x = <<n, next>> \/ Lossy!Before(<<n, next>>, x)
  <2>1. PICK c \in Cases : \E m \in Open(c) : x = <<c, m>>
    BY OpensIs
  <2>2. PICK m \in Open(c) : x = <<c, m>>
    BY <2>1
  <2>3. m \in Sweep(c) /\ ~Finished[c] /\ (IsNetperf(c) \/ m >= MSS[c])
    BY DEF Open
  <2>4. c \in Nat /\ m \in Int
    BY <2>3, SweepIsPlan
  <2>5. n <= c
    BY <1>1, <2>3, <2>4 DEF FirstUnfinished
  <2>6. CASE c # n
    BY <1>1, <2>2, <2>4, <2>5, <2>6 DEF Lossy!Before
  <2>7. CASE c = n /\ IsNetperf(n)
    BY <2>2, <2>3, <2>7 DEF Sweep
  <2>8. CASE c = n /\ ~IsNetperf(n)
    BY <1>1, <2>2, <2>3, <2>4, <2>8 DEF Lossy!Before
  <2> QED
    BY <2>6, <2>7, <2>8
<1>11. \A k \in Cases : \A m :
         m \in Open(k) <=> m \in Open(k)' \/ (k = n /\ m = next)
  <2> TAKE k \in Cases
  <2> TAKE m
  <2>1. CASE k # n
    BY <1>2, <2>1 DEF Open, Sweep, IsNetperf
  <2>2. CASE k = n /\ IsNetperf(n)
    BY <1>3, <1>9, <2>2 DEF Open, Sweep, IsNetperf
  <2>3. CASE k = n /\ ~IsNetperf(n)
    <3>1. m \in Open(n) <=> m \in Sweep(n) /\ m >= MSS[n]
      BY <2>3 DEF Open, FirstUnfinished
    <3>2. m \in Open(n)' <=> m \in Sweep(n) /\ m >= MSS[n] + MssStepSize
      <4>1. m \in Open(n)' <=> /\ m \in Sweep(n) /\ ~Finished'[n]
                               /\ m >= MSS[n] + MssStepSize
        BY <1>4, <2>3 DEF Open, Sweep, IsNetperf
      <4>2. m \in Sweep(n) /\ m >= MSS[n] + MssStepSize => ~Finished'[n]
        BY <1>1, <1>4, <2>3, SweepIsPlan
      <4> QED
        BY <4>1, <4>2
    <3>3. m \in Sweep(n) => (m < MSS[n] + MssStepSize
                               <=> m < MSS[n] \/ m = MSS[n])
      BY <1>6, <2>3
    <3>4. m \in Sweep(n) => m \in Int
      BY SweepIsPlan
    <3>5. MSS[n] \in Sweep(n) /\ MSS[n] \in Nat /\ MssStepSize \in Nat
      BY <1>1, <1>6, <2>3
    <3>6. m \in Sweep(n) => (m >= MSS[n]
                               <=> m >= MSS[n] + MssStepSize \/ m = MSS[n])
      BY <3>3, <3>4, <3>5
    <3> QED
      BY <2>3, <3>1, <3>2, <3>5, <3>6
  <2> QED
    BY <2>1, <2>2, <2>3
<1> HIDE DEF next
<1>12. Opens = {<<n, next>>} \cup Opens'
  <2>1. \A x : x \in Opens' <=>
          \E k \in Cases : \E m \in Open(k)' : x = <<k, m>>
    BY DEF Opens
  <2>2. ASSUME NEW x \in Opens PROVE x \in {<<n, next>>} \cup Opens'
    BY <1>11, <2>1, OpensIs
  <2>3. ASSUME NEW x \in {<<n, next>>} \cup Opens' PROVE x \in Opens
    BY <1>9, <1>11, <2>1, OpensIs
  <2> QED
    BY <2>2, <2>3
<1>13. Left' = Active' \cup Opens'
  BY DEF Left, Opens
<1>14. Left = Opens /\ Left' = Left /\ <<n, next>> \in Left
  BY <1>8, <1>12, <1>13, OpensIs
<1>15. Lossy!Start
  BY <1>8, <1>10, <1>14 DEF Lossy!Start
<1> QED
  BY <1>7, <1>15

(* An output is recorded, and its measurement is left no longer. *)
LEMMA LossyFinish ==
  ASSUME IInv, SweepPosition, NEW i \in ClientItems,
         MeasurementOf(i) = Current, ReceiveOutput(i), Somebody, ~Somebody'
  PROVE  SweepPosition' /\ Lossy!Finish
<1> DEFINE n == currentJobIndex
           filed == FiledMSS(IsNetperf(n))
           point == [mss |-> filed, from |-> MeasurementOf(i)]
<1>1. /\ OrchestratorTypeOK /\ n \in Cases /\ i.test = n
      /\ Current = <<n, filed>>
  BY DEF IInv, TypeOK, OrchestratorTypeOK, MeasurementOf, Current
<1>2. filed \in Int /\ (~IsNetperf(n) => filed < MSS[n])
  BY <1>1, InitialTypes DEF FiledMSS, OrchestratorTypeOK
<1>3. /\ dataPoints' = [dataPoints EXCEPT ![n] = Append(@, point)]
      /\ Finished' = [Finished EXCEPT ![n] = @ \/ IsNetperf(n)]
      /\ UNCHANGED <<MSS, currentJobIndex, datapointsFlushed>>
  BY <1>1 DEF ReceiveOutput, RegisterDataPoint
<1>4. point \in Points
  <2>1. MeasurementOf(i) \in Measurements
    BY DEF MeasurementOf, Measurements, ClientItems
  <2> QED
    BY <1>2, <2>1 DEF Points
<1>5. point.mss = filed
  OBVIOUS
<1>6. IsNetperf(n) => filed = 0
  BY DEF FiledMSS
<1> HIDE DEF point, filed
<1>7. /\ Finished'[n] <=> Finished[n] \/ IsNetperf(n)
      /\ \A k \in Cases \ {n} : Finished'[k] = Finished[k]
  BY <1>1, <1>3 DEF OrchestratorTypeOK
<1>8. SweepPosition'
  BY <1>1, <1>3, <1>7 DEF SweepPosition
<1>9. Active = {<<n, filed>>} /\ Active' = {}
  <2>1. Active = {Current}
    BY ActiveIs DEF IInv
  <2>2. Active' = {}
    BY DEF Active, Somebody
  <2> QED
    BY <1>1, <2>1, <2>2
<1>10. Measured' = Measured \cup {<<n, filed>>}
  <2>1. \A x : x \in Measured' <=>
          \E k \in Cases : \E j \in DOMAIN dataPoints'[k] :
            x = <<k, dataPoints'[k][j].mss>>
    BY DEF Measured
  <2>2. \A k \in Cases \ {n} : dataPoints'[k] = dataPoints[k]
    BY <1>1, <1>3 DEF OrchestratorTypeOK
  <2>3. /\ Len(dataPoints[n]) \in Nat
        /\ DOMAIN dataPoints[n] = 1 .. Len(dataPoints[n])
        /\ DOMAIN dataPoints'[n] = 1 .. Len(dataPoints[n]) + 1
        /\ \A j \in DOMAIN dataPoints[n] :
             dataPoints'[n][j] = dataPoints[n][j]
        /\ dataPoints'[n][Len(dataPoints[n]) + 1] = point
    <3>1. /\ dataPoints[n] \in Seq(Points)
          /\ dataPoints'[n] = Append(dataPoints[n], point)
      BY <1>1, <1>3 DEF OrchestratorTypeOK
    <3> QED
      BY <1>4, <3>1
  <2>4. ASSUME NEW x \in Measured' PROVE x \in Measured \cup {<<n, filed>>}
    <3>1. PICK k \in Cases : \E j \in DOMAIN dataPoints'[k] :
                               x = <<k, dataPoints'[k][j].mss>>
      BY <2>1
    <3>2. PICK j \in DOMAIN dataPoints'[k] : x = <<k, dataPoints'[k][j].mss>>
      BY <3>1
    <3>3. CASE k # n
      BY <2>2, <3>2, <3>3, MeasuredIs
    <3>4. CASE k = n /\ j \in DOMAIN dataPoints[n]
      BY <2>3, <3>2, <3>4, MeasuredIs
    <3>5. CASE k = n /\ j \notin DOMAIN dataPoints[n]
      <4>1. j = Len(dataPoints[n]) + 1
        BY <2>3, <3>5
      <4> QED
        BY <1>5, <2>3, <3>2, <3>5, <4>1
    <3> QED
      BY <3>3, <3>4, <3>5
  <2>5. ASSUME NEW x \in Measured PROVE x \in Measured'
    <3>1. PICK k \in Cases : \E j \in DOMAIN dataPoints[k] :
                               x = <<k, dataPoints[k][j].mss>>
      BY MeasuredIs
    <3>2. PICK j \in DOMAIN dataPoints[k] : x = <<k, dataPoints[k][j].mss>>
      BY <3>1
    <3>3. j \in DOMAIN dataPoints'[k] /\ dataPoints'[k][j] = dataPoints[k][j]
      <4>1. CASE k # n
        BY <2>2, <4>1
      <4>2. CASE k = n
        BY <2>3, <4>2
      <4> QED
        BY <4>1, <4>2
    <3> QED
      BY <2>1, <3>2, <3>3
  <2>6. <<n, filed>> \in Measured'
    <3>1. Len(dataPoints[n]) + 1 \in DOMAIN dataPoints'[n]
      BY <2>3
    <3> QED
      BY <1>1, <1>5, <2>1, <2>3, <3>1
  <2> QED
    BY <2>4, <2>5, <2>6
<1>11. \A k \in Cases : \A m :
         m \in Open(k)' <=> m \in Open(k) /\ ~(k = n /\ m = filed)
  <2> TAKE k \in Cases
  <2> TAKE m
  <2>1. CASE k # n
    BY <1>3, <1>7, <2>1 DEF Open, Sweep, IsNetperf
  <2>2. CASE k = n /\ IsNetperf(n)
    BY <1>6, <1>7, <2>2 DEF Open, Sweep, IsNetperf
  <2>3. CASE k = n /\ ~IsNetperf(n)
    <3>1. k = n /\ ~IsNetperf(k)
      BY <2>3
    <3>2. (Finished'[k] <=> Finished[k]) /\ MSS'[k] = MSS[k]
      BY <1>3, <1>7, <3>1
    <3>3. m \in Open(k)' <=> m \in Open(k)
      BY <3>2 DEF Open
    <3>4. m \in Open(k) => m # filed
      <4>1. MSS[k] \in Nat /\ filed < MSS[k]
        BY <1>1, <1>2, <2>3 DEF OrchestratorTypeOK
      <4> QED
        BY <1>2, <3>1, <4>1 DEF Open
    <3> QED
      BY <3>1, <3>3, <3>4
  <2> QED
    BY <2>1, <2>2, <2>3
<1>12. Left' = Left \ {<<n, filed>>}
  <2>1. \A x : x \in Left' <=>
          \E k \in Cases : \E m \in Open(k)' : x = <<k, m>>
    BY <1>9 DEF Left
  <2>2. \A x : x \in Left \ {<<n, filed>>} <=>
          x # <<n, filed>> /\ \E k \in Cases : \E m \in Open(k) : x = <<k, m>>
    BY <1>9, OpensIs
  <2>3. ASSUME NEW x \in Left' PROVE x \in Left \ {<<n, filed>>}
    BY <1>11, <2>1, <2>2
  <2>4. ASSUME NEW x \in Left \ {<<n, filed>>} PROVE x \in Left'
    BY <1>11, <2>1, <2>2
  <2> QED
    BY <2>3, <2>4
<1>13. Lossy!Finish
  BY <1>3, <1>9, <1>10, <1>12 DEF Lossy!Finish
<1> QED
  BY <1>8, <1>13

(* The campaign when workers lose what they hold. *)
LEMMA WhatIsLost ==
  ASSUME IInv, IInv', UNCHANGED orchVars, LosesOnly
  PROVE  /\ Measured' = Measured /\ Opens' = Opens
         /\ Somebody' => Somebody
         /\ Active = IF Somebody THEN {Current} ELSE {}
         /\ Active' = IF Somebody' THEN {Current} ELSE {}
<1>1. /\ UNCHANGED <<MSS, Finished, currentJobIndex, dataPoints>>
      /\ Somebody' => Somebody
  BY DEF orchVars, LosesOnly, Somebody
<1>2. Current' = Current /\ Measured' = Measured /\ Opens' = Opens
  BY <1>1 DEF Current, FiledMSS, IsNetperf, Measured, Opens, Open, Sweep
<1>3. Active = (IF Somebody THEN {Current} ELSE {})
  BY ActiveIs DEF IInv
<1>4. Active' = (IF Somebody' THEN {Current} ELSE {})
  BY <1>2 DEF IInv, HolderIsCurrent, Active, Somebody, Current
<1> QED
  BY <1>1, <1>2, <1>3, <1>4

(* What workers lose is left to be taken again, or is missing. *)
LEMMA LossyLose ==
  ASSUME IInv, IInv', SweepPosition, UNCHANGED orchVars, LosesOnly
  PROVE  /\ SweepPosition' /\ (Lossy!Lose \/ UNCHANGED Lossy!vars)
         /\ Missing' \subseteq Missing \cup {Current}
         /\ (Somebody => Somebody') => Missing' \subseteq Missing
<1>1. UNCHANGED <<MSS, Finished, datapointsFlushed>>
  BY DEF orchVars
<1>2. Left = Active \cup Opens /\ Left' = Active' \cup Opens
  BY WhatIsLost DEF Left, Opens
<1>3. SweepPosition'
  BY <1>1 DEF SweepPosition
<1>4. CASE Somebody' <=> Somebody
  BY <1>1, <1>2, <1>3, <1>4, WhatIsLost DEF Lossy!vars, Missing
<1>5. CASE Somebody /\ ~Somebody'
  <2>1. Active = {Current} /\ Active' = {}
    BY <1>5, WhatIsLost
  <2>2. Left' \in {Left, Left \ Active}
    BY <1>2, <2>1
  <2>3. Missing' \subseteq Missing \cup {Current}
    BY <1>2, <2>1, WhatIsLost DEF Missing
  <2> QED
    BY <1>1, <1>3, <1>5, <2>1, <2>2, <2>3, WhatIsLost DEF Lossy!Lose
<1> QED
  BY <1>4, <1>5, WhatIsLost

LEMMA StepLossy ==
  ASSUME IInv, OrderInv, IInv', SweepPosition, NEW w \in Workers, Step(w)
  PROVE  /\ SweepPosition' /\ (Lossy!Next \/ UNCHANGED Lossy!vars)
         /\ Missing' \subseteq Missing
<1>1. ASSUME UNCHANGED taking, Somebody' <=> Somebody
      PROVE  /\ SweepPosition' /\ Measured' = Measured
             /\ Active' = Active /\ Left' = Left
             /\ Missing' \subseteq Missing
  <2>1. SweepPosition'
    BY <1>1 DEF taking, SweepPosition
  <2>2. Current' = Current /\ Measured' = Measured /\ Opens' = Opens
    BY <1>1 DEF taking, Current, FiledMSS, IsNetperf, Measured, Opens, Open,
                Sweep
  <2>3. Active = (IF Somebody THEN {Current} ELSE {})
    BY ActiveIs DEF IInv
  <2>4. Active' = (IF Somebody' THEN {Current} ELSE {})
    BY <2>2 DEF IInv, HolderIsCurrent, Active, Somebody, Current
  <2>5. Active' = Active /\ Left' = Left
    BY <1>1, <2>2, <2>3, <2>4 DEF Left, Opens
  <2> QED
    BY <2>1, <2>2, <2>5 DEF Missing
<1>2. CASE UNCHANGED orchVars /\ (Somebody' <=> Somebody)
  BY <1>1, <1>2 DEF orchVars, taking, Lossy!vars
<1>3. ASSUME NEW reply, NEW n \in Cases, Allocate(w, n, reply),
             ~Somebody, Somebody'
      PROVE  SweepPosition' /\ Lossy!Start /\ Missing' \subseteq Missing
  <2>1. SweepPosition' /\ Lossy!Start
    BY <1>3, LossyStart DEF Allocate
  <2> QED
    BY <2>1 DEF Lossy!Start, Missing
<1>4. ASSUME NEW reply, Enroll(w, MyIP(w), reply) \/ StandBy(w, reply),
             Somebody' <=> Somebody
      PROVE  /\ SweepPosition' /\ UNCHANGED Lossy!vars
             /\ Missing' \subseteq Missing
  BY <1>1, <1>4 DEF Enroll, StandBy, taking, Lossy!vars
<1>5. ASSUME NEW reply, Conclude(w, reply), ~Somebody, ~Somebody'
      PROVE  SweepPosition' /\ Lossy!Report /\ Missing' \subseteq Missing
  <2>1. Active = {}
    BY <1>5, ActiveIs DEF IInv
  <2>2. \A n \in Cases : Open(n) = {}
    BY <1>5 DEF Conclude, AllFinished, Open
  <2>3. Left = {}
    BY <2>1, <2>2, OpensIs
  <2> QED
    BY <1>1, <1>5, <2>3 DEF Conclude, taking, Lossy!Report
<1>6. ASSUME NEW i \in ClientItems, ReceiveOutput(i),
             MeasurementOf(i) = Current, Somebody, ~Somebody'
      PROVE  SweepPosition' /\ Lossy!Finish /\ Missing' \subseteq Missing
  <2>1. SweepPosition' /\ Lossy!Finish
    BY <1>6, LossyFinish
  <2> QED
    BY <2>1 DEF Lossy!Finish, Missing
<1> QED
  BY <1>2, <1>3, <1>4, <1>5, <1>6, StepCases DEF Lossy!Next

(* A fault that does not hit the orchestrator. *)
LEMMA FaultLosesOnly ==
  ASSUME FTypes, FTypes', NEW w \in Workers,
         BreakConnection(w) \/ CrashWorker(w) \/ ReplacePod(w)
  PROVE  LosesOnly /\ UNCHANGED orchVars
<1>1. WorkerTypeOK /\ WorkerTypeOK' /\ HoldsClientItem /\ HoldsClientItem'
  BY DEF FTypes, FTypeOK, TypeOK
<1>2. CASE BreakConnection(w)
  BY <1>1, <1>2 DEF BreakConnection, LosesOnly, Holds
<1>3. CASE CrashWorker(w) \/ ReplacePod(w)
  <2>1. Die(w) /\ UNCHANGED orchVars
    BY <1>3 DEF CrashWorker, ReplacePod
  <2> QED
    BY <1>1, <2>1, DieLosesOnly DEF WorkerTypeOK
<1> QED
  BY <1>2, <1>3

LEMMA InitLossy == FInit => SweepPosition /\ Lossy!Init
<1> SUFFICES ASSUME FInit PROVE SweepPosition /\ Lossy!Init
  OBVIOUS
<1>1. CInv /\ Abstract!Init
  BY InitCampaign DEF FInit
<1>2. \A n \in Cases : MSS[n] = Initial(n) /\ Finished[n] = FALSE
  BY DEF FInit, Init, OrchestratorInit, Initial
<1>3. ASSUME NEW n \in Cases PROVE Open(n) = Sweep(n)
  <2>1. \A m \in Sweep(n) : IsNetperf(n) \/ m >= Initial(n)
    BY InitialTypes DEF Sweep, Initial
  <2> QED
    BY <1>2, <2>1 DEF Open
<1>4. Measured = {} /\ Active = {} /\ datapointsFlushed = FALSE
  BY <1>1 DEF Abstract!Init
<1>5. Opens = Plan
  BY <1>3 DEF Opens, Plan
<1>6. Left = Plan
  BY <1>4, <1>5, OpensIs
<1> QED
  BY <1>1, <1>4, <1>6 DEF CInv, Lossy!Init

(* Until it is disturbed, a run with failures is a campaign that may lose  *)
(* measurements but keeps their order, and reports when none is left.      *)
THEOREM LossyCampaignIsImplemented == FSpec => ImplementsLossyCampaign
<1> DEFINE LossyStep == Lossy!Next \/ UNCHANGED Lossy!vars \/ disturbed'
<1>1. FInv /\ FInv' /\ (~disturbed => SweepPosition) /\ [FNext]_faultVars
        => (~disturbed' => SweepPosition') /\ [LossyStep]_faultVars
  <2> SUFFICES ASSUME FInv, FInv', ~disturbed => SweepPosition,
                      [FNext]_faultVars, ~disturbed'
               PROVE  /\ SweepPosition'
                      /\ Lossy!Next \/ UNCHANGED Lossy!vars
    OBVIOUS
  <2>1. UNCHANGED disturbed
    BY DEF FNext, FStep, HandleLate, FaultStep, BreakConnection, CrashWorker,
           ReplacePod, RestartOrchestrator, faultVars
  <2>2. IInv /\ OrderInv /\ IInv' /\ SweepPosition /\ FTypes /\ FTypes'
    BY <2>1 DEF FInv
  <2>3. CASE \E w \in Workers : Step(w)
    BY <2>2, <2>3, StepLossy
  <2>4. CASE \E w \in Workers : Recover(w)
    BY <2>2, <2>4, RecoverLosesOnly, LossyLose
       DEF FTypes, FTypeOK, TypeOK, Lossy!Next
  <2>5. CASE \E w \in Workers :
               BreakConnection(w) \/ CrashWorker(w) \/ ReplacePod(w)
    BY <2>2, <2>5, FaultLosesOnly, LossyLose DEF Lossy!Next
  <2>6. CASE UNCHANGED faultVars
    <3>1. UNCHANGED <<orchVars, pc, item, connected, servers, podIP>>
      BY <2>6 DEF faultVars, vars, workerVars
    <3>2. LosesOnly
      BY <2>2, <3>1 DEF LosesOnly, Holds, FTypes, FTypeOK, TypeOK
    <3> QED
      BY <2>2, <3>1, <3>2, LossyLose DEF Lossy!Next
  <2> QED
    BY <2>3, <2>4, <2>5, <2>6
       DEF FNext, FStep, HandleLate, FaultStep, RestartOrchestrator
<1>2. FInit => (~disturbed => SweepPosition) /\ Lossy!Init
  BY InitLossy
<1> QED
  BY <1>1, <1>2, FaultInvariantHolds, PTL DEF FSpec, ImplementsLossyCampaign
-----------------------------------------------------------------------------
(***************************************************************************)
(* What faults cost.  A fault either does its damage at once, when it ends *)
(* a container, or leaves a worker behind whose connection is gone and     *)
(* that does the damage itself when its call fails.  So every fault pays   *)
(* for one loss: the losses of a kind and the workers that are doomed to   *)
(* lose something are never more than the faults.                          *)
(***************************************************************************)
Doomed == {w \in Workers : ~connected[w] /\ pc[w] \notin {"down", "dial"}}

Within(lost, doomed, n) ==
  /\ IsFiniteSet(lost) /\ IsFiniteSet(doomed)
  /\ Cardinality(lost) + Cardinality(doomed) <= n

Budget ==
  /\ Within(Missing, Doomed, faults)
  /\ Within(ServersLost, Doomed, faults)

LEMMA Growth ==
  ASSUME NEW S, IsFiniteSet(S), NEW T
  PROVE  /\ Cardinality(S) \in Nat
         /\ T \subseteq S =>
              /\ IsFiniteSet(T) /\ Cardinality(T) \in Nat
              /\ Cardinality(T) <= Cardinality(S)
         /\ \A x : T \subseteq S \cup {x} =>
              /\ IsFiniteSet(T) /\ Cardinality(T) \in Nat
              /\ Cardinality(T) <= Cardinality(S) + 1
         /\ \A x \in S : T \subseteq S \ {x} =>
              /\ IsFiniteSet(T) /\ Cardinality(T) \in Nat
              /\ Cardinality(T) <= Cardinality(S) - 1
<1>1. Cardinality(S) \in Nat
  BY FS_CardinalityType
<1>2. ASSUME T \subseteq S
      PROVE  IsFiniteSet(T) /\ Cardinality(T) \in Nat
             /\ Cardinality(T) <= Cardinality(S)
  BY <1>2, FS_Subset, FS_CardinalityType
<1>3. ASSUME NEW x, T \subseteq S \cup {x}
      PROVE  IsFiniteSet(T) /\ Cardinality(T) \in Nat
             /\ Cardinality(T) <= Cardinality(S) + 1
  <2>1. /\ IsFiniteSet(S \cup {x})
        /\ Cardinality(S \cup {x}) =
             IF x \in S THEN Cardinality(S) ELSE Cardinality(S) + 1
    BY FS_AddElement
  <2>2. IsFiniteSet(T) /\ Cardinality(T) <= Cardinality(S \cup {x})
    BY <1>3, <2>1, FS_Subset
  <2>3. Cardinality(T) \in Nat
    BY <2>2, FS_CardinalityType
  <2> QED
    BY <1>1, <2>1, <2>2, <2>3
<1>4. ASSUME NEW x \in S, T \subseteq S \ {x}
      PROVE  IsFiniteSet(T) /\ Cardinality(T) \in Nat
             /\ Cardinality(T) <= Cardinality(S) - 1
  <2>1. IsFiniteSet(S \ {x}) /\ Cardinality(S \ {x}) = Cardinality(S) - 1
    BY <1>4, FS_RemoveElement
  <2>2. IsFiniteSet(T) /\ Cardinality(T) <= Cardinality(S \ {x})
    BY <1>4, <2>1, FS_Subset
  <2>3. Cardinality(T) \in Nat
    BY <2>2, FS_CardinalityType
  <2> QED
    BY <2>1, <2>2, <2>3
<1> QED
  BY <1>1, <1>2, <1>3, <1>4

(* The ways a step can change the account.  Nothing is lost and nobody is  *)
(* doomed; a fault dooms a worker; a fault does its damage; a doomed       *)
(* worker does.                                                            *)
LEMMA Accounts ==
  ASSUME NEW n \in Nat, NEW S, NEW D, Within(S, D, n), NEW S1, NEW D1
  PROVE  /\ S1 \subseteq S /\ D1 \subseteq D => Within(S1, D1, n)
         /\ \A x : S1 \subseteq S /\ D1 \subseteq D \cup {x}
                     => Within(S1, D1, n + 1)
         /\ \A x : S1 \subseteq S \cup {x} /\ D1 \subseteq D
                     => Within(S1, D1, n + 1)
         /\ \A x : \A w \in D : S1 \subseteq S \cup {x} /\ D1 \subseteq D \ {w}
                     => Within(S1, D1, n)
<1>1. /\ IsFiniteSet(S) /\ IsFiniteSet(D)
      /\ Cardinality(S) \in Nat /\ Cardinality(D) \in Nat
      /\ Cardinality(S) + Cardinality(D) <= n
  BY Growth DEF Within
<1>2. ASSUME S1 \subseteq S, D1 \subseteq D
      PROVE  Within(S1, D1, n)
  BY <1>1, <1>2, Growth DEF Within
<1>3. ASSUME NEW x, S1 \subseteq S, D1 \subseteq D \cup {x}
      PROVE  Within(S1, D1, n + 1)
  <2>1. /\ IsFiniteSet(S1) /\ Cardinality(S1) \in Nat
        /\ Cardinality(S1) <= Cardinality(S)
    BY <1>1, <1>3, Growth
  <2>2. /\ IsFiniteSet(D1) /\ Cardinality(D1) \in Nat
        /\ Cardinality(D1) <= Cardinality(D) + 1
    BY <1>1, <1>3, Growth
  <2> QED
    BY <1>1, <2>1, <2>2 DEF Within
<1>4. ASSUME NEW x, S1 \subseteq S \cup {x}, D1 \subseteq D
      PROVE  Within(S1, D1, n + 1)
  <2>1. /\ IsFiniteSet(S1) /\ Cardinality(S1) \in Nat
        /\ Cardinality(S1) <= Cardinality(S) + 1
    BY <1>1, <1>4, Growth
  <2>2. /\ IsFiniteSet(D1) /\ Cardinality(D1) \in Nat
        /\ Cardinality(D1) <= Cardinality(D)
    BY <1>1, <1>4, Growth
  <2> QED
    BY <1>1, <2>1, <2>2 DEF Within
<1>5. ASSUME NEW x, NEW w \in D, S1 \subseteq S \cup {x}, D1 \subseteq D \ {w}
      PROVE  Within(S1, D1, n)
  <2>1. /\ IsFiniteSet(S1) /\ Cardinality(S1) \in Nat
        /\ Cardinality(S1) <= Cardinality(S) + 1
    BY <1>1, <1>5, Growth
  <2>2. /\ IsFiniteSet(D1) /\ Cardinality(D1) \in Nat
        /\ Cardinality(D1) <= Cardinality(D) - 1
    BY <1>1, <1>5, Growth
  <2> QED
    BY <1>1, <2>1, <2>2 DEF Within
<1> QED
  BY <1>2, <1>3, <1>4, <1>5

LEMMA WithinBounds ==
  ASSUME NEW n \in Nat, NEW S, NEW D, Within(S, D, n), NEW T, T \subseteq S
  PROVE  Cardinality(T) <= n
<1>1. /\ Cardinality(S) \in Nat /\ Cardinality(D) \in Nat
      /\ Cardinality(T) \in Nat /\ Cardinality(T) <= Cardinality(S)
  BY Growth DEF Within
<1> QED
  BY <1>1 DEF Within

-----------------------------------------------------------------------------
(* The steps that cost nothing. *)

LEMMA StepDooms ==
  ASSUME WorkerTypeOK, NEW w \in Workers, Step(w)
  PROVE  Doomed' \subseteq Doomed
<1> USE DEF WorkerTypeOK, Doomed, Goto
<1>1. CASE WorkerStep(w)
  <2>1. CASE Dial(w)       BY <2>1 DEF Dial
  <2>2. CASE Register(w)   BY <2>2 DEF Register
  <2>3. CASE TakeIdle(w)   BY <2>3 DEF TakeIdle
  <2>4. CASE TakeServer(w) BY <2>4 DEF TakeServer
  <2>5. CASE TakeClient(w) BY <2>5 DEF TakeClient
  <2>6. CASE Report(w)     BY <2>6 DEF Report
  <2>7. CASE Cooldown(w)   BY <2>7 DEF Cooldown
  <2> QED
    BY <1>1, <2>1, <2>2, <2>3, <2>4, <2>5, <2>6, <2>7 DEF WorkerStep
<1>2. CASE HandleRegister(w)
  BY <1>2 DEF HandleRegister, Answer
<1>3. CASE HandleReceive(w)
  BY <1>3 DEF HandleReceive, Acknowledge, workerVars
<1> QED
  BY <1>1, <1>2, <1>3 DEF Step

LEMMA StepLosesNoServers ==
  ASSUME TypeOK, NEW w \in Workers, Step(w)
  PROVE  ServersLost' \subseteq ServersLost
<1> USE ItemKinds DEF TypeOK, WorkerTypeOK, OrchestratorTypeOK, ServersLost,
                      Goto, Drop, Registered
<1>1. CASE WorkerStep(w)
  <2>1. CASE Dial(w)       BY <1>1, <2>1 DEF Dial, WorkerStep, orchVars
  <2>2. CASE Register(w)   BY <1>1, <2>2 DEF Register, WorkerStep, orchVars
  <2>3. CASE TakeIdle(w)   BY <1>1, <2>3 DEF TakeIdle, WorkerStep, orchVars
  <2>4. CASE TakeServer(w) BY <1>1, <2>4 DEF TakeServer, WorkerStep, orchVars
  <2>5. CASE TakeClient(w) BY <1>1, <2>5 DEF TakeClient, WorkerStep, orchVars
  <2>6. CASE Report(w)     BY <1>1, <2>6 DEF Report, WorkerStep, orchVars
  <2>7. CASE Cooldown(w)   BY <1>1, <2>7 DEF Cooldown, WorkerStep, orchVars
  <2> QED
    BY <1>1, <2>1, <2>2, <2>3, <2>4, <2>5, <2>6, <2>7 DEF WorkerStep
<1>2. CASE HandleRegister(w)
  <2>1. PICK reply \in Replies :
          Answer(w, reply) /\ RegisterClient(w, MyIP(w), reply)
    BY <1>2 DEF HandleRegister
  <2>2. /\ pc[w] = "registering" /\ pc' = [pc EXCEPT ![w] = "answered"]
        /\ item' = [item EXCEPT ![w] = reply] /\ servers' = servers
    BY <2>1 DEF Answer
  <2>3. \/ Registered' = Registered
        \/ Registered' = Registered \cup {w} /\ reply.kind = "server"
    <3>1. CASE Enroll(w, MyIP(w), reply)
      BY <3>1 DEF Enroll
    <3>2. CASE StandBy(w, reply) \/ Conclude(w, reply)
               \/ \E n \in Cases : Allocate(w, n, reply)
      BY <3>2 DEF StandBy, Conclude, Allocate, SetIdle
    <3> QED
      BY <2>1, <3>1, <3>2 DEF RegisterClient
  <2> QED
    BY <2>2, <2>3
<1>3. CASE HandleReceive(w)
  BY <1>3 DEF HandleReceive, Acknowledge, ReceiveOutput
<1> QED
  BY <1>1, <1>2, <1>3 DEF Step

(* A worker that comes back, or that finds its connection gone.  What the  *)
(* latter loses was paid for when the connection broke.                    *)
LEMMA RecoverKeepsBudget ==
  ASSUME IInv, IInv', SweepPosition, Budget, faults \in Nat,
         UNCHANGED faults, NEW w \in Workers, Recover(w)
  PROVE  Budget'
<1>1. /\ TypeOK /\ WorkerTypeOK /\ HoldsClientItem
      /\ UNCHANGED orchVars /\ LosesOnly
  BY RecoverLosesOnly DEF IInv, TypeOK
<1>2. /\ Missing' \subseteq Missing \cup {Current}
      /\ (Somebody => Somebody') => Missing' \subseteq Missing
  BY <1>1, LossyLose
<1>3. Registered' = Registered
  BY <1>1 DEF orchVars, Registered
<1>4. CASE RestartWorker(w)
  <2>1. /\ pc[w] = "down" /\ pc' = [pc EXCEPT ![w] = "dial"]
        /\ UNCHANGED <<item, connected, servers>>
    BY <1>4 DEF RestartWorker, Goto
  <2>2. Somebody => Somebody'
    BY <1>1, <2>1 DEF WorkerTypeOK, Holds, Somebody
  <2>3. Doomed' \subseteq Doomed /\ ServersLost' \subseteq ServersLost
    BY <1>1, <1>3, <2>1 DEF WorkerTypeOK, Doomed, ServersLost
  <2> QED
    BY <1>2, <2>2, <2>3, Accounts DEF Budget
<1>5. CASE RegisterFails(w) \/ ReportFails(w)
  <2>1. /\ ~connected[w] /\ pc[w] \notin {"down", "dial"}
        /\ pc'[w] \in {"down", "dial"}
        /\ \A v \in Workers \ {w} : /\ pc'[v] = pc[v] /\ item'[v] = item[v]
                                    /\ servers'[v] = servers[v]
        /\ UNCHANGED connected
    BY <1>1, <1>5 DEF RegisterFails, ReportFails, Die, Drop, WorkerTypeOK
  <2>2. w \in Doomed /\ Doomed' \subseteq Doomed \ {w}
    BY <2>1 DEF Doomed
  <2>3. ServersLost' \subseteq ServersLost \cup {w}
    BY <1>1, <1>3, <2>1 DEF TypeOK, OrchestratorTypeOK, ServersLost
  <2>4. Within(Missing', Doomed', faults)
    BY <1>2, <2>2, Accounts DEF Budget
  <2>5. Within(ServersLost', Doomed', faults)
    BY <2>2, <2>3, Accounts DEF Budget
  <2> QED
    BY <2>4, <2>5 DEF Budget
<1> QED
  BY <1>4, <1>5 DEF Recover

(* A fault either takes what a worker has at once, or leaves the worker    *)
(* with a connection that will.                                            *)
LEMMA FaultKeepsBudget ==
  ASSUME IInv, IInv', SweepPosition, Budget, FTypes, FTypes',
         NEW w \in Workers,
         BreakConnection(w) \/ CrashWorker(w) \/ ReplacePod(w)
  PROVE  Budget'
<1>1. /\ TypeOK /\ WorkerTypeOK /\ faults \in Nat
      /\ UNCHANGED orchVars /\ LosesOnly
  BY FaultLosesOnly, FaultsAssumption DEF FTypes, FTypeOK, TypeOK
<1>2. /\ Missing' \subseteq Missing \cup {Current}
      /\ (Somebody => Somebody') => Missing' \subseteq Missing
  BY <1>1, LossyLose DEF IInv, TypeOK
<1>3. Registered' = Registered
  BY <1>1 DEF orchVars, Registered
<1>4. faults' = faults + 1 /\ connected' = [connected EXCEPT ![w] = FALSE]
  BY DEF BreakConnection, CrashWorker, ReplacePod, Fault, Disconnect
<1>5. CASE BreakConnection(w)
  <2>1. UNCHANGED <<pc, item, servers>>
    BY <1>5 DEF BreakConnection
  <2>2. Somebody => Somebody'
    BY <2>1 DEF Holds, Somebody
  <2>3. Doomed' \subseteq Doomed \cup {w} /\ ServersLost' \subseteq ServersLost
    BY <1>1, <1>3, <1>4, <2>1 DEF WorkerTypeOK, Doomed, ServersLost
  <2> QED
    BY <1>1, <1>2, <1>4, <2>2, <2>3, Accounts DEF Budget
<1>6. CASE CrashWorker(w) \/ ReplacePod(w)
  <2>1. /\ pc'[w] = "down"
        /\ \A v \in Workers \ {w} : /\ pc'[v] = pc[v] /\ item'[v] = item[v]
                                    /\ servers'[v] = servers[v]
                                    /\ connected'[v] = connected[v]
    BY <1>1, <1>4, <1>6 DEF CrashWorker, ReplacePod, Die, Drop, WorkerTypeOK
  <2>2. Doomed' \subseteq Doomed
    BY <2>1 DEF Doomed
  <2>3. ServersLost' \subseteq ServersLost \cup {w}
    BY <1>1, <1>3, <2>1 DEF TypeOK, OrchestratorTypeOK, ServersLost
  <2>4. Within(Missing', Doomed', faults + 1)
    BY <1>1, <1>2, <2>2, Accounts DEF Budget
  <2>5. Within(ServersLost', Doomed', faults + 1)
    BY <1>1, <2>2, <2>3, Accounts DEF Budget
  <2> QED
    BY <1>4, <2>4, <2>5 DEF Budget
<1> QED
  BY <1>5, <1>6

-----------------------------------------------------------------------------
(* What is recorded stays as it was printed. *)

LEMMA SamePrinted ==
  ASSUME PrintedIsCurrent, Somebody' => Somebody,
         UNCHANGED <<Finished, dataPoints, dataPointKeys, datapointsFlushed,
                     stdout>>
  PROVE  PrintedIsCurrent'
BY DEF PrintedIsCurrent, AllFinished, Headers, Column, Block, Rows

LEMMA StepKeepsPrinted ==
  ASSUME IInv, PrintedIsCurrent, NEW w \in Workers, Step(w)
  PROVE  PrintedIsCurrent'
<1>1. CASE UNCHANGED orchVars /\ (Somebody' <=> Somebody)
  BY <1>1, SamePrinted DEF orchVars
<1>2. ASSUME NEW reply, NEW n \in Cases, Allocate(w, n, reply)
      PROVE  PrintedIsCurrent'
  BY <1>2 DEF Allocate, FirstUnfinished, PrintedIsCurrent, AllFinished
<1>3. ASSUME NEW reply, Enroll(w, MyIP(w), reply) \/ StandBy(w, reply),
             Somebody' <=> Somebody
      PROVE  PrintedIsCurrent'
  BY <1>3, SamePrinted DEF Enroll, StandBy
<1>4. ASSUME NEW reply, Conclude(w, reply), ~Somebody, ~Somebody'
      PROVE  PrintedIsCurrent'
  BY <1>4, ConcludePrints
<1>5. ASSUME NEW i \in ClientItems, ReceiveOutput(i), Somebody
      PROVE  PrintedIsCurrent'
  BY <1>5 DEF PrintedIsCurrent, ReceiveOutput
<1> QED
  BY <1>1, <1>2, <1>3, <1>4, <1>5, StepCases

LEMMA LosingKeepsPrinted ==
  ASSUME PrintedIsCurrent, UNCHANGED orchVars, LosesOnly
  PROVE  PrintedIsCurrent'
BY SamePrinted DEF orchVars, LosesOnly, Somebody

-----------------------------------------------------------------------------
(* The account holds until the run is disturbed. *)
DInv == SweepPosition /\ Budget /\ PrintedIsCurrent

LEMMA InitDInv == FInit => DInv
<1> SUFFICES ASSUME FInit PROVE DInv
  OBVIOUS
<1>1. SweepPosition /\ Lossy!Init
  BY InitLossy
<1>2. Missing = {}
  BY <1>1 DEF Lossy!Init, Missing
<1>3. Doomed = {} /\ ServersLost = {}
  BY DEF FInit, Init, OrchestratorInit, WorkerInit, Doomed, ServersLost,
         Registered
<1>4. Budget
  <2>1. faults = 0
    BY DEF FInit
  <2> QED
    BY <1>2, <1>3, <2>1, FS_EmptySet DEF Budget, Within
<1>5. PrintedIsCurrent
  BY DEF FInit, Init, OrchestratorInit, PrintedIsCurrent
<1> QED
  BY <1>1, <1>4, <1>5 DEF DInv

LEMMA StepKeepsDInv ==
  ASSUME FInv, FInv', ~disturbed, ~disturbed', DInv, [FNext]_faultVars
  PROVE  DInv'
<1>1. /\ IInv /\ OrderInv /\ IInv' /\ FTypes /\ FTypes'
      /\ TypeOK /\ WorkerTypeOK /\ faults \in Nat
  BY FaultsAssumption DEF FInv, FTypes, FTypeOK, TypeOK
<1>2. CASE \E w \in Workers : Step(w) /\ UNCHANGED faults
  <2>1. PICK w \in Workers : Step(w) /\ UNCHANGED faults
    BY <1>2
  <2>2. SweepPosition' /\ Missing' \subseteq Missing
    BY <1>1, <2>1, StepLossy DEF DInv
  <2>3. Doomed' \subseteq Doomed /\ ServersLost' \subseteq ServersLost
    BY <1>1, <2>1, StepDooms, StepLosesNoServers
  <2>4. Budget'
    BY <1>1, <2>1, <2>2, <2>3, Accounts DEF DInv, Budget
  <2>5. PrintedIsCurrent'
    BY <1>1, <2>1, StepKeepsPrinted DEF DInv
  <2> QED
    BY <2>2, <2>4, <2>5 DEF DInv
<1>3. CASE \E w \in Workers : Recover(w) /\ UNCHANGED faults
  <2>1. PICK w \in Workers : Recover(w) /\ UNCHANGED faults
    BY <1>3
  <2>2. LosesOnly /\ UNCHANGED orchVars
    BY <1>1, <2>1, RecoverLosesOnly DEF FTypes
  <2> QED
    BY <1>1, <2>1, <2>2, LossyLose, RecoverKeepsBudget,
       LosingKeepsPrinted DEF DInv
<1>4. CASE \E w \in Workers :
             BreakConnection(w) \/ CrashWorker(w) \/ ReplacePod(w)
  BY <1>1, <1>4, FaultLosesOnly, LossyLose, FaultKeepsBudget,
     LosingKeepsPrinted DEF DInv
<1>5. CASE UNCHANGED faultVars
  <2>1. UNCHANGED <<orchVars, pc, item, connected, servers, podIP, faults>>
    BY <1>5 DEF faultVars, vars, workerVars
  <2>2. LosesOnly
    BY <1>1, <2>1 DEF LosesOnly, Holds, FTypes, FTypeOK, TypeOK
  <2>3. Missing' \subseteq Missing /\ SweepPosition'
    BY <1>1, <2>1, <2>2, LossyLose DEF Holds, Somebody, DInv
  <2>4. Doomed' \subseteq Doomed /\ ServersLost' \subseteq ServersLost
    BY <2>1 DEF Doomed, ServersLost, Registered, orchVars
  <2>5. Budget'
    BY <1>1, <2>1, <2>3, <2>4, Accounts DEF DInv, Budget
  <2> QED
    BY <2>1, <2>2, <2>3, <2>5, LosingKeepsPrinted DEF DInv
<1> QED
  BY <1>2, <1>3, <1>4, <1>5
     DEF FNext, FStep, HandleLate, FaultStep, RestartOrchestrator

THEOREM AccountHolds == FSpec => [](~disturbed => DInv)
<1>1. /\ FInv /\ FInv' /\ (~disturbed => DInv) /\ [FNext]_faultVars
      => (~disturbed' => DInv')
  <2> SUFFICES ASSUME FInv, FInv', ~disturbed => DInv, [FNext]_faultVars,
                      ~disturbed'
               PROVE  DInv'
    OBVIOUS
  <2>1. ~disturbed
    BY DEF FNext, FStep, HandleLate, FaultStep, BreakConnection, CrashWorker,
           ReplacePod, RestartOrchestrator, faultVars
  <2> QED
    BY <2>1, StepKeepsDInv
<1>2. FInit => (~disturbed => DInv)
  BY InitDInv
<1> QED
  BY <1>1, <1>2, FaultInvariantHolds, PTL DEF FSpec

(* Every label that has points has a row with all of them.                 *)
LEMMA RowOfLabel ==
  ASSUME KeysCover, NEW n \in Cases, dataPoints[n] # << >>
  PROVE  \E k \in DOMAIN Rows :
           Rows[k].label = n /\ Rows[k].points = dataPoints[n]
<1>1. PICK k \in DOMAIN dataPointKeys : dataPointKeys[k] = n
  BY DEF KeysCover
<1>2. k \in DOMAIN Rows /\ Rows[k].label = n /\ Rows[k].points = dataPoints[n]
  BY <1>1 DEF Rows
<1> QED
  BY <1>2

LEMMA RowsShow ==
  ASSUME KeysCover, NEW n \in Cases, NEW i \in DOMAIN dataPoints[n]
  PROVE  <<n, dataPoints[n][i].mss>> \in Shown(Rows)
<1>1. PICK k \in DOMAIN Rows :
        Rows[k].label = n /\ Rows[k].points = dataPoints[n]
  BY RowOfLabel
<1>2. <<n, dataPoints[n][i].mss>> \in
        {<<Rows[k].label, Rows[k].points[j].mss>> : j \in DOMAIN Rows[k].points}
  BY <1>1
<1> QED
  BY <1>1, <1>2 DEF Shown

LEMMA PrintedRows ==
  ASSUME DInv, datapointsFlushed
  PROVE  AllFinished /\ ~Somebody /\ stdout[1].rows = Rows
BY DEF DInv, PrintedIsCurrent, Block

(* Until it is disturbed, a run that reports has printed all but as many   *)
(* measurements of the table as there were faults.                         *)
THEOREM FaultsCostOneMeasurement == FSpec => []FewAreMissing
<1>1. (~disturbed => DInv) /\ FInv => FewAreMissing
  <2> SUFFICES ASSUME datapointsFlushed, ~disturbed, DInv, FInv
               PROVE  Cardinality(Plan \ Printed) <= faults
    BY DEF FewAreMissing
  <2>1. AllFinished /\ ~Somebody
    BY PrintedRows
  <2>2. stdout[1].rows = Rows
    BY PrintedRows
  <2>3. Left = {}
    <3>1. Active = {}
      BY <2>1 DEF Active, Somebody
    <3>2. \A n \in Cases : Open(n) = {}
      BY <2>1 DEF AllFinished, Open
    <3> QED
      BY <3>1, <3>2, OpensIs
  <2>4. ASSUME NEW x \in Measured PROVE x \in Printed
    <3>1. KeysCover
      BY DEF FInv, OrderInv, TableInv
    <3>2. PICK n \in Cases : \E i \in DOMAIN dataPoints[n] :
                               x = <<n, dataPoints[n][i].mss>>
      BY MeasuredIs
    <3> QED
      BY <2>2, <3>1, <3>2, RowsShow DEF Printed
  <2>5. Plan \ Printed \subseteq Missing
    BY <2>3, <2>4 DEF Missing
  <2> QED
    BY <2>5, WithinBounds DEF DInv, Budget, FInv, FTypes, FTypeOK
<1> QED
  BY <1>1, AccountHolds, FaultInvariantHolds, PTL

(* Until it is disturbed, a run that reports has measured every netperf    *)
(* case, and prints that measurement in the row of the case: an output     *)
(* finishes the case (TableInv), and it is the case's own (Attribution).   *)
THEOREM NetperfIsNeverLost == FSpec => []NetperfIsMeasured
<1>1. (~disturbed => DInv) /\ FInv => NetperfIsMeasured
  <2> SUFFICES ASSUME datapointsFlushed, ~disturbed, DInv, FInv,
                      NEW n \in Cases, IsNetperf(n)
               PROVE  \E k \in DOMAIN stdout[1].rows :
                        /\ stdout[1].rows[k].label = n
                        /\ \E i \in DOMAIN stdout[1].rows[k].points :
                             stdout[1].rows[k].points[i].from = <<n, 0>>
    BY DEF NetperfIsMeasured
  <2>1. KeysCover /\ NetperfIsFiled /\ Attribution
    BY DEF FInv, IInv, OrderInv, TableInv
  <2>2. AllFinished /\ stdout[1].rows = Rows
    BY PrintedRows
  <2>3. PICK i \in DOMAIN dataPoints[n] : dataPoints[n][i].mss = 0
    BY <2>1, <2>2 DEF AllFinished, NetperfIsFiled, IsMeasured
  <2>4. dataPoints[n][i].from = <<n, 0>>
    BY <2>1, <2>3 DEF Attribution
  <2>5. PICK k \in DOMAIN Rows :
          Rows[k].label = n /\ Rows[k].points = dataPoints[n]
    <3>1. dataPoints[n] # << >>
      BY <2>3
    <3> QED
      BY <2>1, <3>1, RowOfLabel
  <2> QED
    BY <2>2, <2>4, <2>5
<1> QED
  BY <1>1, AccountHolds, FaultInvariantHolds, PTL

(* Until it is disturbed, a fault takes the servers of one worker at most. *)
THEOREM FaultsCostOneServer == FSpec => []FewServersAreLost
<1>1. (~disturbed => DInv) /\ FInv => FewServersAreLost
  BY WithinBounds DEF FewServersAreLost, DInv, Budget, FInv, FTypes, FTypeOK
<1> QED
  BY <1>1, AccountHolds, FaultInvariantHolds, PTL

-----------------------------------------------------------------------------
(* Without a fault nothing is down, disconnected or late.                  *)
Faultless ==
  faults = 0 =>
    /\ RInv
    /\ late = {}
    /\ \A w \in Workers : pc[w] # "down" /\ (pc[w] # "dial" => connected[w])

LEMMA StepKeepsConnected ==
  ASSUME WorkerTypeOK, NEW w \in Workers, Step(w),
         \A v \in Workers : pc[v] # "down" /\ (pc[v] # "dial" => connected[v])
  PROVE  \A v \in Workers :
           pc'[v] # "down" /\ (pc'[v] # "dial" => connected'[v])
<1> USE DEF WorkerTypeOK, Goto
<1>1. CASE WorkerStep(w)
  <2>1. CASE Dial(w)       BY <2>1 DEF Dial
  <2>2. CASE Register(w)   BY <2>2 DEF Register
  <2>3. CASE TakeIdle(w)   BY <2>3 DEF TakeIdle
  <2>4. CASE TakeServer(w) BY <2>4 DEF TakeServer
  <2>5. CASE TakeClient(w) BY <2>5 DEF TakeClient
  <2>6. CASE Report(w)     BY <2>6 DEF Report
  <2>7. CASE Cooldown(w)   BY <2>7 DEF Cooldown
  <2> QED
    BY <1>1, <2>1, <2>2, <2>3, <2>4, <2>5, <2>6, <2>7 DEF WorkerStep
<1>2. CASE HandleRegister(w)
  BY <1>2 DEF HandleRegister, Answer
<1>3. CASE HandleReceive(w)
  BY <1>3 DEF HandleReceive, Acknowledge
<1> QED
  BY <1>1, <1>2, <1>3 DEF Step

(* As long as nothing has failed, a step is one of NetPerf.                *)
LEMMA FaultlessStep ==
  ASSUME FInv, Faultless, [FNext]_faultVars, faults' = 0
  PROVE  Faultless' /\ faults = 0 /\ [Next]_vars
<1>1. faults \in Nat /\ WorkerTypeOK
  BY FaultsAssumption DEF FInv, FTypes, FTypeOK, TypeOK
<1>2. ~FaultStep
  BY <1>1 DEF FaultStep, BreakConnection, CrashWorker, ReplacePod,
              RestartOrchestrator, Fault
<1>3. faults = 0 /\ UNCHANGED faults
  BY <1>2 DEF FNext, FStep, HandleLate, faultVars
<1>4. /\ RInv /\ late = {}
      /\ \A w \in Workers : pc[w] # "down" /\ (pc[w] # "dial" => connected[w])
  BY <1>3 DEF Faultless
<1>5. ASSUME NEW w \in Workers, Recover(w) PROVE FALSE
  BY <1>4, <1>5 DEF Recover, RestartWorker, RegisterFails, ReportFails, Goto
<1>6. CASE \E w \in Workers : Step(w) /\ UNCHANGED late
  <2>1. PICK w \in Workers : Step(w) /\ UNCHANGED late
    BY <1>6
  <2>2. RInv'
    BY <1>4, <2>1, StepReport
  <2>3. \A v \in Workers :
          pc'[v] # "down" /\ (pc'[v] # "dial" => connected'[v])
    BY <1>1, <1>4, <2>1, StepKeepsConnected
  <2> QED
    BY <1>3, <1>4, <2>1, <2>2, <2>3 DEF Faultless, Next
<1>7. CASE UNCHANGED faultVars
  <2>1. UNCHANGED vars /\ UNCHANGED late
    BY <1>7 DEF faultVars
  <2>2. RInv'
    BY <1>4, <2>1, StutterReport
  <2> QED
    BY <1>3, <1>4, <2>1, <2>2 DEF Faultless, vars, workerVars
<1> QED
  BY <1>2, <1>4, <1>5, <1>6, <1>7 DEF FNext, FStep

LEMMA InitFaultless == FInit => Faultless
BY InitReport DEF FInit, Init, WorkerInit, Faultless

THEOREM FaultlessHolds == FSpec => []Faultless
<1>1. FInv /\ Faultless /\ [FNext]_faultVars => Faultless'
  BY FaultlessStep DEF Faultless
<1> QED
  BY <1>1, InitFaultless, FaultInvariantHolds, PTL DEF FSpec

(* Up to its first fault a run in the failing cluster is a run of NetPerf, *)
(* so that what is proved of NetPerf holds of it until then.               *)
THEOREM FaultlessIsNetPerf ==
  FSpec => Init /\ [][faults' = 0 => [Next]_vars]_faultVars
<1>1. FInv /\ Faultless /\ [FNext]_faultVars
        => [faults' = 0 => [Next]_vars]_faultVars
  BY FaultlessStep
<1>2. FInit => Init
  BY DEF FInit
<1> QED
  BY <1>1, <1>2, FaultlessHolds, FaultInvariantHolds, PTL DEF FSpec

(* In particular the report of a run without faults is complete.           *)
THEOREM CompleteUnlessFaults ==
  ASSUME SharedAxis
  PROVE  FSpec => []CompleteWithoutFaults
<1>1. Faultless => CompleteWithoutFaults
  BY FinalReport DEF Faultless, CompleteWithoutFaults
<1> QED
  BY <1>1, FaultlessHolds, PTL
=============================================================================
