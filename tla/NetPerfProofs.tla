--------------------------- MODULE NetPerfProofs ----------------------------
(***************************************************************************)
(* Safety of the network benchmark for every table and any set of workers: *)
(* at most one measurement is in progress, and every point is filed under  *)
(* the test case and the MSS it was measured with.                         *)
(*                                                                         *)
(* The invariant: the orchestrator believes at most one worker busy, it is *)
(* right about every worker that holds a measurement, and its sweep state  *)
(* still describes that measurement.                                       *)
(***************************************************************************)
EXTENDS NetPerf, TLAPS

BusyUnique ==
  \A v, w \in Registered :
    ~workerStateMap[v].idle /\ ~workerStateMap[w].idle => v = w

HolderIsBusy ==
  \A w \in Workers :
    Holds(w) => w \in Registered /\ ~workerStateMap[w].idle

HolderIsCurrent ==
  \A w \in Workers :
    Holds(w) => MeasurementOf(item[w]) =
                  <<currentJobIndex, FiledMSS(IsNetperf(currentJobIndex))>>

HoldsClientItem ==
  \A w \in Workers : pc[w] \in {"run", "reporting"} => item[w] \in ClientItems

IInv ==
  /\ TypeOK
  /\ BusyUnique
  /\ HolderIsBusy
  /\ HolderIsCurrent
  /\ HoldsClientItem
  /\ Attribution

(***************************************************************************)
(* The two halves of the state.                                            *)
(***************************************************************************)

(* Items of different kinds are different.                                 *)
LEMMA ItemKinds ==
  /\ IdleItem \in WorkItems /\ IdleItem.kind = "idle"
  /\ ServerItem \in WorkItems /\ ServerItem.kind = "server"
  /\ \A i \in ClientItems : i \in WorkItems /\ i.kind = "client"
  /\ \A i \in WorkItems : i.kind = "client" => i \in ClientItems
BY DEF IdleItem, ServerItem, ClientItems, WorkItems

(* A client item names a case, a host and an MSS.                          *)
LEMMA ItemForType ==
  ASSUME OrchestratorTypeOK, NEW n \in Cases,
         Testcases[n].DestinationNode \in Registered
  PROVE  /\ ItemFor(n) \in ClientItems
         /\ ItemFor(n).test = n
         /\ ItemFor(n).mss = IF IsNetperf(n) THEN 0 ELSE MSS[n]
<1>1. TargetHost(n) \in Hosts
  <2>1. workerStateMap[Testcases[n].DestinationNode] \in WorkerState
    BY DEF OrchestratorTypeOK
  <2> QED
    BY <2>1 DEF TargetHost, Hosts, WorkerState
<1>2. MSS[n] \in Nat
  BY DEF OrchestratorTypeOK
<1> QED
  BY <1>1, <1>2 DEF ItemFor, ClientItem, ClientItems

(* Every reply of the orchestrator is a work item.                         *)
LEMMA RepliesType ==
  ASSUME OrchestratorTypeOK
  PROVE  Replies \subseteq WorkItems
BY ItemForType, ItemKinds DEF Replies

(* A step of a worker's own keeps the types of the workers' state.         *)
LEMMA WorkerStepType ==
  ASSUME WorkerTypeOK, NEW w \in Workers, WorkerStep(w)
  PROVE  WorkerTypeOK'
<1> USE ItemKinds DEF WorkerTypeOK, Goto, Drop, Locations
<1>1. CASE Dial(w)       BY <1>1 DEF Dial
<1>2. CASE Register(w)   BY <1>2 DEF Register
<1>3. CASE TakeIdle(w)   BY <1>3 DEF TakeIdle
<1>4. CASE TakeServer(w) BY <1>4 DEF TakeServer
<1>5. CASE TakeClient(w) BY <1>5 DEF TakeClient
<1>6. CASE Report(w)     BY <1>6 DEF Report
<1>7. CASE Cooldown(w)   BY <1>7 DEF Cooldown
<1> QED
  BY <1>1, <1>2, <1>3, <1>4, <1>5, <1>6, <1>7 DEF WorkerStep

(* What the CSV prints is made of recorded points. *)
LEMMA FlushType ==
  ASSUME OrchestratorTypeOK, FlushDataPointsToCsv
  PROVE  stdout' \in Seq(CsvBlocks)
<1>1. \A n \in Cases : Column(n) \in Seq(Int)
  <2> TAKE n \in Cases
  <2>1. dataPoints[n] \in Seq(Points)
    BY DEF OrchestratorTypeOK
  <2>2. /\ DOMAIN dataPoints[n] = 1 .. Len(dataPoints[n])
        /\ Len(dataPoints[n]) \in Nat
        /\ \A i \in DOMAIN dataPoints[n] : dataPoints[n][i] \in Points
    BY <2>1
  <2>3. \A i \in DOMAIN dataPoints[n] : dataPoints[n][i].mss \in Int
    BY <2>2 DEF Points
  <2> QED
    BY <2>2, <2>3 DEF Column
<1>2. Headers \subseteq Seq(Int)
  <2>1. << >> \in Seq(Int)
    OBVIOUS
  <2>2. ASSUME NEW header \in Headers
        PROVE  header = << >> \/ \E n \in Cases : header = Column(n)
    BY Zenon DEF Headers
  <2> QED
    BY <1>1, <2>1, <2>2
<1>3. Rows \in Seq([label : Cases, points : Seq(Points)])
  <2>1. dataPointKeys \in Seq(Cases) /\ dataPoints \in [Cases -> Seq(Points)]
    BY DEF OrchestratorTypeOK
  <2>2. /\ DOMAIN dataPointKeys = 1 .. Len(dataPointKeys)
        /\ Len(dataPointKeys) \in Nat
        /\ \A i \in DOMAIN dataPointKeys : dataPointKeys[i] \in Cases
    BY <2>1
  <2> QED
    BY <2>1, <2>2 DEF Rows
<1>4. PICK header \in Headers :
        stdout' = Append(stdout, [header |-> header, rows |-> Rows])
  BY DEF FlushDataPointsToCsv
<1>5. [header |-> header, rows |-> Rows] \in CsvBlocks
  BY <1>2, <1>3 DEF CsvBlocks
<1> QED
  BY <1>4, <1>5 DEF OrchestratorTypeOK

(* The branches of RegisterClient keep the types of the orchestrator.      *)
LEMMA RegisterClientType ==
  ASSUME OrchestratorTypeOK, NEW w \in Workers, NEW ip \in PodIPs, NEW reply,
         RegisterClient(w, ip, reply)
  PROVE  OrchestratorTypeOK'
<1>1. CASE Enroll(w, ip, reply)
  BY <1>1 DEF Enroll, OrchestratorTypeOK, WorkerState, Registered
<1>2. CASE StandBy(w, reply)
  BY <1>2 DEF StandBy, SetIdle, OrchestratorTypeOK, WorkerState, Registered
<1>3. ASSUME NEW n \in Cases, Allocate(w, n, reply)
      PROVE  OrchestratorTypeOK'
  <2>1. /\ MSS' \in [Cases -> Nat]
        /\ Finished' \in [Cases -> BOOLEAN]
    <3> DEFINE last == MSS[n] + MssStepSize > MssMax
    <3>1. last \in BOOLEAN
      OBVIOUS
    <3>2. CASE IsNetperf(n)
      BY <1>3, <3>2 DEF Allocate, AdvanceSweep, OrchestratorTypeOK
    <3>3. CASE ~IsNetperf(n)
      <4>1. /\ MSS' = [MSS EXCEPT ![n] = @ + MssStepSize]
            /\ Finished' = [Finished EXCEPT ![n] = last]
        BY <1>3, <3>3 DEF Allocate, AdvanceSweep
      <4> HIDE DEF last
      <4> QED
        BY <3>1, <4>1, NetPerfAssumption DEF OrchestratorTypeOK
    <3> QED
      BY <3>2, <3>3
  <2>2. /\ Registered' \subseteq Workers
        /\ workerStateMap' \in [Registered' -> WorkerState]
    BY <1>3 DEF Allocate, SetIdle, OrchestratorTypeOK, WorkerState, Registered
  <2> QED
    BY <1>3, <2>1, <2>2 DEF Allocate, OrchestratorTypeOK
<1>4. CASE Conclude(w, reply)
  <2>1. stdout' \in Seq(CsvBlocks)
    BY <1>4, FlushType DEF Conclude, OrchestratorTypeOK
  <2>2. /\ Registered' \subseteq Workers
        /\ workerStateMap' \in [Registered' -> WorkerState]
    BY <1>4 DEF Conclude, SetIdle, OrchestratorTypeOK, WorkerState, Registered
  <2> QED
    BY <1>4, <2>1, <2>2 DEF Conclude, OrchestratorTypeOK
<1> QED
  BY <1>1, <1>2, <1>3, <1>4 DEF RegisterClient

(* The point that ReceiveOutput records, and its types.                    *)
LEMMA ReceiveOutputType ==
  ASSUME OrchestratorTypeOK, NEW i \in ClientItems, ReceiveOutput(i)
  PROVE  OrchestratorTypeOK'
<1> DEFINE point == [mss |-> FiledMSS(IsNetperf(i.test)),
                     from |-> MeasurementOf(i)]
<1>1. point \in Points
  <2>1. FiledMSS(IsNetperf(i.test)) \in Int
    BY NetPerfAssumption DEF FiledMSS, OrchestratorTypeOK
  <2>2. MeasurementOf(i) \in Measurements
    BY DEF MeasurementOf, Measurements, ClientItems
  <2> QED
    BY <2>1, <2>2 DEF Points
<1>2. RegisterDataPoint(currentJobIndex, point)
  BY DEF ReceiveOutput
<1> HIDE DEF point
<1>3. dataPoints' \in [Cases -> Seq(Points)]
  BY <1>1, <1>2 DEF RegisterDataPoint, OrchestratorTypeOK
<1>4. dataPointKeys' \in Seq(Cases)
  BY <1>2 DEF RegisterDataPoint, OrchestratorTypeOK
<1>5. Finished' \in [Cases -> BOOLEAN]
  BY DEF ReceiveOutput, OrchestratorTypeOK
<1> QED
  BY <1>3, <1>4, <1>5 DEF ReceiveOutput, OrchestratorTypeOK, Registered

-----------------------------------------------------------------------------
(***************************************************************************)
(* Every step keeps the types.                                             *)
(***************************************************************************)

LEMMA StepType ==
  ASSUME TypeOK, HoldsClientItem, NEW w \in Workers, Step(w)
  PROVE  TypeOK'
<1>1. CASE WorkerStep(w)
  <2>1. WorkerTypeOK'
    BY <1>1, WorkerStepType DEF TypeOK
  <2>2. UNCHANGED orchVars
    BY <1>1 DEF WorkerStep
  <2> QED
    BY <2>1, <2>2 DEF TypeOK, OrchestratorTypeOK, orchVars, Registered
<1>2. CASE HandleRegister(w)
  <2>1. PICK reply \in Replies :
          Answer(w, reply) /\ RegisterClient(w, MyIP(w), reply)
    BY <1>2 DEF HandleRegister
  <2>2. MyIP(w) \in PodIPs
    BY DEF TypeOK, WorkerTypeOK, MyIP, PodIPs
  <2>3. OrchestratorTypeOK'
    BY <2>1, <2>2, RegisterClientType DEF TypeOK
  <2>4. reply \in WorkItems
    BY RepliesType DEF TypeOK
  <2>5. WorkerTypeOK'
    BY <2>1, <2>4 DEF TypeOK, WorkerTypeOK, Answer, Goto, Locations
  <2> QED
    BY <2>3, <2>5 DEF TypeOK
<1>3. CASE HandleReceive(w)
  <2>1. item[w] \in ClientItems
    BY <1>3 DEF HandleReceive, Acknowledge, Goto, HoldsClientItem
  <2>2. OrchestratorTypeOK'
    BY <1>3, <2>1, ReceiveOutputType DEF HandleReceive, TypeOK
  <2>3. WorkerTypeOK'
    BY <1>3 DEF HandleReceive, Acknowledge, Goto, Locations, TypeOK,
                WorkerTypeOK
  <2> QED
    BY <2>2, <2>3 DEF TypeOK
<1> QED
  BY <1>1, <1>2, <1>3 DEF Step

LEMMA StepHoldsClientItem ==
  ASSUME TypeOK, HoldsClientItem, NEW w \in Workers, Step(w)
  PROVE  HoldsClientItem'
<1> USE ItemKinds DEF HoldsClientItem, TypeOK, WorkerTypeOK, Goto, Drop
<1>1. CASE WorkerStep(w)
  <2>1. CASE Dial(w)       BY <2>1 DEF Dial
  <2>2. CASE Register(w)   BY <2>2 DEF Register
  <2>3. CASE TakeIdle(w)   BY <2>3 DEF TakeIdle
  <2>4. CASE TakeServer(w) BY <2>4 DEF TakeServer
  <2>5. CASE TakeClient(w) BY <2>5 DEF TakeClient
  <2>6. CASE Report(w)     BY <2>6 DEF Report
  <2>7. CASE Cooldown(w)   BY <2>7 DEF Cooldown
  <2> QED
    BY <1>1, <2>1, <2>2, <2>3, <2>4, <2>5, <2>6, <2>7 DEF WorkerStep
<1>2. CASE HandleRegister(w)
  BY <1>2 DEF HandleRegister, Answer
<1>3. CASE HandleReceive(w)
  BY <1>3 DEF HandleReceive, Acknowledge
<1> QED
  BY <1>1, <1>2, <1>3 DEF Step

-----------------------------------------------------------------------------
(***************************************************************************)
(* Workers on their own: who holds a measurement, and which, changes only  *)
(* by the replies to the two calls.                                        *)
(***************************************************************************)

LEMMA WorkerStepHolds ==
  ASSUME WorkerTypeOK, NEW w \in Workers, WorkerStep(w)
  PROVE  \A v \in Workers : Holds(v)' => Holds(v) /\ item'[v] = item[v]
<1> USE ItemKinds DEF WorkerTypeOK, Holds, Goto, Drop
<1>1. CASE Dial(w)       BY <1>1 DEF Dial
<1>2. CASE Register(w)   BY <1>2 DEF Register
<1>3. CASE TakeIdle(w)   BY <1>3 DEF TakeIdle
<1>4. CASE TakeServer(w) BY <1>4 DEF TakeServer
<1>5. CASE TakeClient(w) BY <1>5 DEF TakeClient
<1>6. CASE Report(w)     BY <1>6 DEF Report
<1>7. CASE Cooldown(w)   BY <1>7 DEF Cooldown
<1> QED
  BY <1>1, <1>2, <1>3, <1>4, <1>5, <1>6, <1>7 DEF WorkerStep

LEMMA AnswerHolds ==
  ASSUME WorkerTypeOK, NEW w \in Workers, NEW reply, Answer(w, reply)
  PROVE  /\ ~Holds(w)
         /\ Holds(w)' => item'[w] = reply /\ reply.kind = "client"
         /\ \A v \in Workers \ {w} :
              Holds(v)' => Holds(v) /\ item'[v] = item[v]
BY DEF WorkerTypeOK, Holds, Answer, Goto

LEMMA AcknowledgeHolds ==
  ASSUME WorkerTypeOK, NEW w \in Workers, Acknowledge(w)
  PROVE  /\ Holds(w)
         /\ ~Holds(w)'
         /\ \A v \in Workers \ {w} :
              Holds(v)' => Holds(v) /\ item'[v] = item[v]
BY DEF WorkerTypeOK, Holds, Acknowledge, Goto

-----------------------------------------------------------------------------
(***************************************************************************)
(* The two handlers.                                                       *)
(***************************************************************************)

Current == <<currentJobIndex, FiledMSS(IsNetperf(currentJobIndex))>>

(* RegisterClient touches no worker's state but the caller's, hands out    *)
(* work only when every other worker is idle, and keeps the bookkeeping of *)
(* the measurement that is current unless it hands out the next one.       *)
LEMMA RegisterClientEffect ==
  ASSUME OrchestratorTypeOK, NEW w \in Workers, NEW ip \in PodIPs, NEW reply,
         RegisterClient(w, ip, reply)
  PROVE  /\ Registered' = Registered \cup {w}
         /\ \A v \in Registered \ {w} :
              workerStateMap'[v].idle = workerStateMap[v].idle
         /\ UNCHANGED dataPoints
         /\ \/ /\ reply.kind # "client"
               /\ workerStateMap'[w].idle
               /\ Current' = Current
            \/ /\ reply \in ClientItems
               /\ ~workerStateMap'[w].idle
               /\ \A v \in Registered \ {w} : workerStateMap[v].idle
               /\ MeasurementOf(reply) = Current'
<1>1. CASE Enroll(w, ip, reply)
  BY <1>1, ItemKinds DEF Enroll, Registered, Current, FiledMSS
<1>2. ASSUME NEW idle \in BOOLEAN, w \in Registered, SetIdle(w, idle)
      PROVE  /\ Registered' = Registered \cup {w}
             /\ \A v \in Registered \ {w} :
                  workerStateMap'[v].idle = workerStateMap[v].idle
             /\ workerStateMap'[w].idle = idle
  <2>1. workerStateMap \in [Registered -> WorkerState]
    BY DEF OrchestratorTypeOK
  <2>2. /\ workerStateMap'[w] = [workerStateMap[w] EXCEPT !.idle = idle]
        /\ \A v \in Registered \ {w} : workerStateMap'[v] = workerStateMap[v]
        /\ DOMAIN workerStateMap' = DOMAIN workerStateMap
    BY <1>2, <2>1 DEF SetIdle, Registered
  <2> QED
    BY <1>2, <2>1, <2>2 DEF Registered, WorkerState
<1>3. CASE StandBy(w, reply)
  BY <1>2, <1>3, ItemKinds DEF StandBy, Current, FiledMSS
<1>4. ASSUME NEW n \in Cases, Allocate(w, n, reply)
      PROVE  /\ reply \in ClientItems
             /\ MeasurementOf(reply) = Current'
  <2>1. /\ ItemFor(n) \in ClientItems
        /\ ItemFor(n).test = n
        /\ ItemFor(n).mss = IF IsNetperf(n) THEN 0 ELSE MSS[n]
    BY <1>4, ItemForType DEF Allocate
  <2>2. CASE IsNetperf(n)
    BY <1>4, <2>1, <2>2 DEF Allocate, MeasurementOf, Current, FiledMSS,
                            IsNetperf
  <2>3. CASE ~IsNetperf(n)
    <3>1. MSS[n] \in Nat /\ MSS'[n] = MSS[n] + MssStepSize
      BY <1>4, <2>3 DEF Allocate, AdvanceSweep, OrchestratorTypeOK
    <3>2. FiledMSS(IsNetperf(currentJobIndex))' = MSS[n]
      BY <1>4, <2>3, <3>1, NetPerfAssumption
         DEF Allocate, FiledMSS, IsNetperf
    <3> QED
      BY <1>4, <2>1, <2>3, <3>2 DEF Allocate, MeasurementOf, Current
  <2> QED
    BY <1>4, <2>1, <2>2, <2>3 DEF Allocate
<1>5. ASSUME NEW n \in Cases, Allocate(w, n, reply)
      PROVE  /\ w \in Registered
             /\ SetIdle(w, FALSE)
             /\ \A v \in Registered \ {w} : workerStateMap[v].idle
             /\ UNCHANGED dataPoints
  BY <1>5 DEF Allocate, SystemIdleBut
<1>6. CASE Conclude(w, reply)
  BY <1>2, <1>6, ItemKinds DEF Conclude, Current, FiledMSS
<1>7. CASE \E n \in Cases : Allocate(w, n, reply)
  BY <1>2, <1>4, <1>5, <1>7
<1> QED
  BY <1>1, <1>3, <1>6, <1>7 DEF RegisterClient

(* ReceiveOutput appends one point to the current case, filed under the    *)
(* current measurement, and leaves who is busy and what is current alone.  *)
LEMMA ReceiveOutputEffect ==
  ASSUME OrchestratorTypeOK, Attribution, NEW i \in ClientItems,
         MeasurementOf(i) = Current, ReceiveOutput(i)
  PROVE  /\ UNCHANGED workerStateMap
         /\ Current' = Current
         /\ Attribution'
<1> DEFINE point == [mss |-> FiledMSS(IsNetperf(i.test)),
                     from |-> MeasurementOf(i)]
<1>1. /\ i.test = currentJobIndex
      /\ i.mss = FiledMSS(IsNetperf(i.test))
  BY DEF MeasurementOf, Current
<1>2. point.from = <<currentJobIndex, point.mss>>
  BY <1>1 DEF MeasurementOf
<1>3. dataPoints' = [dataPoints EXCEPT ![currentJobIndex] = Append(@, point)]
  BY DEF ReceiveOutput, RegisterDataPoint
<1>4. UNCHANGED <<workerStateMap, MSS, currentJobIndex>>
  BY DEF ReceiveOutput
<1>5. Attribution'
  <2> SUFFICES ASSUME NEW n \in Cases, NEW k \in DOMAIN dataPoints'[n]
               PROVE  dataPoints'[n][k].from = <<n, dataPoints'[n][k].mss>>
    BY DEF Attribution
  <2> HIDE DEF point
  <2>1. CASE n # currentJobIndex
    BY <1>3, <2>1 DEF Attribution, OrchestratorTypeOK
  <2>2. CASE n = currentJobIndex
    <3>1. /\ dataPoints[n] \in Seq(Points)
          /\ dataPoints'[n] = Append(dataPoints[n], point)
      BY <1>3, <2>2 DEF OrchestratorTypeOK
    <3>2. CASE k = Len(dataPoints[n]) + 1
      BY <1>2, <2>2, <3>1, <3>2
    <3>3. CASE k # Len(dataPoints[n]) + 1
      <4>1. k \in DOMAIN dataPoints[n] /\ dataPoints'[n][k] = dataPoints[n][k]
        BY <3>1, <3>3
      <4> QED
        BY <4>1 DEF Attribution
    <3> QED
      BY <3>2, <3>3
  <2> QED
    BY <2>1, <2>2
<1> QED
  BY <1>4, <1>5 DEF Current, FiledMSS

-----------------------------------------------------------------------------
(***************************************************************************)
(* The invariant.                                                          *)
(***************************************************************************)

LEMMA OrchestratorInitType == OrchestratorInit => OrchestratorTypeOK
<1> SUFFICES ASSUME OrchestratorInit PROVE OrchestratorTypeOK
  OBVIOUS
<1> USE DEF OrchestratorInit
<1>1. /\ Registered = {}
      /\ workerStateMap \in [Registered -> WorkerState]
  BY DEF Registered
<1>2. MSS \in [Cases -> Nat]
  <2>1. \A n \in Cases : Testcases[n] \in Testcase
    BY NetPerfAssumption DEF Cases
  <2>2. \A n \in Cases : Testcases[n].MSS \in Nat
    BY <2>1 DEF Testcase
  <2> QED
    BY <2>2
<1>3. 1 \in Cases
  BY NetPerfAssumption DEF Cases
<1>4. /\ dataPoints \in [Cases -> Seq(Points)]
      /\ dataPointKeys \in Seq(Cases)
      /\ stdout \in Seq(CsvBlocks)
  OBVIOUS
<1>5. Finished \in [Cases -> BOOLEAN] /\ datapointsFlushed \in BOOLEAN
  OBVIOUS
<1>6. Registered \subseteq Workers /\ currentJobIndex \in Cases
  BY <1>1, <1>3
<1> QED
  BY <1>1, <1>2, <1>4, <1>5, <1>6 DEF OrchestratorTypeOK

LEMMA InitIInv == Init => IInv
<1> SUFFICES ASSUME Init PROVE IInv
  OBVIOUS
<1>1. OrchestratorTypeOK
  BY OrchestratorInitType DEF Init
<1> USE DEF Init, OrchestratorInit, WorkerInit
<1>2. WorkerTypeOK
  BY ItemKinds DEF WorkerTypeOK, Locations
<1>3. BusyUnique
  BY DEF BusyUnique, Registered
<1>4. HolderIsBusy /\ HolderIsCurrent /\ HoldsClientItem
  BY DEF HolderIsBusy, HolderIsCurrent, HoldsClientItem, Holds
<1>5. Attribution
  BY DEF Attribution
<1> QED
  BY <1>1, <1>2, <1>3, <1>4, <1>5 DEF IInv, TypeOK

LEMMA StepIInv ==
  ASSUME IInv, NEW w \in Workers, Step(w)
  PROVE  IInv'
<1>1. TypeOK' /\ HoldsClientItem'
  BY StepType, StepHoldsClientItem DEF IInv
<1>2. CASE WorkerStep(w)
  <2>1. UNCHANGED orchVars
    BY <1>2 DEF WorkerStep
  <2>2. \A v \in Workers : Holds(v)' => Holds(v) /\ item'[v] = item[v]
    BY <1>2, WorkerStepHolds DEF IInv, TypeOK
  <2>3. BusyUnique' /\ Attribution'
    BY <2>1 DEF orchVars, IInv, BusyUnique, Attribution, Registered
  <2>4. HolderIsBusy'
    BY <2>1, <2>2 DEF orchVars, IInv, HolderIsBusy, Registered
  <2>5. HolderIsCurrent'
    BY <2>1, <2>2 DEF orchVars, IInv, HolderIsCurrent, MeasurementOf, FiledMSS
  <2> QED
    BY <1>1, <2>3, <2>4, <2>5 DEF IInv
<1>3. CASE HandleRegister(w)
  <2>1. PICK reply \in Replies :
          Answer(w, reply) /\ RegisterClient(w, MyIP(w), reply)
    BY <1>3 DEF HandleRegister
  <2>2. /\ ~Holds(w)
        /\ Holds(w)' => item'[w] = reply /\ reply.kind = "client"
        /\ \A v \in Workers \ {w} :
             Holds(v)' => Holds(v) /\ item'[v] = item[v]
    BY <2>1, AnswerHolds DEF IInv, TypeOK
  <2>3. MyIP(w) \in PodIPs
    BY DEF IInv, TypeOK, WorkerTypeOK, MyIP, PodIPs
  <2>4. /\ Registered' = Registered \cup {w}
        /\ \A v \in Registered \ {w} :
             workerStateMap'[v].idle = workerStateMap[v].idle
        /\ UNCHANGED dataPoints
        /\ \/ /\ reply.kind # "client"
              /\ workerStateMap'[w].idle
              /\ Current' = Current
           \/ /\ reply \in ClientItems
              /\ ~workerStateMap'[w].idle
              /\ \A v \in Registered \ {w} : workerStateMap[v].idle
              /\ MeasurementOf(reply) = Current'
    BY <2>1, <2>3, RegisterClientEffect DEF IInv, TypeOK
  <2>5. BusyUnique'
    BY <2>4 DEF IInv, BusyUnique
  <2>6. HolderIsBusy'
    BY <2>2, <2>4, ItemKinds DEF IInv, HolderIsBusy
  <2>7. HolderIsCurrent'
    <3> SUFFICES ASSUME NEW v \in Workers, Holds(v)'
                 PROVE  MeasurementOf(item'[v]) = Current'
      BY DEF HolderIsCurrent, Current, MeasurementOf
    <3>1. CASE v = w
      BY <2>2, <2>4, <3>1
    <3>2. CASE v # w
      <4>1. Holds(v) /\ item'[v] = item[v]
        BY <2>2, <3>2
      <4>2. v \in Registered /\ ~workerStateMap[v].idle
        BY <4>1 DEF IInv, HolderIsBusy
      <4>3. Current' = Current
        BY <2>4, <3>2, <4>2
      <4> QED
        BY <4>1, <4>3 DEF IInv, HolderIsCurrent, Current
    <3> QED
      BY <3>1, <3>2
  <2>8. Attribution'
    BY <2>4 DEF IInv, Attribution
  <2> QED
    BY <1>1, <2>5, <2>6, <2>7, <2>8 DEF IInv
<1>4. CASE HandleReceive(w)
  <2>1. /\ Holds(w)
        /\ ~Holds(w)'
        /\ \A v \in Workers \ {w} :
             Holds(v)' => Holds(v) /\ item'[v] = item[v]
    BY <1>4, AcknowledgeHolds DEF HandleReceive, IInv, TypeOK
  <2>2. item[w] \in ClientItems
    BY <1>4 DEF HandleReceive, Acknowledge, Goto, IInv, HoldsClientItem
  <2>3. MeasurementOf(item[w]) = Current
    BY <2>1 DEF IInv, HolderIsCurrent, Current
  <2>4. /\ UNCHANGED workerStateMap
        /\ Current' = Current
        /\ Attribution'
    BY <1>4, <2>2, <2>3, ReceiveOutputEffect DEF HandleReceive, IInv, TypeOK
  <2>5. BusyUnique'
    BY <2>4 DEF IInv, BusyUnique, Registered
  <2>6. HolderIsBusy'
    BY <2>1, <2>4 DEF IInv, HolderIsBusy, Registered
  <2>7. HolderIsCurrent'
    BY <2>1, <2>4 DEF IInv, HolderIsCurrent, Current, MeasurementOf
  <2> QED
    BY <1>1, <2>4, <2>5, <2>6, <2>7 DEF IInv
<1> QED
  BY <1>2, <1>3, <1>4 DEF Step

LEMMA StutterIInv ==
  ASSUME IInv, UNCHANGED vars
  PROVE  IInv'
BY DEF IInv, vars, orchVars, workerVars, TypeOK, OrchestratorTypeOK,
       WorkerTypeOK, BusyUnique, HolderIsBusy, HolderIsCurrent,
       HoldsClientItem, Attribution, Registered, Holds, MeasurementOf, FiledMSS

THEOREM InvariantHolds == Spec => []IInv
<1>1. IInv /\ [Next]_vars => IInv'
  BY StepIInv, StutterIInv DEF Next
<1> QED
  BY InitIInv, <1>1, PTL DEF Spec

-----------------------------------------------------------------------------
(* Every variable keeps its type. *)
THEOREM TypeCorrect == Spec => []TypeOK
<1>1. IInv => TypeOK
  BY DEF IInv
<1> QED
  BY InvariantHolds, <1>1, PTL

(* At most one worker holds a measurement at any time, for any table and   *)
(* any number of workers: globalLock and the idle flags serialize the      *)
(* measurements although every worker polls on its own.                    *)
THEOREM MutualExclusion == Spec => []OneJobAtATime
<1>1. IInv => OneJobAtATime
  BY DEF IInv, HolderIsBusy, BusyUnique, OneJobAtATime
<1> QED
  BY InvariantHolds, <1>1, PTL

(* Every recorded point is the output of the test case and of the MSS it   *)
(* is filed under, although ReceiveOutput derives both from                *)
(* currentJobIndex and the already advanced sweep.                         *)
THEOREM PointsAreAttributed == Spec => []Attribution
<1>1. IInv => Attribution
  BY DEF IInv
<1> QED
  BY InvariantHolds, <1>1, PTL

-----------------------------------------------------------------------------
(***************************************************************************)
(* The servers.  The first reply to a worker is the server item; when no   *)
(* reply is lost, the worker acts on it before it asks again.              *)
(***************************************************************************)

ServersFollowEnrollment ==
  \A w \in Workers :
    /\ pc[w] = "answered" => w \in Registered
    /\ w \in Registered =>
         servers[w] \/ (pc[w] = "answered" /\ item[w].kind = "server")

(* A worker that is told anything but to start its servers runs them.      *)
THEOREM ServersAreTriggered == Spec => []ServerTriggered
<1> DEFINE SInv == IInv /\ ServersFollowEnrollment
<1>1. Init => SInv
  BY InitIInv DEF Init, OrchestratorInit, WorkerInit, Registered,
                  ServersFollowEnrollment
<1>2. SInv /\ [Next]_vars => SInv'
  <2> SUFFICES ASSUME IInv, ServersFollowEnrollment, [Next]_vars
               PROVE  ServersFollowEnrollment'
    BY StepIInv, StutterIInv DEF Next
  <2> USE DEF ServersFollowEnrollment
  <2>1. ASSUME NEW w \in Workers, WorkerStep(w)
        PROVE  ServersFollowEnrollment'
    <3> USE <2>1 DEF WorkerStep, orchVars, IInv, TypeOK, WorkerTypeOK, Goto,
                     Registered
    <3>1. CASE Dial(w)       BY <3>1 DEF Dial
    <3>2. CASE Register(w)   BY <3>2 DEF Register
    <3>3. CASE TakeIdle(w)   BY <3>3 DEF TakeIdle
    <3>4. CASE TakeServer(w) BY <3>4 DEF TakeServer, Drop
    <3>5. CASE TakeClient(w) BY <3>5 DEF TakeClient
    <3>6. CASE Report(w)     BY <3>6 DEF Report
    <3>7. CASE Cooldown(w)   BY <3>7 DEF Cooldown, Drop
    <3> QED
      BY <3>1, <3>2, <3>3, <3>4, <3>5, <3>6, <3>7
  <2>2. ASSUME NEW w \in Workers, HandleRegister(w)
        PROVE  ServersFollowEnrollment'
    <3>1. PICK reply \in Replies :
            Answer(w, reply) /\ RegisterClient(w, MyIP(w), reply)
      BY <2>2 DEF HandleRegister
    <3>2. MyIP(w) \in PodIPs
      BY DEF IInv, TypeOK, WorkerTypeOK, MyIP, PodIPs
    <3>3. Registered' = Registered \cup {w}
      BY <3>1, <3>2, RegisterClientEffect DEF IInv, TypeOK
    <3>4. w \in Registered \/ reply.kind = "server"
      BY <3>1, ItemKinds
         DEF RegisterClient, Enroll, StandBy, Allocate, Conclude
    <3> QED
      BY <3>1, <3>3, <3>4 DEF Answer, Goto, IInv, TypeOK, WorkerTypeOK
  <2>3. ASSUME NEW w \in Workers, HandleReceive(w)
        PROVE  ServersFollowEnrollment'
    <3>1. UNCHANGED workerStateMap
      BY <2>3 DEF HandleReceive, ReceiveOutput
    <3> QED
      BY <2>3, <3>1 DEF HandleReceive, Acknowledge, Goto, Registered, IInv,
                        TypeOK, WorkerTypeOK
  <2>4. CASE UNCHANGED vars
    BY <2>4 DEF vars, orchVars, workerVars, Registered
  <2> QED
    BY <2>1, <2>2, <2>3, <2>4 DEF Next, Step
<1>3. SInv => ServerTriggered
  BY DEF ServersFollowEnrollment, ServerTriggered
<1> QED
  BY <1>1, <1>2, <1>3, PTL DEF Spec
=============================================================================
