------------------------------ MODULE NetPerf -------------------------------
(***************************************************************************)
(* The network benchmark without failures: the orchestrator and its        *)
(* workers, joined by the two RPCs of NetPerfRPC.  A handler runs under    *)
(* globalLock while its caller is blocked in client.Call, so a call is     *)
(* three steps: the request is sent, it is handled, the reply is taken.    *)
(***************************************************************************)
EXTENDS Orchestrator, Worker

vars == <<orchVars, workerVars>>

Init == OrchestratorInit /\ WorkerInit

WorkerStep(w) ==
  /\ \/ Dial(w)
     \/ Register(w)
     \/ TakeIdle(w)
     \/ TakeServer(w)
     \/ TakeClient(w)
     \/ Report(w)
     \/ Cooldown(w)
  /\ UNCHANGED orchVars

HandleRegister(w) ==
  \E reply \in Replies :
    /\ Answer(w, reply)
    /\ RegisterClient(w, MyIP(w), reply)

(* Mutant: the output is sent again although it was recorded. *)
HandleReceive_Retried(w) ==
  /\ pc[w] = "reporting" /\ connected[w]
  /\ ReceiveOutput(item[w])
  /\ UNCHANGED workerVars

HandleReceive(w) ==
  /\ Acknowledge(w)
  /\ ReceiveOutput(item[w])

Step(w) == WorkerStep(w) \/ HandleRegister(w) \/ HandleReceive(w)

Next == \E w \in Workers : Step(w)

Spec == Init /\ [][Next]_vars

(* The workers are separate Pods and net/rpc serves every call with a      *)
(* goroutine of its own: a step that is enabled and stays so is taken.     *)
FairSpec == Spec /\ \A w \in Workers : WF_vars(Step(w))

-----------------------------------------------------------------------------
TypeOK == OrchestratorTypeOK /\ WorkerTypeOK

(* At most one worker holds a measurement: allocateWorkToClient hands out  *)
(* work only when the "system is all idle".                                *)
OneJobAtATime == \A v, w \in Workers : Holds(v) /\ Holds(w) => v = w

(* At most one client program runs at a time. *)
OneRunAtATime ==
  \A v, w \in Workers : pc[v] = "run" /\ pc[w] = "run" => v = w

(* A point is filed under the test case and the MSS its program was run    *)
(* with, although ReceiveOutput takes both from the orchestrator's own     *)
(* state and not from the call.                                            *)
Attribution ==
  \A n \in Cases : \A i \in DOMAIN dataPoints[n] :
    dataPoints[n][i].from = <<n, dataPoints[n][i].mss>>

(* The sweep of a test case: {0} for netperf, otherwise every MSS from the *)
(* initial one to mssMax.                                                  *)
Sweep(n) ==
  IF IsNetperf(n)
    THEN {0}
    ELSE {m \in Testcases[n].MSS .. MssMax :
            (m - Testcases[n].MSS) % MssStepSize = 0}

(* The points are those of the whole sweep, in increasing order of MSS. *)
SweptInOrder(n, points) ==
  /\ {points[i].mss : i \in DOMAIN points} = Sweep(n)
  /\ \A i, j \in DOMAIN points : i < j => points[i].mss < points[j].mss

(* When flushDataPointsToCsv has run, it has run once and printed every    *)
(* test case, in the order of the table, with its whole sweep; and the MSS *)
(* header is the X-axis of every row that has more than one point.         *)
CompleteReport ==
  datapointsFlushed =>
    /\ Len(stdout) = 1
    /\ LET report == stdout[1] IN
       /\ Len(report.rows) = Len(Testcases)
       /\ \A n \in Cases :
            LET row == report.rows[n] IN
            /\ row.label = n
            /\ SweptInOrder(n, row.points)
            /\ Len(row.points) > 1 =>
                 report.header = [i \in DOMAIN row.points |-> row.points[i].mss]

(* A worker that is told anything but to start its servers runs them: a    *)
(* worker gets the server item once, in its first registration.            *)
ServerTriggered ==
  \A w \in Workers :
    pc[w] = "answered" /\ item[w].kind # "server" => servers[w]

(* The orchestrator's address of a worker that has just registered is the  *)
(* address of that worker's Pod.                                           *)
RegisteredIPIsCurrent ==
  \A w \in Workers : pc[w] = "answered" => workerStateMap[w].IP = MyIP(w)

(* In the end the report is there, and stays: an orchestrator that is       *)
(* restarted after its report issues another one.                          *)
EventuallyReported == <>[]datapointsFlushed

-----------------------------------------------------------------------------
(* Every behaviour is a campaign over the table (Campaign.tla). *)
Plan == UNION {{<<n, m>> : m \in Sweep(n)} : n \in Cases}

Measured == UNION {{<<n, dataPoints[n][i].mss>> : i \in DOMAIN dataPoints[n]} :
                     n \in Cases}

Active == {MeasurementOf(item[w]) : w \in {v \in Workers : Holds(v)}}

Abstract == INSTANCE Campaign
  WITH measured <- Measured, active <- Active, reported <- datapointsFlushed

ImplementsCampaign == Abstract!Spec
=============================================================================
