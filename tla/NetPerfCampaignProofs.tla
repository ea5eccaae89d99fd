----------------------- MODULE NetPerfCampaignProofs ------------------------
(***************************************************************************)
(* Without failures the benchmark is a campaign (Campaign.tla), for every  *)
(* table and any set of workers: each measurement of the table is taken    *)
(* once, one at a time and in order, and the report comes after the last.  *)
(*                                                                         *)
(* The invariant: the measurements of a sweep that are recorded or in      *)
(* progress are exactly those below the MSS it stands at, and a netperf    *)
(* case is finished by its one point.                                      *)
(***************************************************************************)
EXTENDS NetPerfOrderProofs

Initial(n) == Testcases[n].MSS

Somebody == \E w \in Workers : Holds(w)

InProgress(n, m) == Somebody /\ Current = <<n, m>>

(* Where the sweep of an iperf case stands. *)
SweepPosition ==
  \A n \in Cases : ~IsNetperf(n) =>
    /\ MSS[n] >= Initial(n)
    /\ (MSS[n] - Initial(n)) % MssStepSize = 0
    /\ Finished[n] <=> MSS[n] > MssMax

SweepsTaken ==
  \A n \in Cases : ~IsNetperf(n) =>
    \A m \in Int : IsMeasured(n, m) \/ InProgress(n, m) <=>
                     m \in Sweep(n) /\ m < MSS[n]

NetperfTaken ==
  \A n \in Cases : IsNetperf(n) =>
    /\ \A m \in Int : IsMeasured(n, m) => m = 0
    /\ Finished[n] => IsMeasured(n, 0)

CInv ==
  /\ IInv
  /\ OrderInv
  /\ SweepPosition
  /\ SweepsTaken
  /\ NetperfTaken

-----------------------------------------------------------------------------
(* Two multiples of s less than s apart are the same. *)
LEMMA Multiples ==
  ASSUME NEW s \in Nat \ {0}, NEW a \in Nat, a % s = 0
  PROVE  /\ (a + s) % s = 0
         /\ \A b \in Nat : b % s = 0 /\ b < a + s => b <= a
<1>1. ASSUME NEW c \in Nat
      PROVE  /\ c = (c \div s) * s + (c % s)
             /\ c \div s \in Nat
             /\ c % s \in 0 .. s - 1
  <2>1. c = (c \div s) * s + (c % s)
    BY Z3
  <2>2. c % s \in 0 .. s - 1
    OBVIOUS
  <2>3. c \div s \in Nat
    OBVIOUS
  <2> QED
    BY <2>1, <2>2, <2>3
<1>2. \A d \in Int : 0 <= d * s /\ d * s < s => d = 0
  OBVIOUS
<1> DEFINE d == a \div s
           q == (a + s) \div s
<1>3. a = d * s /\ d \in Nat
  BY <1>1
<1>4. a + s = q * s + ((a + s) % s) /\ q \in Nat /\ (a + s) % s \in 0 .. s - 1
  <2>1. a + s \in Nat
    OBVIOUS
  <2> HIDE DEF d
  <2> QED
    BY <1>1, <2>1
<1> HIDE DEF d, q
<1>5. (a + s) % s = 0
  <2>1. (d + 1 - q) * s = (a + s) % s
    BY <1>3, <1>4
  <2>2. d + 1 - q \in Int
    BY <1>3, <1>4
  <2>3. d + 1 - q = 0
    BY <1>2, <1>4, <2>1, <2>2
  <2> QED
    BY <2>1, <2>3
<1>6. ASSUME NEW b \in Nat, b % s = 0, b < a + s PROVE b <= a
  <2> SUFFICES ASSUME b > a PROVE FALSE
    OBVIOUS
  <2> DEFINE e == b \div s
  <2>1. b = e * s /\ e \in Nat
    BY <1>1, <1>6
  <2> HIDE DEF e
  <2>2. (e - d) * s = b - a /\ e - d \in Int
    BY <1>3, <2>1
  <2>3. e - d = 0
    BY <1>2, <1>6, <2>2
  <2> QED
    BY <2>2, <2>3
<1> QED
  BY <1>5, <1>6

LEMMA InitialTypes ==
  ASSUME NEW n \in Cases
  PROVE  Initial(n) \in Nat /\ Initial(n) <= MssMax
         /\ MssMax \in Nat /\ MssStepSize \in Nat \ {0}
<1>1. Testcases[n] \in Testcase
  BY NetPerfAssumption DEF Cases
<1> QED
  BY <1>1, NetPerfAssumption DEF Cases, Initial, Testcase

(* The measurement that a sweep stands at is the next of its sweep.        *)
LEMMA SweepStep ==
  ASSUME NEW n \in Cases, ~IsNetperf(n), NEW p \in Nat, p >= Initial(n),
         (p - Initial(n)) % MssStepSize = 0
  PROVE  /\ (p + MssStepSize - Initial(n)) % MssStepSize = 0
         /\ p <= MssMax => p \in Sweep(n)
         /\ \A m \in Sweep(n) : m < p + MssStepSize <=> m < p \/ m = p
         /\ \A m \in Sweep(n) : m \in Int /\ m <= MssMax
<1> DEFINE s == MssStepSize
           t == Initial(n)
<1>1. t \in Nat /\ s \in Nat \ {0} /\ MssMax \in Nat
  BY InitialTypes
<1>2. \A m : m \in Sweep(n) <=> m \in t .. MssMax /\ (m - t) % s = 0
  BY DEF Sweep, Initial
<1> HIDE DEF s, t
<1>3. p - t \in Nat /\ (p - t) % s = 0
  BY <1>1 DEF s, t
<1>4. /\ ((p - t) + s) % s = 0
      /\ \A b \in Nat : b % s = 0 /\ b < (p - t) + s => b <= p - t
  BY <1>1, <1>3, Multiples
<1>5. (p - t) + s = p + s - t
  BY <1>1
<1>6. (p + s - t) % s = 0
  BY <1>4, <1>5
<1>7. p <= MssMax => p \in Sweep(n)
  BY <1>1, <1>2, <1>3
<1>8. ASSUME NEW m \in Sweep(n) PROVE m < p + s <=> m < p \/ m = p
  <2>1. m - t \in Nat /\ (m - t) % s = 0 /\ m \in Int
    BY <1>1, <1>2
  <2>2. m - t < (p - t) + s => m - t <= p - t
    BY <1>4, <2>1
  <2> QED
    BY <1>1, <2>1, <2>2
<1>9. \A m \in Sweep(n) : m \in Int /\ m <= MssMax
  BY <1>1, <1>2
<1> QED
  BY <1>6, <1>7, <1>8, <1>9 DEF s, t

LEMMA SweepNotEmpty ==
  ASSUME NEW n \in Cases
  PROVE  /\ ~IsNetperf(n) => Initial(n) \in Sweep(n)
         /\ \E m \in Int : m \in Sweep(n)
<1>1. Initial(n) \in Nat /\ Initial(n) <= MssMax /\ MssStepSize \in Nat \ {0}
  BY InitialTypes
<1>2. CASE IsNetperf(n)
  BY <1>2 DEF Sweep
<1>3. CASE ~IsNetperf(n)
  <2>1. \A s \in Nat \ {0} : 0 % s = 0
    OBVIOUS
  <2>2. (Initial(n) - Initial(n)) % MssStepSize = 0
    BY <1>1, <2>1
  <2> QED
    BY <1>1, <1>3, <2>2, SweepStep
<1> QED
  BY <1>2, <1>3

-----------------------------------------------------------------------------
(* The state of the campaign in terms of the predicates above.             *)

LEMMA MeasuredIs ==
  \A x : x \in Measured <=>
           \E n \in Cases : \E i \in DOMAIN dataPoints[n] :
             x = <<n, dataPoints[n][i].mss>>
BY DEF Measured

LEMMA PlanIs ==
  \A x : x \in Plan <=> \E n \in Cases : \E m \in Sweep(n) : x = <<n, m>>
BY DEF Plan

LEMMA ActiveIs ==
  ASSUME HolderIsCurrent
  PROVE  Active = IF Somebody THEN {Current} ELSE {}
BY DEF HolderIsCurrent, Active, Somebody, Current

(* A measurement in progress is busy, so that nobody else is given one.    *)
LEMMA NobodyHolds ==
  ASSUME IInv, NEW w \in Workers, ~Holds(w), SystemIdleBut(w)
  PROVE  ~Somebody
BY DEF IInv, HolderIsBusy, SystemIdleBut, Somebody

(* A step of a worker's own loses no measurement. *)
LEMMA WorkerStepKeepsHolding ==
  ASSUME WorkerTypeOK, NEW w \in Workers, WorkerStep(w)
  PROVE  \A v \in Workers : Holds(v) => Holds(v)'
<1> USE ItemKinds DEF WorkerTypeOK, Holds, Goto, Drop
<1>1. CASE Dial(w)       BY <1>1 DEF Dial
<1>2. CASE Register(w)   BY <1>2 DEF Register
<1>3. CASE TakeIdle(w)   BY <1>3 DEF TakeIdle
<1>4. CASE TakeServer(w) BY <1>4 DEF TakeServer
<1>5. CASE TakeClient(w) BY <1>5 DEF TakeClient
<1>6. CASE Report(w)     BY <1>6 DEF Report
<1>7. CASE Cooldown(w)   BY <1>7 DEF Cooldown
<1> QED
  BY <1>1, <1>2, <1>3, <1>4, <1>5, <1>6, <1>7 DEF WorkerStep

(* What a step does to the orchestrator, and whether a measurement is in   *)
(* progress before and after it.                                           *)
LEMMA StepCases ==
  ASSUME IInv, NEW w \in Workers, Step(w)
  PROVE  \/ UNCHANGED orchVars /\ (Somebody' <=> Somebody)
         \/ \E reply : \E n \in Cases :
              Allocate(w, n, reply) /\ ~Somebody /\ Somebody'
         \/ \E reply : /\ Enroll(w, MyIP(w), reply) \/ StandBy(w, reply)
                       /\ Somebody' <=> Somebody
         \/ \E reply : Conclude(w, reply) /\ ~Somebody /\ ~Somebody'
         \/ \E i \in ClientItems : /\ ReceiveOutput(i)
                                   /\ MeasurementOf(i) = Current
                                   /\ Somebody /\ ~Somebody'
<1>1. CASE WorkerStep(w)
  <2>1. Somebody' <=> Somebody
    BY <1>1, WorkerStepHolds, WorkerStepKeepsHolding DEF Somebody, IInv, TypeOK
  <2> QED
    BY <1>1, <2>1 DEF WorkerStep
<1>2. CASE HandleRegister(w)
  <2>1. PICK reply \in Replies :
          Answer(w, reply) /\ RegisterClient(w, MyIP(w), reply)
    BY <1>2 DEF HandleRegister
  <2>2. /\ ~Holds(w)
        /\ Holds(w)' <=> reply.kind = "client"
        /\ \A v \in Workers \ {w} : Holds(v)' <=> Holds(v)
    BY <2>1 DEF Answer, Goto, Holds, IInv, TypeOK, WorkerTypeOK
  <2>3. ASSUME NEW n \in Cases, Allocate(w, n, reply)
        PROVE  ~Somebody /\ Somebody'
    <3>1. reply \in ClientItems
      BY <2>3, ItemForType DEF Allocate, IInv, TypeOK
    <3> QED
      BY <2>2, <2>3, <3>1, ItemKinds, NobodyHolds DEF Allocate, Somebody
  <2>4. ASSUME reply.kind # "client"
        PROVE  Somebody' <=> Somebody
    BY <2>2, <2>4 DEF Somebody
  <2>5. CASE Enroll(w, MyIP(w), reply) \/ StandBy(w, reply)
    BY <2>4, <2>5, ItemKinds DEF Enroll, StandBy
  <2>6. CASE Conclude(w, reply)
    BY <2>2, <2>4, <2>6, ItemKinds, NobodyHolds DEF Conclude
  <2> QED
    BY <2>1, <2>3, <2>5, <2>6 DEF RegisterClient
<1>3. CASE HandleReceive(w)
  <2>1. item[w] \in ClientItems
    BY <1>3 DEF HandleReceive, Acknowledge, Goto, IInv, HoldsClientItem
  <2>2. /\ Holds(w) /\ ~Holds(w)'
        /\ \A v \in Workers \ {w} : Holds(v)' => Holds(v)
    BY <1>3, AcknowledgeHolds DEF HandleReceive, IInv, TypeOK
  <2>3. Somebody /\ ~Somebody'
    BY <2>2 DEF IInv, HolderIsBusy, BusyUnique, Somebody
  <2>4. MeasurementOf(item[w]) = Current
    BY <2>2 DEF IInv, HolderIsCurrent, Current
  <2> QED
    BY <1>3, <2>1, <2>3, <2>4 DEF HandleReceive
<1> QED
  BY <1>1, <1>2, <1>3 DEF Step

-----------------------------------------------------------------------------
(* The steps. *)

taking == <<MSS, Finished, currentJobIndex, dataPoints>>

LEMMA SameCampaign ==
  ASSUME CInv, IInv', OrderInv', UNCHANGED taking, Somebody' <=> Somebody
  PROVE  CInv' /\ Measured' = Measured /\ Active' = Active
<1>1. Current' = Current
  BY DEF taking, Current, FiledMSS, IsNetperf
<1>2. Active' = Active
  BY <1>1, ActiveIs DEF CInv, IInv, HolderIsCurrent, Active, Somebody, Current
<1>3. Measured' = Measured
  BY DEF taking, Measured
<1>4. SweepPosition' /\ NetperfTaken'
  BY DEF taking, CInv, SweepPosition, NetperfTaken, IsMeasured
<1>5. SweepsTaken'
  BY <1>1 DEF taking, CInv, SweepsTaken, IsMeasured, InProgress
<1> QED
  BY <1>2, <1>3, <1>4, <1>5 DEF CInv

LEMMA AllocateStarts ==
  ASSUME CInv, IInv', OrderInv', NextIsNew', NEW n \in Cases,
         FirstUnfinished(n), AdvanceSweep(n), currentJobIndex' = n,
         UNCHANGED <<dataPoints, datapointsFlushed>>, ~Somebody, Somebody'
  PROVE  CInv' /\ Abstract!Start
<1> USE CaseNumbers DEF CasesAreNumbers
<1>1. /\ MSS \in [Cases -> Nat] /\ Finished \in [Cases -> BOOLEAN]
      /\ n \in Nat /\ MssStepSize \in Nat \ {0} /\ MssMax \in Nat
  BY InitialTypes DEF CInv, IInv, TypeOK, OrchestratorTypeOK
<1>2. \A k \in Cases \ {n} : MSS'[k] = MSS[k] /\ Finished'[k] = Finished[k]
  BY <1>1 DEF AdvanceSweep
<1>3. IsNetperf(n) => MSS' = MSS /\ Finished' = Finished
  BY DEF AdvanceSweep
<1>4. ~IsNetperf(n) => /\ MSS'[n] = MSS[n] + MssStepSize
                       /\ Finished'[n] <=> MSS[n] + MssStepSize > MssMax
  BY <1>1 DEF AdvanceSweep
<1> DEFINE next == IF IsNetperf(n) THEN 0 ELSE MSS[n]
<1>5. Current' = <<n, next>>
  BY <1>1, <1>3, <1>4 DEF Current, FiledMSS, IsNetperf
<1>6. ~IsNetperf(n) =>
        /\ MSS[n] \in Sweep(n)
        /\ (MSS[n] + MssStepSize - Initial(n)) % MssStepSize = 0
        /\ \A m \in Sweep(n) : m < MSS[n] + MssStepSize
                                 <=> m < MSS[n] \/ m = MSS[n]
  <2> SUFFICES ASSUME ~IsNetperf(n)
               PROVE  /\ MSS[n] \in Sweep(n)
                      /\ (MSS[n] + MssStepSize - Initial(n)) % MssStepSize = 0
                      /\ \A m \in Sweep(n) : m < MSS[n] + MssStepSize
                                               <=> m < MSS[n] \/ m = MSS[n]
    OBVIOUS
  <2>1. /\ MSS[n] \in Nat /\ MSS[n] >= Initial(n) /\ MSS[n] <= MssMax
        /\ (MSS[n] - Initial(n)) % MssStepSize = 0
    BY <1>1 DEF CInv, SweepPosition, FirstUnfinished
  <2> QED
    BY <2>1, SweepStep
<1>7. next \in Sweep(n) /\ next \in Nat
  BY <1>1, <1>6 DEF Sweep
<1>8. \A k \in Cases, m \in Int : IsMeasured(k, m)' <=> IsMeasured(k, m)
  BY DEF IsMeasured
<1>9. SweepPosition'
  BY <1>1, <1>2, <1>3, <1>4, <1>6, InitialTypes
     DEF CInv, SweepPosition, IsNetperf, Initial
<1>10. NetperfTaken'
  <2> SUFFICES ASSUME NEW k \in Cases, IsNetperf(k)
               PROVE  /\ \A m \in Int : IsMeasured(k, m)' => m = 0
                      /\ Finished'[k] => IsMeasured(k, 0)'
    BY DEF NetperfTaken, IsNetperf
  <2>1. Finished'[k] = Finished[k]
    BY <1>2, <1>3
  <2> QED
    BY <1>8, <2>1 DEF CInv, NetperfTaken
<1>11. SweepsTaken'
  <2> SUFFICES ASSUME NEW k \in Cases, ~IsNetperf(k), NEW m \in Int
               PROVE  IsMeasured(k, m)' \/ InProgress(k, m)' <=>
                        m \in Sweep(k) /\ m < MSS'[k]
    BY DEF SweepsTaken, IsNetperf, Sweep
  <2>1. IsMeasured(k, m) <=> m \in Sweep(k) /\ m < MSS[k]
    BY DEF CInv, SweepsTaken, InProgress
  <2>2. InProgress(k, m)' <=> k = n /\ m = next
    BY <1>5 DEF InProgress
  <2>3. CASE k # n
    BY <1>2, <1>8, <2>1, <2>2, <2>3
  <2>4. CASE k = n
    BY <1>4, <1>6, <1>8, <2>1, <2>2, <2>4
  <2> QED
    BY <2>3, <2>4
<1>12. /\ Active = {} /\ Active' = {<<n, next>>} /\ Measured' = Measured
  <2>1. Active = {}
    BY ActiveIs DEF CInv, IInv
  <2>2. Active' = {Current'}
    BY DEF IInv, HolderIsCurrent, Active, Somebody, Current
  <2> QED
    BY <1>5, <2>1, <2>2 DEF Measured
<1>13. <<n, next>> \in Plan
  BY <1>7, PlanIs
<1>14. <<n, next>> \notin Measured
  <2> SUFFICES ASSUME <<n, next>> \in Measured PROVE FALSE
    OBVIOUS
  <2>1. IsMeasured(n, next)
    BY MeasuredIs DEF IsMeasured
  <2>2. CASE IsNetperf(n)
    <3>1. dataPoints[n] = << >>
      BY <2>2 DEF CInv, OrderInv, SweepAhead, FirstUnfinished
    <3> QED
      BY <2>1, <3>1 DEF IsMeasured
  <2>3. CASE ~IsNetperf(n)
    BY <1>1, <2>1, <2>3 DEF CInv, SweepsTaken
  <2> QED
    BY <2>2, <2>3
<1>15. ASSUME NEW x \in Plan \ Measured
       PROVE  x = <<n, next>> \/ Abstract!Before(<<n, next>>, x)
  <2>c. PICK c \in Cases : \E m \in Sweep(c) : x = <<c, m>>
    BY PlanIs
  <2>1. PICK m \in Sweep(c) : x = <<c, m>>
    BY <2>c
  <2>2. c \in Nat /\ m \in Int /\ m <= MssMax
    BY <1>1, InitialTypes DEF Sweep, Initial
  <2>3. ~IsMeasured(c, m)
    BY <1>15, <2>1, MeasuredIs DEF IsMeasured
  <2>4. ~Finished[c]
    <3>1. CASE IsNetperf(c)
      BY <2>1, <2>3, <3>1 DEF CInv, NetperfTaken, Sweep
    <3>2. CASE ~IsNetperf(c)
      <4>1. ~(m < MSS[c])
        BY <2>1, <2>2, <2>3, <3>2 DEF CInv, SweepsTaken, InProgress
      <4> QED
        BY <1>1, <2>2, <3>2, <4>1 DEF CInv, SweepPosition
    <3> QED
      BY <3>1, <3>2
  <2>5. n <= c
    BY <1>1, <2>2, <2>4 DEF FirstUnfinished
  <2>6. CASE c # n
    BY <1>1, <2>1, <2>2, <2>5, <2>6 DEF Abstract!Before
  <2>7. CASE c = n /\ IsNetperf(n)
    BY <2>1, <2>7 DEF Sweep
  <2>8. CASE c = n /\ ~IsNetperf(n)
    <3>1. ~(m < MSS[n])
      BY <2>1, <2>2, <2>3, <2>8 DEF CInv, SweepsTaken, InProgress
    <3> QED
      BY <1>1, <2>1, <2>2, <2>8, <3>1 DEF Abstract!Before
  <2> QED
    BY <2>6, <2>7, <2>8
<1>16. Abstract!Start
  <2> HIDE DEF next
  <2> QED
    BY <1>12, <1>13, <1>14, <1>15 DEF Abstract!Start
<1> QED
  BY <1>9, <1>10, <1>11, <1>16 DEF CInv

LEMMA ReceiveFinishes ==
  ASSUME CInv, IInv', OrderInv', NEW i \in ClientItems,
         MeasurementOf(i) = Current, ReceiveOutput(i), Somebody, ~Somebody'
  PROVE  CInv' /\ Abstract!Finish
<1> DEFINE n == currentJobIndex
           filed == FiledMSS(IsNetperf(n))
           point == [mss |-> filed, from |-> MeasurementOf(i)]
<1>1. /\ OrchestratorTypeOK /\ n \in Cases /\ i.test = n
      /\ Current = <<n, filed>>
  BY DEF CInv, IInv, TypeOK, OrchestratorTypeOK, MeasurementOf, Current
<1>2. filed \in Int
  BY <1>1, InitialTypes DEF FiledMSS, OrchestratorTypeOK
<1>3. point \in Points
  <2>1. MeasurementOf(i) \in Measurements
    BY DEF MeasurementOf, Measurements, ClientItems
  <2> QED
    BY <1>2, <2>1 DEF Points
<1>4. /\ dataPoints' = [dataPoints EXCEPT ![n] = Append(@, point)]
      /\ Finished' = [Finished EXCEPT ![n] = @ \/ IsNetperf(n)]
      /\ UNCHANGED <<MSS, currentJobIndex, datapointsFlushed>>
  BY <1>1 DEF ReceiveOutput, RegisterDataPoint
<1>5. point.mss = filed
  OBVIOUS
<1> HIDE DEF point
<1>6. \A k \in Cases, m \in Int :
        IsMeasured(k, m)' <=> IsMeasured(k, m) \/ (k = n /\ m = filed)
  <2> SUFFICES ASSUME NEW k \in Cases, NEW m \in Int
               PROVE  IsMeasured(k, m)' <=>
                        IsMeasured(k, m) \/ (k = n /\ m = filed)
    OBVIOUS
  <2>1. dataPoints[k] \in Seq(Points)
    BY <1>1 DEF OrchestratorTypeOK
  <2>2. CASE k # n
    BY <1>1, <1>4, <2>2 DEF OrchestratorTypeOK, IsMeasured
  <2>3. CASE k = n
    <3>1. dataPoints'[k] = Append(dataPoints[k], point)
      BY <1>1, <1>4, <2>3 DEF OrchestratorTypeOK
    <3>2. /\ Len(dataPoints[k]) \in Nat
          /\ DOMAIN dataPoints[k] = 1 .. Len(dataPoints[k])
          /\ DOMAIN dataPoints'[k] = 1 .. Len(dataPoints[k]) + 1
          /\ \A j \in DOMAIN dataPoints[k] :
               dataPoints'[k][j] = dataPoints[k][j]
          /\ dataPoints'[k][Len(dataPoints[k]) + 1] = point
      BY <1>3, <2>1, <3>1
    <3> QED
      BY <1>5, <2>3, <3>2 DEF IsMeasured
  <2> QED
    BY <2>2, <2>3
<1> HIDE DEF filed
<1>7. /\ Finished'[n] <=> Finished[n] \/ IsNetperf(n)
      /\ \A k \in Cases \ {n} : Finished'[k] = Finished[k]
  BY <1>1, <1>4 DEF OrchestratorTypeOK
<1>8. SweepPosition'
  BY <1>1, <1>4, <1>7 DEF CInv, SweepPosition
<1>9. \A k \in Cases, m \in Int : InProgress(k, m) <=> k = n /\ m = filed
  BY <1>1 DEF InProgress
<1>10. SweepsTaken'
  <2> SUFFICES ASSUME NEW k \in Cases, ~IsNetperf(k), NEW m \in Int
               PROVE  IsMeasured(k, m)' \/ InProgress(k, m)' <=>
                        m \in Sweep(k) /\ m < MSS'[k]
    BY DEF SweepsTaken, IsNetperf, Sweep
  <2>1. ~InProgress(k, m)'
    BY DEF InProgress
  <2> QED
    BY <1>4, <1>6, <1>9, <2>1 DEF CInv, SweepsTaken
<1>11. NetperfTaken'
  <2> SUFFICES ASSUME NEW k \in Cases, IsNetperf(k)
               PROVE  /\ \A m \in Int : IsMeasured(k, m)' => m = 0
                      /\ Finished'[k] => IsMeasured(k, 0)'
    BY DEF NetperfTaken, IsNetperf
  <2>1. k = n => filed = 0
    BY DEF FiledMSS, filed
  <2> QED
    BY <1>6, <1>7, <2>1 DEF CInv, NetperfTaken
<1>12. Active = {<<n, filed>>} /\ Active' = {}
  <2>1. Active = {Current}
    BY ActiveIs DEF CInv, IInv
  <2>2. Active' = {}
    BY DEF Active, Somebody
  <2> QED
    BY <1>1, <2>1, <2>2
<1>13. Measured' = Measured \cup {<<n, filed>>}
  <2>1. ASSUME NEW x PROVE x \in Measured <=>
          \E k \in Cases, m \in Int : x = <<k, m>> /\ IsMeasured(k, m)
    <3>1. \A k \in Cases : \A j \in DOMAIN dataPoints[k] :
            dataPoints[k][j].mss \in Int
      BY <1>1, SequenceTypes
    <3> QED
      BY <3>1, MeasuredIs DEF IsMeasured
  <2>2. ASSUME NEW x PROVE x \in Measured' <=>
          \E k \in Cases, m \in Int : x = <<k, m>> /\ IsMeasured(k, m)'
    <3>1. OrchestratorTypeOK'
      BY DEF IInv, TypeOK
    <3>2. \A k \in Cases : \A j \in DOMAIN dataPoints'[k] :
            dataPoints'[k][j].mss \in Int
      <4> TAKE k \in Cases
      <4> TAKE j \in DOMAIN dataPoints'[k]
      <4>1. dataPoints'[k] \in Seq(Points)
        BY <3>1 DEF OrchestratorTypeOK
      <4>2. dataPoints'[k][j] \in Points
        BY <4>1
      <4> QED
        BY <4>2 DEF Points
    <3>3. x \in Measured' <=> \E k \in Cases : \E j \in DOMAIN dataPoints'[k] :
                                x = <<k, dataPoints'[k][j].mss>>
      BY DEF Measured
    <3> QED
      BY <3>2, <3>3 DEF IsMeasured
  <2> QED
    BY <1>1, <1>2, <1>6, <2>1, <2>2 DEF filed
<1>14. Abstract!Finish
  BY <1>4, <1>12, <1>13 DEF Abstract!Finish
<1> QED
  BY <1>8, <1>10, <1>11, <1>14 DEF CInv

LEMMA EachMeasured ==
  ASSUME CInv, AllFinished, ~Somebody, NEW n \in Cases, NEW m \in Int
  PROVE  IsMeasured(n, m) <=> m \in Sweep(n)
<1>1. CASE IsNetperf(n)
  BY <1>1 DEF CInv, NetperfTaken, AllFinished, Sweep
<1>2. CASE ~IsNetperf(n)
  <2>1. MSS[n] \in Nat /\ MSS[n] > MssMax
    BY <1>2 DEF CInv, SweepPosition, AllFinished, IInv, TypeOK,
                OrchestratorTypeOK
  <2>2. m \in Sweep(n) => m <= MssMax
    BY <1>2, InitialTypes DEF Sweep, Initial
  <2>3. MssMax \in Nat
    BY InitialTypes
  <2> QED
    BY <1>2, <2>1, <2>2, <2>3 DEF CInv, SweepsTaken, InProgress
<1> QED
  BY <1>1, <1>2

LEMMA AllMeasured ==
  ASSUME CInv, AllFinished, ~Somebody
  PROVE  Measured = Plan /\ Active = {}
<1>1. \A k \in Cases : \A j \in DOMAIN dataPoints[k] :
        dataPoints[k][j].mss \in Int
  BY SequenceTypes DEF CInv, IInv, TypeOK
<1>2. \A n \in Cases, m \in Int : IsMeasured(n, m) <=> m \in Sweep(n)
  BY EachMeasured
<1>3. \A n \in Cases : Sweep(n) \subseteq Int
  BY InitialTypes DEF Sweep, Initial
<1>4. Measured = Plan
  <2>1. ASSUME NEW x \in Measured PROVE x \in Plan
    BY <1>1, <1>2, MeasuredIs, PlanIs DEF IsMeasured
  <2>2. ASSUME NEW x \in Plan PROVE x \in Measured
    BY <1>2, <1>3, MeasuredIs, PlanIs DEF IsMeasured
  <2> QED
    BY <2>1, <2>2
<1> QED
  BY <1>4, ActiveIs DEF CInv, IInv

-----------------------------------------------------------------------------
LEMMA InitCampaign == Init => CInv /\ Abstract!Init
<1> SUFFICES ASSUME Init PROVE CInv /\ Abstract!Init
  OBVIOUS
<1>1. /\ \A n \in Cases : /\ dataPoints[n] = << >>
                          /\ MSS[n] = Initial(n)
                          /\ Finished[n] = FALSE
      /\ ~Somebody /\ ~datapointsFlushed
  BY DEF Init, OrchestratorInit, WorkerInit, Holds, Somebody, Initial
<1>2. \A n \in Cases, m \in Int : ~IsMeasured(n, m) /\ ~InProgress(n, m)
  BY <1>1 DEF IsMeasured, InProgress
<1>3. \A n \in Cases : /\ Initial(n) \in Nat /\ Initial(n) <= MssMax
                       /\ MssMax \in Nat /\ MssStepSize \in Nat \ {0}
  BY InitialTypes
<1>4. SweepPosition
  <2>1. \A s \in Nat \ {0} : 0 % s = 0
    OBVIOUS
  <2> QED
    BY <1>1, <1>3, <2>1 DEF SweepPosition
<1>5. SweepsTaken
  BY <1>1, <1>2, <1>3 DEF SweepsTaken, Sweep, Initial
<1>6. NetperfTaken
  BY <1>1, <1>2 DEF NetperfTaken
<1>7. Measured = {}
  BY <1>1, MeasuredIs
<1>8. Active = {}
  BY <1>1 DEF Active, Somebody
<1> QED
  BY <1>1, <1>4, <1>5, <1>6, <1>7, <1>8, InitIInv, InitOrder
     DEF CInv, Abstract!Init

LEMMA StepCampaign ==
  ASSUME CInv, NEW w \in Workers, Step(w)
  PROVE  CInv' /\ [Abstract!Next]_(Abstract!vars)
<1>1. IInv' /\ OrderInv'
  BY StepIInv, StepOrder DEF CInv
<1>2. ASSUME UNCHANGED taking, Somebody' <=> Somebody
      PROVE  CInv' /\ Measured' = Measured /\ Active' = Active
  BY <1>1, <1>2, SameCampaign
<1>3. CASE UNCHANGED orchVars /\ (Somebody' <=> Somebody)
  BY <1>2, <1>3 DEF orchVars, taking, Abstract!vars
<1>4. ASSUME NEW reply, NEW n \in Cases, Allocate(w, n, reply),
             ~Somebody, Somebody'
      PROVE  CInv' /\ Abstract!Next
  <2>1. NextIsNew'
    BY <1>4, AllocateKeepsOrder DEF CInv
  <2> QED
    BY <1>1, <1>4, <2>1, AllocateStarts DEF Allocate, Abstract!Next
<1>5. ASSUME NEW reply, Enroll(w, MyIP(w), reply) \/ StandBy(w, reply),
             Somebody' <=> Somebody
      PROVE  CInv' /\ UNCHANGED Abstract!vars
  BY <1>2, <1>5 DEF Enroll, StandBy, taking, Abstract!vars
<1>6. ASSUME NEW reply, Conclude(w, reply), ~Somebody, ~Somebody'
      PROVE  CInv' /\ Abstract!Next
  <2>1. CInv' /\ Measured' = Measured /\ Active' = Active
    BY <1>2, <1>6 DEF Conclude, taking
  <2>2. Measured = Plan /\ Active = {}
    BY <1>6, AllMeasured DEF Conclude
  <2> QED
    BY <1>6, <2>1, <2>2 DEF Conclude, Abstract!Next, Abstract!Report
<1>7. ASSUME NEW i \in ClientItems, ReceiveOutput(i),
             MeasurementOf(i) = Current, Somebody, ~Somebody'
      PROVE  CInv' /\ Abstract!Next
  BY <1>1, <1>7, ReceiveFinishes DEF Abstract!Next
<1> QED
  BY <1>3, <1>4, <1>5, <1>6, <1>7, StepCases DEF CInv

LEMMA StutterCInv ==
  ASSUME CInv, UNCHANGED vars
  PROVE  CInv' /\ UNCHANGED Abstract!vars
<1>1. UNCHANGED taking /\ UNCHANGED <<dataPointKeys, datapointsFlushed>>
  BY DEF vars, orchVars, taking
<1>2. \A v \in Workers : Holds(v)' <=> Holds(v)
  BY DEF vars, workerVars, Holds
<1>3. IInv'
  BY StutterIInv DEF CInv
<1>4. OrderInv'
  BY <1>1, <1>2, LosingWorkKeepsOrder DEF CInv, taking, orderVars
<1> QED
  BY <1>1, <1>2, <1>3, <1>4, SameCampaign DEF Somebody, Abstract!vars

(* Every behaviour of the benchmark is a campaign over its table.          *)
THEOREM CampaignIsImplemented == Spec => ImplementsCampaign
<1>1. CInv /\ [Next]_vars => CInv' /\ [Abstract!Next]_(Abstract!vars)
  BY StepCampaign, StutterCInv DEF Next
<1> QED
  BY <1>1, InitCampaign, PTL DEF Spec, ImplementsCampaign, Abstract!Spec
=============================================================================
