------------------------ MODULE NetPerfReportProofs -------------------------
(***************************************************************************)
(* Without failures the report is complete, for every table whose sweeps   *)
(* share an X-axis: one block, every case of the table in its order, with  *)
(* its whole sweep in order, under the MSS header.                         *)
(*                                                                         *)
(* The invariant: the labels are the numbers from 1, the points of a sweep *)
(* are its MSS values from the first on, and what was printed is what the  *)
(* orchestrator still has.                                                 *)
(***************************************************************************)
EXTENDS MCNetPerf, NetPerfCampaignProofs

(* The header is taken from any row with more than one point, so all of    *)
(* these have to begin with the same MSS.                                  *)
SharedAxis ==
  \A n, k \in Cases :
    /\ ~IsNetperf(n) /\ Initial(n) + MssStepSize <= MssMax
    /\ ~IsNetperf(k) /\ Initial(k) + MssStepSize <= MssMax
    => Initial(n) = Initial(k)

LabelsAreFirst ==
  /\ \A i \in DOMAIN dataPointKeys : dataPointKeys[i] = i
  /\ \A n \in Cases : dataPoints[n] # << >> <=> n \in DOMAIN dataPointKeys

(* An iperf case has a point for every MSS up to where its sweep stands,   *)
(* the measurement in progress excepted.                                   *)
PointsFollowSweep ==
  \A n \in Cases : ~IsNetperf(n) =>
    /\ \A i \in DOMAIN dataPoints[n] :
         dataPoints[n][i].mss = Initial(n) + (i - 1) * MssStepSize
    /\ MSS[n] = Initial(n)
                + (Len(dataPoints[n])
                   + IF Somebody /\ currentJobIndex = n THEN 1 ELSE 0)
                  * MssStepSize

Block(header) == [header |-> header, rows |-> Rows]

PrintedIsCurrent ==
  IF datapointsFlushed
    THEN /\ AllFinished /\ ~Somebody
         /\ \E header \in Headers : stdout = <<Block(header)>>
    ELSE stdout = << >>

RInv ==
  /\ CInv
  /\ LabelsAreFirst
  /\ PointsFollowSweep
  /\ PrintedIsCurrent

-----------------------------------------------------------------------------
LEMMA PointsTypes ==
  ASSUME OrchestratorTypeOK, NEW n \in Cases
  PROVE  /\ Len(dataPoints[n]) \in Nat
         /\ DOMAIN dataPoints[n] = 1 .. Len(dataPoints[n])
         /\ dataPoints[n] = << >> <=> Len(dataPoints[n]) = 0
         /\ \A i \in DOMAIN dataPoints[n] : dataPoints[n][i] \in Points
         /\ Len(dataPointKeys) \in Nat
         /\ DOMAIN dataPointKeys = 1 .. Len(dataPointKeys)
<1>1. dataPoints[n] \in Seq(Points) /\ dataPointKeys \in Seq(Cases)
  BY DEF OrchestratorTypeOK
<1> QED
  BY <1>1

LEMMA SameReport ==
  ASSUME RInv, CInv', UNCHANGED taking, Somebody' <=> Somebody,
         UNCHANGED dataPointKeys
  PROVE  /\ LabelsAreFirst' /\ PointsFollowSweep'
         /\ UNCHANGED <<datapointsFlushed, stdout>> => RInv'
<1>1. LabelsAreFirst'
  BY DEF RInv, LabelsAreFirst, taking
<1>2. PointsFollowSweep'
  BY DEF RInv, PointsFollowSweep, taking, Initial, IsNetperf
<1>3. UNCHANGED <<datapointsFlushed, stdout>> => PrintedIsCurrent'
  BY DEF RInv, PrintedIsCurrent, taking, AllFinished, Headers, Column, Block,
         Rows
<1> QED
  BY <1>1, <1>2, <1>3 DEF RInv

LEMMA ConcludePrints ==
  ASSUME PrintedIsCurrent, NEW w \in Workers, NEW reply, Conclude(w, reply),
         ~Somebody, ~Somebody'
  PROVE  PrintedIsCurrent'
<1>1. UNCHANGED <<Finished, dataPoints, dataPointKeys>> /\ AllFinished
  BY DEF Conclude
<1>2. Rows' = Rows /\ Headers' = Headers /\ AllFinished'
  BY <1>1 DEF Rows, Headers, Column, AllFinished
<1>3. CASE datapointsFlushed
  BY <1>2, <1>3 DEF PrintedIsCurrent, Conclude, Block
<1>4. CASE ~datapointsFlushed
  <2>1. stdout = << >> /\ FlushDataPointsToCsv /\ datapointsFlushed'
    BY <1>4 DEF PrintedIsCurrent, Conclude
  <2>2. PICK header \in Headers : stdout' = Append(stdout, Block(header))
    BY <2>1 DEF FlushDataPointsToCsv, Block
  <2>3. stdout' = <<Block(header)>>
    BY <2>1, <2>2
  <2> QED
    BY <1>2, <2>1, <2>3 DEF PrintedIsCurrent, Block
<1> QED
  BY <1>3, <1>4

LEMMA AllocateKeepsReport ==
  ASSUME RInv, CInv', NEW w \in Workers, NEW n \in Cases, NEW reply,
         Allocate(w, n, reply), ~Somebody, Somebody'
  PROVE  RInv'
<1>1. /\ MSS \in [Cases -> Nat] /\ MssStepSize \in Nat \ {0}
      /\ FirstUnfinished(n) /\ AdvanceSweep(n) /\ currentJobIndex' = n
      /\ UNCHANGED <<dataPoints, dataPointKeys, datapointsFlushed, stdout>>
  BY InitialTypes
     DEF Allocate, RInv, CInv, IInv, TypeOK, OrchestratorTypeOK
<1>2. LabelsAreFirst'
  BY <1>1 DEF RInv, LabelsAreFirst
<1>3. PrintedIsCurrent'
  BY <1>1 DEF RInv, PrintedIsCurrent, AllFinished, FirstUnfinished
<1>4. PointsFollowSweep'
  <2> SUFFICES ASSUME NEW k \in Cases, ~IsNetperf(k)
               PROVE  /\ \A i \in DOMAIN dataPoints[k] :
                           dataPoints[k][i].mss =
                             Initial(k) + (i - 1) * MssStepSize
                      /\ MSS'[k] = Initial(k)
                           + (Len(dataPoints[k]) + IF n = k THEN 1 ELSE 0)
                             * MssStepSize
    BY <1>1 DEF PointsFollowSweep, IsNetperf, Initial
  <2>1. /\ \A i \in DOMAIN dataPoints[k] :
             dataPoints[k][i].mss = Initial(k) + (i - 1) * MssStepSize
        /\ MSS[k] = Initial(k) + (Len(dataPoints[k]) + 0) * MssStepSize
    BY DEF RInv, PointsFollowSweep
  <2>2. Len(dataPoints[k]) \in Nat /\ Initial(k) \in Nat
    BY PointsTypes, InitialTypes DEF RInv, CInv, IInv, TypeOK
  <2>3. CASE k # n
    <3>1. MSS'[k] = MSS[k]
      BY <1>1, <2>3 DEF AdvanceSweep
    <3> QED
      BY <2>1, <2>3, <3>1
  <2>4. CASE k = n
    <3>1. MSS'[k] = MSS[k] + MssStepSize
      BY <1>1, <2>4 DEF AdvanceSweep
    <3>2. (Len(dataPoints[k]) + 1) * MssStepSize =
            (Len(dataPoints[k]) + 0) * MssStepSize + MssStepSize
      BY <1>1, <2>2
    <3>3. \A a, b, c \in Int : a + (b + c) = (a + b) + c
      OBVIOUS
    <3>4. (Len(dataPoints[k]) + 0) * MssStepSize \in Int
      BY <1>1, <2>2
    <3> QED
      BY <1>1, <2>1, <2>2, <2>4, <3>1, <3>2, <3>3, <3>4
  <2> QED
    BY <2>3, <2>4
<1> QED
  BY <1>2, <1>3, <1>4 DEF RInv

(* The cases before the current one have points. *)
LEMMA PassedHavePoints ==
  ASSUME CInv, NEW k \in Cases, k < currentJobIndex
  PROVE  dataPoints[k] # << >>
<1> USE CaseNumbers DEF CasesAreNumbers
<1>1. Finished[k] /\ k # currentJobIndex
  BY DEF CInv, OrderInv, TableInv, PassedAreFinished, IInv, TypeOK,
         OrchestratorTypeOK
<1>2. CASE IsNetperf(k)
  BY <1>1, <1>2 DEF CInv, NetperfTaken, IsMeasured
<1>3. CASE ~IsNetperf(k)
  <2>1. /\ Initial(k) \in Nat /\ Initial(k) <= MssMax /\ MssMax \in Nat
        /\ MssStepSize \in Nat \ {0} /\ MSS[k] \in Nat
    BY InitialTypes DEF CInv, IInv, TypeOK, OrchestratorTypeOK
  <2>2. Initial(k) \in Sweep(k)
    BY <1>3, SweepNotEmpty
  <2>3. Initial(k) < MSS[k]
    BY <1>1, <1>3, <2>1 DEF CInv, SweepPosition
  <2>4. IsMeasured(k, Initial(k))
    BY <1>1, <1>3, <2>1, <2>2, <2>3 DEF CInv, SweepsTaken, InProgress, Current
  <2> QED
    BY <2>4 DEF IsMeasured
<1> QED
  BY <1>2, <1>3

LEMMA ReceiveKeepsReport ==
  ASSUME RInv, CInv', NEW i \in ClientItems, MeasurementOf(i) = Current,
         ReceiveOutput(i), Somebody, ~Somebody'
  PROVE  RInv'
<1> USE CaseNumbers DEF CasesAreNumbers
<1> DEFINE n == currentJobIndex
           length == Len(dataPoints[n])
           point == [mss |-> FiledMSS(IsNetperf(n)), from |-> MeasurementOf(i)]
<1>1. /\ OrchestratorTypeOK /\ n \in Cases /\ i.test = n /\ n \in Nat /\ n >= 1
      /\ MssStepSize \in Nat \ {0} /\ Initial(n) \in Nat /\ MSS[n] \in Nat
  BY InitialTypes DEF RInv, CInv, IInv, TypeOK, OrchestratorTypeOK,
                      MeasurementOf, Current
<1>2. /\ dataPoints' = [dataPoints EXCEPT ![n] = Append(@, point)]
      /\ dataPointKeys' = IF dataPoints[n] = << >> THEN Append(dataPointKeys, n)
                                                   ELSE dataPointKeys
      /\ UNCHANGED <<MSS, currentJobIndex, datapointsFlushed, stdout>>
  BY <1>1 DEF ReceiveOutput, RegisterDataPoint
<1>3. point.mss = FiledMSS(IsNetperf(n))
  OBVIOUS
<1> HIDE DEF point
<1>4. /\ dataPoints[n] \in Seq(Points)
      /\ length \in Nat /\ DOMAIN dataPoints[n] = 1 .. length
      /\ dataPoints[n] = << >> <=> length = 0
      /\ Len(dataPointKeys) \in Nat
      /\ DOMAIN dataPointKeys = 1 .. Len(dataPointKeys)
      /\ dataPointKeys \in Seq(Cases)
  BY <1>1, PointsTypes DEF OrchestratorTypeOK
<1>5. /\ dataPoints'[n] = Append(dataPoints[n], point)
      /\ \A k \in Cases \ {n} : dataPoints'[k] = dataPoints[k]
  BY <1>1, <1>2 DEF OrchestratorTypeOK
<1>6. /\ Len(dataPoints'[n]) = length + 1
      /\ DOMAIN dataPoints'[n] = 1 .. length + 1
      /\ \A j \in 1 .. length : dataPoints'[n][j] = dataPoints[n][j]
      /\ dataPoints'[n][length + 1] = point
      /\ dataPoints'[n] # << >>
  <2>1. Len(Append(dataPoints[n], point)) = length + 1
    BY <1>4
  <2>2. DOMAIN Append(dataPoints[n], point) = 1 .. length + 1
    BY <1>4
  <2>3. /\ \A j \in 1 .. length :
             Append(dataPoints[n], point)[j] = dataPoints[n][j]
        /\ Append(dataPoints[n], point)[length + 1] = point
    BY <1>4
  <2>4. Append(dataPoints[n], point) # << >>
    <3>1. 1 \in DOMAIN Append(dataPoints[n], point)
      BY <1>4, <2>2
    <3> QED
      BY <3>1
  <2> QED
    BY <1>5, <2>1, <2>2, <2>3, <2>4
<1>7. PrintedIsCurrent'
  BY <1>2 DEF RInv, PrintedIsCurrent
<1>8. PointsFollowSweep'
  <2> SUFFICES ASSUME NEW k \in Cases, ~IsNetperf(k)
               PROVE  /\ \A j \in DOMAIN dataPoints'[k] :
                           dataPoints'[k][j].mss =
                             Initial(k) + (j - 1) * MssStepSize
                      /\ MSS[k] = Initial(k)
                           + (Len(dataPoints'[k]) + 0) * MssStepSize
    BY <1>2 DEF PointsFollowSweep, IsNetperf, Initial
  <2>1. CASE k # n
    BY <1>5, <2>1 DEF RInv, PointsFollowSweep
  <2>2. CASE k = n
    <3>1. /\ \A j \in 1 .. length :
               dataPoints[n][j].mss = Initial(n) + (j - 1) * MssStepSize
          /\ MSS[n] = Initial(n) + (length + 1) * MssStepSize
      BY <1>4, <2>2 DEF RInv, PointsFollowSweep
    <3>2. (length + 1) * MssStepSize = length * MssStepSize + MssStepSize
          /\ length * MssStepSize \in Int
      BY <1>1, <1>4
    <3>3. FiledMSS(IsNetperf(n)) = MSS[n] - MssStepSize
      BY <2>2 DEF FiledMSS
    <3>4. point.mss = Initial(n) + length * MssStepSize
      <4>1. \A a, b, c \in Int : (a + (b + c)) - c = a + b
        OBVIOUS
      <4> QED
        BY <1>1, <1>3, <3>1, <3>2, <3>3, <4>1
    <3>5. ASSUME NEW j \in DOMAIN dataPoints'[n]
          PROVE  dataPoints'[n][j].mss = Initial(n) + (j - 1) * MssStepSize
      <4>1. CASE j \in 1 .. length
        BY <1>6, <3>1, <4>1
      <4>2. CASE j = length + 1
        <5>1. j - 1 = length
          BY <1>4, <4>2
        <5> QED
          BY <1>6, <3>4, <4>2, <5>1
      <4> QED
        BY <1>4, <1>6, <4>1, <4>2
    <3>6. Len(dataPoints'[n]) + 0 = length + 1
      BY <1>4, <1>6
    <3> QED
      BY <2>2, <3>1, <3>5, <3>6
  <2> QED
    BY <2>1, <2>2
<1>9. LabelsAreFirst'
  <2>1. CASE dataPoints[n] # << >>
    BY <1>2, <1>5, <1>6, <2>1 DEF RInv, LabelsAreFirst
  <2>2. CASE dataPoints[n] = << >>
    <3>1. n \notin 1 .. Len(dataPointKeys)
      BY <1>1, <1>4, <2>2 DEF RInv, LabelsAreFirst
    <3>2. \A k \in 1 .. n - 1 : k \in 1 .. Len(dataPointKeys)
      <4> TAKE k \in 1 .. n - 1
      <4>1. k \in Cases /\ k < n
        BY <1>1, NetPerfAssumption DEF Cases
      <4> QED
        BY <1>4, <4>1, PassedHavePoints DEF RInv, LabelsAreFirst
    <3>3. n = Len(dataPointKeys) + 1
      <4>1. CASE n = 1
        BY <1>4, <3>1, <4>1
      <4>2. CASE n # 1
        <5>1. n - 1 \in 1 .. Len(dataPointKeys)
          BY <1>1, <3>2, <4>2
        <5> QED
          BY <1>1, <1>4, <3>1, <5>1
      <4> QED
        BY <4>1, <4>2
    <3>4. /\ DOMAIN dataPointKeys' = 1 .. Len(dataPointKeys) + 1
          /\ \A j \in 1 .. Len(dataPointKeys) :
               dataPointKeys'[j] = dataPointKeys[j]
          /\ dataPointKeys'[Len(dataPointKeys) + 1] = n
      <4>1. dataPointKeys' = Append(dataPointKeys, n)
        BY <1>2, <2>2
      <4> QED
        BY <1>1, <1>4, <4>1
    <3>5. \A j \in DOMAIN dataPointKeys' : dataPointKeys'[j] = j
      BY <1>4, <3>3, <3>4 DEF RInv, LabelsAreFirst
    <3>6. ASSUME NEW k \in Cases
          PROVE  dataPoints'[k] # << >> <=> k \in DOMAIN dataPointKeys'
      <4>1. CASE k = n
        BY <1>4, <1>6, <3>3, <3>4, <4>1
      <4>2. CASE k # n
        BY <1>4, <1>5, <3>3, <3>4, <4>2 DEF RInv, LabelsAreFirst
      <4> QED
        BY <4>1, <4>2
    <3> QED
      BY <3>5, <3>6 DEF LabelsAreFirst
  <2> QED
    BY <2>1, <2>2
<1> QED
  BY <1>7, <1>8, <1>9 DEF RInv

-----------------------------------------------------------------------------
LEMMA InitReport == Init => RInv
<1> SUFFICES ASSUME Init PROVE RInv
  OBVIOUS
<1>1. /\ \A n \in Cases : dataPoints[n] = << >> /\ MSS[n] = Initial(n)
      /\ dataPointKeys = << >> /\ stdout = << >> /\ ~datapointsFlushed
      /\ ~Somebody
  BY DEF Init, OrchestratorInit, WorkerInit, Holds, Somebody, Initial
<1>2. PointsFollowSweep
  <2> SUFFICES ASSUME NEW n \in Cases
               PROVE  Initial(n) = Initial(n) + (0 + 0) * MssStepSize
    BY <1>1 DEF PointsFollowSweep
  <2> QED
    BY InitialTypes
<1>3. LabelsAreFirst
  BY <1>1 DEF LabelsAreFirst
<1> QED
  BY <1>1, <1>2, <1>3, InitCampaign DEF RInv, PrintedIsCurrent

LEMMA StepReport ==
  ASSUME RInv, NEW w \in Workers, Step(w)
  PROVE  RInv'
<1>1. CInv' /\ IInv
  BY StepCampaign DEF RInv, CInv
<1>2. CASE UNCHANGED orchVars /\ (Somebody' <=> Somebody)
  BY <1>1, <1>2, SameReport DEF orchVars, taking
<1>3. ASSUME NEW reply, NEW n \in Cases, Allocate(w, n, reply),
             ~Somebody, Somebody'
      PROVE  RInv'
  BY <1>1, <1>3, AllocateKeepsReport
<1>4. ASSUME NEW reply, Enroll(w, MyIP(w), reply) \/ StandBy(w, reply),
             Somebody' <=> Somebody
      PROVE  RInv'
  BY <1>1, <1>4, SameReport DEF Enroll, StandBy, taking
<1>5. ASSUME NEW reply, Conclude(w, reply), ~Somebody, ~Somebody'
      PROVE  RInv'
  <2>1. PrintedIsCurrent'
    BY <1>5, ConcludePrints DEF RInv
  <2> QED
    BY <1>1, <1>5, <2>1, SameReport DEF Conclude, taking, RInv
<1>6. ASSUME NEW i \in ClientItems, ReceiveOutput(i),
             MeasurementOf(i) = Current, Somebody, ~Somebody'
      PROVE  RInv'
  BY <1>1, <1>6, ReceiveKeepsReport
<1> QED
  BY <1>1, <1>2, <1>3, <1>4, <1>5, <1>6, StepCases

-----------------------------------------------------------------------------
(* Two rows with more than one point have the same header. *)
LEMMA OneAxis ==
  ASSUME SharedAxis, RInv, AllFinished, ~Somebody,
         NEW n \in Cases, Len(dataPoints[n]) > 1,
         NEW k \in Cases, Len(dataPoints[k]) > 1
  PROVE  Column(n) = Column(k)
<1> DEFINE s == MssStepSize
<1>1. \A c \in Cases :
        /\ Initial(c) \in Nat /\ MssMax \in Nat /\ s \in Nat \ {0}
        /\ Len(dataPoints[c]) \in Nat
        /\ DOMAIN dataPoints[c] = 1 .. Len(dataPoints[c])
  BY InitialTypes, PointsTypes DEF RInv, CInv, IInv, TypeOK
<1>2. ASSUME NEW c \in Cases, Len(dataPoints[c]) > 1
      PROVE  /\ ~IsNetperf(c)
             /\ \A i \in DOMAIN dataPoints[c] :
                  dataPoints[c][i].mss = Initial(c) + (i - 1) * s
             /\ Initial(c) + Len(dataPoints[c]) * s > MssMax
             /\ Initial(c) + (Len(dataPoints[c]) - 1) * s <= MssMax
             /\ Initial(c) + s <= MssMax
  <2>1. 1 \in DOMAIN dataPoints[c] /\ 2 \in DOMAIN dataPoints[c]
        /\ Len(dataPoints[c]) \in DOMAIN dataPoints[c]
    BY <1>1, <1>2
  <2>2. dataPoints[c][1].mss < dataPoints[c][2].mss
    BY <2>1 DEF RInv, CInv, OrderInv, RowsIncrease, Increasing
  <2>3. \A i \in DOMAIN dataPoints[c] :
          dataPoints[c][i].mss \in Int /\ IsMeasured(c, dataPoints[c][i].mss)
    BY SequenceTypes DEF RInv, CInv, IInv, TypeOK, IsMeasured
  <2>4. ~IsNetperf(c)
    <3> SUFFICES ASSUME IsNetperf(c) PROVE FALSE
      OBVIOUS
    <3>1. dataPoints[c][1].mss = 0 /\ dataPoints[c][2].mss = 0
      BY <2>1, <2>3 DEF RInv, CInv, NetperfTaken
    <3> QED
      BY <2>2, <3>1
  <2>5. /\ \A i \in DOMAIN dataPoints[c] :
             dataPoints[c][i].mss = Initial(c) + (i - 1) * s
        /\ MSS[c] = Initial(c) + (Len(dataPoints[c]) + 0) * s
    BY <2>4 DEF RInv, PointsFollowSweep
  <2>6. MSS[c] > MssMax
    BY <2>4 DEF RInv, CInv, SweepPosition, AllFinished
  <2>7. \A i \in DOMAIN dataPoints[c] : dataPoints[c][i].mss <= MssMax
    <3>1. \A m \in Sweep(c) : m <= MssMax
      BY <1>1, <2>4 DEF Sweep, Initial
    <3> QED
      BY <2>3, <2>4, <3>1 DEF RInv, CInv, SweepsTaken
  <2>8. Len(dataPoints[c]) + 0 = Len(dataPoints[c]) /\ (2 - 1) * s = s
    BY <1>1
  <2> QED
    BY <2>1, <2>4, <2>5, <2>6, <2>7, <2>8
<1>3. Initial(n) = Initial(k)
  BY <1>2 DEF SharedAxis
<1>4. Len(dataPoints[n]) = Len(dataPoints[k])
  <2> DEFINE t == Initial(n)
             a == Len(dataPoints[n])
             b == Len(dataPoints[k])
  <2>1. /\ t + a * s > MssMax /\ t + (a - 1) * s <= MssMax
        /\ t + b * s > MssMax /\ t + (b - 1) * s <= MssMax
        /\ a \in Nat /\ b \in Nat /\ s \in Nat \ {0} /\ t \in Nat
        /\ MssMax \in Nat
    BY <1>1, <1>2, <1>3
  <2> HIDE DEF a, b, t, s
  <2>2. ASSUME NEW x \in Nat, NEW y \in Nat, x < y PROVE x * s <= (y - 1) * s
    BY <2>1, <2>2, Z3
  <2>3. ~(a < b)
    <3> SUFFICES ASSUME a < b PROVE FALSE
      OBVIOUS
    <3>1. a * s <= (b - 1) * s /\ a * s \in Int /\ (b - 1) * s \in Int
      BY <2>1, <2>2
    <3> QED
      BY <2>1, <3>1
  <2>4. ~(b < a)
    <3> SUFFICES ASSUME b < a PROVE FALSE
      OBVIOUS
    <3>1. b * s <= (a - 1) * s /\ b * s \in Int /\ (a - 1) * s \in Int
      BY <2>1, <2>2
    <3> QED
      BY <2>1, <3>1
  <2> QED
    BY <2>1, <2>3, <2>4 DEF a, b
<1> QED
  BY <1>1, <1>2, <1>3, <1>4 DEF Column

(* What has been recorded when everything is finished. *)
LEMMA FinalPoints ==
  ASSUME RInv, datapointsFlushed
  PROVE  \A n \in Cases :
           /\ dataPoints[n] # << >>
           /\ \A m \in Int : IsMeasured(n, m) <=> m \in Sweep(n)
<1>1. AllFinished /\ ~Somebody
  BY DEF RInv, PrintedIsCurrent
<1>2. ASSUME NEW n \in Cases, NEW m \in Int
      PROVE  IsMeasured(n, m) <=> m \in Sweep(n)
  BY <1>1, <1>2, EachMeasured DEF RInv
<1>3. ASSUME NEW n \in Cases PROVE dataPoints[n] # << >>
  <2>1. \E m \in Int : m \in Sweep(n)
    BY SweepNotEmpty
  <2> QED
    BY <1>2, <2>1 DEF IsMeasured
<1> QED
  BY <1>2, <1>3

(* The rows of the report are the cases of the table, in its order. *)
LEMMA FinalRows ==
  ASSUME RInv, datapointsFlushed
  PROVE  /\ Len(Rows) = Len(Testcases)
         /\ \A n \in Cases : Rows[n] = [label |-> n, points |-> dataPoints[n]]
<1> USE CaseNumbers DEF CasesAreNumbers
<1>1. Cases = 1 .. Len(Testcases) /\ Len(Testcases) \in Nat
      /\ Len(Testcases) \in Cases
  BY NetPerfAssumption DEF Cases
<1>2. OrchestratorTypeOK
  BY DEF RInv, CInv, IInv, TypeOK
<1>3. DOMAIN dataPointKeys = 1 .. Len(Testcases)
      /\ Len(dataPointKeys) = Len(Testcases)
  <2>1. /\ Len(dataPointKeys) \in Nat
        /\ DOMAIN dataPointKeys = 1 .. Len(dataPointKeys)
        /\ \A i \in DOMAIN dataPointKeys : dataPointKeys[i] \in Cases
    BY <1>1, <1>2, PointsTypes, SequenceTypes
  <2>2. Len(Testcases) \in 1 .. Len(dataPointKeys)
    BY <1>1, <2>1, FinalPoints DEF RInv, LabelsAreFirst
  <2>3. Len(dataPointKeys) \in Cases
    BY <2>1, <2>2 DEF RInv, LabelsAreFirst
  <2> QED
    BY <1>1, <2>1, <2>2, <2>3
<1>4. \A n \in Cases : dataPointKeys[n] = n
  BY <1>1, <1>3 DEF RInv, LabelsAreFirst
<1>5. DOMAIN Rows = 1 .. Len(Testcases)
  BY <1>3 DEF Rows
<1>6. Rows \in Seq([label : Cases, points : Seq(Points)])
  <2>1. /\ dataPointKeys \in Seq(Cases)
        /\ dataPoints \in [Cases -> Seq(Points)]
    BY <1>2 DEF OrchestratorTypeOK
  <2>2. \A i \in DOMAIN dataPointKeys : dataPointKeys[i] \in Cases
    BY <2>1
  <2> QED
    BY <1>1, <1>3, <2>1, <2>2 DEF Rows
<1>7. Len(Rows) = Len(Testcases)
  BY <1>1, <1>5, <1>6
<1> QED
  BY <1>1, <1>3, <1>4, <1>7 DEF Rows

LEMMA FinalReport ==
  ASSUME SharedAxis, RInv
  PROVE  CompleteReport
<1> SUFFICES ASSUME datapointsFlushed PROVE CompleteReport
  BY DEF CompleteReport
<1>1. AllFinished /\ ~Somebody
  BY DEF RInv, PrintedIsCurrent
<1>2. PICK header \in Headers : stdout = <<Block(header)>>
  BY DEF RInv, PrintedIsCurrent
<1>3. Len(stdout) = 1 /\ stdout[1].header = header /\ stdout[1].rows = Rows
  BY <1>2 DEF Block
<1>4. OrchestratorTypeOK
  BY DEF RInv, CInv, IInv, TypeOK
<1>5. ASSUME NEW n \in Cases PROVE SweptInOrder(n, dataPoints[n])
  <2>1. \A i \in DOMAIN dataPoints[n] : dataPoints[n][i].mss \in Int
    BY <1>4, SequenceTypes
  <2>2. Sweep(n) \subseteq Int
    BY InitialTypes DEF Sweep, Initial
  <2>3. {dataPoints[n][i].mss : i \in DOMAIN dataPoints[n]} = Sweep(n)
    BY <2>1, <2>2, FinalPoints DEF IsMeasured
  <2> QED
    BY <2>3 DEF SweptInOrder, RInv, CInv, OrderInv, RowsIncrease, Increasing
<1>6. ASSUME NEW n \in Cases, Len(dataPoints[n]) > 1
      PROVE  header = Column(n)
  <2>1. PICK k \in Cases : Len(dataPoints[k]) > 1 /\ header = Column(k)
    <3>1. n \in {c \in Cases : Len(dataPoints[c]) > 1}
      BY <1>6
    <3>2. header \in {Column(c) : c \in {d \in Cases : Len(dataPoints[d]) > 1}}
      BY <1>2, <3>1, Zenon DEF Headers
    <3> QED
      BY <3>2
  <2> QED
    BY <1>1, <1>6, <2>1, OneAxis
<1>7. ASSUME NEW n \in Cases
      PROVE  LET row == Rows[n] IN
             /\ row.label = n
             /\ SweptInOrder(n, row.points)
             /\ Len(row.points) > 1 =>
                  header = [i \in DOMAIN row.points |-> row.points[i].mss]
  <2>1. Rows[n].label = n /\ Rows[n].points = dataPoints[n]
    <3>1. Rows[n] = [label |-> n, points |-> dataPoints[n]]
      BY <1>7, FinalRows
    <3> QED
      BY <3>1
  <2> QED
    BY <1>5, <1>6, <2>1 DEF Column
<1> HIDE DEF Cases
<1> QED
  BY <1>3, <1>7, FinalRows DEF CompleteReport

(* How many points a row ends up with: the last one is the last MSS that   *)
(* is not above mssMax.                                                    *)
LEMMA RowLength ==
  ASSUME RInv, datapointsFlushed, NEW n \in Cases
  PROVE  /\ Len(dataPoints[n]) \in Nat \ {0}
         /\ IsNetperf(n) => Len(dataPoints[n]) = 1
         /\ ~IsNetperf(n) =>
              /\ Initial(n) + Len(dataPoints[n]) * MssStepSize > MssMax
              /\ Initial(n) + (Len(dataPoints[n]) - 1) * MssStepSize <= MssMax
<1> DEFINE length == Len(dataPoints[n])
<1>1. AllFinished /\ ~Somebody
  BY DEF RInv, PrintedIsCurrent
<1>2. OrchestratorTypeOK
  BY DEF RInv, CInv, IInv, TypeOK
<1>3. /\ length \in Nat \ {0}
      /\ DOMAIN dataPoints[n] = 1 .. length
  BY <1>2, FinalPoints, PointsTypes
<1> HIDE DEF length
<1>4. ASSUME NEW i \in 1 .. length
      PROVE  dataPoints[n][i].mss \in Sweep(n)
  <2>1. dataPoints[n][i].mss \in Int
    BY <1>2, <1>3, <1>4, SequenceTypes
  <2> QED
    BY <1>3, <1>4, <2>1, FinalPoints DEF IsMeasured
<1>5. ASSUME IsNetperf(n), length # 1 PROVE FALSE
  <2>1. 1 \in 1 .. length /\ 2 \in 1 .. length
    BY <1>3, <1>5
  <2>2. dataPoints[n][1].mss = 0 /\ dataPoints[n][2].mss = 0
    BY <1>4, <1>5, <2>1 DEF Sweep
  <2>3. dataPoints[n][1].mss < dataPoints[n][2].mss
    BY <1>3, <2>1 DEF RInv, CInv, OrderInv, RowsIncrease, Increasing
  <2> QED
    BY <2>2, <2>3
<1>6. ASSUME ~IsNetperf(n)
      PROVE  /\ Initial(n) + length * MssStepSize > MssMax
             /\ Initial(n) + (length - 1) * MssStepSize <= MssMax
  <2>1. MSS[n] = Initial(n) + (length + 0) * MssStepSize
    BY <1>1, <1>6 DEF RInv, PointsFollowSweep, length
  <2>2. MSS[n] > MssMax
    BY <1>1, <1>6 DEF AllFinished, RInv, CInv, SweepPosition
  <2>3. dataPoints[n][length].mss = Initial(n) + (length - 1) * MssStepSize
    <3>1. length \in DOMAIN dataPoints[n]
      BY <1>3
    <3> QED
      BY <1>6, <3>1 DEF RInv, PointsFollowSweep
  <2>4. dataPoints[n][length].mss <= MssMax
    BY <1>3, <1>4, <1>6, InitialTypes DEF Sweep, Initial
  <2>5. length + 0 = length
    BY <1>3
  <2> QED
    BY <2>1, <2>2, <2>3, <2>4, <2>5
<1> QED
  BY <1>3, <1>5, <1>6 DEF length

LEMMA StutterReport ==
  ASSUME RInv, UNCHANGED vars
  PROVE  RInv'
<1>1. UNCHANGED taking /\ UNCHANGED <<dataPointKeys, datapointsFlushed, stdout>>
  BY DEF vars, orchVars, taking
<1>2. Somebody' <=> Somebody
  BY DEF vars, workerVars, Holds, Somebody
<1>3. CInv'
  BY StutterCInv DEF RInv
<1> QED
  BY <1>1, <1>2, <1>3, SameReport

THEOREM ReportInvariantHolds == Spec => []RInv
<1>1. RInv /\ [Next]_vars => RInv'
  BY StepReport, StutterReport DEF Next
<1> QED
  BY <1>1, InitReport, PTL DEF Spec

(* The report, if it comes, has every test case and every MSS of the       *)
(* table, as the message printed before it says.                           *)
THEOREM ReportIsComplete ==
  ASSUME SharedAxis
  PROVE  Spec => []CompleteReport
<1>1. RInv => CompleteReport
  BY FinalReport
<1> QED
  BY <1>1, ReportInvariantHolds, PTL

-----------------------------------------------------------------------------
(* The table of nptest.go: 10 sweeps from 96, then one MSS each. *)
LEMMA RealCases ==
  ASSUME Testcases = RealTable, MssMax = 1460
  PROVE  /\ Cases = 1 .. 18
         /\ \A n \in 1 .. 18 :
              /\ IsNetperf(n) <=> n > 14
              /\ n <= 10 => Initial(n) = 96
              /\ n > 10 /\ n <= 14 => Initial(n) = 1460
<1>1. Cases = 1 .. 18
  BY DEF Cases, RealTable
<1>2. ASSUME NEW n \in 1 .. 18
      PROVE  /\ IsNetperf(n) <=> n > 14
             /\ n <= 10 => Initial(n) = 96
             /\ n > 10 /\ n <= 14 => Initial(n) = 1460
  BY DEF IsNetperf, Initial, RealTable, Row, mssMin
<1> QED
  BY <1>1, <1>2

(* With the table of the code and any names for its workers, the report    *)
(* has the shape of the results table of the README.                       *)
THEOREM ReportIsAsDocumented ==
  ASSUME Testcases = RealTable, MssMax = 1460, MssStepSize = 64
  PROVE  Spec => []ReportHasDocumentedShape
<1>1. /\ Cases = 1 .. 18
      /\ \A n \in Cases : IsNetperf(n) <=> n > 14
      /\ \A n \in Cases : n <= 10 => Initial(n) = 96
      /\ \A n \in Cases : n > 10 /\ n <= 14 => Initial(n) = 1460
  BY RealCases
<1>2. SharedAxis
  BY <1>1 DEF SharedAxis
<1>3. ASSUME RInv, datapointsFlushed
      PROVE  ReportHasDocumentedShape
  <2>1. CompleteReport
    BY <1>2, <1>3, FinalReport
  <2>2. PICK header \in Headers : stdout = <<Block(header)>>
    BY <1>3 DEF RInv, PrintedIsCurrent
  <2>3. stdout[1].rows = Rows
    BY <2>2 DEF Block
  <2>4. ASSUME NEW n \in Cases
        PROVE  /\ stdout[1].rows[n].label = n
               /\ stdout[1].rows[n].points = dataPoints[n]
    <3>1. Rows[n] = [label |-> n, points |-> dataPoints[n]]
      BY <1>3, <2>4, FinalRows
    <3> QED
      BY <2>3, <3>1
  <2>5. ASSUME NEW n \in Cases
        PROVE  /\ n <= 10 => Len(dataPoints[n]) = 22
               /\ n > 10 => Len(dataPoints[n]) = 1
    <3>1. /\ Len(dataPoints[n]) \in Nat
          /\ IsNetperf(n) => Len(dataPoints[n]) = 1
          /\ ~IsNetperf(n) =>
               /\ Initial(n) + Len(dataPoints[n]) * 64 > 1460
               /\ Initial(n) + (Len(dataPoints[n]) - 1) * 64 <= 1460
      BY <1>3, <2>5, RowLength
    <3>2. PICK k \in Nat : k = Len(dataPoints[n])
      BY <3>1
    <3>3. CASE n <= 10
      <4>1. ~IsNetperf(n) /\ Initial(n) = 96
        BY <1>1, <2>5, <3>3
      <4>2. 96 + k * 64 > 1460 /\ 96 + (k - 1) * 64 <= 1460
        BY <3>1, <3>2, <4>1
      <4>3. k = 22
        BY <4>2
      <4> QED
        BY <1>1, <2>5, <3>2, <3>3, <4>3
    <3>4. CASE n > 10 /\ n <= 14
      <4>1. ~IsNetperf(n) /\ Initial(n) = 1460
        BY <1>1, <2>5, <3>4
      <4>2. 1460 + k * 64 > 1460 /\ 1460 + (k - 1) * 64 <= 1460
        BY <3>1, <3>2, <4>1
      <4>3. k = 1
        BY <4>2
      <4> QED
        BY <1>1, <2>5, <3>2, <3>4, <4>3
    <3>5. CASE n > 14
      BY <1>1, <2>5, <3>1, <3>5
    <3> QED
      BY <1>1, <2>5, <3>3, <3>4, <3>5
  <2>6. 1 \in Cases /\ ~IsNetperf(1) /\ Initial(1) = 96
    BY <1>1
  <2>7. stdout[1].rows[1].points = dataPoints[1] /\ Len(dataPoints[1]) = 22
    BY <2>4, <2>5, <2>6
  <2>8. stdout[1].header = [i \in 1 .. 22 |-> 96 + 64 * (i - 1)]
    <3>1. LET row == stdout[1].rows[1] IN
          Len(row.points) > 1 =>
            stdout[1].header = [i \in DOMAIN row.points |-> row.points[i].mss]
      BY <1>3, <2>1, <2>6 DEF CompleteReport
    <3>2. DOMAIN dataPoints[1] = 1 .. 22
      BY <1>3, <2>6, <2>7, PointsTypes DEF RInv, CInv, IInv, TypeOK
    <3>3. \A i \in DOMAIN dataPoints[1] :
            dataPoints[1][i].mss = Initial(1) + (i - 1) * MssStepSize
      BY <1>3, <2>6 DEF RInv, PointsFollowSweep
    <3>4. \A i \in 1 .. 22 : dataPoints[1][i].mss = 96 + 64 * (i - 1)
      BY <2>6, <3>2, <3>3
    <3> QED
      BY <2>7, <3>1, <3>2, <3>4
  <2>9. Len(stdout) = 1 /\ Len(stdout[1].rows) = 18
    <3>1. Len(Testcases) = 18
      BY DEF RealTable
    <3> QED
      BY <1>3, <2>1, <3>1 DEF CompleteReport
  <2> QED
    BY <1>1, <2>4, <2>5, <2>8, <2>9 DEF ReportHasDocumentedShape
<1>4. RInv => ReportHasDocumentedShape
  BY <1>3 DEF ReportHasDocumentedShape
<1> QED
  BY <1>4, ReportInvariantHolds, PTL
=============================================================================
