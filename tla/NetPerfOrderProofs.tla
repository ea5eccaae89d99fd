------------------------- MODULE NetPerfOrderProofs -------------------------
(***************************************************************************)
(* The order of the points, for every table and any set of workers: no     *)
(* measurement is recorded twice, the points of a row come in the order of *)
(* its sweep, and the rows in the order of the table.                      *)
(*                                                                         *)
(* The invariant: the cases before the current one are finished, none      *)
(* behind it has points, and a netperf case is finished by its point       *)
(* (TableInv: the handlers keep this much whatever calls come); the sweep  *)
(* of a case is ahead of its points, and of the measurement in progress by *)
(* one step exactly; a netperf case has no point until it is finished.     *)
(***************************************************************************)
EXTENDS NetPerfProofs

Increasing(points) ==
  \A i, j \in DOMAIN points : i < j => points[i].mss < points[j].mss

RowsIncrease == \A n \in Cases : Increasing(dataPoints[n])

IsMeasured(n, m) == \E i \in DOMAIN dataPoints[n] : dataPoints[n][i].mss = m

KeysIncrease ==
  \A i, j \in DOMAIN dataPointKeys :
    i < j => dataPointKeys[i] < dataPointKeys[j]

SweepAhead ==
  \A n \in Cases :
    IF IsNetperf(n)
      THEN ~Finished[n] => dataPoints[n] = << >>
      ELSE \A i \in DOMAIN dataPoints[n] :
             dataPoints[n][i].mss <= MSS[n] - MssStepSize

(* The measurement in progress is not recorded yet. *)
NextIsNew ==
  LET n == currentJobIndex IN
  IF IsNetperf(n)
    THEN ~Finished[n]
    ELSE \A i \in DOMAIN dataPoints[n] :
           dataPoints[n][i].mss < MSS[n] - MssStepSize

HolderIsNew == \A w \in Workers : Holds(w) => NextIsNew

PassedAreFinished == \A n \in Cases : n < currentJobIndex => Finished[n]

KeysBehind ==
  \A i \in DOMAIN dataPointKeys :
    /\ dataPointKeys[i] <= currentJobIndex
    /\ dataPoints[dataPointKeys[i]] # << >>

KeysCover ==
  \A n \in Cases : dataPoints[n] # << >> =>
    \E i \in DOMAIN dataPointKeys : dataPointKeys[i] = n

NetperfIsFiled ==
  \A n \in Cases : IsNetperf(n) /\ Finished[n] => IsMeasured(n, 0)

TableInv ==
  /\ KeysIncrease
  /\ PassedAreFinished
  /\ KeysBehind
  /\ KeysCover
  /\ NetperfIsFiled

OrderInv ==
  /\ TableInv
  /\ RowsIncrease
  /\ SweepAhead
  /\ HolderIsNew

orderVars == <<MSS, Finished, currentJobIndex, dataPoints, dataPointKeys>>

CasesAreNumbers == \A n \in Cases : n \in Nat /\ n >= 1

LEMMA CaseNumbers == CasesAreNumbers
<1>1. Cases = 1 .. Len(Testcases) /\ Len(Testcases) \in Nat
  BY NetPerfAssumption DEF Cases
<1> QED
  BY <1>1 DEF CasesAreNumbers

(* What the sequences of the orchestrator are made of. *)
LEMMA SequenceTypes ==
  ASSUME OrchestratorTypeOK
  PROVE  /\ \A n \in Cases : \A i \in DOMAIN dataPoints[n] :
              i \in Nat /\ dataPoints[n][i].mss \in Int
         /\ \A i \in DOMAIN dataPointKeys :
              /\ i \in Nat
              /\ dataPointKeys[i] \in Cases
              /\ dataPointKeys[i] \in Nat
<1>1. ASSUME NEW n \in Cases, NEW i \in DOMAIN dataPoints[n]
      PROVE  i \in Nat /\ dataPoints[n][i].mss \in Int
  <2>1. dataPoints[n] \in Seq(Points)
    BY DEF OrchestratorTypeOK
  <2>2. i \in Nat /\ dataPoints[n][i] \in Points
    BY <1>1, <2>1
  <2> QED
    BY <2>2 DEF Points
<1>2. ASSUME NEW i \in DOMAIN dataPointKeys
      PROVE  i \in Nat /\ dataPointKeys[i] \in Cases
  <2>1. dataPointKeys \in Seq(Cases)
    BY DEF OrchestratorTypeOK
  <2> QED
    BY <1>2, <2>1
<1> QED
  BY <1>1, <1>2, CaseNumbers DEF CasesAreNumbers

-----------------------------------------------------------------------------
(* The table and the points, whatever calls are handled, and when.         *)

LEMMA InitTable == OrchestratorInit => TableInv
BY CaseNumbers
   DEF OrchestratorInit, TableInv, KeysIncrease, PassedAreFinished, KeysBehind,
       KeysCover, NetperfIsFiled, CasesAreNumbers

LEMMA SameTable ==
  ASSUME TableInv, UNCHANGED orderVars
  PROVE  TableInv'
BY DEF TableInv, orderVars, KeysIncrease, PassedAreFinished, KeysBehind,
       KeysCover, NetperfIsFiled, IsMeasured, IsNetperf

(* The sweep of one case moves on, at the first unfinished case.           *)
LEMMA AllocateKeepsTable ==
  ASSUME OrchestratorTypeOK, TableInv, NEW w, NEW n \in Cases, NEW reply,
         Allocate(w, n, reply)
  PROVE  TableInv'
<1> USE CaseNumbers DEF CasesAreNumbers
<1>1. /\ FirstUnfinished(n) /\ AdvanceSweep(n) /\ currentJobIndex' = n
      /\ UNCHANGED <<dataPoints, dataPointKeys>>
      /\ n \in Nat /\ currentJobIndex \in Cases /\ currentJobIndex \in Nat
  BY DEF Allocate, OrchestratorTypeOK
<1>2. currentJobIndex <= n
  BY <1>1 DEF FirstUnfinished, TableInv, PassedAreFinished
<1>3. /\ \A m \in Cases \ {n} : Finished'[m] = Finished[m]
      /\ IsNetperf(n) => Finished'[n] = Finished[n]
  BY <1>1 DEF AdvanceSweep, OrchestratorTypeOK
<1>4. PassedAreFinished'
  BY <1>1, <1>3 DEF FirstUnfinished, PassedAreFinished
<1>5. KeysBehind'
  BY <1>1, <1>2, SequenceTypes DEF TableInv, KeysBehind
<1>6. KeysIncrease' /\ KeysCover'
  BY <1>1 DEF TableInv, KeysIncrease, KeysCover
<1>7. NetperfIsFiled'
  BY <1>1, <1>3 DEF TableInv, NetperfIsFiled, IsNetperf, IsMeasured
<1> QED
  BY <1>4, <1>5, <1>6, <1>7 DEF TableInv

(* What an output changes: one point more, under the current case.         *)
LEMMA ReceiveAppends ==
  ASSUME OrchestratorTypeOK, NEW i \in ClientItems, ReceiveOutput(i)
  PROVE  LET n      == currentJobIndex
             length == Len(dataPoints[n])
             mss    == FiledMSS(IsNetperf(i.test))
         IN  /\ n \in Cases /\ length \in Nat /\ mss \in Int
             /\ UNCHANGED <<MSS, currentJobIndex, datapointsFlushed, stdout>>
             /\ DOMAIN dataPoints[n] = 1 .. length
             /\ DOMAIN dataPoints'[n] = 1 .. length + 1
             /\ \A j \in 1 .. length : dataPoints'[n][j] = dataPoints[n][j]
             /\ dataPoints'[n][length + 1].mss = mss
             /\ Finished'[n] = (Finished[n] \/ IsNetperf(i.test))
             /\ \A k \in Cases \ {n} : /\ dataPoints'[k] = dataPoints[k]
                                       /\ Finished'[k] = Finished[k]
             /\ dataPointKeys' = IF dataPoints[n] = << >>
                                   THEN Append(dataPointKeys, n)
                                   ELSE dataPointKeys
<1> DEFINE n == currentJobIndex
           length == Len(dataPoints[n])
           mss == FiledMSS(IsNetperf(i.test))
           point == [mss |-> mss, from |-> MeasurementOf(i)]
<1>1. n \in Cases /\ mss \in Int
  BY NetPerfAssumption DEF OrchestratorTypeOK, FiledMSS
<1>2. point \in Points /\ point.mss = mss
  <2>1. MeasurementOf(i) \in Measurements
    BY DEF MeasurementOf, Measurements, ClientItems
  <2> QED
    BY <1>1, <2>1 DEF Points
<1>3. /\ RegisterDataPoint(n, point)
      /\ Finished' = [Finished EXCEPT ![n] = @ \/ IsNetperf(i.test)]
      /\ UNCHANGED <<MSS, currentJobIndex, datapointsFlushed, stdout>>
  BY DEF ReceiveOutput
<1> HIDE DEF point, mss
<1>4. /\ Finished'[n] = (Finished[n] \/ IsNetperf(i.test))
      /\ \A k \in Cases \ {n} : Finished'[k] = Finished[k]
  BY <1>1, <1>3 DEF OrchestratorTypeOK
<1>5. /\ dataPoints[n] \in Seq(Points)
      /\ dataPoints'[n] = Append(dataPoints[n], point)
      /\ \A k \in Cases \ {n} : dataPoints'[k] = dataPoints[k]
      /\ dataPointKeys' = IF dataPoints[n] = << >>
                            THEN Append(dataPointKeys, n)
                            ELSE dataPointKeys
  BY <1>1, <1>3 DEF RegisterDataPoint, OrchestratorTypeOK
<1>6. /\ length \in Nat /\ DOMAIN dataPoints[n] = 1 .. length
      /\ DOMAIN dataPoints'[n] = 1 .. length + 1
      /\ \A j \in 1 .. length : dataPoints'[n][j] = dataPoints[n][j]
      /\ dataPoints'[n][length + 1] = point
  BY <1>2, <1>5
<1> QED
  BY <1>1, <1>2, <1>3, <1>4, <1>5, <1>6 DEF mss

LEMMA ReceiveMeasures ==
  ASSUME OrchestratorTypeOK, NEW i \in ClientItems, ReceiveOutput(i),
         NEW n \in Cases, NEW m
  PROVE  /\ IsMeasured(n, m) => IsMeasured(n, m)'
         /\ IsMeasured(currentJobIndex, FiledMSS(IsNetperf(i.test)))'
         /\ dataPoints'[currentJobIndex] # << >>
         /\ dataPoints[n] # << >> => dataPoints'[n] # << >>
<1> DEFINE c == currentJobIndex
           length == Len(dataPoints[c])
           mss == FiledMSS(IsNetperf(i.test))
<1>1. /\ length \in Nat /\ c \in Cases
      /\ UNCHANGED <<MSS, currentJobIndex>>
      /\ DOMAIN dataPoints[c] = 1 .. length
      /\ DOMAIN dataPoints'[c] = 1 .. length + 1
      /\ \A j \in 1 .. length : dataPoints'[c][j] = dataPoints[c][j]
      /\ dataPoints'[c][length + 1].mss = mss
      /\ \A k \in Cases \ {c} : dataPoints'[k] = dataPoints[k]
  BY ReceiveAppends
<1>2. length + 1 \in DOMAIN dataPoints'[c] /\ mss' = mss
  BY <1>1 DEF FiledMSS, IsNetperf
<1> HIDE DEF c, length, mss
<1>3. IsMeasured(n, m) => IsMeasured(n, m)'
  BY <1>1 DEF IsMeasured
<1>4. dataPoints'[c] # << >>
  BY <1>2
<1>5. IsMeasured(c, mss)'
  BY <1>1, <1>2 DEF IsMeasured, c
<1> QED
  BY <1>1, <1>3, <1>4, <1>5 DEF c, mss

LEMMA ReceiveKeepsTable ==
  ASSUME OrchestratorTypeOK, TableInv, NEW i \in ClientItems, ReceiveOutput(i)
  PROVE  TableInv'
<1> USE CaseNumbers DEF CasesAreNumbers
<1> DEFINE n == currentJobIndex
<1>1. /\ n \in Cases /\ n \in Nat /\ UNCHANGED currentJobIndex
      /\ Finished'[n] = (Finished[n] \/ IsNetperf(i.test))
      /\ \A k \in Cases \ {n} : Finished'[k] = Finished[k]
      /\ \A k \in Cases \ {n} : dataPoints'[k] = dataPoints[k]
      /\ dataPointKeys' = IF dataPoints[n] = << >>
                            THEN Append(dataPointKeys, n)
                            ELSE dataPointKeys
  BY ReceiveAppends
<1>2. PassedAreFinished'
  BY <1>1 DEF TableInv, PassedAreFinished
<1>3. NetperfIsFiled'
  <2> SUFFICES ASSUME NEW k \in Cases, IsNetperf(k), Finished'[k]
               PROVE  IsMeasured(k, 0)'
    BY DEF NetperfIsFiled, IsNetperf
  <2>1. CASE Finished[k]
    BY <2>1, ReceiveMeasures DEF TableInv, NetperfIsFiled
  <2>2. CASE ~Finished[k]
    <3>1. k = n /\ IsNetperf(i.test)
      BY <1>1, <2>2
    <3>2. FiledMSS(IsNetperf(i.test)) = 0
      BY <3>1 DEF FiledMSS
    <3>3. IsMeasured(n, FiledMSS(IsNetperf(i.test)))'
      BY <1>1, ReceiveMeasures
    <3>4. FiledMSS(IsNetperf(i.test))' = 0
      BY <3>1 DEF FiledMSS, IsNetperf
    <3> QED
      BY <1>1, <3>1, <3>3, <3>4 DEF IsMeasured
  <2> QED
    BY <2>1, <2>2
<1>4. /\ dataPointKeys \in Seq(Cases)
      /\ \A k \in DOMAIN dataPointKeys :
           dataPointKeys[k] \in Nat /\ k \in Nat /\ dataPointKeys[k] \in Cases
  BY SequenceTypes DEF OrchestratorTypeOK
<1>5. /\ dataPoints'[n] # << >>
      /\ \A m \in Cases : dataPoints[m] # << >> => dataPoints'[m] # << >>
  BY <1>1, ReceiveMeasures
<1> HIDE DEF n
<1>6. CASE dataPoints[n] # << >>
  <2>1. dataPointKeys' = dataPointKeys
    BY <1>1, <1>6
  <2>2. KeysBehind' /\ KeysIncrease'
    BY <1>1, <1>4, <1>5, <2>1 DEF TableInv, KeysBehind, KeysIncrease
  <2>3. KeysCover'
    BY <1>1, <1>6, <2>1 DEF TableInv, KeysCover
  <2> QED
    BY <1>2, <1>3, <2>2, <2>3 DEF TableInv
<1>7. CASE dataPoints[n] = << >>
  <2>1. dataPointKeys' = Append(dataPointKeys, n)
    BY <1>1, <1>7
  <2>2. /\ Len(dataPointKeys) \in Nat
        /\ DOMAIN dataPointKeys = 1 .. Len(dataPointKeys)
        /\ DOMAIN dataPointKeys' = 1 .. Len(dataPointKeys) + 1
        /\ \A k \in DOMAIN dataPointKeys :
             dataPointKeys'[k] = dataPointKeys[k]
        /\ dataPointKeys'[Len(dataPointKeys) + 1] = n
    BY <1>1, <1>4, <2>1
  <2>3. \A k \in DOMAIN dataPointKeys : dataPointKeys[k] < n
    BY <1>1, <1>4, <1>7 DEF TableInv, KeysBehind, n
  <2>4. KeysBehind'
    <3> SUFFICES ASSUME NEW k \in DOMAIN dataPointKeys'
                 PROVE  /\ dataPointKeys'[k] <= n
                        /\ dataPoints'[dataPointKeys'[k]] # << >>
      BY <1>1 DEF KeysBehind, n
    <3>1. CASE k \in DOMAIN dataPointKeys
      BY <1>1, <1>4, <1>5, <2>2, <2>3, <3>1 DEF TableInv, KeysBehind
    <3>2. CASE k = Len(dataPointKeys) + 1
      BY <1>1, <1>5, <2>2, <3>2
    <3> QED
      BY <2>2, <3>1, <3>2
  <2>5. KeysIncrease'
    <3> SUFFICES ASSUME NEW j \in DOMAIN dataPointKeys',
                        NEW k \in DOMAIN dataPointKeys', j < k
                 PROVE  dataPointKeys'[j] < dataPointKeys'[k]
      BY DEF KeysIncrease
    <3>1. j \in DOMAIN dataPointKeys
      BY <2>2
    <3>2. CASE k \in DOMAIN dataPointKeys
      BY <2>2, <3>1, <3>2 DEF TableInv, KeysIncrease
    <3>3. CASE k = Len(dataPointKeys) + 1
      BY <2>2, <2>3, <3>1, <3>3
    <3> QED
      BY <2>2, <3>2, <3>3
  <2>6. KeysCover'
    <3> SUFFICES ASSUME NEW k \in Cases, dataPoints'[k] # << >>
                 PROVE  \E j \in DOMAIN dataPointKeys' : dataPointKeys'[j] = k
      BY DEF KeysCover
    <3>1. CASE k = n
      <4>1. Len(dataPointKeys) + 1 \in DOMAIN dataPointKeys'
        BY <2>2
      <4> QED
        BY <2>2, <3>1, <4>1
    <3>2. CASE k # n
      <4>1. PICK j \in DOMAIN dataPointKeys : dataPointKeys[j] = k
        BY <1>1, <3>2 DEF TableInv, KeysCover
      <4> QED
        BY <2>2, <4>1
    <3> QED
      BY <3>1, <3>2
  <2> QED
    BY <1>2, <1>3, <2>4, <2>5, <2>6 DEF TableInv
<1> QED
  BY <1>6, <1>7

-----------------------------------------------------------------------------
LEMMA InitOrder == Init => OrderInv
<1> SUFFICES ASSUME Init PROVE OrderInv
  OBVIOUS
<1>1. /\ \A n \in Cases : dataPoints[n] = << >>
      /\ \A w \in Workers : ~Holds(w)
  BY DEF Init, OrchestratorInit, WorkerInit, Holds
<1>2. TableInv
  BY InitTable DEF Init
<1> QED
  BY <1>1, <1>2
     DEF OrderInv, RowsIncrease, Increasing, SweepAhead, HolderIsNew

(* A step that leaves the sweeps and the points alone and hands out        *)
(* nothing keeps the order.                                                *)
LEMMA LosingWorkKeepsOrder ==
  ASSUME OrderInv, UNCHANGED orderVars, \A v \in Workers : Holds(v)' => Holds(v)
  PROVE  OrderInv'
<1>1. NextIsNew' = NextIsNew
  BY DEF orderVars, NextIsNew
<1>2. HolderIsNew'
  BY <1>1 DEF OrderInv, HolderIsNew
<1> QED
  BY <1>2, SameTable
     DEF OrderInv, orderVars, RowsIncrease, Increasing, SweepAhead

(* Handing out a measurement moves forward in the table and in the sweep.  *)
LEMMA AllocateKeepsOrder ==
  ASSUME IInv, OrderInv, NEW w \in Workers, NEW n \in Cases, NEW reply,
         Allocate(w, n, reply)
  PROVE  OrderInv' /\ NextIsNew'
<1> USE CaseNumbers DEF CasesAreNumbers
<1>1. /\ OrchestratorTypeOK
      /\ FirstUnfinished(n) /\ AdvanceSweep(n) /\ currentJobIndex' = n
      /\ UNCHANGED <<dataPoints, dataPointKeys>>
  BY DEF Allocate, IInv, TypeOK
<1>2. /\ n \in Nat /\ currentJobIndex \in Nat /\ MssStepSize \in Nat \ {0}
      /\ \A m \in Cases : MSS[m] \in Nat
  BY <1>1, NetPerfAssumption DEF OrchestratorTypeOK
<1>3. TableInv'
  BY <1>1, AllocateKeepsTable DEF OrderInv
<1>4. \A m \in Cases : \A i \in DOMAIN dataPoints[m] :
        dataPoints[m][i].mss \in Int
  BY <1>1, SequenceTypes
<1>5. \A m \in Cases \ {n} : MSS'[m] = MSS[m] /\ Finished'[m] = Finished[m]
  BY <1>1 DEF AdvanceSweep, OrchestratorTypeOK
<1>8. SweepAhead' /\ NextIsNew'
  <2>1. CASE IsNetperf(n)
    <3>1. UNCHANGED <<MSS, Finished>> /\ ~Finished[n]
      BY <1>1, <2>1 DEF AdvanceSweep, FirstUnfinished
    <3> QED
      BY <1>1, <2>1, <3>1
         DEF OrderInv, SweepAhead, NextIsNew, IsNetperf
  <2>2. CASE ~IsNetperf(n)
    <3>1. MSS'[n] = MSS[n] + MssStepSize
      BY <1>1, <2>2 DEF AdvanceSweep, OrchestratorTypeOK
    <3>2. \A i \in DOMAIN dataPoints[n] :
            dataPoints[n][i].mss < MSS'[n] - MssStepSize
      BY <1>2, <1>4, <2>2, <3>1 DEF OrderInv, SweepAhead
    <3>3. NextIsNew'
      BY <1>1, <2>2, <3>2 DEF NextIsNew, IsNetperf
    <3>4. SweepAhead'
      <4>1. MSS'[n] \in Nat
        BY <1>2, <3>1
      <4> QED
        BY <1>1, <1>2, <1>4, <1>5, <2>2, <3>2, <4>1
           DEF OrderInv, SweepAhead, IsNetperf
    <3> QED
      BY <3>3, <3>4
  <2> QED
    BY <2>1, <2>2
<1>9. RowsIncrease'
  BY <1>1 DEF OrderInv, RowsIncrease, Increasing
<1> QED
  BY <1>3, <1>8, <1>9 DEF OrderInv, HolderIsNew

(* Appending a larger number to an increasing sequence. *)
LEMMA AppendIncreases ==
  ASSUME NEW points \in Seq(Points), NEW point \in Points, Increasing(points),
         \A i \in DOMAIN points : points[i].mss < point.mss
  PROVE  Increasing(Append(points, point))
<1> DEFINE longer == Append(points, point)
<1>1. /\ Len(points) \in Nat
      /\ DOMAIN points = 1 .. Len(points)
      /\ DOMAIN longer = 1 .. Len(points) + 1
      /\ \A i \in DOMAIN points : longer[i] = points[i]
      /\ longer[Len(points) + 1] = point
  OBVIOUS
<1> SUFFICES ASSUME NEW i \in DOMAIN longer, NEW j \in DOMAIN longer, i < j
             PROVE  longer[i].mss < longer[j].mss
  BY DEF Increasing
<1> HIDE DEF longer
<1> QED
  BY <1>1 DEF Increasing

LEMMA ReceiveKeepsOrder ==
  ASSUME IInv, OrderInv, NextIsNew, NEW i \in ClientItems,
         MeasurementOf(i) = Current, ReceiveOutput(i),
         \A v \in Workers : ~Holds(v)'
  PROVE  OrderInv'
<1> USE CaseNumbers DEF CasesAreNumbers
<1> DEFINE n == currentJobIndex
           point == [mss |-> FiledMSS(IsNetperf(i.test)),
                     from |-> MeasurementOf(i)]
<1>1. OrchestratorTypeOK /\ n \in Cases /\ n \in Nat
  BY DEF IInv, TypeOK, OrchestratorTypeOK
<1>2. i.test = n /\ point.mss = FiledMSS(IsNetperf(n))
  BY DEF MeasurementOf, Current
<1>3. point \in Points
  <2>1. FiledMSS(IsNetperf(i.test)) \in Int
    BY <1>1, NetPerfAssumption DEF FiledMSS, OrchestratorTypeOK
  <2>2. MeasurementOf(i) \in Measurements
    BY DEF MeasurementOf, Measurements, ClientItems
  <2> QED
    BY <2>1, <2>2 DEF Points
<1>4. /\ RegisterDataPoint(n, point)
      /\ Finished' = [Finished EXCEPT ![n] = @ \/ IsNetperf(n)]
      /\ UNCHANGED <<MSS, currentJobIndex>>
  BY <1>2 DEF ReceiveOutput
<1> HIDE DEF point
<1>5. /\ dataPoints[n] \in Seq(Points)
      /\ dataPoints'[n] = Append(dataPoints[n], point)
      /\ \A m \in Cases \ {n} : dataPoints'[m] = dataPoints[m]
  BY <1>1, <1>4 DEF RegisterDataPoint, OrchestratorTypeOK
<1>6. Finished'[n] = (Finished[n] \/ IsNetperf(n))
      /\ \A m \in Cases \ {n} : Finished'[m] = Finished[m]
  BY <1>1, <1>4 DEF OrchestratorTypeOK
<1>7. \A k \in DOMAIN dataPoints[n] : dataPoints[n][k].mss < point.mss
  <2>1. CASE IsNetperf(n)
    <3>1. dataPoints[n] = << >>
      BY <1>1, <2>1 DEF OrderInv, SweepAhead, NextIsNew
    <3> QED
      BY <3>1
  <2>2. CASE ~IsNetperf(n)
    BY <1>2, <2>2 DEF NextIsNew, FiledMSS
  <2> QED
    BY <2>1, <2>2
<1>8. RowsIncrease'
  <2>1. Increasing(dataPoints'[n])
    BY <1>1, <1>3, <1>5, <1>7, AppendIncreases DEF OrderInv, RowsIncrease
  <2> QED
    BY <1>5, <2>1 DEF OrderInv, RowsIncrease, Increasing
<1>9. SweepAhead'
  <2> SUFFICES ASSUME NEW m \in Cases
               PROVE  IF IsNetperf(m)
                        THEN ~Finished'[m] => dataPoints'[m] = << >>
                        ELSE \A k \in DOMAIN dataPoints'[m] :
                               dataPoints'[m][k].mss <= MSS'[m] - MssStepSize
    BY DEF SweepAhead, IsNetperf
  <2>1. CASE m # n
    BY <1>4, <1>5, <1>6, <2>1 DEF OrderInv, SweepAhead
  <2>2. CASE m = n /\ IsNetperf(n)
    BY <1>6, <2>2
  <2>3. CASE m = n /\ ~IsNetperf(n)
    <3>1. point.mss = MSS[n] - MssStepSize
      BY <1>2, <2>3 DEF FiledMSS
    <3>2. MSS[n] - MssStepSize \in Int
      BY <1>1, NetPerfAssumption DEF OrchestratorTypeOK
    <3> SUFFICES ASSUME NEW k \in DOMAIN dataPoints'[n]
                 PROVE  dataPoints'[n][k].mss <= MSS[n] - MssStepSize
      BY <1>4, <2>3
    <3>3. CASE k \in DOMAIN dataPoints[n]
      <4>1. dataPoints'[n][k] = dataPoints[n][k]
        BY <1>3, <1>5, <3>3
      <4> QED
        BY <1>1, <2>3, <3>3, <4>1 DEF OrderInv, SweepAhead
    <3>4. CASE k \notin DOMAIN dataPoints[n]
      <4>1. dataPoints'[n][k] = point
        BY <1>3, <1>5, <3>4
      <4> QED
        BY <3>1, <3>2, <4>1
    <3> QED
      BY <3>3, <3>4
  <2> QED
    BY <2>1, <2>2, <2>3
<1>10. TableInv'
  BY <1>1, ReceiveKeepsTable DEF OrderInv
<1> QED
  BY <1>8, <1>9, <1>10 DEF OrderInv, HolderIsNew

LEMMA StepOrder ==
  ASSUME IInv, OrderInv, NEW w \in Workers, Step(w)
  PROVE  OrderInv'
<1>1. CASE WorkerStep(w)
  BY <1>1, WorkerStepHolds, LosingWorkKeepsOrder
     DEF WorkerStep, orchVars, orderVars, IInv, TypeOK
<1>2. CASE HandleRegister(w)
  <2>1. PICK reply \in Replies :
          Answer(w, reply) /\ RegisterClient(w, MyIP(w), reply)
    BY <1>2 DEF HandleRegister
  <2>2. /\ Holds(w)' => reply.kind = "client"
        /\ \A v \in Workers \ {w} : Holds(v)' => Holds(v)
    BY <2>1, AnswerHolds DEF IInv, TypeOK
  <2>3. CASE \E n \in Cases : Allocate(w, n, reply)
    <3>1. OrderInv' /\ NextIsNew'
      BY <2>3, AllocateKeepsOrder
    <3> QED
      BY <3>1 DEF OrderInv, HolderIsNew
  <2>4. CASE Enroll(w, MyIP(w), reply) \/ StandBy(w, reply)
             \/ Conclude(w, reply)
    <3>1. reply.kind # "client" /\ UNCHANGED orderVars
      BY <2>4, ItemKinds DEF Enroll, StandBy, Conclude, orderVars
    <3> QED
      BY <2>2, <3>1, LosingWorkKeepsOrder
  <2> QED
    BY <2>1, <2>3, <2>4 DEF RegisterClient
<1>3. CASE HandleReceive(w)
  <2>1. item[w] \in ClientItems
    BY <1>3 DEF HandleReceive, Acknowledge, Goto, IInv, HoldsClientItem
  <2>2. /\ Holds(w) /\ ~Holds(w)'
        /\ \A v \in Workers \ {w} : Holds(v)' => Holds(v)
    BY <1>3, AcknowledgeHolds DEF HandleReceive, IInv, TypeOK
  <2>3. \A v \in Workers : ~Holds(v)'
    BY <2>2 DEF IInv, HolderIsBusy, BusyUnique
  <2>4. MeasurementOf(item[w]) = Current /\ NextIsNew
    BY <2>2 DEF IInv, HolderIsCurrent, Current, OrderInv, HolderIsNew
  <2> QED
    BY <1>3, <2>1, <2>3, <2>4, ReceiveKeepsOrder DEF HandleReceive
<1> QED
  BY <1>1, <1>2, <1>3 DEF Step
=============================================================================
