----------------------------- MODULE MCNetPerf ------------------------------
(* NetPerf with the real table of nptest.go (init, lines 159-178), and the *)
(* results table of the README of the benchmark.                           *)
EXTENDS NetPerf

CONSTANTS w1, w2, w3

mssMin == 96

Row(src, dst, type, vip, mss) ==
  [SourceNode |-> src, DestinationNode |-> dst, Type |-> type,
   ClusterIP |-> vip, MSS |-> mss]

RealTable ==
  << Row(w1, w2, "iperfTCPTest", FALSE, mssMin),
     Row(w1, w2, "iperfTCPTest", TRUE, mssMin),
     Row(w1, w3, "iperfTCPTest", FALSE, mssMin),
     Row(w3, w2, "iperfTCPTest", TRUE, mssMin),
     Row(w2, w2, "iperfTCPTest", TRUE, mssMin),
     Row(w1, w2, "iperfSctpTest", FALSE, mssMin),
     Row(w1, w2, "iperfSctpTest", TRUE, mssMin),
     Row(w1, w3, "iperfSctpTest", FALSE, mssMin),
     Row(w3, w2, "iperfSctpTest", TRUE, mssMin),
     Row(w2, w2, "iperfSctpTest", TRUE, mssMin),
     Row(w1, w2, "iperfUDPTest", FALSE, MssMax),
     Row(w1, w2, "iperfUDPTest", TRUE, MssMax),
     Row(w1, w3, "iperfUDPTest", FALSE, MssMax),
     Row(w3, w2, "iperfUDPTest", TRUE, MssMax),
     Row(w1, w2, "netperfTest", FALSE, 0),
     Row(w1, w2, "netperfTest", TRUE, 0),
     Row(w1, w3, "netperfTest", FALSE, 0),
     Row(w3, w2, "netperfTest", TRUE, 0) >>

(* The report has the shape of the results table of the benchmark's        *)
(* README: an X-axis of 22 MSS values from 96 to 1440, 18 rows, 22 points  *)
(* in each TCP and SCTP row and one in each UDP and netperf row.           *)
ReportHasDocumentedShape ==
  datapointsFlushed =>
    /\ Len(stdout) = 1
    /\ stdout[1].header = [i \in 1..22 |-> 96 + 64 * (i - 1)]
    /\ Len(stdout[1].rows) = 18
    /\ \A n \in 1..18 :
         /\ stdout[1].rows[n].label = n
         /\ Len(stdout[1].rows[n].points) = IF n <= 10 THEN 22 ELSE 1
=============================================================================
