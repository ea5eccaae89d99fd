-------------------------- MODULE MCNetPerfFaults ---------------------------
(* Tables for NetPerfFaults: a netperf case, a sweep of two measurements   *)
(* and a netperf case from the other worker, the last as in the code; and  *)
(* two sources that measure one destination.                               *)
EXTENDS NetPerfFaults

CONSTANTS w1, w2, w3

Row(src, dst, type, vip, mss) ==
  [SourceNode |-> src, DestinationNode |-> dst, Type |-> type,
   ClusterIP |-> vip, MSS |-> mss]

FaultTable ==
  << Row(w1, w2, "netperfTest", FALSE, 0),
     Row(w1, w2, "iperfTCPTest", FALSE, 32),
     Row(w2, w1, "netperfTest", FALSE, 0) >>

SharedTable ==
  << Row(w1, w2, "iperfTCPTest", FALSE, 96),
     Row(w3, w2, "iperfSctpTest", TRUE, 96) >>
=============================================================================
