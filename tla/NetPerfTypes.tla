---------------------------- MODULE NetPerfTypes ----------------------------
(***************************************************************************)
(* The constants and the records that the orchestrator and the workers of  *)
(* the network benchmark exchange over net/rpc                             *)
(* (stable/network-benchmark-testing/docker/nptests/nptest.go).            *)
(***************************************************************************)
EXTENDS Integers, Sequences

CONSTANTS
  Workers,      \* values of the "worker" environment variable: netperf-w1, ...
  Testcases,    \* the table built by init(): a sequence of Testcase records
  MssMax,       \* mssMax, the largest MSS of a sweep
  MssStepSize,  \* mssStepSize, the distance of two points of a sweep
  W2,           \* the worker that the netperf-w2 service selects
  W2Service     \* NETPERF_W2_SERVICE_HOST, the virtual IP of that service

TestTypes == {"iperfTCPTest", "iperfUDPTest", "iperfSctpTest", "netperfTest"}

(* MSS is the initial value of the field; netperf cases leave it 0. *)
Testcase == [SourceNode : Workers, DestinationNode : Workers,
             Type : TestTypes, ClusterIP : BOOLEAN, MSS : Nat]

ASSUME NetPerfAssumption ==
  /\ W2 \in Workers
  /\ MssMax \in Nat
  /\ MssStepSize \in Nat \ {0}
  /\ Testcases \in Seq(Testcase)
  /\ Testcases # << >>
  /\ \A n \in DOMAIN Testcases : Testcases[n].MSS <= MssMax

Cases == DOMAIN Testcases

IsNetperf(n) == Testcases[n].Type = "netperfTest"

(***************************************************************************)
(* A Pod IP is abstracted to the worker it belongs to and the number of    *)
(* the Pod incarnation, so that a replaced Pod has a new address.          *)
(***************************************************************************)
PodIPs == Workers \X Nat

Hosts == PodIPs \cup {W2Service}

(***************************************************************************)
(* The reply of RegisterClient.  Exactly one of the three flags IsIdle,    *)
(* IsServerItem and IsClientItem is set: "kind".  The Go ClientItem does   *)
(* not name the test case it belongs to; "test" is a history field that    *)
(* no action reads, for the properties about whose output is recorded.     *)
(* Ports are determined by the type and left out.                          *)
(***************************************************************************)
IdleItem   == [kind |-> "idle"]
ServerItem == [kind |-> "server"]
ClientItem(n, host, mss) ==
  [kind |-> "client", test |-> n, host |-> host, mss |-> mss]

ClientItems == [kind : {"client"}, test : Cases, host : Hosts, mss : Nat]

WorkItems == {IdleItem, ServerItem} \cup ClientItems

(***************************************************************************)
(* A measurement names one run of a client program: a test case and the    *)
(* MSS it was run with (0 for netperf).  The output of the program, and    *)
(* the bandwidth parsed from it ("0" if the program failed), stand for     *)
(* the measurement that produced them.                                     *)
(***************************************************************************)
Measurements == Cases \X Nat

MeasurementOf(item) == <<item.test, item.mss>>
=============================================================================
