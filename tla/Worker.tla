------------------------------- MODULE Worker -------------------------------
(***************************************************************************)
(* The workers of the network benchmark: one process per worker name, each *)
(* in the loop of startWork (nptest.go) with at most one outstanding RPC.  *)
(* The actions below are the worker's own steps; Answer and Acknowledge    *)
(* are the arrival of the orchestrator's replies and are taken together    *)
(* with its handlers.                                                      *)
(***************************************************************************)
EXTENDS NetPerfTypes

VARIABLES
  pc,         \* where the process of a worker is in startWork
  item,       \* the work item of the last reply, IdleItem when it is done
  connected,  \* the connection of the worker's rpc.Client is intact
  servers,    \* the Pod runs "iperf3 -s" and netserver
  podIP       \* the incarnation of the worker's Pod: getMyIP()

workerVars == <<pc, item, connected, servers, podIP>>

(***************************************************************************)
(*   down        the container is not running                              *)
(*   dial        the loop around rpc.DialHTTP                              *)
(*   ask         the top of the inner loop                                 *)
(*   registering RegisterClient was sent and is not handled yet            *)
(*   answered    its reply is on its way                                   *)
(*   run         the iperf3 or netperf client is running                   *)
(*   reporting   ReceiveOutput was sent and is not handled yet             *)
(*   reported    its reply is on its way, or the cooldown is running       *)
(***************************************************************************)
Locations == {"down", "dial", "ask", "registering", "answered",
              "run", "reporting", "reported"}

WorkerTypeOK ==
  /\ pc \in [Workers -> Locations]
  /\ item \in [Workers -> WorkItems]
  /\ connected \in [Workers -> BOOLEAN]
  /\ servers \in [Workers -> BOOLEAN]
  /\ podIP \in [Workers -> Nat]

WorkerInit ==
  /\ pc = [w \in Workers |-> "dial"]
  /\ item = [w \in Workers |-> IdleItem]
  /\ connected = [w \in Workers |-> FALSE]
  /\ servers = [w \in Workers |-> FALSE]
  /\ podIP = [w \in Workers |-> 0]

(* Mutant: getMyIP answers with an address that is not the Pod's. *)
MyIP_Service(w) == W2Service

MyIP(w) == <<w, podIP[w]>>

(* w was handed a measurement and has not delivered its output yet. *)
Holds(w) ==
  \/ pc[w] = "answered" /\ item[w].kind = "client"
  \/ pc[w] \in {"run", "reporting"}

-----------------------------------------------------------------------------
Goto(w, from, to) ==
  /\ pc[w] = from
  /\ pc' = [pc EXCEPT ![w] = to]

Drop(w) == item' = [item EXCEPT ![w] = IdleItem]

Dial(w) ==
  /\ Goto(w, "dial", "ask")
  /\ connected' = [connected EXCEPT ![w] = TRUE]
  /\ UNCHANGED <<item, servers, podIP>>

Register(w) ==
  /\ connected[w]
  /\ Goto(w, "ask", "registering")
  /\ UNCHANGED <<item, connected, servers, podIP>>

Answer(w, reply) ==
  /\ connected[w]
  /\ Goto(w, "registering", "answered")
  /\ item' = [item EXCEPT ![w] = reply]
  /\ UNCHANGED <<connected, servers, podIP>>

(* Sleep five seconds, then ask again. *)
TakeIdle(w) ==
  /\ item[w].kind = "idle"
  /\ Goto(w, "answered", "ask")
  /\ UNCHANGED <<item, connected, servers, podIP>>

(* Both daemons are started by goroutines of their own; a second start is  *)
(* a failed bind that leaves the running daemon alone.                     *)
TakeServer(w) ==
  /\ item[w].kind = "server"
  /\ Goto(w, "answered", "ask")
  /\ servers' = [servers EXCEPT ![w] = TRUE]
  /\ Drop(w)
  /\ UNCHANGED <<connected, podIP>>

TakeClient(w) ==
  /\ item[w].kind = "client"
  /\ Goto(w, "answered", "run")
  /\ UNCHANGED <<item, connected, servers, podIP>>

(* The client program ends, well or not, and its output is sent. *)
Report(w) ==
  /\ connected[w]
  /\ Goto(w, "run", "reporting")
  /\ UNCHANGED <<item, connected, servers, podIP>>

Acknowledge(w) ==
  /\ connected[w]
  /\ Goto(w, "reporting", "reported")
  /\ UNCHANGED <<item, connected, servers, podIP>>

(* The cooldown after a measurement is over. *)
Cooldown(w) ==
  /\ Goto(w, "reported", "ask")
  /\ Drop(w)
  /\ UNCHANGED <<connected, servers, podIP>>
=============================================================================
