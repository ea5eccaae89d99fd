----------------------------- MODULE MCLauncher -----------------------------
(* Two workers and two iterations, after a launcher that was killed or in  *)
(* an empty namespace.                                                     *)
EXTENDS Launcher

TwoWorkers == {"netperf-w1", "netperf-w2"}
=============================================================================
