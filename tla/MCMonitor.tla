----------------------------- MODULE MCMonitor -----------------------------
(* One device, one screen (of either kind), one report: the constants and   *)
(* the bounds of the run are in Monitor.cfg.                                *)
EXTENDS Monitor
=============================================================================
