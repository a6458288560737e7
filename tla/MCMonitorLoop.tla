---------------------------- MODULE MCMonitorLoop ----------------------------
(* MonitorLoop with a small queue, short timeouts and one periodic check.     *)
EXTENDS MonitorLoop
=============================================================================
