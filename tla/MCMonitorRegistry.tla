-------------------------- MODULE MCMonitorRegistry --------------------------
(* Small instances of MonitorRegistry.                                     *)
EXTENDS MonitorRegistry
=============================================================================
