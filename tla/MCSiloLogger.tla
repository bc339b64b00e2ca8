---------------------------- MODULE MCSiloLogger ----------------------------
(* Instances of SiloLogger for TLC.                                        *)
EXTENDS SiloLogger

\* One log file for every core.
OneLogger == [l \in Loggers |-> Cores]

\* A busy core and one that commits once.
BusyAndIdle == [c \in Cores |-> IF c = 1 THEN 2 ELSE 1]
=============================================================================
