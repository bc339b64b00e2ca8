---------------------------- MODULE MCSnapshotGC ----------------------------
(* An instance of SnapshotGC for TLC.                                      *)
EXTENDS SnapshotGC
=============================================================================
