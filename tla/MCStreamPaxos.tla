--------------------------- MODULE MCStreamPaxos ---------------------------
(* Three machines, the configured leader being 0. *)
EXTENDS StreamPaxos

ThreeMachines == 0..2
=============================================================================
