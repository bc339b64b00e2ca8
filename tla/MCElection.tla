----------------------------- MODULE MCElection -----------------------------
(* Election of three machines: the constants of its TLC runs.              *)
EXTENDS Election

M3 == {0, 1, 2}
=============================================================================
