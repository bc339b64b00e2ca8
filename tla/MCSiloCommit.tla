---------------------------- MODULE MCSiloCommit ----------------------------
(* Instances of SiloCommit for TLC: the programs the transactions run.     *)
EXTENDS SiloCommit

o(op, k) == [op |-> op, key |-> k]

\* Write skew, phantoms, blind writes, deletes and inserts over two keys.
Conflicts ==
  { << o("get", 1), o("put", 2) >>,
    << o("get", 2), o("put", 1) >>,
    << o("scan", 0), o("put", 1) >>,
    << o("remove", 1), o("insert", 2) >>,
    << o("insert", 2), o("put", 2) >> }

\* The second transaction clashes with each of them in both directions; the
\* third reads everything, or deletes what the others read.
ConflictPrograms ==
  << Conflicts,
     { << o("get", 2), o("put", 1) >>, << o("remove", 1), o("insert", 2) >> },
     { << o("scan", 0) >>, << o("remove", 1) >> } >>

\* One transaction reads what it has written itself.
OwnPrograms ==
  << { << o("put", 1), o("put", 1), o("get", 1) >>, << o("insert", 2), o("remove", 2), o("get", 2) >> } >>
=============================================================================
