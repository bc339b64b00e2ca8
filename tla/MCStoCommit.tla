---------------------------- MODULE MCStoCommit ----------------------------
(* Instances of StoCommit for TLC: the programs the transactions run.      *)
EXTENDS StoCommit

o(op, k) == [op |-> op, key |-> k]
put_mbta(k, c) == << [op |-> "mbta", key |-> k, cid |-> c] >>

\* Transactions 1 and 3 are the first worker's, 2 and 4 the second's.
Worker4 == << 1, 2, 1, 2 >>

\* Keys 1 and 2 exist.  Write skew, phantoms, deletes, inserts, overwritten
\* inserts, and locks taken in opposite orders.
First == { << o("get", 1), o("put", 2) >>, << o("get", 3), o("put", 1) >>,
           << o("put", 1), o("put", 2) >>, << o("remove", 1), o("insert", 3) >>,
           << o("insert", 3), o("put", 3) >>, << o("insert", 3), o("remove", 3) >>,
           << o("scan", 0), o("put", 1) >> }
Second == { << o("get", 2), o("put", 1) >>, << o("put", 2), o("put", 1) >>,
            << o("get", 1), o("put", 3) >>, << o("remove", 1), o("put", 1) >>,
            << o("remove", 1) >>, << o("scan", 0) >> }

\* Each worker runs one more transaction.
Leader == {<< p, q, << o("put", 1) >>, << o("insert", 3) >> >> : p \in First, q \in Second}

\* Two replay threads, two keys, one of them new.
Follower == { << put_mbta(1, 4), put_mbta(1, 5), put_mbta(3, 7), put_mbta(3, 6) >> }

Workload == Leader \union Follower
=============================================================================
