----------------------------- MODULE SiloCommit -----------------------------
(***************************************************************************)
(* Optimistic transactions of the storage engine: the operations and the   *)
(* commit protocol of txn_impl.h, base_txn_btree.h and tuple.h, the commit *)
(* TIDs of txn_proto2_impl.h, and the version of the index leaf that       *)
(* guards against phantoms (masstree_insert.hh, masstree_remove.hh,        *)
(* masstree_tcursor.hh).                                                   *)
(*                                                                         *)
(* Every thread runs one transaction, a short program of operations.  The  *)
(* keys share one leaf that never splits.  A step of the model is one      *)
(* access to shared memory that others can see: a search, an insertion     *)
(* into the leaf, a stable read of a tuple, one tuple lock, the read of    *)
(* the global tick, the validation of one read, one record write.  The     *)
(* seqlock of a tuple (mark_modifying, reader_check_version) makes a       *)
(* record read one step, and the leaf lock makes an insertion one step; a  *)
(* lock that is taken is a disabled step.                                  *)
(*                                                                         *)
(* Read-only snapshots and the version chain are module SnapshotGC's.      *)
(***************************************************************************)
EXTENDS Integers, Sequences, FiniteSets, SequencesExt, FiniteSetsExt

CONSTANTS
  NTxns,        \* threads (cores), each with one transaction
  Keys,
  Programs,     \* for each transaction, the programs it may run
  InitKeys,     \* the keys that exist at the start
  MaxTuples,    \* bound: tuples ever allocated
  MaxTick,      \* bound: the epochs
  NumIds        \* the values of the number field of a TID

Txns == 1..NTxns
Tuples == 1..MaxTuples

Operation ==
  [op : {"get", "put", "insert", "remove"}, key : Keys] \union [op : {"scan"}, key : {0}]

\* The number field of a TID has room for one commit of every transaction in
\* the same epoch (the code gives it 24 bits).
ASSUME SiloAssumption ==
  /\ NTxns \in Nat /\ MaxTuples \in Nat /\ MaxTick \in Nat \ {0} /\ NumIds \in Nat
  /\ NTxns + 1 < NumIds
  /\ IsFiniteSet(Keys) /\ InitKeys \subseteq Keys /\ Cardinality(InitKeys) <= MaxTuples

ASSUME ProgramAssumption ==
  \A t \in Txns : \A p \in Programs[t] : p \in Seq(Operation)

Empty == -1     \* a record that is absent or logically deleted
None == -1      \* no node version recorded

VARIABLES
  tick,    \* ticker::global_current_tick()
  tree,    \* key -> tuple of the index, 0 if the key is not in it
  leaf,    \* the leaf: [v, size, mod]
  tup,     \* dbtuples: [key, version, val, owner, latest]
  ntup,    \* tuples allocated so far
  gcq,     \* tuples queued by on_logical_delete()
  tx       \* the transactions

dbVars == <<tick, tree, leaf, tup, ntup, gcq>>
vars == <<dbVars, tx>>

-----------------------------------------------------------------------------
(* Transaction ids: the epoch in the high bits, then a number, then the    *)
(* core.                                                                   *)

MakeTid(core_id, num_id, epoch_id) ==
  (epoch_id * NumIds + num_id) * (NTxns + 1) + core_id
EpochId(v) == v \div (NumIds * (NTxns + 1))
NumId(v) == (v \div (NTxns + 1)) % NumIds

MIN_TID == 0
MAX_TID == MakeTid(0, 0, MaxTick + 1)     \* greater than any commit TID

-----------------------------------------------------------------------------
(* The leaf.  Its version changes only when it turns from inserting to     *)
(* removing or back; the full version adds the number of keys.             *)

full_version_value(l) == l.v * 16 + l.size

find_insert(l) == [v |-> IF l.mod = "insert" THEN l.v ELSE l.v + 1,
                   size |-> l.size + 1, mod |-> "insert"]

finish_remove(l) == [v |-> IF l.mod = "insert" THEN l.v + 1 ELSE l.v,
                     size |-> l.size - 1, mod |-> "remove"]

-----------------------------------------------------------------------------
NewTuple(k, ver, val, owner) ==
  [key |-> k, version |-> ver, val |-> val, owner |-> owner, latest |-> TRUE]

\* The value the op-th operation of transaction t writes.
ValueOf(t, op) == 10 * t + op

InitSeq == SetToSeq(InitKeys)

NewTxn(p) ==
  [pc |-> "op", prog |-> p, ip |-> 1, todo |-> << >>, rset |-> << >>,
   absent |-> {}, aset |-> None, own |-> << >>, wset |-> << >>,
   lockq |-> {}, locked |-> {}, tid |-> MIN_TID, i |-> 1]

Init ==
  /\ tick = 1
  /\ tree = [k \in Keys |-> IF k \in InitKeys
                            THEN CHOOSE i \in DOMAIN InitSeq : InitSeq[i] = k ELSE 0]
  /\ leaf = [v |-> 0, size |-> Cardinality(InitKeys), mod |-> "insert"]
  /\ ntup = Cardinality(InitKeys)
  /\ tup = [u \in Tuples |->
              IF u <= ntup THEN NewTuple(InitSeq[u], MakeTid(0, 1, 1), 0, 0)
                           ELSE [NewTuple(0, MIN_TID, Empty, 0) EXCEPT !.latest = FALSE]]
  /\ gcq = {}
  /\ \E prog \in [Txns -> UNION {Programs[t] : t \in Txns}] :
       /\ \A t \in Txns : prog[t] \in Programs[t]
       /\ tx = [t \in Txns |-> NewTxn(prog[t])]

At(t, pc) == tx[t].pc = pc
HasOp(t) == tx[t].ip <= Len(tx[t].prog)
Op(t) == tx[t].prog[tx[t].ip]
IsOp(t, ops) == At(t, "op") /\ HasOp(t) /\ Op(t).op \in ops

\* The record of transaction t after its current operation.
NextOp(r) == [r EXCEPT !.pc = "op", !.ip = @ + 1]

\* Transaction t goes on as r.
Becomes(t, r) == tx' = [tx EXCEPT ![t] = r]

\* do_node_read() of the version v of the leaf: TRUE if the leaf has not
\* changed since the transaction last looked.
SameNode(t, v) == tx[t].aset \in {None, v}

-----------------------------------------------------------------------------
(* get() and scan(): do_search(), txn_search_range_callback.               *)

\* A search that does not find the key remembers the leaf's version.
do_search(t) ==
  LET k == Op(t).key
      v == full_version_value(leaf)
  IN
  /\ IsOp(t, {"get"})
  /\ Becomes(t,
       IF tree[k] # 0 THEN [tx[t] EXCEPT !.pc = "read", !.todo = <<[key |-> k, tup |-> tree[k]]>>]
       ELSE IF SameNode(t, v) THEN NextOp([tx[t] EXCEPT !.aset = v, !.absent = @ \union {k}])
       ELSE [tx[t] EXCEPT !.pc = "abort"])
  /\ UNCHANGED dbVars

\* A scan remembers the version of the leaf and reads every tuple in it.
do_search_range(t) ==
  LET v == full_version_value(leaf)
      here == SetToSeq({k \in Keys : tree[k] # 0})
  IN
  /\ IsOp(t, {"scan"})
  /\ Becomes(t,
       IF SameNode(t, v)
       THEN [tx[t] EXCEPT !.pc = "read", !.aset = v,
                          !.absent = @ \union {k \in Keys : tree[k] = 0},
                          !.todo = [i \in DOMAIN here |-> [key |-> here[i], tup |-> tree[here[i]]]]]
       ELSE [tx[t] EXCEPT !.pc = "abort"])
  /\ UNCHANGED dbVars

\* find_write_set(): the first entry of the write set for tuple u, 0 if none.
find_write_set(t, u) ==
  LET hits == {i \in DOMAIN tx[t].wset : tx[t].wset[i].tup = u}
  IN IF hits = {} THEN 0 ELSE Min(hits)

\* do_tuple_read(): an own write, the empty value of a tentative insert, or a
\* stable read that waits while the tuple is locked for writing.
do_tuple_read(t) ==
  LET d == Head(tx[t].todo)
      u == tup[d.tup]
      w == find_write_set(t, d.tup)
      rest == [tx[t] EXCEPT !.todo = Tail(@)]
  IN
  /\ At(t, "read")
  /\ tx[t].todo # << >>
  /\ \/ /\ w # 0
        /\ Becomes(t, [rest EXCEPT !.own = Append(@,
                    [ip |-> tx[t].ip, key |-> d.key, val |-> tx[t].wset[w].val])])
     \/ /\ w = 0
        /\ u.version = MAX_TID
        /\ Becomes(t, [rest EXCEPT !.rset = Append(@,
                    [tup |-> d.tup, tid |-> MIN_TID, key |-> d.key, val |-> Empty])])
     \/ /\ w = 0
        /\ u.version # MAX_TID
        /\ u.owner = 0
        /\ Becomes(t, [rest EXCEPT !.rset = Append(@,
                    [tup |-> d.tup, tid |-> u.version, key |-> d.key, val |-> u.val])])
  /\ UNCHANGED dbVars

ReadDone(t) ==
  /\ At(t, "read")
  /\ tx[t].todo = << >>
  /\ Becomes(t, NextOp(tx[t]))
  /\ UNCHANGED dbVars

-----------------------------------------------------------------------------
(* put(), insert() and remove(): do_tree_put(), try_insert_new_tuple().    *)

WriteVal(t) == IF Op(t).op = "remove" THEN Empty ELSE ValueOf(t, tx[t].ip)

WriteEntry(t, u, ins) ==
  [tup |-> u, key |-> Op(t).key, val |-> WriteVal(t), ins |-> ins]

\* The regular search: the tuple joins the write set, or an insert is next.
PutSearch(t) ==
  LET u == tree[Op(t).key] IN
  /\ IsOp(t, {"put", "remove"}) \/ At(t, "find")
  /\ Becomes(t,
       IF u # 0 THEN NextOp([tx[t] EXCEPT !.wset = Append(@, WriteEntry(t, u, FALSE))])
                ELSE [tx[t] EXCEPT !.pc = "insert"])
  /\ UNCHANGED dbVars

\* insert_if_absent() of a locked tuple with a tentative version.  If the
\* transaction has the leaf in its absent set, it follows its own change, and
\* aborts if somebody else's came in between.
try_insert_new_tuple(t) ==
  LET k == Op(t).key
      u == ntup + 1
      old_version == full_version_value(leaf)
      new_version == full_version_value(find_insert(leaf))
      put == [tx[t] EXCEPT !.wset = Append(@, WriteEntry(t, u, TRUE)),
                           !.locked = @ \union {u}]
  IN
  /\ IsOp(t, {"insert"}) \/ At(t, "insert")
  /\ tree[k] = 0
  /\ ntup < MaxTuples
  /\ ntup' = u
  /\ tup' = [tup EXCEPT ![u] = NewTuple(k, MAX_TID, WriteVal(t), t)]
  /\ tree' = [tree EXCEPT ![k] = u]
  /\ leaf' = find_insert(leaf)
  /\ Becomes(t,
       IF ~ SameNode(t, old_version) THEN [put EXCEPT !.pc = "abort"]
       ELSE NextOp([put EXCEPT !.aset = IF @ = None THEN None ELSE new_version]))
  /\ UNCHANGED <<tick, gcq>>

\* Somebody inserted the key first: search again.
InsertFailed(t) ==
  /\ IsOp(t, {"insert"}) \/ At(t, "insert")
  /\ tree[Op(t).key] # 0
  /\ Becomes(t, [tx[t] EXCEPT !.pc = "find"])
  /\ UNCHANGED dbVars

-----------------------------------------------------------------------------
(* commit().                                                               *)

WriteTuples(t) == {tx[t].wset[i].tup : i \in DOMAIN tx[t].wset}
Inserted(t) == {tx[t].wset[i].tup : i \in {j \in DOMAIN tx[t].wset : tx[t].wset[j].ins}}

\* Sort the write set by tuple: lockq holds the tuples still to lock, and the
\* least is next.
CommitBegin(t) ==
  /\ At(t, "op")
  /\ ~ HasOp(t)
  /\ Becomes(t,
       IF tx[t].wset = << >> THEN [tx[t] EXCEPT !.pc = "validate"]
       ELSE [tx[t] EXCEPT !.pc = "lock", !.lockq = WriteTuples(t)])
  /\ UNCHANGED dbVars

\* Mutant: wait for somebody else's insert instead of aborting.
LockTupleWaits(t) ==
  LET u == Min(tx[t].lockq) IN
  /\ At(t, "lock")
  /\ tx[t].lockq # {}
  /\ u \in Inserted(t) \/ tup[u].owner = 0
  /\ tup' = [tup EXCEPT ![u].owner = t]
  /\ Becomes(t, [tx[t] EXCEPT !.lockq = @ \ {u}, !.locked = @ \union {u},
                              !.pc = IF tup[u].latest THEN "lock" ELSE "abort"])
  /\ UNCHANGED <<tick, tree, leaf, ntup, gcq>>

\* handle_last_tuple_in_group(): own inserts are locked already, somebody
\* else's insert aborts, and so does a tuple that is no longer the latest.
LockTuple(t) ==
  LET u == Min(tx[t].lockq)
      next == [tx[t] EXCEPT !.lockq = @ \ {u}]
  IN
  /\ At(t, "lock")
  /\ tx[t].lockq # {}
  /\ \/ /\ u \in Inserted(t)
        /\ Becomes(t, next)
        /\ UNCHANGED tup
     \/ /\ u \notin Inserted(t)
        /\ tup[u].version = MAX_TID
        /\ Becomes(t, [tx[t] EXCEPT !.pc = "abort"])
        /\ UNCHANGED tup
     \/ /\ u \notin Inserted(t)
        /\ tup[u].version # MAX_TID
        /\ tup[u].owner = 0
        /\ tup' = [tup EXCEPT ![u].owner = t]
        /\ Becomes(t, [next EXCEPT !.locked = @ \union {u},
                                   !.pc = IF tup[u].latest THEN "lock" ELSE "abort"])
  /\ UNCHANGED <<tick, tree, leaf, ntup, gcq>>

\* Mutant: the versions about to be overwritten are left out.
SeenTidsOfReads(t) == {tx[t].rset[i].tid : i \in DOMAIN tx[t].rset}

\* The TIDs gen_commit_tid() must exceed: those read, and those overwritten.
SeenTids(t) ==
  {tx[t].rset[i].tid : i \in DOMAIN tx[t].rset}
    \union {tup[u].version : u \in WriteTuples(t) \ Inserted(t)}

\* Every write tuple is locked: read the epoch and generate the TID.  The
\* transaction is the first of its core, so last_commit_tid_ is MIN_TID.
gen_commit_tid(t) ==
  LET base == Max(SeenTids(t) \union {MakeTid(0, 0, tick)}) IN
  /\ At(t, "lock")
  /\ tx[t].lockq = {}
  /\ Becomes(t, [tx[t] EXCEPT !.pc = "validate", !.tid = MakeTid(t, NumId(base) + 1, tick)])
  /\ UNCHANGED dbVars

is_latest_version(u, t) == tup[u].latest /\ tup[u].version <= t

\* Mutant: a tuple that another transaction has locked for writing passes.
ValidateReadIgnoresLocks(t) ==
  LET r == tx[t].rset[tx[t].i]
      ok == is_latest_version(r.tup, r.tid)
  IN
  /\ At(t, "validate")
  /\ tx[t].i <= Len(tx[t].rset)
  /\ Becomes(t, IF ok THEN [tx[t] EXCEPT !.i = @ + 1] ELSE [tx[t] EXCEPT !.pc = "abort"])
  /\ UNCHANGED dbVars

\* Validate one read: a tuple of the write set is compared as it is, any other
\* must be free of writers.  Waiting for a writer gives up after some spins.
ValidateRead(t) ==
  LET r == tx[t].rset[tx[t].i]
      mine == r.tup \in WriteTuples(t)
      ok == is_latest_version(r.tup, r.tid) /\ (mine \/ tup[r.tup].owner = 0)
      giveup == ~ is_latest_version(r.tup, r.tid) \/ (~ mine /\ tup[r.tup].owner # 0)
  IN
  /\ At(t, "validate")
  /\ tx[t].i <= Len(tx[t].rset)
  /\ \/ ok /\ Becomes(t, [tx[t] EXCEPT !.i = @ + 1])
     \/ giveup /\ Becomes(t, [tx[t] EXCEPT !.pc = "abort"])
  /\ UNCHANGED dbVars

\* The node versions last; then nothing can stop the commit.
ValidateNodes(t) ==
  /\ At(t, "validate")
  /\ tx[t].i > Len(tx[t].rset)
  /\ Becomes(t, [tx[t] EXCEPT !.i = 1,
       !.pc = IF SameNode(t, full_version_value(leaf)) THEN "write" ELSE "abort"])
  /\ UNCHANGED dbVars

\* The entry that is written of those for the same tuple: an insert, and the
\* last one.
do_write(t, i) ==
  LET e == tx[t].wset[i] IN
  e.ins \/ \A j \in DOMAIN tx[t].wset : j > i => tx[t].wset[j].tup # e.tup

\* The insert becomes visible with its TID.
WriteInsert(t) ==
  LET e == tx[t].wset[tx[t].i] IN
  /\ e.ins
  /\ tup' = [tup EXCEPT ![e.tup].version = tx[t].tid]
  /\ UNCHANGED <<tree, ntup, gcq>>

\* write_record_at() in place.
WriteInPlace(t) ==
  LET e == tx[t].wset[tx[t].i] IN
  /\ ~ e.ins
  /\ tup[e.tup].val # Empty
  /\ tup' = [tup EXCEPT ![e.tup].version = tx[t].tid, ![e.tup].val = e.val]
  /\ gcq' = IF e.val = Empty THEN gcq \union {e.tup} ELSE gcq
  /\ UNCHANGED <<tree, ntup>>

\* write_record_at() into a new tuple, because the record does not fit or the
\* old one was deleted.  The new tuple takes the place of the old one in the
\* index, and is unlocked before the rest of the write set.
WriteReplace(t) ==
  LET e == tx[t].wset[tx[t].i]
      h == ntup + 1
  IN
  /\ ~ e.ins
  /\ tup[e.tup].val = Empty \/ e.val # Empty
  /\ ntup < MaxTuples
  /\ ntup' = h
  /\ tup' = [tup EXCEPT ![h] = NewTuple(e.key, tx[t].tid, e.val, 0),
                        ![e.tup].latest = FALSE]
  /\ tree' = [tree EXCEPT ![e.key] = h]
  /\ gcq' = IF e.val = Empty THEN gcq \union {h} ELSE gcq

Write(t) ==
  /\ At(t, "write")
  /\ tx[t].i <= Len(tx[t].wset)
  /\ \/ do_write(t, tx[t].i) /\ (WriteInsert(t) \/ WriteInPlace(t) \/ WriteReplace(t))
     \/ ~ do_write(t, tx[t].i) /\ UNCHANGED <<tup, tree, ntup, gcq>>
  /\ Becomes(t, [tx[t] EXCEPT !.i = @ + 1])
  /\ UNCHANGED <<tick, leaf>>

Unlock(us) == [u \in Tuples |-> IF u \in us THEN [tup[u] EXCEPT !.owner = 0] ELSE tup[u]]

\* The locks are dropped one after the other, but a transaction past its
\* validation has nothing left that could fail: one step.
CommitEnd(t) ==
  /\ At(t, "write")
  /\ tx[t].i > Len(tx[t].wset)
  /\ tup' = Unlock(tx[t].locked)
  /\ Becomes(t, [tx[t] EXCEPT !.pc = "committed", !.locked = {}])
  /\ UNCHANGED <<tick, tree, leaf, ntup, gcq>>

\* abort_impl() and do_abort: one locked tuple, in the order of the write set.
\* A tentative insert is taken out of the index
\* (cleanup_inserted_tuple_marker()).
AbortTuple(t) ==
  LET u == Min(tx[t].locked) IN
  /\ At(t, "abort")
  /\ tx[t].locked # {}
  /\ Becomes(t, [tx[t] EXCEPT !.locked = @ \ {u}])
  /\ IF u \in Inserted(t)
     THEN /\ tree' = [tree EXCEPT ![tup[u].key] = 0]
          /\ leaf' = finish_remove(leaf)
          /\ tup' = [Unlock({u}) EXCEPT ![u].latest = FALSE]
     ELSE /\ tup' = Unlock({u})
          /\ UNCHANGED <<tree, leaf>>
  /\ UNCHANGED <<tick, ntup, gcq>>

AbortEnd(t) ==
  /\ At(t, "abort")
  /\ tx[t].locked = {}
  /\ Becomes(t, [tx[t] EXCEPT !.pc = "aborted"])
  /\ UNCHANGED dbVars

-----------------------------------------------------------------------------
\* ticker::tickerloop().
Tick == tick < MaxTick /\ tick' = tick + 1 /\ UNCHANGED <<tree, leaf, tup, ntup, gcq, tx>>

\* Mutant: the collector does not look whether the tuple was replaced.
GcDeleteBlind(u) ==
  /\ u \in gcq
  /\ tup[u].owner = 0
  /\ EpochId(tup[u].version) < tick
  /\ gcq' = gcq \ {u}
  /\ tree' = [tree EXCEPT ![tup[u].key] = 0]
  /\ leaf' = finish_remove(leaf)
  /\ tup' = [tup EXCEPT ![u].latest = FALSE]
  /\ UNCHANGED <<tick, ntup, tx>>

\* clean_up_to_including() for a logical delete: once its epoch is over, the
\* tuple leaves the index if it is still the latest.  The tuple lock is held
\* without write intent, so readers do not notice it.
GcDelete(u) ==
  /\ u \in gcq
  /\ tup[u].owner = 0
  /\ EpochId(tup[u].version) < tick
  /\ gcq' = gcq \ {u}
  /\ IF tup[u].latest
     THEN /\ tree' = [tree EXCEPT ![tup[u].key] = 0]
          /\ leaf' = finish_remove(leaf)
          /\ tup' = [tup EXCEPT ![u].latest = FALSE]
     ELSE UNCHANGED <<tree, leaf, tup>>
  /\ UNCHANGED <<tick, ntup, tx>>

Step(t) ==
  \/ do_search(t) \/ do_search_range(t) \/ do_tuple_read(t) \/ ReadDone(t)
  \/ PutSearch(t) \/ try_insert_new_tuple(t) \/ InsertFailed(t)
  \/ CommitBegin(t) \/ LockTuple(t) \/ gen_commit_tid(t)
  \/ ValidateRead(t) \/ ValidateNodes(t) \/ Write(t) \/ CommitEnd(t)
  \/ AbortTuple(t) \/ AbortEnd(t)

\* The transaction has ended.
Ended(t) == tx[t].pc \in {"committed", "aborted"}

Next == (\E t \in Txns : Step(t)) \/ Tick \/ (\E u \in Tuples : GcDelete(u))

Fairness == \A t \in Txns : WF_vars(Step(t))

Spec == Init /\ [][Next]_vars /\ Fairness

-----------------------------------------------------------------------------
\* Transactions past their validation.
Committed == {t \in Txns : tx[t].pc \in {"write", "committed"}}

Reads(t) ==
  {[key |-> tx[t].rset[i].key, val |-> tx[t].rset[i].val] : i \in DOMAIN tx[t].rset}
    \union {[key |-> k, val |-> Empty] : k \in tx[t].absent}

Writes(t) == {tx[t].wset[i].key : i \in DOMAIN tx[t].wset}
LastWrite(t, k) ==
  tx[t].wset[Max({i \in DOMAIN tx[t].wset : tx[t].wset[i].key = k})].val

\* The value of key k before the i-th transaction of the serial order s.
ValBefore(s, i, k) ==
  LET W == {j \in 1..(i - 1) : k \in Writes(s[j])}
  IN IF W # {} THEN LastWrite(s[Max(W)], k)
     ELSE IF k \in InitKeys THEN 0 ELSE Empty

\* The serial order s explains every read, and the epochs of its writers do
\* not decrease.
Explains(s) ==
  /\ \A i \in DOMAIN s : \A r \in Reads(s[i]) : r.val = ValBefore(s, i, r.key)
  /\ \A i, j \in DOMAIN s :
       i < j /\ tx[s[i]].wset # << >> /\ tx[s[j]].wset # << >>
         => EpochId(tx[s[i]].tid) <= EpochId(tx[s[j]].tid)

\* The value a transaction that starts now would read.
Current(k) == IF tree[k] = 0 THEN Empty ELSE tup[tree[k]].val

\* The committed transactions, phantoms and deletions included, are explained
\* by one serial order, and that order follows the epochs: a prefix of the
\* epochs is a consistent database, which snapshots, the log and recovery rely
\* on.  When nobody is in between, the database holds what that order leaves.
EpochSerializable ==
  \E s \in SetToSeqs(Committed) :
    /\ Explains(s)
    /\ (\A t \in Txns : Ended(t)) => \A k \in Keys : Current(k) = ValBefore(s, Len(s) + 1, k)

\* What cleanup_inserted_tuple_marker(), commit() and the collector assert when
\* they take a tuple out of the index or replace it: the latest tuple of a key
\* is the one the index has, and the index has no other.
LatestIsLinked ==
  /\ \A u \in 1..ntup : tup[u].latest <=> tree[tup[u].key] = u
  /\ leaf.size = Cardinality({k \in Keys : tree[k] # 0})

\* A version of a tuple only grows, and a value others can have read never
\* changes under the same version, so `version <= tid' in the validation means
\* that nobody has written since.  A transaction that inserts a record and
\* overwrites it writes twice under its own lock and TID.
VersionsGrow ==
  [][\A u \in 1..ntup :
       /\ tup[u].version # MAX_TID => tup'[u].version >= tup[u].version
       /\ tup'[u].val # tup[u].val =>
            \/ tup'[u].version > tup[u].version
            \/ tup[u].owner # 0 /\ tup[u].version = tx[tup[u].owner].tid]_vars

\* Nobody waits for ever: every transaction commits or aborts.
EveryTransactionEnds == \A t \in Txns : <>Ended(t)

\* "if we read a key which we previous put(), are we guaranteed to read our
\* latest (uncommited) values?" (txn.h, read_own_writes): an own read returns
\* the last value the transaction wrote to the key.
ReadsLatestOwnWrite ==
  \A t \in Txns : \A i \in DOMAIN tx[t].own :
    LET o == tx[t].own[i]
        before == {j \in 1..(o.ip - 1) : tx[t].prog[j].key = o.key
                                         /\ tx[t].prog[j].op \in {"put", "insert", "remove"}}
        j == Max(before)
    IN o.val = IF tx[t].prog[j].op = "remove" THEN Empty ELSE ValueOf(t, j)
=============================================================================
