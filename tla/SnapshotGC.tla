----------------------------- MODULE SnapshotGC -----------------------------
(***************************************************************************)
(* Version chains, read-only snapshots and the collection of old versions  *)
(* (tuple.h, txn_proto2_impl.h, txn_proto2_impl.cc) on the epoch clock of  *)
(* module EpochClock.                                                      *)
(*                                                                         *)
(* The versions of one key hang off the dbtuple the index points to.  A    *)
(* committing writer overwrites the head in place, spills a copy behind    *)
(* it, or puts a new head in front of it, and queues the superseded        *)
(* version under the read-only tick of its commit epoch.  When a region of *)
(* its own ends, a core collects what no snapshot can reach any more, most *)
(* of it without RCU.  Snapshot readers walk the chain without locks.      *)
(*                                                                         *)
(* The readers that matter to the writers are those of module SiloCommit;  *)
(* here a read-write transaction keeps what it found until it ends.        *)
(*                                                                         *)
(* A tuple's seqlock makes one visit of a reader and one write one step;   *)
(* the lock of the key's latest tuple is lockr.  RCU is what module Rcu    *)
(* promises: a retired tuple is freed when every region that was open has  *)
(* ended.  Tuples are not reused, so that a late access can be seen.       *)
(***************************************************************************)
EXTENDS EpochClock, Sequences, FiniteSets

CONSTANTS
  ReadOnlyEpochMultiplier,
  MaxTuples,    \* bound: tuples ever allocated
  MaxWrites     \* bound: writes of the key

ASSUME GCAssumption ==
  /\ ReadOnlyEpochMultiplier \in Nat \ {0}
  /\ MaxTuples \in Nat \ {0}
  /\ MaxWrites \in Nat \ {0}

Tuples == 1..MaxTuples
null == 0
MAX_EPOCH == MaxTick + 1     \* EpochId(MAX_TID): a tentative insert

VARIABLES
  root,      \* the tuple the index holds for the key, or null
  tup,       \* dbtuples: [ep, w, del, next, st]
  writes,    \* every write of the key in commit order: [ep, del]
  lockr,     \* the core that holds the lock of the latest tuple, or 0
  tx,        \* per core: the transaction, or the collection after it
  queue_,    \* per core: threadctx::queue_, a sequence of [tup, key, tick]
  scratch_,  \* per core: threadctx::scratch_
  last_reaped_epoch_,
  waits      \* per retired tuple: the regions that must end before it is freed

gcVars == <<queue_, scratch_, last_reaped_epoch_>>
dataVars == <<root, tup, writes, lockr, waits>>
vars == <<clockVars, dataVars, gcVars, tx>>

\* ep is EpochId(version), w the write whose value the tuple holds.
Unallocated == [ep |-> 0, w |-> 0, del |-> FALSE, next |-> null, st |-> "none"]

NoTxn == [pc |-> "none", b |-> 0, cur |-> null, held |-> {}, ce |-> 0, got |-> -1]

\* The key was inserted in epoch 1.
Init ==
  /\ ClockInit
  /\ root = 1
  /\ tup = [n \in Tuples |-> IF n = 1 THEN [Unallocated EXCEPT !.ep = 1, !.w = 1, !.st = "used"]
                                      ELSE Unallocated]
  /\ writes = <<[ep |-> 1, del |-> FALSE]>>
  /\ lockr = 0
  /\ tx = [c \in Cores |-> NoTxn]
  /\ queue_ = [c \in Cores |-> << >>]
  /\ scratch_ = [c \in Cores |-> << >>]
  /\ last_reaped_epoch_ = [c \in Cores |-> 0]
  /\ waits = [n \in Tuples |-> {}]

to_read_only_tick(e) == e \div ReadOnlyEpochMultiplier

\* Mutant: the bound is not rounded down to a read-only tick.
ComputeReadOnlyTidUnaligned(global_tick_ex) == global_tick_ex

\* The first epoch a snapshot does not see.
ComputeReadOnlyTid(global_tick_ex) ==
  to_read_only_tick(global_tick_ex) * ReadOnlyEpochMultiplier

can_overwrite_record_tid(prev, cur) == to_read_only_tick(prev) = to_read_only_tick(cur)

At(c, pc) == tx[c].pc = pc

-----------------------------------------------------------------------------
(* Regions: a transaction, read-write or a snapshot, and its end.          *)

Begin(c) ==
  /\ At(c, "none")
  /\ Enter(c)
  /\ \E pc \in {"rw", "ro_begin"} : tx' = [tx EXCEPT ![c].pc = pc]
  /\ UNCHANGED <<dataVars, gcVars>>

\* The constructor reads the clock after the guard has been entered.
BeginSnapshot(c) ==
  /\ At(c, "ro_begin")
  /\ tx' = [tx EXCEPT ![c].pc = "ro", ![c].b = ComputeReadOnlyTid(global_last_tick_exclusive)]
  /\ UNCHANGED <<clockVars, dataVars, gcVars>>

\* The transaction is over, committed or aborted: the region ends.
End(c) ==
  /\ tx[c].pc \in {"rw", "ro"}
  /\ Leave(c)
  /\ tx' = [tx EXCEPT ![c] = [NoTxn EXCEPT !.pc = "gc"]]
  /\ waits' = [n \in Tuples |-> waits[n] \ {c}]
  /\ UNCHANGED <<root, tup, writes, lockr, gcVars>>

-----------------------------------------------------------------------------
(* Snapshot readers: record_at() and record_at_chain().                    *)

SnapshotSearch(c) ==
  /\ At(c, "ro")
  /\ IF root = null THEN tx' = [tx EXCEPT ![c].got = 0]
                    ELSE tx' = [tx EXCEPT ![c].pc = "walk", ![c].cur = root]
  /\ UNCHANGED <<clockVars, dataVars, gcVars>>

Found(c, w) == [tx[c] EXCEPT !.pc = "ro", !.cur = null, !.got = w]

\* One tuple of the chain: old enough, or go on behind it; the end of the chain
\* is an absent record, and so is a tentative insert.
SnapshotVisit(c) ==
  LET t == tup[tx[c].cur] IN
  /\ At(c, "walk")
  /\ tx' = [tx EXCEPT ![c] =
       IF t.ep # MAX_EPOCH /\ t.ep < tx[c].b THEN Found(c, IF t.del THEN 0 ELSE t.w)
       ELSE IF t.ep = MAX_EPOCH \/ t.next = null THEN Found(c, 0)
       ELSE [@ EXCEPT !.cur = t.next]]
  /\ UNCHANGED <<clockVars, dataVars, gcVars>>

-----------------------------------------------------------------------------
(* Writers: search, lock, gen_commit_tid(), write_record_at().             *)

\* A read-write transaction keeps the tuple it found until it ends.
Search(c) ==
  /\ At(c, "rw")
  /\ root # null
  /\ tx' = [tx EXCEPT ![c].held = @ \union {root}]
  /\ UNCHANGED <<clockVars, dataVars, gcVars>>

\* Commit locks the tuple if it is still the latest and takes the epoch.
Lock(c) ==
  /\ At(c, "rw")
  /\ root \in tx[c].held
  /\ lockr = 0
  /\ lockr' = c
  /\ tx' = [tx EXCEPT ![c].pc = "write", ![c].ce = current_tick_]
  /\ UNCHANGED <<clockVars, root, tup, writes, waits, gcVars>>

\* The allocator hands out the tuples in order.
Fresh(n) == tup[n].st = "none" /\ \A m \in 1..n - 1 : tup[m].st # "none"

\* try_insert_new_tuple(): a locked, tentative tuple goes into the index.
Insert(c) ==
  /\ At(c, "rw")
  /\ root = null
  /\ \E n \in Tuples :
       /\ Fresh(n)
       /\ root' = n
       /\ tup' = [tup EXCEPT ![n] = [Unallocated EXCEPT !.ep = MAX_EPOCH, !.st = "used"]]
       /\ tx' = [tx EXCEPT ![c].pc = "inserted", ![c].held = @ \union {n}]
  /\ lockr' = c
  /\ UNCHANGED <<clockVars, writes, waits, gcVars>>

\* The tuple leaves the index and is handed to RCU.
Retire(n, regions) ==
  /\ root' = null
  /\ tup' = [tup EXCEPT ![n].st = "retired"]
  /\ waits' = [waits EXCEPT ![n] = regions]

\* gen_commit_tid() of a transaction that has inserted.
InsertTid(c) ==
  /\ At(c, "inserted")
  /\ tx' = [tx EXCEPT ![c].pc = "publish", ![c].ce = current_tick_]
  /\ UNCHANGED <<clockVars, dataVars, gcVars>>

\* cleanup_inserted_tuple_marker()
AbortInsert(c) ==
  /\ tx[c].pc \in {"inserted", "publish"}
  /\ Retire(root, {d \in Cores : inside[d] # 0})
  /\ lockr' = 0
  /\ tx' = [tx EXCEPT ![c].pc = "rw", ![c].ce = 0]
  /\ UNCHANGED <<clockVars, writes, gcVars>>

\* The write is installed: unlock.
Wrote(c, del) ==
  /\ writes' = Append(writes, [ep |-> tx[c].ce, del |-> del])
  /\ lockr' = 0
  /\ tx' = [tx EXCEPT ![c].pc = "rw", ![c].ce = 0]

CommitInsert(c) ==
  /\ At(c, "publish")
  /\ Len(writes) < MaxWrites
  /\ tup' = [tup EXCEPT ![root].ep = tx[c].ce, ![root].w = Len(writes) + 1]
  /\ Wrote(c, FALSE)
  /\ UNCHANGED <<clockVars, root, waits, gcVars>>

\* What the collector has to free, under the read-only tick of the commit: the
\* superseded tuple n, unless it is queued as a deleted one already, and the
\* head itself after a logical delete.
on_dbtuple_spill(n, ce) ==
  IF tup[n].del THEN << >> ELSE <<[tup |-> n, key |-> FALSE, tick |-> to_read_only_tick(ce)]>>
on_logical_delete(n, del, ce) ==
  IF del THEN <<[tup |-> n, key |-> TRUE, tick |-> to_read_only_tick(ce)]>> ELSE << >>

Enqueue(c, entries) == queue_' = [queue_ EXCEPT ![c] = @ \o entries]

\* The value of the write in progress, in a tuple in front of `next`.
NewVersion(c, del, next) ==
  [ep |-> tx[c].ce, w |-> Len(writes) + 1, del |-> del, next |-> next, st |-> "used"]

\* The tuple can be written in place: nobody needs its old value.
Overwritable(c) == can_overwrite_record_tid(tup[root].ep, tx[c].ce) /\ ~tup[root].del

WriteInPlace(c, del) ==
  /\ At(c, "write") /\ Len(writes) < MaxWrites
  /\ Overwritable(c)
  /\ tup' = [tup EXCEPT ![root] = NewVersion(c, del, @.next)]
  /\ Enqueue(c, on_logical_delete(root, del, tx[c].ce))
  /\ Wrote(c, del)
  /\ UNCHANGED <<clockVars, root, waits, scratch_, last_reaped_epoch_>>

\* The old value moves to a spill behind the head.
WriteSpill(c, del) ==
  /\ At(c, "write") /\ Len(writes) < MaxWrites
  /\ ~Overwritable(c) /\ ~tup[root].del
  /\ \E s \in Tuples :
       /\ Fresh(s)
       /\ tup' = [tup EXCEPT ![s] = tup[root], ![root] = NewVersion(c, del, s)]
       /\ Enqueue(c, <<[tup |-> s, key |-> FALSE, tick |-> to_read_only_tick(tx[c].ce)]>>
                       \o on_logical_delete(root, del, tx[c].ce))
  /\ Wrote(c, del)
  /\ UNCHANGED <<clockVars, root, waits, scratch_, last_reaped_epoch_>>

\* The new value does not fit, or the head is a deleted record: a new head.
WriteReplace(c, del) ==
  /\ At(c, "write") /\ Len(writes) < MaxWrites
  /\ del => tup[root].del
  /\ \E rep \in Tuples :
       /\ Fresh(rep)
       /\ root' = rep
       /\ tup' = [tup EXCEPT ![rep] = NewVersion(c, del, root)]
       /\ Enqueue(c, on_dbtuple_spill(root, tx[c].ce) \o on_logical_delete(rep, del, tx[c].ce))
  /\ Wrote(c, del)
  /\ UNCHANGED <<clockVars, waits, scratch_, last_reaped_epoch_>>

\* Validation failed: unlock.
AbortLocked(c) ==
  /\ At(c, "write")
  /\ lockr' = 0
  /\ tx' = [tx EXCEPT ![c].pc = "rw", ![c].ce = 0]
  /\ UNCHANGED <<clockVars, root, tup, writes, waits, gcVars>>

-----------------------------------------------------------------------------
(* on_post_rcu_region_completion() and clean_up_to_including().            *)

\* Mutant: the tick a snapshot may have missed is not subtracted.
ro_tick_exNoSlack == to_read_only_tick(global_last_tick_exclusive)

\* One less than the clock allows: a snapshot may have read it a tick earlier.
ro_tick_ex == to_read_only_tick(global_last_tick_exclusive - 1)

\* empty_accept_from(): the longest prefix of q whose entries are <= tick has n.
Accepted(q, tick, n) ==
  /\ \A i \in 1..n : q[i].tick <= tick
  /\ n < Len(q) => q[n + 1].tick > tick

GcSkip(c) ==
  /\ At(c, "gc")
  /\ ro_tick_ex = 0 \/ last_reaped_epoch_[c] = ro_tick_ex - 1
  /\ tx' = [tx EXCEPT ![c] = NoTxn]
  /\ UNCHANGED <<clockVars, dataVars, gcVars>>

GcStart(c) ==
  /\ At(c, "gc")
  /\ ro_tick_ex # 0 /\ last_reaped_epoch_[c] # ro_tick_ex - 1
  /\ last_reaped_epoch_' = [last_reaped_epoch_ EXCEPT ![c] = ro_tick_ex - 1]
  /\ \E n \in 0..Len(queue_[c]) :
       /\ Accepted(queue_[c], ro_tick_ex - 1, n)
       /\ scratch_' = [scratch_ EXCEPT ![c] = SubSeq(queue_[c], 1, n)]
       /\ queue_' = [queue_ EXCEPT ![c] = SubSeq(queue_[c], n + 1, Len(queue_[c]))]
  /\ tx' = [tx EXCEPT ![c].pc = "reap"]
  /\ UNCHANGED <<clockVars, dataVars>>

Reaping(c) == At(c, "reap") /\ scratch_[c] # << >>
Entry(c) == Head(scratch_[c])
DropEntry(c) == scratch_' = [scratch_ EXCEPT ![c] = Tail(@)]

\* release_no_rcu(): "guaranteed to be gc-able now (even w/o RCU)".
GcFree(c) ==
  /\ Reaping(c)
  /\ ~Entry(c).key
  /\ tup' = [tup EXCEPT ![Entry(c).tup].st = "freed"]
  /\ DropEntry(c)
  /\ UNCHANGED <<clockVars, root, writes, lockr, waits, queue_, last_reaped_epoch_, tx>>

\* Mutant: a deleted tuple that was superseded is dropped from the queue.
GcRequeueDrops(c) ==
  /\ Reaping(c)
  /\ Entry(c).key /\ root # Entry(c).tup
  /\ DropEntry(c)
  /\ UNCHANGED <<clockVars, dataVars, queue_, last_reaped_epoch_, tx>>

\* The deleted tuple is not the latest any more: a regular delete, later.
GcRequeue(c) ==
  /\ Reaping(c)
  /\ Entry(c).key /\ root # Entry(c).tup
  /\ Enqueue(c, <<[tup |-> Entry(c).tup, key |-> FALSE,
                   tick |-> to_read_only_tick(current_tick_)]>>)
  /\ DropEntry(c)
  /\ UNCHANGED <<clockVars, dataVars, last_reaped_epoch_, tx>>

\* Under the tuple's lock and inside a region, the key leaves the index.
GcRemove(c) ==
  /\ Reaping(c)
  /\ Entry(c).key /\ root = Entry(c).tup
  /\ lockr = 0
  /\ inside' = [inside EXCEPT ![c] = IF @ = 0 THEN current_tick_ ELSE @]
  /\ Retire(root, {d \in Cores : inside'[d] # 0})
  /\ DropEntry(c)
  /\ UNCHANGED <<current_tick_, last_tick_inclusive_, writes, lockr, queue_,
                 last_reaped_epoch_, tx>>

GcEnd(c) ==
  /\ At(c, "reap") /\ scratch_[c] = << >>
  /\ inside' = [inside EXCEPT ![c] = 0]
  /\ waits' = [n \in Tuples |-> waits[n] \ {c}]
  /\ tx' = [tx EXCEPT ![c] = NoTxn]
  /\ UNCHANGED <<current_tick_, last_tick_inclusive_, root, tup, writes, lockr, gcVars>>

\* RCU frees a retired tuple.
RcuFree(n) ==
  /\ tup[n].st = "retired"
  /\ waits[n] = {}
  /\ tup' = [tup EXCEPT ![n].st = "freed"]
  /\ UNCHANGED <<clockVars, root, writes, lockr, waits, gcVars, tx>>

-----------------------------------------------------------------------------
Ticking == Clock /\ UNCHANGED <<dataVars, gcVars, tx>>

Next ==
  \/ Ticking
  \/ \E c \in Cores :
       \/ Begin(c) \/ BeginSnapshot(c) \/ End(c)
       \/ SnapshotSearch(c) \/ SnapshotVisit(c)
       \/ Search(c) \/ Lock(c) \/ Insert(c) \/ InsertTid(c) \/ AbortInsert(c) \/ CommitInsert(c)
       \/ \E del \in BOOLEAN : WriteInPlace(c, del) \/ WriteSpill(c, del) \/ WriteReplace(c, del)
       \/ AbortLocked(c)
       \/ GcSkip(c) \/ GcStart(c) \/ GcFree(c) \/ GcRequeue(c) \/ GcRemove(c) \/ GcEnd(c)
  \/ \E n \in Tuples : RcuFree(n)

Spec == Init /\ [][Next]_vars

-----------------------------------------------------------------------------
\* No pointer that a transaction can still follow leads to freed memory,
\* although superseded versions are freed without RCU.
NoUseAfterFree ==
  \A c \in Cores : \A n \in tx[c].held \union {tx[c].cur} :
    n # null => tup[n].st # "freed"

\* Write n is the last one of an epoch before b; 0 when there is none.
LastBefore(b, n) ==
  /\ n # 0 => writes[n].ep < b
  /\ \A i \in n + 1..Len(writes) : writes[i].ep >= b

\* What a snapshot must read: that write, or nothing if it was a delete.
Visible(b, w) ==
  \E n \in 0..Len(writes) :
    LastBefore(b, n) /\ w = IF n = 0 \/ writes[n].del THEN 0 ELSE n

\* A snapshot reads the last write before its bound, whatever was overwritten,
\* spilled, deleted or collected since, and keeps reading it.
SnapshotConsistent == \A c \in Cores : tx[c].got # -1 => Visible(tx[c].b, tx[c].got)

\* Where tuple n waits: an index of core c's queue_ or scratch_.
QueuePlaces(n) ==
  {p \in Cores \X BOOLEAN \X (1..2 * MaxWrites) :
     LET s == IF p[2] THEN queue_[p[1]] ELSE scratch_[p[1]]
     IN  p[3] \in DOMAIN s /\ s[p[3]].tup = n}

\* The `opaque` assertions, and no garbage is forgotten: a version that is not
\* the latest waits in exactly one queue, and nothing waits there after it was
\* freed or handed to RCU.
GarbageQueuedOnce ==
  \A n \in Tuples :
    /\ Cardinality(QueuePlaces(n)) <= 1
    /\ QueuePlaces(n) # {} => tup[n].st = "used"
    /\ tup[n].st = "used" /\ n # root => QueuePlaces(n) # {}
=============================================================================
