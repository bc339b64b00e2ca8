----------------------------- MODULE SiloLogger -----------------------------
(***************************************************************************)
(* The storage engine's redo log: txn_logger, on_tid_finish() and          *)
(* txn_epoch_sync (txn_proto2_impl.h, txn_proto2_impl.cc, circbuf.h) on    *)
(* the epoch clock of module EpochClock.                                   *)
(*                                                                         *)
(* A worker appends each committed transaction, still inside its region,   *)
(* to the buffer at the head of all_buffers_, and moves the buffer to      *)
(* persist_buffers_ when it is full or of another epoch.  A writer thread  *)
(* per log file writes the queued buffers of its cores, records per core   *)
(* the epoch before the last one it wrote, and gives the buffers back.     *)
(* The persister thread takes the minimum over the cores as                *)
(* system_sync_epoch_, and lifts cores that look idle; the caller of       *)
(* wait_until_current_point_persisted() spins until it is high enough.     *)
(*                                                                         *)
(* A transaction is its place in its core's commit order and its epoch; a  *)
(* buffer is the transactions in it, and space is counted in transactions. *)
(* The two rings hold the same buffers and have their size, so enq() never *)
(* waits; moving a buffer from one to the other is one step, since the     *)
(* ring it leaves has a single reader.  peek() loads tail_ and then the    *)
(* slot, and the persister's two loads are two steps.                      *)
(***************************************************************************)
EXTENDS EpochClock, Sequences

CONSTANTS
  Loggers,            \* writer threads
  Assignment,         \* the cores each of them writes for
  g_perthread_buffers,
  BufferTxns,         \* transactions a buffer holds
  HorizonTxns,        \* transactions horizon_ holds
  IovMax,             \* buffers one writev() takes
  g_max_lag_epochs,
  MaxTxns             \* bound: transactions of each core

ASSUME LoggerAssumption ==
  /\ Assignment \in [Loggers -> (SUBSET Cores) \ {{}}]   \* a thread without cores writes nothing
  /\ \A c \in Cores : \E l \in Loggers : c \in Assignment[l]
  /\ \A l, m \in Loggers : l # m => Assignment[l] \intersect Assignment[m] = {}
  /\ g_perthread_buffers \in Nat \ {0, 1}
  /\ HorizonTxns \in Nat \ {0}
  /\ BufferTxns \in Nat \ {0} /\ HorizonTxns <= BufferTxns
  /\ IovMax \in Nat \ {0}
  /\ g_max_lag_epochs \in Nat \ {0}
  /\ MaxTxns \in [Cores -> Nat]

VARIABLES
  g_use_compression,   \* an option of Init()
  all_buffers_,        \* per core: empty buffers, the head may be in use
  persist_buffers_,    \* per core: buffers pushed to the logger
  tail_,               \* per core: tail_ of the ring persist_buffers_
  horizon_,            \* per core: transactions not yet compressed
  logging,             \* per core: where on_tid_finish() or thread_end() is
  npushed,             \* per core: pushed by push_horizon_to_buffer(), not counted
  committed,           \* per core: every transaction, in commit order
  disk,                \* per core: what its log file holds durably, buffer by buffer
  ntxns_pushed_, ntxns_persisted_,
  d_,                  \* per core and epoch slot: transactions not yet aggregated
  epochs_,             \* per core: per_thread_sync_epochs_ of its logger
  epoch_prefixes,      \* per sense and core
  system_sync_epoch_,
  writer,              \* per logger: the locals of writer()
  locked,              \* the core whose slot the persister has locked, or 0
  persister            \* the locals of advance_system_sync_epoch()

workerVars == <<g_use_compression, horizon_, logging, npushed, committed>>
syncVars == <<epochs_, epoch_prefixes, system_sync_epoch_>>
statVars == <<ntxns_pushed_, ntxns_persisted_, d_>>
loggerVars == <<workerVars, syncVars, statVars, all_buffers_, persist_buffers_, tail_,
                disk, writer, locked, persister>>
vars == <<clockVars, loggerVars>>

Txn == [n : Nat, ep : 1..MaxTick]
pbuffer == [txns : Seq(Txn), io_scheduled_ : BOOLEAN]
EmptyBuffer == [txns |-> << >>, io_scheduled_ |-> FALSE]

Init ==
  /\ ClockInit
  /\ g_use_compression \in BOOLEAN
  /\ all_buffers_ = [c \in Cores |-> [i \in 1..g_perthread_buffers |-> EmptyBuffer]]
  /\ persist_buffers_ = [c \in Cores |-> << >>]
  /\ tail_ = [c \in Cores |-> 0]
  /\ horizon_ = [c \in Cores |-> << >>]
  /\ logging = [c \in Cores |-> "idle"]
  /\ npushed = [c \in Cores |-> 0]
  /\ committed = [c \in Cores |-> << >>]
  /\ disk = [c \in Cores |-> << >>]
  /\ ntxns_pushed_ = [c \in Cores |-> 0]
  /\ ntxns_persisted_ = [c \in Cores |-> 0]
  /\ d_ = [c \in Cores |-> [e \in 0..g_max_lag_epochs - 1 |-> 0]]
  /\ epochs_ = [c \in Cores |-> 0]
  /\ epoch_prefixes = [s \in BOOLEAN |-> [c \in Cores |-> 0]]
  /\ system_sync_epoch_ = 0
  /\ writer = [l \in Loggers |->
                [pc |-> "start", todo |-> {}, sync_ex |-> 0, nbufs |-> 0,
                 sense |-> FALSE, x0 |-> 0]]
  /\ locked = 0
  /\ persister = [pc |-> "start", k |-> 1, best |-> 0, min |-> 0, t |-> 0]

\* EpochId(last_tid_) of a buffer that is not empty.
LastEpoch(txns) == txns[Len(txns)].ep

can_hold_tid(txns, t) == txns # << >> => LastEpoch(txns) = t.ep

\* Room and the right epoch for the transactions ts.
Holds(txns, ts, cap) == Len(txns) + Len(ts) <= cap /\ can_hold_tid(txns, ts[Len(ts)])

-----------------------------------------------------------------------------
(* The workers: commit, on_tid_finish() and thread_end().                  *)

Begin(c) ==
  /\ logging[c] = "idle"
  /\ locked # c
  /\ Enter(c)
  /\ UNCHANGED loggerVars

\* gen_commit_tid() reads the current tick; the writes are done.
Commit(c) ==
  /\ inside[c] # 0
  /\ logging[c] = "idle"
  /\ Len(committed[c]) < MaxTxns[c]
  /\ committed' = [committed EXCEPT
       ![c] = Append(@, [n |-> Len(@) + 1, ep |-> current_tick_])]
  /\ logging' = [logging EXCEPT ![c] = "log"]
  /\ UNCHANGED <<clockVars, syncVars, statVars, g_use_compression, horizon_, npushed,
                 all_buffers_, persist_buffers_, tail_, disk, writer, locked, persister>>

RegionEnd(c) ==
  /\ logging[c] = "idle"
  /\ Leave(c)
  /\ UNCHANGED loggerVars

\* The transactions ts go to the buffer at the head of all_buffers_.
WriteToHead(c, ts) ==
  all_buffers_' = [all_buffers_ EXCEPT ![c][1].txns = @ \o ts]

\* deq() the head of all_buffers_ and enq() it for the logger.
PushHead(c) ==
  /\ all_buffers_' = [all_buffers_ EXCEPT ![c] = Tail(@)]
  /\ persist_buffers_' = [persist_buffers_ EXCEPT ![c] = Append(@, Head(all_buffers_[c]))]

CountPushed(c, n) == ntxns_pushed_' = [ntxns_pushed_ EXCEPT ![c] = @ + n]

HeadHolds(c, ts) == Holds(Head(all_buffers_[c]).txns, ts, BufferTxns)

Logged(c) == <<committed[c][Len(committed[c])]>>

\* Without compression: the head of all_buffers_ takes the transaction.
LogWrite(c) ==
  /\ logging[c] = "log" /\ ~g_use_compression
  /\ all_buffers_[c] # << >>
  /\ HeadHolds(c, Logged(c))
  /\ WriteToHead(c, Logged(c))
  /\ logging' = [logging EXCEPT ![c] = "idle"]
  /\ UNCHANGED <<clockVars, syncVars, statVars, g_use_compression, horizon_, npushed,
                 committed, persist_buffers_, tail_, disk, writer, locked, persister>>

\* It is full or of another epoch: push it and retry.
LogPush(c) ==
  /\ logging[c] = "log" /\ ~g_use_compression
  /\ all_buffers_[c] # << >>
  /\ ~HeadHolds(c, Logged(c))
  /\ CountPushed(c, Len(Head(all_buffers_[c]).txns))
  /\ PushHead(c)
  /\ UNCHANGED <<clockVars, syncVars, workerVars, ntxns_persisted_, d_, tail_, disk,
                 writer, locked, persister>>

\* push_horizon_to_buffer() is under way.
Flushing(c) ==
  /\ g_use_compression
  /\ horizon_[c] # << >>
  /\ \/ logging[c] = "log" /\ ~Holds(horizon_[c], Logged(c), HorizonTxns)
     \/ logging[c] = "end"

HorizonPush(c) ==
  /\ Flushing(c)
  /\ all_buffers_[c] # << >>
  /\ ~HeadHolds(c, horizon_[c])
  /\ npushed' = [npushed EXCEPT ![c] = Len(Head(all_buffers_[c]).txns)]
  /\ PushHead(c)
  /\ UNCHANGED <<clockVars, syncVars, statVars, g_use_compression, horizon_, logging,
                 committed, tail_, disk, writer, locked, persister>>

HorizonFlush(c) ==
  /\ Flushing(c)
  /\ all_buffers_[c] # << >>
  /\ HeadHolds(c, horizon_[c])
  /\ WriteToHead(c, horizon_[c])
  /\ horizon_' = [horizon_ EXCEPT ![c] = << >>]
  /\ UNCHANGED <<clockVars, syncVars, statVars, g_use_compression, logging, npushed,
                 committed, persist_buffers_, tail_, disk, writer, locked, persister>>

\* The number push_horizon_to_buffer() returned is counted after it returned.
HorizonCount(c) ==
  /\ ~Flushing(c)
  /\ npushed[c] # 0
  /\ CountPushed(c, npushed[c])
  /\ npushed' = [npushed EXCEPT ![c] = 0]
  /\ UNCHANGED <<clockVars, syncVars, ntxns_persisted_, d_, g_use_compression, horizon_,
                 logging, committed, all_buffers_, persist_buffers_, tail_, disk, writer,
                 locked, persister>>

HorizonWrite(c) ==
  /\ logging[c] = "log" /\ g_use_compression
  /\ ~Flushing(c) /\ npushed[c] = 0
  /\ horizon_' = [horizon_ EXCEPT ![c] = @ \o Logged(c)]
  /\ logging' = [logging EXCEPT ![c] = "idle"]
  /\ UNCHANGED <<clockVars, syncVars, statVars, g_use_compression, npushed, committed,
                 all_buffers_, persist_buffers_, tail_, disk, writer, locked, persister>>

\* thread_end() begins, outside of any region; horizon_ is pushed first.
ThreadEnd(c) ==
  /\ inside[c] = 0
  /\ logging[c] = "idle"
  /\ logging' = [logging EXCEPT ![c] = "end"]
  /\ UNCHANGED <<clockVars, syncVars, statVars, g_use_compression, horizon_, npushed,
                 committed, all_buffers_, persist_buffers_, tail_, disk, writer, locked, persister>>

\* Then the buffer in use, if it holds anything.
EndPush(c) ==
  /\ logging[c] = "end"
  /\ ~Flushing(c) /\ npushed[c] = 0
  /\ logging' = [logging EXCEPT ![c] = "ended"]
  /\ IF all_buffers_[c] # << >> /\ Head(all_buffers_[c]).txns # << >>
       THEN /\ CountPushed(c, Len(Head(all_buffers_[c]).txns))
            /\ PushHead(c)
       ELSE UNCHANGED <<ntxns_pushed_, all_buffers_, persist_buffers_>>
  /\ UNCHANGED <<clockVars, syncVars, ntxns_persisted_, d_, g_use_compression, horizon_,
                 npushed, committed, tail_, disk, writer, locked, persister>>

Worker(c) ==
  \/ Begin(c) \/ Commit(c) \/ RegionEnd(c)
  \/ LogWrite(c) \/ LogPush(c)
  \/ HorizonPush(c) \/ HorizonFlush(c) \/ HorizonCount(c) \/ HorizonWrite(c)
  \/ ThreadEnd(c) \/ EndPush(c)

-----------------------------------------------------------------------------
(* writer(): one thread per log file.                                      *)

Least(S) == CHOOSE c \in S : \A d \in S : c <= d

\* The core whose turn it is in the writer's current loop over its cores.
Turn(l) == Least(writer[l].todo)

WriterStart(l) ==
  /\ writer[l].pc = "start"
  /\ writer' = [writer EXCEPT
       ![l].pc = "scan", ![l].todo = Assignment[l],
       ![l].sync_ex = system_sync_epoch_ + 1, ![l].nbufs = 0]
  /\ UNCHANGED <<clockVars, syncVars, statVars, workerVars, all_buffers_, persist_buffers_,
                 tail_, disk, locked, persister>>

\* How many of the queued buffers q this round takes: a buffer too many epochs
\* ahead of the sync epoch ends the loop, and so does a full iovec array.
NScheduled(q, sync_ex, room) ==
  CHOOSE n \in 0..Len(q) :
    /\ n <= room
    /\ \A i \in 1..n : LastEpoch(q[i].txns) < sync_ex + g_max_lag_epochs
    /\ n < Len(q) /\ n < room => LastEpoch(q[n + 1].txns) >= sync_ex + g_max_lag_epochs

\* Mutant: the epoch of the last buffer is taken to be complete.
EpochPrefixIncl(b) == LastEpoch(b.txns)

\* The epoch up to which the log is complete once b is written: more of b's own
\* epoch may follow in the next buffer.
EpochPrefix(b) == LastEpoch(b.txns) - 1

\* The transactions of the buffers bs whose epoch has the slot e of d_.
InSlot(bs, e) ==
  LET Sum[i \in 0..Len(bs)] ==
        IF i = 0 THEN 0
        ELSE IF LastEpoch(bs[i].txns) % g_max_lag_epochs = e
               THEN Sum[i - 1] + Len(bs[i].txns) ELSE Sum[i - 1]
  IN  Sum[Len(bs)]

\* peekall() the queue of one core and schedule what can be written.
WriterScan(l) ==
  LET k == Turn(l)
      q == persist_buffers_[k]
      n == NScheduled(q, writer[l].sync_ex, IovMax - writer[l].nbufs)
      last == writer[l].todo = {k}
      nbufs == writer[l].nbufs + n
  IN
  /\ writer[l].pc = "scan"
  /\ persist_buffers_' = [persist_buffers_ EXCEPT
       ![k] = [i \in DOMAIN q |-> [q[i] EXCEPT !.io_scheduled_ = i <= n]]]
  /\ epoch_prefixes' = IF n = 0 THEN epoch_prefixes
       ELSE [epoch_prefixes EXCEPT ![writer[l].sense][k] = EpochPrefix(q[n])]
  /\ d_' = [d_ EXCEPT ![k] = [e \in DOMAIN @ |-> @[e] + InSlot(SubSeq(q, 1, n), e)]]
  /\ writer' = [writer EXCEPT
       ![l].nbufs = nbufs,
       ![l].todo = IF last /\ nbufs # 0 THEN Assignment[l] ELSE @ \ {k},
       ![l].pc = CASE ~last -> "scan" [] last /\ nbufs = 0 -> "start" [] OTHER -> "write"]
  /\ UNCHANGED <<clockVars, workerVars, epochs_, system_sync_epoch_, ntxns_pushed_,
                 ntxns_persisted_, all_buffers_, tail_, disk, locked, persister>>

\* How many buffers at the front of a queue are scheduled: no other one is, since
\* the scan begins at the front and what is queued later is not.
Scheduled(q) ==
  CHOOSE n \in 0..Len(q) :
    /\ \A i \in 1..n : q[i].io_scheduled_
    /\ n < Len(q) => ~q[n + 1].io_scheduled_

\* The transactions of the buffers of a queue from the m-th to the n-th.
Contents(q, m, n) == [i \in 1..n - m + 1 |-> q[m + i - 1].txns]

\* writev() and fdatasync().
WriterWrite(l) ==
  /\ writer[l].pc = "write"
  /\ disk' = [c \in Cores |-> IF c \in Assignment[l]
                                THEN disk[c] \o Contents(persist_buffers_[c], 1,
                                                         Scheduled(persist_buffers_[c]))
                                ELSE disk[c]]
  /\ writer' = [writer EXCEPT ![l].pc = "load"]
  /\ UNCHANGED <<clockVars, syncVars, statVars, workerVars, all_buffers_, persist_buffers_,
                 tail_, locked, persister>>

WriterLoad(l) ==
  /\ writer[l].pc = "load"
  /\ writer' = [writer EXCEPT ![l].pc = "store", ![l].x0 = epochs_[Turn(l)]]
  /\ UNCHANGED <<clockVars, syncVars, statVars, workerVars, all_buffers_, persist_buffers_,
                 tail_, disk, locked, persister>>

WriterStore(l) ==
  LET k == Turn(l)
      x1 == epoch_prefixes[writer[l].sense][k]
  IN
  /\ writer[l].pc = "store"
  /\ epochs_' = IF x1 > writer[l].x0 THEN [epochs_ EXCEPT ![k] = x1] ELSE epochs_
  /\ writer' = [writer EXCEPT ![l].pc = "return", ![l].x0 = 0]
  /\ UNCHANGED <<clockVars, epoch_prefixes, system_sync_epoch_, statVars, workerVars,
                 all_buffers_, persist_buffers_, tail_, disk, locked, persister>>

\* Mutant: the queue is emptied whether or not its buffers were scheduled.
WriterReturnAll(l) ==
  LET k == Turn(l) IN
  /\ writer[l].pc = "return"
  /\ persist_buffers_[k] # << >>
  /\ persist_buffers_' = [persist_buffers_ EXCEPT ![k] = Tail(@)]
  /\ tail_' = [tail_ EXCEPT ![k] = (@ + 1) % g_perthread_buffers]
  /\ all_buffers_' = [all_buffers_ EXCEPT ![k] = Append(@, EmptyBuffer)]
  /\ UNCHANGED <<clockVars, syncVars, statVars, workerVars, disk, writer, locked, persister>>

\* Mutant: peek() for deq(), so the buffer is in both rings.
WriterReturnPeeks(l) ==
  LET k == Turn(l) IN
  /\ writer[l].pc = "return"
  /\ persist_buffers_[k] # << >> /\ Head(persist_buffers_[k]).io_scheduled_
  /\ all_buffers_' = [all_buffers_ EXCEPT ![k] = Append(@, EmptyBuffer)]
  /\ UNCHANGED <<clockVars, syncVars, statVars, workerVars, persist_buffers_, tail_, disk,
                 writer, locked, persister>>

\* A buffer that has been written is reset and given back to its core.
WriterReturn(l) ==
  LET k == Turn(l) IN
  /\ writer[l].pc = "return"
  /\ persist_buffers_[k] # << >> /\ Head(persist_buffers_[k]).io_scheduled_
  /\ persist_buffers_' = [persist_buffers_ EXCEPT ![k] = Tail(@)]
  /\ tail_' = [tail_ EXCEPT ![k] = (@ + 1) % g_perthread_buffers]
  /\ all_buffers_' = [all_buffers_ EXCEPT ![k] = Append(@, EmptyBuffer)]
  /\ UNCHANGED <<clockVars, syncVars, statVars, workerVars, disk, writer, locked, persister>>

WriterNextCore(l) ==
  LET k == Turn(l)
      last == writer[l].todo = {k}
  IN
  /\ writer[l].pc = "return"
  /\ ~(persist_buffers_[k] # << >> /\ Head(persist_buffers_[k]).io_scheduled_)
  /\ writer' = [writer EXCEPT
       ![l].todo = @ \ {k},
       ![l].pc = IF last THEN "start" ELSE "load",
       ![l].sense = IF last THEN ~@ ELSE @]
  /\ UNCHANGED <<clockVars, syncVars, statVars, workerVars, all_buffers_, persist_buffers_,
                 tail_, disk, locked, persister>>

Writer(l) ==
  \/ WriterStart(l) \/ WriterScan(l) \/ WriterWrite(l)
  \/ WriterLoad(l) \/ WriterStore(l) \/ WriterReturn(l) \/ WriterNextCore(l)

-----------------------------------------------------------------------------
(* persister(): advance_system_sync_epoch() again and again.               *)

\* Whether a peek() that has loaded the tail t finds a buffer in its slot.
SlotFilled(c, t) == (t - tail_[c]) % g_perthread_buffers < Len(persist_buffers_[c])

Lower(a, b) == IF a < b THEN a ELSE b

PersisterKeeps ==
  UNCHANGED <<clockVars, workerVars, epoch_prefixes, ntxns_pushed_, all_buffers_, persist_buffers_,
              tail_, disk, writer>>

PersisterStart ==
  /\ persister.pc = "start"
  /\ persister' = [pc |-> "tail", k |-> 1, best |-> current_tick_ - 1,
                   min |-> MaxTick, t |-> 0]
  /\ UNCHANGED <<locked, epochs_, system_sync_epoch_, ntxns_persisted_, d_>>
  /\ PersisterKeeps

\* The first load of peek().
PersisterTail ==
  /\ persister.pc \in {"tail", "tail_locked"}
  /\ persister' = [persister EXCEPT
       !.pc = IF @ = "tail" THEN "slot" ELSE "slot_locked", !.t = tail_[persister.k]]
  /\ UNCHANGED <<locked, epochs_, system_sync_epoch_, ntxns_persisted_, d_>>
  /\ PersisterKeeps

\* The second load, without the core's lock.
PersisterSlot ==
  /\ persister.pc = "slot"
  /\ persister' = [persister EXCEPT
       !.pc = IF SlotFilled(persister.k, persister.t) THEN "load" ELSE "try_lock", !.t = 0]
  /\ UNCHANGED <<locked, epochs_, system_sync_epoch_, ntxns_persisted_, d_>>
  /\ PersisterKeeps

\* is_locked() and three calls of try_lock() fail when the core is inside its
\* guard, or while tickerloop() visits the slots and may hold the lock.
PersisterTryLock ==
  /\ persister.pc = "try_lock"
  /\ \/ /\ inside[persister.k] = 0
        /\ locked' = persister.k
        /\ persister' = [persister EXCEPT !.pc = "tail_locked"]
     \/ /\ inside[persister.k] # 0 \/ current_tick_ = last_tick_inclusive_ + 2
        /\ persister' = [persister EXCEPT !.pc = "load"]
        /\ UNCHANGED locked
  /\ UNCHANGED <<epochs_, system_sync_epoch_, ntxns_persisted_, d_>>
  /\ PersisterKeeps

\* On to the next core with the minimum lowered to e.
PersisterFold(e) ==
  persister' = [persister EXCEPT
    !.pc = IF persister.k = NCores THEN "publish" ELSE "tail",
    !.k = IF persister.k = NCores THEN 1 ELSE @ + 1,
    !.min = Lower(@, e), !.t = 0]

\* The second peek() finds the queue empty: the core is advanced.
PersisterIdle ==
  /\ persister.pc = "slot_locked"
  /\ ~SlotFilled(persister.k, persister.t)
  /\ epochs_' = [epochs_ EXCEPT ![persister.k] = persister.best]
  /\ locked' = 0
  /\ PersisterFold(persister.best)
  /\ UNCHANGED <<system_sync_epoch_, ntxns_persisted_, d_>>
  /\ PersisterKeeps

PersisterBusy ==
  /\ persister.pc = "slot_locked"
  /\ SlotFilled(persister.k, persister.t)
  /\ locked' = 0
  /\ persister' = [persister EXCEPT !.pc = "load", !.t = 0]
  /\ UNCHANGED <<epochs_, system_sync_epoch_, ntxns_persisted_, d_>>
  /\ PersisterKeeps

PersisterLoad ==
  /\ persister.pc = "load"
  /\ PersisterFold(epochs_[persister.k])
  /\ UNCHANGED <<locked, epochs_, system_sync_epoch_, ntxns_persisted_, d_>>
  /\ PersisterKeeps

\* The transactions that the slots of d_ count for one core.
Counted(d, slots) ==
  LET Sum[i \in 0..g_max_lag_epochs] ==
        IF i = 0 THEN 0
        ELSE IF i - 1 \in slots THEN Sum[i - 1] + d[i - 1] ELSE Sum[i - 1]
  IN  Sum[g_max_lag_epochs]

\* Aggregate the statistics of the epochs that are now durable and publish.
PersisterPublish ==
  LET slots == {e % g_max_lag_epochs : e \in system_sync_epoch_ + 1..persister.min} IN
  /\ persister.pc = "publish"
  /\ ntxns_persisted_' = [c \in Cores |-> ntxns_persisted_[c] + Counted(d_[c], slots)]
  /\ d_' = [c \in Cores |-> [e \in DOMAIN d_[c] |-> IF e \in slots THEN 0 ELSE d_[c][e]]]
  /\ system_sync_epoch_' = persister.min
  /\ persister' = [pc |-> "start", k |-> 1, best |-> 0, min |-> 0, t |-> 0]
  /\ UNCHANGED <<locked, epochs_>>
  /\ PersisterKeeps

Persister ==
  \/ PersisterStart \/ PersisterTail \/ PersisterSlot \/ PersisterTryLock
  \/ PersisterIdle \/ PersisterBusy \/ PersisterLoad \/ PersisterPublish

-----------------------------------------------------------------------------
Ticking == Clock /\ UNCHANGED loggerVars

Next ==
  \/ Ticking
  \/ \E c \in Cores : Worker(c)
  \/ \E l \in Loggers : Writer(l)
  \/ Persister

(***************************************************************************)
(* The daemon threads run for ever; a worker that has begun something      *)
(* finishes it.  Nothing makes a worker commit or end.                     *)
(***************************************************************************)
Fairness ==
  /\ WF_vars(Ticking)
  /\ WF_vars(Persister)
  /\ \A l \in Loggers : WF_vars(Writer(l))
  /\ \A c \in Cores :
       WF_vars(\/ RegionEnd(c) \/ LogWrite(c) \/ LogPush(c) \/ HorizonPush(c)
               \/ HorizonFlush(c) \/ HorizonCount(c) \/ HorizonWrite(c) \/ EndPush(c))

Spec == Init /\ [][Next]_vars
FairSpec == Spec /\ Fairness

-----------------------------------------------------------------------------
\* The type invariant; in particular the two rings of a core always share its
\* g_perthread_buffers buffers: none is lost and none is in both.
TypeOK ==
  /\ ClockTypeOK
  /\ g_use_compression \in BOOLEAN
  /\ all_buffers_ \in [Cores -> Seq(pbuffer)]
  /\ persist_buffers_ \in [Cores -> Seq(pbuffer)]
  /\ \A c \in Cores : Len(all_buffers_[c]) + Len(persist_buffers_[c]) = g_perthread_buffers
  /\ tail_ \in [Cores -> 0..g_perthread_buffers - 1]
  /\ horizon_ \in [Cores -> Seq(Txn)]
  /\ logging \in [Cores -> {"idle", "log", "end", "ended"}]
  /\ epochs_ \in [Cores -> 0..MaxTick]
  /\ system_sync_epoch_ \in 0..MaxTick

\* What the writer of core c has written of its queue and not yet given back.
Written(c) ==
  LET l == CHOOSE l \in Loggers : c \in Assignment[l]
  IN  IF writer[l].pc \in {"load", "store", "return"}
        THEN Scheduled(persist_buffers_[c]) ELSE 0

\* The transactions in core c's open buffer, and the one it has yet to log.
OpenBuffer(c) == IF all_buffers_[c] = << >> THEN << >> ELSE Head(all_buffers_[c]).txns
ToLog(c) == IF logging[c] = "log" THEN Logged(c) ELSE << >>

\* Core c's log, piece by piece: its file, its queue, its buffers.
Log(c) ==
  disk[c] \o Contents(persist_buffers_[c], Written(c) + 1, Len(persist_buffers_[c]))
          \o <<OpenBuffer(c), horizon_[c], ToLog(c)>>

\* The pieces hold the transactions txns, each once and in their order.
Holding(pieces, txns) ==
  /\ \A k \in DOMAIN pieces : \A j \in DOMAIN pieces[k] :
       pieces[k][j].n \in DOMAIN txns /\ txns[pieces[k][j].n] = pieces[k][j]
  /\ \A k \in DOMAIN pieces : \A i, j \in DOMAIN pieces[k] :
       i < j => pieces[k][i].n < pieces[k][j].n
  /\ \A k, m \in DOMAIN pieces : k < m =>
       \A i \in DOMAIN pieces[k], j \in DOMAIN pieces[m] : pieces[k][i].n < pieces[m][j].n
  /\ \A n \in DOMAIN txns : \E k \in DOMAIN pieces : \E j \in DOMAIN pieces[k] :
       pieces[k][j].n = n

\* A log file holds a core's transactions in the order they committed in, each
\* once, and what it does not hold yet is still in the core's buffers.
NothingLost ==
  \A c \in Cores :
    /\ Holding(Log(c), committed[c])
    /\ \A i \in 2..Len(all_buffers_[c]) : all_buffers_[c][i].txns = << >>

OnDisk(c, t) == \E k \in DOMAIN disk[c] : \E j \in DOMAIN disk[c][k] : disk[c][k][j] = t

\* The epoch the writer records for a core after a write is a true claim: every
\* transaction the core committed in it or before is on disk.
WriterClaimsAreTrue ==
  [][\A l \in Loggers : WriterStore(l) /\ epochs_' # epochs_ =>
       \A i \in DOMAIN committed[Turn(l)] :
         committed[Turn(l)][i].ep <= epochs_'[Turn(l)]
           => OnDisk(Turn(l), committed[Turn(l)][i])]_vars

\* Every transaction core c has committed and logged in an epoch <= e is on disk.
Persisted(c, e) ==
  \A i \in DOMAIN committed[c] :
    committed[c][i].ep <= e =>
      OnDisk(c, committed[c][i]) \/ (logging[c] = "log" /\ i = Len(committed[c]))

\* "logger i has persisted up through (including) all transactions <= epoch v on
\* core j [...] yields the entire system's persistent epoch" (txn_proto2_impl.h):
\* what the system's sync epoch covers is on disk.
SyncEpochIsPersisted == \A c \in Cores : Persisted(c, system_sync_epoch_)

\* wait_until_current_point_persisted() returns: once every thread has called
\* thread_end(), the sync epoch reaches every epoch that is over.
SyncCatchesUp ==
  (\A c \in Cores : logging[c] = "ended") ~> (system_sync_epoch_ = MaxTick - 1)
=============================================================================
