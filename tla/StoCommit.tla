----------------------------- MODULE StoCommit -----------------------------
(***************************************************************************)
(* The transactions Rolis replicates: the table operations of MassTrans.hh,*)
(* Transaction::try_commit() and stop(), the stamping and batching of      *)
(* serialize_util(), and the versioned puts by which a follower replays a  *)
(* log (ThreadPool.cc).                                                    *)
(*                                                                         *)
(* A worker runs its transactions one after the other; each is a short     *)
(* program of operations.  The keys share one Masstree leaf that does not  *)
(* split.  A step is one access to shared memory that others can see: a    *)
(* lookup, an insertion into the leaf, a load of a record's version, one   *)
(* lock, one check, one install, the stamp.  Unlocking is one step: to     *)
(* unlock the rest later only lets others abort.  So is the install of a   *)
(* delete, between whose two halves others find the record and abort.      *)
(*                                                                         *)
(* Values keep their size, so reallyHandlePutFound() never resizes.        *)
(***************************************************************************)
EXTENDS Integers, Sequences, FiniteSets, SequencesExt, FiniteSetsExt

CONSTANTS
  Workers,
  Worker,       \* Worker[t]: who runs transaction t
  Programs,     \* the tuples of programs the transactions may run
  Keys,
  InitKeys,     \* the keys that exist at the start
  BatchSize,    \* StringAllocator::kSizeLimit
  MaxRecs       \* bound: records ever allocated

Txns == DOMAIN Worker
Recs == 1..MaxRecs

ASSUME StoAssumption ==
  /\ BatchSize \in Nat \ {0}
  /\ MaxRecs \in Nat
  /\ IsFiniteSet(Workers)
  /\ Worker \in Seq(Workers)
  /\ IsFiniteSet(Keys)
  /\ InitKeys \subseteq Keys
  /\ Cardinality(InitKeys) <= MaxRecs

\* The operations of a leader's transaction, and a follower's put of a logged
\* value, which has its stamp.
Operation == [op : {"get", "put", "insert", "remove"}, key : Keys]
               \union [op : {"scan"}, key : Keys \union {0}]
VersionedPut == [op : {"mbta"}, key : Keys, cid : Nat]

\* Bound: the operations of a program, so that a value can name its writer.
MaxOps == 9

\* A machine leads or follows: it runs transactions, or replays those of another.
ASSUME ProgramAssumption ==
  \A ps \in Programs :
    \/ \A t \in Txns : ps[t] \in Seq(Operation) /\ Len(ps[t]) \in 1..MaxOps
    \/ \A t \in Txns : ps[t] \in Seq(VersionedPut) /\ Len(ps[t]) = 1

None == -1                              \* nothing read
NoVersion == [n |-> None, valid |-> FALSE]   \* the item has no read

VARIABLES
  tree,    \* key -> record, 0 if the key is not in the index
  leaf,    \* the leaf: [v, size, mod]
  rec,     \* records: [key, val, n, valid, lock], lock = 0 or the transaction
  nrec,    \* records allocated so far
  tx,      \* the transactions
  clock,   \* the last time stamp counter value anybody read
  buf,     \* per worker: the transactions in its StringAllocator
  stream,  \* per worker: the batches given to add_log_to_nc()
  eff      \* history, per key: the transactions in the order of their installs

treeVars == <<tree, leaf>>
logVars == <<clock, buf, stream>>
vars == <<tree, leaf, rec, nrec, tx, clock, buf, stream, eff>>

-----------------------------------------------------------------------------
full_version_value(l) == l.v * 16 + l.size

find_insert(l) == [v |-> IF l.mod = "insert" THEN l.v ELSE l.v + 1,
                   size |-> l.size + 1, mod |-> "insert"]

finish_remove(l) == [v |-> IF l.mod = "insert" THEN l.v + 1 ELSE l.v,
                     size |-> l.size - 1, mod |-> "remove"]

\* The version word of a record without its lock, and that of a leaf.
Vers(u) == [n |-> rec[u].n, valid |-> rec[u].valid]
LeafVers(l) == [n |-> full_version_value(l), valid |-> TRUE]

-----------------------------------------------------------------------------
InitSeq == SetToSeq(InitKeys)

NewTxn(p) == [pc |-> "op", prog |-> p, ip |-> 1, items |-> << >>, e |-> 0,
              todo |-> << >>, left |-> {}, locked |-> {}, cid |-> 0]

Init ==
  /\ tree = [k \in Keys |-> IF k \in InitKeys
                            THEN CHOOSE i \in DOMAIN InitSeq : InitSeq[i] = k ELSE 0]
  /\ leaf = [v |-> 0, size |-> Cardinality(InitKeys), mod |-> "insert"]
  /\ nrec = Cardinality(InitKeys)
  /\ rec = [u \in Recs |-> [key |-> IF u <= nrec THEN InitSeq[u] ELSE 0, val |-> 0,
                            n |-> 0, valid |-> u <= nrec, lock |-> 0]]
  /\ \E ps \in Programs : tx = [t \in Txns |-> NewTxn(ps[t])]
  /\ clock = 0
  /\ buf = [w \in Workers |-> << >>]
  /\ stream = [w \in Workers |-> << >>]
  /\ eff = [k \in Keys |-> << >>]

Ended(t) == tx[t].pc \in {"committed", "aborted"}
At(t, pc) == /\ tx[t].pc = pc
             /\ \A s \in Txns : s < t /\ Worker[s] = Worker[t] => Ended(s)
HasOp(t) == tx[t].ip <= Len(tx[t].prog)
Op(t) == tx[t].prog[tx[t].ip]
IsOp(t, ops) == At(t, "op") /\ HasOp(t) /\ Op(t).op \in ops

\* A follower's put of a logged value; Op(t).cid is the stamp in the value.
IsReplay(t) == tx[t].prog[1].op = "mbta"

\* What an operation writes: a logged stamp, or a value that names its writer.
ValueOf(t) == IF IsReplay(t) THEN Op(t).cid ELSE (MaxOps + 1) * t + tx[t].ip

-----------------------------------------------------------------------------
(* TransItems.  The item of the leaf has rec = 0; seen is the value a get  *)
(* returned, of which only the properties speak.                           *)

NewItem(u) == [rec |-> u, rd |-> NoVersion, wr |-> FALSE, ins |-> FALSE, del |-> FALSE,
               val |-> 0, seen |-> None]

find_item(items, u) ==
  LET hits == {i \in DOMAIN items : items[i].rec = u}
  IN IF hits = {} THEN 0 ELSE Min(hits)

\* Sto::item(): the items with one for u among them.
WithItem(items, u) == IF find_item(items, u) = 0 THEN Append(items, NewItem(u)) ELSE items

\* Sto::read_item(): before the first write a transaction does not search.
any_writes_(items) == \E i \in DOMAIN items : items[i].wr
ReadItems(items, u) ==
  IF any_writes_(items) THEN WithItem(items, u) ELSE Append(items, NewItem(u))
ReadIndex(items, u) == IF any_writes_(items) THEN find_item(items, u) ELSE Len(items)

validityCheck(it, u) == rec[u].valid \/ it.ins

\* What becomes of a transaction: the next operation, a step of this one, the
\* abort.
Becomes(t, r) == tx' = [tx EXCEPT ![t] = r]
NextOp(t, items) ==
  [tx[t] EXCEPT !.pc = "op", !.ip = tx[t].ip + 1, !.e = 0, !.items = items]
GoTo(t, pc, items, u) == [tx[t] EXCEPT !.pc = pc, !.items = items, !.e = u]
Aborting(t) == [tx[t] EXCEPT !.pc = "abort"]

\* observe() and the value read: an item keeps the first ones.
observe(it, v) == [it EXCEPT !.rd = IF it.rd = NoVersion THEN v ELSE it.rd]
Observed(it, u) ==
  [observe(it, Vers(u)) EXCEPT !.seen = IF it.seen = None THEN rec[u].val ELSE it.seen]

\* ensureNotFound(): remember the leaf, unless the item already has a read.
ensureNotFound(items) ==
  LET new == ReadItems(items, 0)
      i == ReadIndex(new, 0)
  IN [new EXCEPT ![i] = observe(new[i], LeafVers(leaf))]

-----------------------------------------------------------------------------
(* transGet(), transPut(), transInsert(), transDelete(), transPutMbta().   *)

\* find_unlocked(): transGet and transDelete give up if the key is not there,
\* a put goes on to insert it.
Search(t) ==
  LET u == tree[Op(t).key]
      found == CASE Op(t).op = "get" -> "get"
                 [] Op(t).op = "remove" -> "delete"
                 [] Op(t).op = "put" -> "found"
                 [] OTHER -> "compare"
  IN
  /\ IsOp(t, {"get", "put", "remove", "mbta"})
  /\ Becomes(t, IF u # 0 THEN GoTo(t, found, tx[t].items, u)
                ELSE IF Op(t).op \in {"put", "mbta"} THEN GoTo(t, "insert", tx[t].items, 0)
                ELSE NextOp(t, ensureNotFound(tx[t].items)))
  /\ UNCHANGED <<treeVars, rec, nrec, logVars, eff>>

\* transGet() of a record: an own delete or write is answered from the item.
Get(t) ==
  LET u == tx[t].e
      items == ReadItems(tx[t].items, u)
      it == items[ReadIndex(items, u)]
  IN
  /\ At(t, "get")
  /\ Becomes(t, IF ~ validityCheck(it, u) THEN Aborting(t)
                ELSE IF it.del \/ it.wr THEN NextOp(t, items)
                ELSE GoTo(t, "read", items, u))
  /\ UNCHANGED <<treeVars, rec, nrec, logVars, eff>>

\* atomicRead() aborts on a locked record.
atomicRead(t) ==
  LET u == tx[t].e
      items == tx[t].items
      i == ReadIndex(items, u)
  IN
  /\ At(t, "read")
  /\ Becomes(t, IF rec[u].lock # 0 THEN Aborting(t)
                ELSE NextOp(t, [items EXCEPT ![i] = Observed(items[i], u)]))
  /\ UNCHANGED <<treeVars, rec, nrec, logVars, eff>>

\* transQuery(): remember the leaf, then visit the records it had.  A leaf that
\* changes meanwhile is visited again, but then the commit fails in any case.
Scan(t) ==
  LET here == SetToSeq({tree[k] : k \in Keys} \ {0}) IN
  /\ IsOp(t, {"scan"})
  /\ Becomes(t, [GoTo(t, "scan", ensureNotFound(tx[t].items), 0) EXCEPT !.todo = here])
  /\ UNCHANGED <<treeVars, rec, nrec, logVars, eff>>

\* One record, whether it is valid or not: only the commit looks at that.
ScanValue(t) ==
  LET u == Head(tx[t].todo)
      items == ReadItems(tx[t].items, u)
      i == ReadIndex(items, u)
      it == items[i]
      After(new) == [tx[t] EXCEPT !.todo = Tail(tx[t].todo), !.items = new]
  IN
  /\ At(t, "scan")
  /\ tx[t].todo # << >>
  /\ Becomes(t, IF it.del \/ it.wr THEN After(items)
                ELSE IF rec[u].lock # 0 THEN Aborting(t)
                ELSE After([items EXCEPT ![i] = Observed(it, u)]))
  /\ UNCHANGED <<treeVars, rec, nrec, logVars, eff>>

ScanDone(t) ==
  /\ At(t, "scan")
  /\ tx[t].todo = << >>
  /\ Becomes(t, NextOp(t, tx[t].items))
  /\ UNCHANGED <<treeVars, rec, nrec, logVars, eff>>

\* compar(): a replayed value must carry a greater stamp than the one there.
Newer(t, u) == ValueOf(t) > rec[u].val

\* trans_write_mbta() compares before the put looks at the version.
Compare(t) ==
  /\ At(t, "compare")
  /\ Becomes(t, IF Newer(t, tx[t].e) THEN GoTo(t, "found", tx[t].items, tx[t].e)
                ELSE NextOp(t, tx[t].items))
  /\ UNCHANGED <<treeVars, rec, nrec, logVars, eff>>

\* find_insert() holds the leaf.  A new record is invalid until the commit; a
\* transaction that remembers the leaf follows its own insertion.
Insert(t) ==
  LET k == Op(t).key
      u == nrec + 1
      items == tx[t].items
      i == find_item(items, 0)
      noted == IF i # 0 /\ items[i].rd = LeafVers(leaf)
               THEN [items EXCEPT ![i] = [items[i] EXCEPT !.rd = LeafVers(find_insert(leaf))]]
               ELSE items
      new == [NewItem(u) EXCEPT !.wr = TRUE, !.ins = TRUE, !.val = ValueOf(t)]
  IN
  /\ IsOp(t, {"insert"}) \/ At(t, "insert")
  /\ tree[k] = 0
  /\ nrec < MaxRecs
  /\ nrec' = u
  /\ rec' = [rec EXCEPT ![u] = [key |-> k, val |-> ValueOf(t), n |-> 0, valid |-> FALSE, lock |-> 0]]
  /\ tree' = [tree EXCEPT ![k] = u]
  /\ leaf' = find_insert(leaf)
  /\ Becomes(t, NextOp(t, Append(noted, new)))
  /\ UNCHANGED <<logVars, eff>>

\* Somebody inserted the key first.
InsertFound(t) ==
  LET u == tree[Op(t).key] IN
  /\ IsOp(t, {"insert"}) \/ At(t, "insert")
  /\ u # 0
  /\ Becomes(t, IF Op(t).op = "mbta" /\ ~ Newer(t, u) THEN NextOp(t, tx[t].items)
                ELSE GoTo(t, "found", tx[t].items, u))
  /\ UNCHANGED <<treeVars, rec, nrec, logVars, eff>>

\* reallyHandlePutFound(): an own insert is overwritten in its record.
Written(t, it) == [it EXCEPT !.wr = TRUE, !.del = FALSE, !.val = ValueOf(t)]

reallyHandlePutFound(t, items, i, u) ==
  /\ Becomes(t, NextOp(t, [items EXCEPT ![i] = Written(t, items[i])]))
  /\ rec' = IF items[i].ins THEN [rec EXCEPT ![u] = [rec[u] EXCEPT !.val = ValueOf(t)]] ELSE rec

\* transInsert() only makes sure that the record stays; the others set it.
SetOrKeep(t, items, i, u) ==
  IF Op(t).op = "insert" THEN Becomes(t, NextOp(t, items)) /\ UNCHANGED rec
  ELSE reallyHandlePutFound(t, items, i, u)

handlePutFound(t) ==
  LET u == tx[t].e
      items == WithItem(tx[t].items, u)
      i == find_item(items, u)
      it == items[i]
  IN
  /\ At(t, "found")
  /\ IF ~ validityCheck(it, u) THEN Becomes(t, Aborting(t)) /\ UNCHANGED rec
     ELSE IF it.del THEN reallyHandlePutFound(t, items, i, u)
     ELSE IF it.rd # NoVersion \/ it.ins THEN SetOrKeep(t, items, i, u)
     ELSE Becomes(t, GoTo(t, "observe", items, u)) /\ UNCHANGED rec
  /\ UNCHANGED <<treeVars, nrec, logVars, eff>>

\* The version is loaded after the record was found valid.
PutObserve(t) ==
  LET u == tx[t].e
      items == tx[t].items
      i == find_item(items, u)
  IN
  /\ At(t, "observe")
  /\ IF rec[u].lock # 0 THEN Becomes(t, Aborting(t)) /\ UNCHANGED rec
     ELSE SetOrKeep(t, [items EXCEPT ![i] = observe(items[i], Vers(u))], i, u)
  /\ UNCHANGED <<treeVars, nrec, logVars, eff>>

\* transDelete() loads the version once.
Delete(t) ==
  LET u == tx[t].e
      items == WithItem(tx[t].items, u)
      i == find_item(items, u)
      it == items[i]
      gone == [it EXCEPT !.wr = TRUE, !.del = TRUE,
                         !.rd = IF it.ins \/ it.rd # NoVersion THEN it.rd ELSE Vers(u)]
  IN
  /\ At(t, "delete")
  /\ Becomes(t, IF ~ validityCheck(it, u) THEN Aborting(t)
                ELSE IF it.del THEN NextOp(t, items)
                ELSE IF rec[u].lock # 0 THEN Aborting(t)
                ELSE NextOp(t, [items EXCEPT ![i] = gone]))
  /\ UNCHANGED <<treeVars, rec, nrec, logVars, eff>>

-----------------------------------------------------------------------------
(* try_commit().                                                           *)

WriteSet(r) == {i \in DOMAIN r.items : r.items[i].wr}
ReadSet(r) == {i \in DOMAIN r.items : r.items[i].rd # NoVersion}

\* A phase takes the items in left, in their order.
Phase(r, pc, left) == [r EXCEPT !.pc = pc, !.left = left]

ToInstall(r) ==
  IF WriteSet(r) = {} THEN Phase(r, "committed", {}) ELSE Phase(r, "install", WriteSet(r))
ToCheck(r) == IF ReadSet(r) = {} THEN ToInstall(r) ELSE Phase(r, "check", ReadSet(r))

\* The rest of a phase, or what comes next.
Rest(r) == r.left \ {Min(r.left)}
Then(r, next) == IF Rest(r) = {} THEN next ELSE Phase(r, r.pc, Rest(r))

CommitBegin(t) ==
  /\ At(t, "op")
  /\ ~ HasOp(t)
  /\ Becomes(t, IF WriteSet(tx[t]) = {} THEN ToCheck(tx[t])
                ELSE Phase(tx[t], "lock", WriteSet(tx[t])))
  /\ UNCHANGED <<treeVars, rec, nrec, logVars, eff>>

Item(t) == tx[t].items[Min(tx[t].left)]
Locking(t, u) == [tx[t] EXCEPT !.locked = tx[t].locked \union {u}]

\* Mutant: spin until the record is free.
LockWaits(t) ==
  LET u == Item(t).rec IN
  /\ At(t, "lock")
  /\ rec[u].lock = 0
  /\ rec' = [rec EXCEPT ![u] = [rec[u] EXCEPT !.lock = t]]
  /\ Becomes(t, Then(Locking(t, u), ToCheck(Locking(t, u))))
  /\ UNCHANGED <<treeVars, nrec, logVars, eff>>

\* Transaction::try_lock(), in the order of the items: a locked record that was
\* also read fails at once, any other after a bounded number of spins.
Lock(t) ==
  LET u == Item(t).rec IN
  /\ At(t, "lock")
  /\ IF rec[u].lock = 0
     THEN /\ rec' = [rec EXCEPT ![u] = [rec[u] EXCEPT !.lock = t]]
          /\ Becomes(t, Then(Locking(t, u), ToCheck(Locking(t, u))))
     ELSE Becomes(t, [tx[t] EXCEPT !.pc = "fail"]) /\ UNCHANGED rec
  /\ UNCHANGED <<treeVars, nrec, logVars, eff>>

\* Mutant: the version alone, without validityCheck().
checkVersionOnly(t, it) ==
  IF it.rec = 0 THEN LeafVers(leaf) = it.rd
  ELSE rec[it.rec].lock \in {0, t} /\ Vers(it.rec) = it.rd

\* MassTrans::check(): the leaf is unchanged; the record is valid, has the
\* version read and is locked by nobody else.
check(t, it) ==
  IF it.rec = 0 THEN LeafVers(leaf) = it.rd
  ELSE /\ validityCheck(it, it.rec)
       /\ rec[it.rec].lock \in {0, t}
       /\ Vers(it.rec) = it.rd

preceding_duplicate_read(t, i) ==
  \E j \in 1..(i - 1) : tx[t].items[j].rec = tx[t].items[i].rec /\ tx[t].items[j].rd # NoVersion

CheckRead(t) ==
  LET i == Min(tx[t].left) IN
  /\ At(t, "check")
  /\ Becomes(t, IF check(t, tx[t].items[i]) \/ preceding_duplicate_read(t, i)
                THEN Then(tx[t], ToInstall(tx[t])) ELSE [tx[t] EXCEPT !.pc = "fail"])
  /\ UNCHANGED <<treeVars, rec, nrec, logVars, eff>>

\* A follower's transaction (try_commit_no_paxos) is not logged.
ToLog(t) == Phase(tx[t], IF IsReplay(t) THEN "stop" ELSE "log", {})

\* MassTrans::install(): a delete leaves the index at once, an insert becomes
\* valid, an update gets a new version.
Install(t) ==
  LET it == Item(t)
      u == it.rec
      k == rec[u].key
  IN
  /\ At(t, "install")
  /\ \/ /\ it.del
        /\ rec' = [rec EXCEPT ![u] = [rec[u] EXCEPT !.valid = FALSE]]
        /\ tree' = [tree EXCEPT ![k] = 0]
        /\ leaf' = finish_remove(leaf)
     \/ /\ ~ it.del
        /\ it.ins
        /\ rec' = [rec EXCEPT ![u] = [rec[u] EXCEPT !.valid = TRUE]]
        /\ UNCHANGED treeVars
     \/ /\ ~ it.del
        /\ ~ it.ins
        /\ rec' = [rec EXCEPT ![u] = [rec[u] EXCEPT !.val = it.val, !.n = rec[u].n + 1]]
        /\ UNCHANGED treeVars
  /\ eff' = [eff EXCEPT ![k] = Append(eff[k], t)]
  /\ Becomes(t, Then(tx[t], ToLog(t)))
  /\ UNCHANGED <<nrec, logVars>>

-----------------------------------------------------------------------------
(* serialize_util().                                                       *)

\* Mutant: tid_unique_ is not reset when the worker's next transaction starts.
tid_uniqueStale(t) ==
  LET old == {tx[s].cid : s \in {s \in Txns : s < t /\ Worker[s] = Worker[t]}} \ {0}
  IN IF old = {} THEN clock + 1 ELSE Max(old)

\* The time stamp counter, read once per transaction.  All workers read the
\* same clock, and two reads that are ordered give different values.
tid_unique(t) == clock + 1

\* Mutant: the batch is closed before the transaction is added to it.
PushBeforeAdd(w, t, cid) ==
  IF Len(buf[w]) + 1 >= BatchSize
  THEN /\ stream' = [stream EXCEPT ![w] = Append(stream[w], [txns |-> buf[w], last |-> cid])]
       /\ buf' = [buf EXCEPT ![w] = <<t>>]
  ELSE /\ buf' = [buf EXCEPT ![w] = Append(buf[w], t)]
       /\ UNCHANGED stream

\* The transaction joins the worker's buffer; a full buffer is closed with the
\* last commit id and given to the worker's stream.
Push(w, t, cid) ==
  LET full == Append(buf[w], t) IN
  IF Len(full) >= BatchSize
  THEN /\ stream' = [stream EXCEPT ![w] = Append(stream[w], [txns |-> full, last |-> cid])]
       /\ buf' = [buf EXCEPT ![w] = << >>]
  ELSE /\ buf' = [buf EXCEPT ![w] = full]
       /\ UNCHANGED stream

\* The locks are still held when the stamp is taken.
serialize_util(t) ==
  LET cid == tid_unique(t) IN
  /\ At(t, "log")
  /\ clock' = clock + 1
  /\ Push(Worker[t], t, cid)
  /\ Becomes(t, [tx[t] EXCEPT !.cid = cid, !.pc = "stop"])
  /\ UNCHANGED <<treeVars, rec, nrec, eff>>

-----------------------------------------------------------------------------
(* stop().                                                                 *)

Unlocked(us) == [u \in Recs |-> IF u \in us THEN [rec[u] EXCEPT !.lock = 0] ELSE rec[u]]

StopCommitted(t) ==
  /\ At(t, "stop")
  /\ rec' = Unlocked(tx[t].locked)
  /\ Becomes(t, [tx[t] EXCEPT !.pc = "committed", !.locked = {}])
  /\ UNCHANGED <<treeVars, nrec, logVars, eff>>

\* The locks first; then cleanup() takes the inserts out again, last one first.
StopAborted(t) ==
  /\ At(t, "abort") \/ At(t, "fail")
  /\ tx[t].locked # {}
  /\ rec' = Unlocked(tx[t].locked)
  /\ Becomes(t, [tx[t] EXCEPT !.locked = {}])
  /\ UNCHANGED <<treeVars, nrec, logVars, eff>>

Inserts(t) == {i \in DOMAIN tx[t].items : tx[t].items[i].ins}

cleanup(t) ==
  LET i == Max(Inserts(t))
      it == tx[t].items[i]
  IN
  /\ At(t, "abort") \/ At(t, "fail")
  /\ tx[t].locked = {}
  /\ Inserts(t) # {}
  /\ tree' = [tree EXCEPT ![rec[it.rec].key] = 0]
  /\ leaf' = finish_remove(leaf)
  /\ Becomes(t, [tx[t] EXCEPT !.items = [tx[t].items EXCEPT ![i] = [it EXCEPT !.ins = FALSE]]])
  /\ UNCHANGED <<rec, nrec, logVars, eff>>

\* A put that aborts throws, and the follower replays it until it succeeds; a
\* commit that fails returns false, which the follower ignores.
AbortEnd(t) ==
  /\ At(t, "abort") \/ At(t, "fail")
  /\ tx[t].locked = {}
  /\ Inserts(t) = {}
  /\ Becomes(t, IF IsReplay(t) /\ tx[t].pc = "abort" THEN NewTxn(tx[t].prog)
                ELSE [tx[t] EXCEPT !.pc = "aborted"])
  /\ UNCHANGED <<treeVars, rec, nrec, logVars, eff>>

-----------------------------------------------------------------------------
Step(t) ==
  \/ Search(t) \/ Get(t) \/ atomicRead(t) \/ Scan(t) \/ ScanValue(t) \/ ScanDone(t) \/ Compare(t) \/ Insert(t) \/ InsertFound(t)
  \/ handlePutFound(t) \/ PutObserve(t) \/ Delete(t)
  \/ CommitBegin(t) \/ Lock(t) \/ CheckRead(t) \/ Install(t) \/ serialize_util(t)
  \/ StopCommitted(t) \/ StopAborted(t) \/ cleanup(t) \/ AbortEnd(t)

Next == \E t \in Txns : Step(t)

\* The workers are threads of the operating system.
Fairness == \A t \in Txns : WF_vars(Step(t))

Spec == Init /\ [][Next]_vars /\ Fairness

-----------------------------------------------------------------------------
\* Transactions past their checks.
Committed == {t \in Txns : tx[t].pc \in {"install", "log", "stop", "committed"}}

Deleted == -1
Writes(t) == {rec[tx[t].items[i].rec].key : i \in {j \in DOMAIN tx[t].items : tx[t].items[j].wr}}
Deletes(t) == {rec[tx[t].items[i].rec].key : i \in {j \in DOMAIN tx[t].items : tx[t].items[j].del}}
LastWrite(t, k) ==
  LET i == Max({j \in DOMAIN tx[t].items : /\ tx[t].items[j].wr
                                           /\ rec[tx[t].items[j].rec].key = k})
  IN IF tx[t].items[i].del THEN Deleted ELSE tx[t].items[i].val

\* What the gets of transaction t returned, except for its own writes.
Reads(t) ==
  {[key |-> rec[it.rec].key, val |-> it.seen] :
     it \in {tx[t].items[i] : i \in {j \in DOMAIN tx[t].items : tx[t].items[j].seen # None}}}

ValBefore(s, i, k) ==
  LET W == {j \in 1..(i - 1) : k \in Writes(s[j])}
  IN IF W # {} THEN LastWrite(s[Max(W)], k) ELSE IF k \in InitKeys THEN 0 ELSE Deleted

\* The keys whose absence transaction t saw.
Missed(t) ==
  LET known == {rec[tx[t].items[i].rec].key : i \in {j \in DOMAIN tx[t].items : tx[t].items[j].rec # 0}}
      done == {tx[t].prog[i] : i \in 1..(tx[t].ip - 1)}
  IN {k \in Keys \ known : \E o \in done : \/ o.op \in {"get", "remove"} /\ o.key = k
                                           \/ o.op = "scan"}

Current(k) == IF tree[k] = 0 THEN Deleted ELSE rec[tree[k]].val

\* The committed transactions have a serial order that explains what each get
\* returned and which keys were missed, and that leaves what the tables hold in
\* the end.  A replay compares without reading and is not meant.
Serializable ==
  (\A t \in Txns : ~ IsReplay(t)) =>
    \E s \in SetToSeqs(Committed) :
      /\ \A i \in DOMAIN s :
           /\ \A r \in Reads(s[i]) : r.val = ValBefore(s, i, r.key)
           /\ \A k \in Missed(s[i]) : ValBefore(s, i, k) = Deleted
      /\ (\A t \in Txns : Ended(t)) => \A k \in Keys : Current(k) = ValBefore(s, Len(s) + 1, k)

\* The transactions whose installed writes t read or overwrote.  A delete is
\* left out: its key leaves the index before its stamp is taken, so another
\* transaction may insert the key and be stamped first.
DependsOn(t) ==
  {d \in Txns \ {t} : \E k \in Keys : \E i \in DOMAIN eff[k] :
     /\ eff[k][i] = d
     /\ k \notin Deletes(d)
     /\ \/ \E j \in DOMAIN eff[k] : j > i /\ eff[k][j] = t
        \/ [key |-> k, val |-> LastWrite(d, k)] \in Reads(t)}

\* A commit id is greater than those of the transactions it depends on, which
\* is what lets a follower keep the newest value of a key and cut the streams
\* at a watermark.
StampsFollowConflicts ==
  \A t \in Txns : tx[t].cid # 0 =>
    \A d \in DependsOn(t) : tx[d].cid # 0 /\ tx[d].cid < tx[t].cid

-----------------------------------------------------------------------------
(* What a follower makes of the streams.                                   *)

\* The follower has got the first n[w] batches of every stream w.
Deliveries == {n \in [Workers -> 1..Cardinality(Txns)] : \A w \in Workers : n[w] <= Len(stream[w])}
Got(n) == UNION {{stream[w][i] : i \in 1..n[w]} : w \in Workers}
Watermark(n) == Min({stream[w][n[w]].last : w \in Workers})
TxnsOf(bs) == UNION {ToSet(b.txns) : b \in bs}

\* Batches are replayed whole, if their last commit id is below the watermark.
Replayed(n) == TxnsOf({b \in Got(n) : b.last <= Watermark(n)})

\* Whatever the follower has got: it replays no transaction without those it
\* depends on, so a failover that discards what is above the watermark leaves
\* consistent tables.
ReplayedIsClosed ==
  \A n \in Deliveries : \A t \in Replayed(n) : DependsOn(t) \subseteq Replayed(n)

\* Keeping the write with the greatest commit id of every key reproduces the
\* leader's tables.
NewestIsLast ==
  \A k \in Keys : eff[k] # << >> /\ (\A t \in Txns : Ended(t)) =>
    LET last == eff[k][Len(eff[k])]
    IN \A i \in DOMAIN eff[k] : tx[eff[k][i]].cid <= tx[last].cid

\* After a follower has replayed everything a key has the newest value: "we
\* have to use lock-based cursor to ensure atomic compare-and-swap mechanism".
NewestWins ==
  (\A t \in Txns : IsReplay(t) /\ Ended(t)) =>
    \A k \in Keys : LET cids == {tx[t].prog[1].cid : t \in {s \in Txns : tx[s].prog[1].key = k}}
                    IN cids # {} => Current(k) = Max(cids)

\* Nobody waits for anybody: a transaction commits or aborts, and a replay that
\* is retried comes to an end.
EveryTransactionEnds == \A t \in Txns : <>Ended(t)
=============================================================================
