-------------------------- MODULE SnapshotGCProofs --------------------------
(***************************************************************************)
(* Proofs about SnapshotGC, for any number of cores, tuples, writes and    *)
(* ticks, and any ReadOnlyEpochMultiplier.                                 *)
(*                                                                         *)
(* The argument.  A version is queued under the read-only tick of the      *)
(* write that superseded it, and that tick is never below the one of the   *)
(* tuple in front of it in the chain (EntryInv).  It is collected when the *)
(* tick is below the one of last_tick_inclusive_.  A snapshot's bound is   *)
(* at least the tick before the one it entered in, and the clock cannot    *)
(* complete that tick while it runs: so a reader stops in front of every   *)
(* collected version (LinkInv), and whoever holds a queued version holds   *)
(* back its collection (EntryInv again).                                   *)
(*                                                                         *)
(* What a chain says of the writes is VersionInv: the writes between two   *)
(* neighbours were overwritten in place, in the read-only tick of the      *)
(* newer one, and below the last one is nothing, or a delete that every    *)
(* running snapshot sees.                                                  *)
(***************************************************************************)
EXTENDS SnapshotGC, FiniteSetTheorems, SequenceTheorems, TLAPS

Ro(x) == to_read_only_tick(x)

Open == {"rw", "ro_begin", "ro", "walk", "write", "inserted", "publish"}
Closed == {"none", "gc", "reap"}
Inserting == {"inserted", "publish"}

QueueEntry == [tup : Tuples, key : BOOLEAN, tick : Nat]
TupleType == [ep : 0..MAX_EPOCH, w : Nat, del : BOOLEAN, next : Tuples \cup {null},
              st : {"none", "used", "retired", "freed"}]
TxType == [pc : Open \cup Closed, b : Nat, cur : Tuples \cup {null}, held : SUBSET Tuples,
           ce : Nat, got : Int]

Types ==
  /\ ClockTypeOK
  /\ root \in Tuples \cup {null}
  /\ tup \in [Tuples -> TupleType]
  /\ writes \in Seq([ep : Nat, del : BOOLEAN])
  /\ lockr \in Cores \cup {0}
  /\ tx \in [Cores -> TxType]
  /\ queue_ \in [Cores -> Seq(QueueEntry)]
  /\ scratch_ \in [Cores -> Seq(QueueEntry)]
  /\ last_reaped_epoch_ \in [Cores -> Nat]
  /\ waits \in [Tuples -> SUBSET Cores]

\* The clock's promise.
ClockInv ==
  /\ current_tick_ \in {last_tick_inclusive_ + 1, last_tick_inclusive_ + 2}
  /\ \A c \in Cores : inside[c] # 0 => /\ last_tick_inclusive_ < inside[c]
                                       /\ inside[c] <= current_tick_

\* A snapshot's bound comes from a clock value of its own region.
BoundInv(c) ==
  \E x \in 0..last_tick_inclusive_ + 1 :
    tx[c].b = ComputeReadOnlyTid(x) /\ inside[c] <= x + 1

\* What a core's place says of its other variables.
TxInv(c) ==
  /\ tx[c].pc \in Open => inside[c] # 0
  /\ tx[c].pc \in Closed => tx[c].held = {} /\ tx[c].got = -1
  /\ tx[c].cur # null <=> tx[c].pc = "walk"
  /\ tx[c].pc \in {"ro", "walk"} => BoundInv(c)
  /\ tx[c].got # -1 => tx[c].pc \in {"ro", "walk"}
  /\ tx[c].pc \in {"write", "publish"} => inside[c] <= tx[c].ce /\ tx[c].ce <= current_tick_
  /\ lockr = c <=> tx[c].pc \in {"write"} \cup Inserting
  /\ tx[c].pc # "reap" => scratch_[c] = << >>

\* The latest tuple is allocated; it is tentative as long as its inserter holds
\* the lock, and only an absent key has no tuple to lock.
RootInv ==
  /\ root # null => tup[root].st = "used"
  /\ root = null => lockr = 0
  /\ \A c \in Cores : tx[c].pc \in Inserting => tup[root].ep = MAX_EPOCH
  /\ root # null /\ tup[root].ep = MAX_EPOCH => /\ lockr # 0 /\ tx[lockr].pc \in Inserting
                                                /\ ~tup[root].del

Alive(p) == tup[p].st \in {"used", "retired"}

\* The chain behind a tuple that can still be visited.
LinkInv(p) ==
  Alive(p) =>
    /\ tup[p].ep = MAX_EPOCH => tup[p].next = null
    /\ tup[p].ep # MAX_EPOCH => tup[p].ep <= current_tick_
    /\ tup[p].next # null =>
         /\ tup[p].next # root
         /\ tup[tup[p].next].st \in {"used", "freed"}
         /\ tup[tup[p].next].st = "freed" => Ro(tup[p].ep) < Ro(last_tick_inclusive_)

Holds(c) == (tx[c].held \cup {tx[c].cur}) \ {null}

\* What a core holds has not been freed, and RCU knows the core.
HoldInv(c) ==
  \A n \in Holds(c) : Alive(n) /\ (tup[n].st = "retired" => c \in waits[n])

Elements(s) == {s[i] : i \in DOMAIN s}
EntriesOf(c) == Elements(queue_[c]) \cup Elements(scratch_[c])

\* A queue entry: the tick it waits for, against the tuples in front of it and
\* the cores that hold it.
EntryInv(e) ==
  /\ tup[e.tup].st = "used"
  /\ e.key => tup[e.tup].del /\ Ro(tup[e.tup].ep) <= e.tick
  /\ ~e.key =>
       /\ e.tup # root
       /\ \A p \in Tuples : Alive(p) /\ tup[p].next = e.tup => Ro(tup[p].ep) <= e.tick
       /\ \A c \in Cores : e.tup \in Holds(c) => Ro(inside[c] - 1) <= e.tick

QueueInv(c) ==
  /\ \A e \in EntriesOf(c) : EntryInv(e)
  /\ \A e \in Elements(scratch_[c]) : e.tick < Ro(last_tick_inclusive_)
  /\ Len(queue_[c]) + Len(scratch_[c]) <= 2 * Len(writes) - 2

\* No tuple has two entries.
Single(q) == \A i, j \in DOMAIN q : q[i].tup = q[j].tup => i = j
Apart(q, r) == \A i \in DOMAIN q, j \in DOMAIN r : q[i].tup # r[j].tup

OnePlaceIn(q, s) ==
  /\ \A c \in Cores : Single(q[c]) /\ Single(s[c])
  /\ \A c, d \in Cores : Apart(q[c], s[d])
  /\ \A c, d \in Cores : c # d => Apart(q[c], q[d]) /\ Apart(s[c], s[d])

OnePlace == OnePlaceIn(queue_, scratch_)

HasEntry(n) == \E c \in Cores : \E e \in EntriesOf(c) : e.tup = n

\* Nothing is forgotten.
KeptInv ==
  \A n \in Tuples : tup[n].st = "used" /\ (n # root \/ tup[n].del) => HasEntry(n)

SafeInv ==
  /\ ClockInv /\ RootInv /\ OnePlace /\ KeptInv
  /\ Len(writes) <= MaxWrites
  /\ \A c \in Cores : TxInv(c) /\ HoldInv(c) /\ QueueInv(c)
  /\ \A p \in Tuples : LinkInv(p)

\* Below write k of ws a snapshot that runs after tick lti reads nothing.
Floor(ws, lti, k) == k = 0 \/ (ws[k].del /\ Ro(ws[k].ep) < Ro(lti))

\* The writes k+1..w are of one read-only tick.
SameTick(ws, k, w, ep) == \A i \in k + 1..w : Ro(ws[i].ep) = Ro(ep)

\* What version v of a chain of ts says of the writes.
Describes(v, ts, ws, lti) ==
  /\ v.w \in 1..Len(ws)
  /\ ws[v.w].ep = v.ep /\ ws[v.w].del = v.del
  /\ v.next # null => ts[v.next].ep # MAX_EPOCH /\ SameTick(ws, ts[v.next].w, v.w, v.ep)
  /\ v.next = null => \E k \in 0..Len(ws) : Floor(ws, lti, k) /\ SameTick(ws, k, v.w, v.ep)

VersionInv(p) ==
  Alive(p) /\ tup[p].ep # MAX_EPOCH => Describes(tup[p], tup, writes, last_tick_inclusive_)

Bottom(k) == Floor(writes, last_tick_inclusive_, k)

LatestInv ==
  IF root = null \/ tup[root].ep = MAX_EPOCH THEN Bottom(Len(writes))
  ELSE tup[root].w = Len(writes)

\* What a snapshot looks for is not newer than the tuple it stands at.
WalkInv(c) ==
  tx[c].pc = "walk" =>
    IF tup[tx[c].cur].ep = MAX_EPOCH THEN Visible(tx[c].b, 0)
    ELSE \A i \in tup[tx[c].cur].w + 1..Len(writes) : writes[i].ep >= tx[c].b

ReadInv ==
  /\ \A p \in Tuples : VersionInv(p)
  /\ LatestInv
  /\ \A c \in Cores : WalkInv(c)
  /\ SnapshotConsistent

-----------------------------------------------------------------------------
(* Read-only ticks.                                                        *)

LEMMA DivBounds ==
  ASSUME NEW a \in Nat, NEW m \in Nat \ {0}
  PROVE /\ a \div m \in Nat
        /\ m * (a \div m) <= a
        /\ a < m * ((a \div m) + 1)
  BY SMT

LEMMA TimesMonotone ==
  ASSUME NEW p \in Nat, NEW q \in Nat, NEW m \in Nat \ {0}, p >= q
  PROVE /\ m * p \in Nat /\ m * q \in Nat
        /\ m * p >= m * q
  BY SMT

LEMMA RoMonotone ==
  ASSUME NEW a \in Nat, NEW b \in Nat, a <= b
  PROVE Ro(a) \in Nat /\ Ro(b) \in Nat /\ Ro(a) <= Ro(b)
<1> DEFINE m == ReadOnlyEpochMultiplier
           p == a \div m
           q == b \div m
<1>0. m \in Nat \ {0} BY GCAssumption
<1>1. /\ p \in Nat /\ m * p <= a
      /\ q \in Nat /\ b < m * (q + 1)
  BY <1>0, DivBounds
<1>2. p <= q
  <2> SUFFICES ASSUME p >= q + 1 PROVE FALSE
    BY <1>1
  <2> HIDE DEF p, q, m
  <2>1. /\ m * p \in Nat /\ m * (q + 1) \in Nat /\ m * p >= m * (q + 1)
    BY <1>0, <1>1, TimesMonotone
  <2> QED BY <1>1, <2>1
<1> QED BY <1>1, <1>2 DEF Ro, to_read_only_tick

LEMMA RoNat ==
  ASSUME NEW a \in Nat
  PROVE Ro(a) \in Nat
<1>1. a <= a OBVIOUS
<1> QED BY <1>1, RoMonotone

\* A snapshot's bound is a multiple of the multiplier: it separates read-only
\* ticks, never the epochs of one.
LEMMA Aligned ==
  ASSUME NEW x \in Nat, NEW e \in Nat
  PROVE /\ ComputeReadOnlyTid(x) \in Nat
        /\ ComputeReadOnlyTid(x) <= x
        /\ e < ComputeReadOnlyTid(x) <=> Ro(e) < Ro(x)
<1> DEFINE m == ReadOnlyEpochMultiplier
           p == e \div m
           k == x \div m
<1>0. m \in Nat \ {0} BY GCAssumption
<1>1. /\ p \in Nat /\ m * p <= e /\ e < m * (p + 1)
      /\ k \in Nat /\ m * k <= x
  BY <1>0, DivBounds
<1>2. ComputeReadOnlyTid(x) = k * m /\ Ro(e) = p /\ Ro(x) = k
  BY DEF ComputeReadOnlyTid, Ro, to_read_only_tick
<1> HIDE DEF m, p, k
<1>3. k * m = m * k /\ m * k \in Nat BY <1>0, <1>1
<1>4. ASSUME p < k PROVE e < m * k
  <2>1. k >= p + 1 /\ p + 1 \in Nat BY <1>1, <1>4
  <2>2. m * (p + 1) \in Nat /\ m * k >= m * (p + 1) BY <1>0, <1>1, <2>1, TimesMonotone
  <2> QED BY <1>1, <1>3, <2>2
<1>5. ASSUME e < m * k PROVE p < k
  <2> SUFFICES ASSUME p >= k PROVE FALSE BY <1>1
  <2>1. m * p \in Nat /\ m * p >= m * k BY <1>0, <1>1, TimesMonotone
  <2> QED BY <1>1, <1>3, <1>5, <2>1
<1> QED BY <1>1, <1>2, <1>3, <1>4, <1>5
-----------------------------------------------------------------------------
(* Types.                                                                  *)

LEMMA InitTypes == Init => Types
<1> SUFFICES ASSUME Init PROVE Types OBVIOUS
<1>1. ClockTypeOK BY ClockAssumption DEF Init, ClockInit, ClockTypeOK
<1>2. tup \in [Tuples -> TupleType]
  <2>1. Unallocated \in TupleType /\ [Unallocated EXCEPT !.ep = 1, !.w = 1, !.st = "used"] \in TupleType
    <3>1. 0 \in 0..MAX_EPOCH /\ 1 \in 0..MAX_EPOCH BY ClockAssumption DEF MAX_EPOCH
    <3> QED BY <3>1 DEF Unallocated, TupleType, null
  <2> QED BY <2>1 DEF Init
<1>3. tx \in [Cores -> TxType]
  BY DEF Init, NoTxn, TxType, Closed, null
<1>4. root \in Tuples BY GCAssumption DEF Init, Tuples
<1>5. writes \in Seq([ep : Nat, del : BOOLEAN]) BY DEF Init
<1> QED BY <1>1, <1>2, <1>3, <1>4, <1>5 DEF Init, Types

LEMMA ClockNat ==
  ASSUME Types
  PROVE /\ current_tick_ \in Nat /\ last_tick_inclusive_ \in Nat
        /\ \A c \in Cores : inside[c] \in Nat
        /\ MaxTick \in Nat /\ MAX_EPOCH \in Nat /\ current_tick_ < MAX_EPOCH
        /\ \A n \in Tuples : tup[n].ep \in Nat
<1>0. MaxTick \in Nat /\ MAX_EPOCH = MaxTick + 1 BY ClockAssumption DEF MAX_EPOCH
<1>1. /\ current_tick_ \in 1..MaxTick /\ last_tick_inclusive_ \in 0..MaxTick
      /\ \A c \in Cores : inside[c] \in 0..MaxTick
  BY DEF Types, ClockTypeOK
<1>2. \A n \in Tuples : tup[n].ep \in 0..MAX_EPOCH BY DEF Types, TupleType
<1> QED BY <1>0, <1>1, <1>2

\* A transaction's record after one of the steps below.
LEMMA TxUpdate ==
  ASSUME NEW t \in TxType
  PROVE /\ \A pc \in Open \cup Closed : [t EXCEPT !.pc = pc] \in TxType
        /\ \A pc \in Open \cup Closed, ce \in Nat : [t EXCEPT !.pc = pc, !.ce = ce] \in TxType
        /\ \A pc \in Open \cup Closed, b \in Nat : [t EXCEPT !.pc = pc, !.b = b] \in TxType
        /\ \A pc \in Open \cup Closed, n \in Tuples : [t EXCEPT !.pc = pc, !.cur = n] \in TxType
        /\ \A pc \in Open \cup Closed, n \in Tuples :
             [t EXCEPT !.pc = pc, !.held = t.held \cup {n}] \in TxType
        /\ \A n \in Tuples : [t EXCEPT !.held = t.held \cup {n}] \in TxType
        /\ \A n \in Tuples \cup {null} : [t EXCEPT !.cur = n] \in TxType
        /\ \A g \in Int : [t EXCEPT !.got = g] \in TxType
        /\ \A pc \in Open \cup Closed, g \in Int :
             [t EXCEPT !.pc = pc, !.cur = null, !.got = g] \in TxType
        /\ [NoTxn EXCEPT !.pc = "gc"] \in TxType /\ NoTxn \in TxType
<1> USE DEF TxType
<1>1. NoTxn \in TxType /\ [NoTxn EXCEPT !.pc = "gc"] \in TxType BY DEF NoTxn, Closed, null
<1> QED BY <1>1
\* The transaction's record of core c becomes t.
Put(c, t) == tx' = [tx EXCEPT ![c] = t]

LEMMA TxForm ==
  ASSUME Types, NEW c \in Cores
  PROVE /\ Begin(c) => \E pc \in {"rw", "ro_begin"} : Put(c, [tx[c] EXCEPT !.pc = pc])
        /\ BeginSnapshot(c) =>
             Put(c, [tx[c] EXCEPT !.pc = "ro", !.b = ComputeReadOnlyTid(global_last_tick_exclusive)])
        /\ End(c) => Put(c, [NoTxn EXCEPT !.pc = "gc"])
        /\ SnapshotSearch(c) =>
             IF root = null THEN Put(c, [tx[c] EXCEPT !.got = 0])
             ELSE Put(c, [tx[c] EXCEPT !.pc = "walk", !.cur = root])
        /\ Search(c) => Put(c, [tx[c] EXCEPT !.held = tx[c].held \cup {root}])
        /\ Lock(c) => Put(c, [tx[c] EXCEPT !.pc = "write", !.ce = current_tick_])
        /\ InsertTid(c) => Put(c, [tx[c] EXCEPT !.pc = "publish", !.ce = current_tick_])
        /\ AbortInsert(c) \/ CommitInsert(c) \/ AbortLocked(c) =>
             Put(c, [tx[c] EXCEPT !.pc = "rw", !.ce = 0])
        /\ \A del \in BOOLEAN : WriteInPlace(c, del) \/ WriteSpill(c, del) \/ WriteReplace(c, del) =>
             Put(c, [tx[c] EXCEPT !.pc = "rw", !.ce = 0])
        /\ GcSkip(c) \/ GcEnd(c) => Put(c, NoTxn)
        /\ GcStart(c) => Put(c, [tx[c] EXCEPT !.pc = "reap"])
<1> USE DEF Put, Types
<1>1. Begin(c) => \E pc \in {"rw", "ro_begin"} : Put(c, [tx[c] EXCEPT !.pc = pc])
  BY DEF Begin
<1>2. BeginSnapshot(c) =>
        Put(c, [tx[c] EXCEPT !.pc = "ro", !.b = ComputeReadOnlyTid(global_last_tick_exclusive)])
  BY DEF BeginSnapshot
<1>3. End(c) => Put(c, [NoTxn EXCEPT !.pc = "gc"])
  BY DEF End
<1>4. SnapshotSearch(c) =>
        IF root = null THEN Put(c, [tx[c] EXCEPT !.got = 0])
        ELSE Put(c, [tx[c] EXCEPT !.pc = "walk", !.cur = root])
  BY DEF SnapshotSearch
<1>5. Search(c) => Put(c, [tx[c] EXCEPT !.held = tx[c].held \cup {root}])
  BY DEF Search
<1>6. Lock(c) => Put(c, [tx[c] EXCEPT !.pc = "write", !.ce = current_tick_])
  BY DEF Lock
<1>7. InsertTid(c) => Put(c, [tx[c] EXCEPT !.pc = "publish", !.ce = current_tick_])
  BY DEF InsertTid
<1>8. AbortInsert(c) \/ CommitInsert(c) \/ AbortLocked(c) =>
        Put(c, [tx[c] EXCEPT !.pc = "rw", !.ce = 0])
  BY DEF AbortInsert, CommitInsert, Wrote, AbortLocked
<1>9. ASSUME NEW del \in BOOLEAN, WriteInPlace(c, del) \/ WriteSpill(c, del) \/ WriteReplace(c, del)
      PROVE Put(c, [tx[c] EXCEPT !.pc = "rw", !.ce = 0])
  BY <1>9 DEF WriteInPlace, WriteSpill, WriteReplace, Wrote
<1>10. GcSkip(c) \/ GcEnd(c) => Put(c, NoTxn)
  BY DEF GcSkip, GcEnd
<1>11. GcStart(c) => Put(c, [tx[c] EXCEPT !.pc = "reap"])
  BY DEF GcStart
<1> HIDE DEF Put, Types
<1> QED BY <1>1, <1>2, <1>3, <1>4, <1>5, <1>6, <1>7, <1>8, <1>9, <1>10, <1>11

LEMMA PutType ==
  ASSUME tx \in [Cores -> TxType], NEW c \in Cores, NEW t \in TxType, Put(c, t)
  PROVE /\ tx' \in [Cores -> TxType]
        /\ tx'[c] = t
        /\ \A d \in Cores : d # c => tx'[d] = tx[d]
  BY DEF Put
\* A bound is below every epoch that is current when it is used.
LEMMA BoundFacts ==
  ASSUME Types, ClockInv, NEW c \in Cores, inside[c] # 0, BoundInv(c)
  PROVE /\ tx[c].b \in Nat /\ tx[c].b <= last_tick_inclusive_ + 1
        /\ tx[c].b < MAX_EPOCH
        /\ inside[c] - 1 \in Nat
        /\ Ro(last_tick_inclusive_) <= Ro(inside[c] - 1)
        /\ \A e \in Nat : e >= tx[c].b => Ro(inside[c] - 1) <= Ro(e)
        /\ \A e \in Nat : Ro(e) < Ro(last_tick_inclusive_) => e < tx[c].b
        /\ \A e, f \in Nat : e >= tx[c].b /\ Ro(f) = Ro(e) => f >= tx[c].b
<1>n. /\ current_tick_ \in Nat /\ last_tick_inclusive_ \in Nat /\ inside[c] \in Nat
      /\ MAX_EPOCH \in Nat /\ current_tick_ < MAX_EPOCH
  BY ClockNat
<1>1. PICK x \in 0..last_tick_inclusive_ + 1 :
        tx[c].b = ComputeReadOnlyTid(x) /\ inside[c] <= x + 1
  BY DEF BoundInv
<1>2. x \in Nat /\ x <= last_tick_inclusive_ + 1 BY <1>n
<1>3. tx[c].b \in Nat /\ tx[c].b <= x BY <1>1, <1>2, Aligned
<1>4. last_tick_inclusive_ + 1 <= current_tick_ /\ last_tick_inclusive_ < inside[c]
  BY <1>n DEF ClockInv
<1>5. /\ inside[c] - 1 \in Nat /\ inside[c] - 1 <= x
      /\ last_tick_inclusive_ <= inside[c] - 1
  BY <1>n, <1>1, <1>2, <1>4
<1>6. /\ Ro(inside[c] - 1) <= Ro(x) /\ Ro(last_tick_inclusive_) <= Ro(inside[c] - 1)
      /\ Ro(x) \in Nat /\ Ro(inside[c] - 1) \in Nat /\ Ro(last_tick_inclusive_) \in Nat
  BY <1>n, <1>2, <1>5, RoMonotone
<1>7. \A e \in Nat : (e < tx[c].b <=> Ro(e) < Ro(x)) /\ Ro(e) \in Nat
  BY <1>1, <1>2, Aligned, RoNat
<1>8. ASSUME NEW e \in Nat, e >= tx[c].b PROVE Ro(x) <= Ro(e)
  BY <1>3, <1>6, <1>7, <1>8
<1>9. ASSUME NEW e \in Nat, Ro(e) < Ro(last_tick_inclusive_) PROVE e < tx[c].b
  BY <1>6, <1>7, <1>9
<1>10. ASSUME NEW e \in Nat, NEW f \in Nat, e >= tx[c].b, Ro(f) = Ro(e) PROVE f >= tx[c].b
  BY <1>3, <1>6, <1>7, <1>10
<1>11. \A e \in Nat : e >= tx[c].b => Ro(inside[c] - 1) <= Ro(e)
  BY <1>6, <1>7, <1>8
<1>12. tx[c].b <= last_tick_inclusive_ + 1 /\ tx[c].b < MAX_EPOCH
  BY <1>n, <1>2, <1>3, <1>4
<1> QED BY <1>3, <1>5, <1>6, <1>9, <1>10, <1>11, <1>12

\* One visit of a snapshot reader: tentative, old enough, the end of the chain,
\* or on to the next version.
VisitForm(c) ==
  LET t == tup[tx[c].cur] IN
  \/ t.ep = MAX_EPOCH /\ Put(c, Found(c, 0))
  \/ t.ep # MAX_EPOCH /\ t.ep < tx[c].b /\ Put(c, Found(c, IF t.del THEN 0 ELSE t.w))
  \/ t.ep # MAX_EPOCH /\ t.ep >= tx[c].b /\ t.next = null /\ Put(c, Found(c, 0))
  \/ t.ep # MAX_EPOCH /\ t.ep >= tx[c].b /\ t.next # null /\ Put(c, [tx[c] EXCEPT !.cur = t.next])

LEMMA VisitCases ==
  ASSUME Types, SafeInv, NEW c \in Cores, SnapshotVisit(c)
  PROVE VisitForm(c) /\ tx[c].cur \in Tuples /\ BoundInv(c) /\ inside[c] # 0
<1>0. /\ tx[c].cur \in Tuples \cup {null} /\ tx[c].pc = "walk" /\ TxInv(c) /\ ClockInv
  BY DEF SnapshotVisit, Types, SafeInv, TxType, At
<1>1. tx[c].cur \in Tuples /\ BoundInv(c) /\ inside[c] # 0 BY <1>0 DEF TxInv, Open
<1> DEFINE t == tup[tx[c].cur]
<1>2. t.ep \in Nat /\ tx[c].b \in Nat /\ tx[c].b < MAX_EPOCH /\ MAX_EPOCH \in Nat
  BY <1>0, <1>1, ClockNat, BoundFacts
<1>3. tx' = [tx EXCEPT ![c] =
       IF t.ep # MAX_EPOCH /\ t.ep < tx[c].b THEN Found(c, IF t.del THEN 0 ELSE t.w)
       ELSE IF t.ep = MAX_EPOCH \/ t.next = null THEN Found(c, 0)
       ELSE [tx[c] EXCEPT !.cur = t.next]]
  BY DEF SnapshotVisit
<1>4. t.ep # MAX_EPOCH => t.ep < tx[c].b \/ t.ep >= tx[c].b BY <1>2
<1>7. VisitForm(c) BY <1>3, <1>4 DEF VisitForm, Put
<1> QED BY <1>1, <1>7

\* Whoever holds the lock has a tuple to write.
LEMMA WriterFacts ==
  ASSUME Types, SafeInv, NEW c \in Cores, tx[c].pc \in {"write"} \cup Inserting
  PROVE /\ lockr = c /\ root \in Tuples /\ tup[root] \in TupleType
        /\ tup[root].st = "used" /\ inside[c] # 0
        /\ tx[c].pc = "write" => tup[root].ep # MAX_EPOCH
        /\ tx[c].pc \in Inserting => tup[root].ep = MAX_EPOCH /\ ~tup[root].del
        /\ tx[c].pc \in {"write", "publish"} =>
             /\ tx[c].ce \in Nat /\ tx[c].ce <= current_tick_ /\ tx[c].ce < MAX_EPOCH
             /\ last_tick_inclusive_ + 1 <= tx[c].ce
<1>0. /\ TxInv(c) /\ RootInv /\ ClockInv /\ tx[c].ce \in Nat
      /\ root \in Tuples \cup {null} /\ tup \in [Tuples -> TupleType] /\ c # 0
  BY DEF SafeInv, Types, TxType, Cores
<1>1. lockr = c /\ inside[c] # 0 BY <1>0 DEF TxInv, Open, Inserting
<1>2. root \in Tuples /\ tup[root].st = "used" BY <1>0, <1>1 DEF RootInv
<1>3. tx[c].pc = "write" => tup[root].ep # MAX_EPOCH
  BY <1>0, <1>1, <1>2 DEF RootInv, Inserting, null, Tuples
<1>4. tx[c].pc \in Inserting => tup[root].ep = MAX_EPOCH /\ ~tup[root].del
  BY <1>0, <1>1, <1>2 DEF RootInv, null, Tuples
<1>5. ASSUME tx[c].pc \in {"write", "publish"}
      PROVE /\ tx[c].ce <= current_tick_ /\ tx[c].ce < MAX_EPOCH
            /\ last_tick_inclusive_ + 1 <= tx[c].ce
  <2>1. inside[c] <= tx[c].ce /\ tx[c].ce <= current_tick_ BY <1>0, <1>5 DEF TxInv
  <2> QED BY <1>0, <1>1, <2>1, ClockNat DEF ClockInv
<1> QED BY <1>0, <1>1, <1>2, <1>3, <1>4, <1>5
\* The dbtuple n becomes t.
Becomes(n, t) == tup' = [tup EXCEPT ![n] = t]

LEMMA BecomesType ==
  ASSUME tup \in [Tuples -> TupleType], NEW n \in Tuples, NEW t \in TupleType, Becomes(n, t)
  PROVE /\ tup' \in [Tuples -> TupleType]
        /\ tup'[n] = t
        /\ \A p \in Tuples : p # n => tup'[p] = tup[p]
  BY DEF Becomes

\* A dbtuple's record after one of the steps below.
LEMMA TupleUpdate ==
  ASSUME NEW t \in TupleType
  PROVE /\ \A st \in {"none", "used", "retired", "freed"} :
             /\ [t EXCEPT !.st = st] \in TupleType
             /\ [t EXCEPT !.st = st].st = st
             /\ [t EXCEPT !.st = st].ep = t.ep /\ [t EXCEPT !.st = st].w = t.w
             /\ [t EXCEPT !.st = st].del = t.del /\ [t EXCEPT !.st = st].next = t.next
        /\ \A ep \in 0..MAX_EPOCH, w \in Nat :
             /\ [t EXCEPT !.ep = ep, !.w = w] \in TupleType
             /\ [t EXCEPT !.ep = ep, !.w = w].ep = ep /\ [t EXCEPT !.ep = ep, !.w = w].w = w
             /\ [t EXCEPT !.ep = ep, !.w = w].st = t.st
             /\ [t EXCEPT !.ep = ep, !.w = w].del = t.del
             /\ [t EXCEPT !.ep = ep, !.w = w].next = t.next
  BY DEF TupleType

Tentative == [Unallocated EXCEPT !.ep = MAX_EPOCH, !.st = "used"]

LEMMA TentativeFacts ==
  /\ Tentative \in TupleType
  /\ Tentative.ep = MAX_EPOCH /\ Tentative.st = "used" /\ Tentative.next = null
  /\ Tentative.del = FALSE
<1>1. MAX_EPOCH \in 0..MAX_EPOCH BY ClockAssumption DEF MAX_EPOCH
<1> QED BY <1>1 DEF Tentative, Unallocated, TupleType, null

\* What a step does to the dbtuples.
LEMMA TupleForm ==
  ASSUME Types, SafeInv, NEW c \in Cores
  PROVE /\ Insert(c) => \E n \in Tuples : /\ Fresh(n) /\ root' = n /\ Becomes(n, Tentative)
                                          /\ Put(c, [tx[c] EXCEPT !.pc = "inserted",
                                                                  !.held = tx[c].held \cup {n}])
        /\ AbortInsert(c) => Becomes(root, [tup[root] EXCEPT !.st = "retired"])
        /\ CommitInsert(c) => Becomes(root, [tup[root] EXCEPT !.ep = tx[c].ce, !.w = Len(writes) + 1])
        /\ \A del \in BOOLEAN : WriteInPlace(c, del) => Becomes(root, NewVersion(c, del, tup[root].next))
        /\ GcFree(c) => Becomes(Entry(c).tup, [tup[Entry(c).tup] EXCEPT !.st = "freed"])
        /\ GcRemove(c) => Becomes(root, [tup[root] EXCEPT !.st = "retired"])
        /\ \A n \in Tuples : RcuFree(n) => Becomes(n, [tup[n] EXCEPT !.st = "freed"])
<1> USE DEF Types
<1>1. Insert(c) => \E n \in Tuples : /\ Fresh(n) /\ root' = n /\ Becomes(n, Tentative)
                                     /\ Put(c, [tx[c] EXCEPT !.pc = "inserted",
                                                             !.held = tx[c].held \cup {n}])
  BY DEF Insert, Becomes, Tentative, Put
<1>2. AbortInsert(c) => Becomes(root, [tup[root] EXCEPT !.st = "retired"])
  BY DEF AbortInsert, Retire, Becomes
<1>3. CommitInsert(c) => Becomes(root, [tup[root] EXCEPT !.ep = tx[c].ce, !.w = Len(writes) + 1])
  BY DEF CommitInsert, Becomes
<1>4. \A del \in BOOLEAN : WriteInPlace(c, del) => Becomes(root, NewVersion(c, del, tup[root].next))
  BY DEF WriteInPlace, Becomes
<1>5. GcFree(c) => Becomes(Entry(c).tup, [tup[Entry(c).tup] EXCEPT !.st = "freed"])
  BY DEF GcFree, Becomes
<1>6. GcRemove(c) => Becomes(root, [tup[root] EXCEPT !.st = "retired"])
  BY DEF GcRemove, Retire, Becomes
<1>7. \A n \in Tuples : RcuFree(n) => Becomes(n, [tup[n] EXCEPT !.st = "freed"])
  BY DEF RcuFree, Becomes
<1> HIDE DEF Types
<1> QED BY <1>1, <1>2, <1>3, <1>4, <1>5, <1>6, <1>7

\* The version a committing writer installs.
LEMMA NewVersionFacts ==
  ASSUME Types, SafeInv, NEW c \in Cores, tx[c].pc = "write",
         NEW del \in BOOLEAN, NEW next \in Tuples \cup {null}
  PROVE /\ NewVersion(c, del, next) \in TupleType
        /\ NewVersion(c, del, next).ep = tx[c].ce /\ NewVersion(c, del, next).del = del
        /\ NewVersion(c, del, next).next = next /\ NewVersion(c, del, next).st = "used"
        /\ NewVersion(c, del, next).w = Len(writes) + 1
<1>1. tx[c].ce \in Nat /\ tx[c].ce < MAX_EPOCH BY WriterFacts
<1>2. Len(writes) + 1 \in Nat BY DEF Types
<1>3. MAX_EPOCH \in Nat BY ClockNat
<1>4. tx[c].ce \in 0..MAX_EPOCH BY <1>1, <1>3
<1> QED BY <1>2, <1>4 DEF NewVersion, TupleType

\* The other two ways to install it.
LEMMA SpillForm ==
  ASSUME Types, SafeInv, NEW c \in Cores, NEW del \in BOOLEAN, WriteSpill(c, del)
  PROVE \E s \in Tuples :
          /\ Fresh(s) /\ s # root
          /\ tup' \in [Tuples -> TupleType]
          /\ tup'[s] = tup[root]
          /\ tup'[root] = NewVersion(c, del, s)
          /\ \A p \in Tuples : p # root /\ p # s => tup'[p] = tup[p]
          /\ Enqueue(c, <<[tup |-> s, key |-> FALSE, tick |-> to_read_only_tick(tx[c].ce)]>>
                          \o on_logical_delete(root, del, tx[c].ce))
<1>0. tx[c].pc = "write" BY DEF WriteSpill, At
<1>1. root \in Tuples /\ tup[root] \in TupleType /\ tup[root].st = "used" BY <1>0, WriterFacts
<1>2. PICK s \in Tuples :
       /\ Fresh(s)
       /\ tup' = [tup EXCEPT ![s] = tup[root], ![root] = NewVersion(c, del, s)]
       /\ Enqueue(c, <<[tup |-> s, key |-> FALSE, tick |-> to_read_only_tick(tx[c].ce)]>>
                       \o on_logical_delete(root, del, tx[c].ce))
  BY DEF WriteSpill
<1>3. s # root BY <1>1, <1>2 DEF Fresh
<1>4. NewVersion(c, del, s) \in TupleType BY <1>0, NewVersionFacts
<1>5. tup \in [Tuples -> TupleType] BY DEF Types
<1>6. /\ tup' \in [Tuples -> TupleType] /\ tup'[s] = tup[root] /\ tup'[root] = NewVersion(c, del, s)
      /\ \A p \in Tuples : p # root /\ p # s => tup'[p] = tup[p]
  BY <1>1, <1>2, <1>3, <1>4, <1>5
<1> QED BY <1>2, <1>3, <1>6

LEMMA ReplaceForm ==
  ASSUME Types, SafeInv, NEW c \in Cores, NEW del \in BOOLEAN, WriteReplace(c, del)
  PROVE \E rep \in Tuples :
          /\ Fresh(rep) /\ rep # root /\ root' = rep
          /\ Becomes(rep, NewVersion(c, del, root))
          /\ Enqueue(c, on_dbtuple_spill(root, tx[c].ce) \o on_logical_delete(rep, del, tx[c].ce))
<1>0. tx[c].pc = "write" BY DEF WriteReplace, At
<1>1. root \in Tuples /\ tup[root].st = "used" BY <1>0, WriterFacts
<1> QED BY <1>1 DEF WriteReplace, Becomes, Fresh

\* The clock moves on, and no region falls behind it.
LEMMA ClockStep ==
  ASSUME Types, SafeInv, [Next]_vars
  PROVE /\ ClockTypeOK' /\ ClockInv'
        /\ last_tick_inclusive_ <= last_tick_inclusive_' /\ current_tick_ <= current_tick_'
<1>n. /\ current_tick_ \in Nat /\ last_tick_inclusive_ \in Nat /\ MaxTick \in Nat
      /\ \A c \in Cores : inside[c] \in Nat
  BY ClockNat
<1>t. /\ current_tick_ \in 1..MaxTick /\ last_tick_inclusive_ \in 0..MaxTick
      /\ inside \in [Cores -> 0..MaxTick]
  BY DEF Types, ClockTypeOK
<1>i. ClockInv BY DEF SafeInv
<1> DEFINE Goal == /\ ClockTypeOK' /\ ClockInv'
                   /\ last_tick_inclusive_ <= last_tick_inclusive_' /\ current_tick_ <= current_tick_'
<1>1. CASE UNCHANGED clockVars
  BY <1>n, <1>t, <1>i, <1>1 DEF clockVars, ClockTypeOK, ClockInv
<1>2. CASE Advance
  BY <1>n, <1>t, <1>i, <1>2 DEF Advance, ClockTypeOK, ClockInv
<1>3. CASE Complete
  BY <1>n, <1>t, <1>i, <1>3 DEF Complete, ClockTypeOK, ClockInv
<1>4. ASSUME NEW c \in Cores, NEW k \in {0, current_tick_}, inside' = [inside EXCEPT ![c] = k],
             UNCHANGED <<current_tick_, last_tick_inclusive_>>
      PROVE Goal
  <2>1. inside' \in [Cores -> 0..MaxTick] BY <1>n, <1>t, <1>4
  <2>2. \A d \in Cores : inside'[d] # 0 => inside'[d] = current_tick_ \/ inside'[d] = inside[d]
    BY <1>t, <1>4
  <2> QED BY <1>n, <1>t, <1>i, <1>4, <2>1, <2>2 DEF ClockTypeOK, ClockInv
<1>5. ASSUME NEW c \in Cores, Begin(c) \/ End(c) PROVE Goal
  BY <1>4, <1>5 DEF Begin, End, Enter, Leave
<1>6. ASSUME NEW c \in Cores, GcEnd(c) PROVE Goal
  BY <1>4, <1>6 DEF GcEnd
<1>7. ASSUME NEW c \in Cores, GcRemove(c) PROVE Goal
  <2>1. CASE inside[c] = 0 BY <1>4, <1>7, <2>1 DEF GcRemove
  <2>2. CASE inside[c] # 0
    <3>1. inside' = inside BY <1>t, <1>7, <2>2 DEF GcRemove
    <3> QED BY <1>1, <1>7, <3>1 DEF GcRemove, clockVars
  <2> QED BY <2>1, <2>2
<1>8. ASSUME NEW c \in Cores,
             \/ BeginSnapshot(c) \/ SnapshotSearch(c) \/ SnapshotVisit(c) \/ Search(c) \/ Lock(c)
             \/ Insert(c) \/ InsertTid(c) \/ AbortInsert(c) \/ CommitInsert(c) \/ AbortLocked(c)
             \/ GcSkip(c) \/ GcStart(c) \/ GcFree(c) \/ GcRequeue(c)
      PROVE UNCHANGED clockVars
  BY <1>8 DEF BeginSnapshot, SnapshotSearch, SnapshotVisit, Search, Lock, Insert, InsertTid,
              AbortInsert, CommitInsert, AbortLocked, GcSkip, GcStart, GcFree, GcRequeue
<1>9. ASSUME NEW c \in Cores, NEW del \in BOOLEAN,
             WriteInPlace(c, del) \/ WriteSpill(c, del) \/ WriteReplace(c, del)
      PROVE UNCHANGED clockVars
  BY <1>9 DEF WriteInPlace, WriteSpill, WriteReplace
<1>10. ASSUME NEW n \in Tuples, RcuFree(n) PROVE UNCHANGED clockVars
  BY <1>10 DEF RcuFree
<1>11. CASE UNCHANGED vars BY <1>1, <1>11 DEF vars
<1> QED
  BY <1>1, <1>2, <1>3, <1>5, <1>6, <1>7, <1>8, <1>9, <1>10, <1>11 DEF Next, Ticking, Clock

LEMMA TxsStep ==
  ASSUME Types, SafeInv, [Next]_vars
  PROVE tx' \in [Cores -> TxType]
<1>t. tx \in [Cores -> TxType] /\ root \in Tuples \cup {null} BY DEF Types
<1>n. current_tick_ \in Nat /\ last_tick_inclusive_ \in Nat BY ClockNat
<1>pc. /\ {"rw", "ro_begin", "ro", "walk", "write", "inserted", "publish", "reap"} \subseteq Open \cup Closed
       /\ "rw" \in Open \cup Closed
  BY DEF Open, Closed
<1>1. ASSUME NEW c \in Cores, NEW t \in TxType, Put(c, t) PROVE tx' \in [Cores -> TxType]
  BY <1>t, <1>1, PutType
<1>2. ASSUME NEW c \in Cores, Begin(c) PROVE tx' \in [Cores -> TxType]
  <2>0. tx[c] \in TxType BY <1>t
  <2>1. PICK pc \in {"rw", "ro_begin"} : Put(c, [tx[c] EXCEPT !.pc = pc]) BY <1>2, TxForm
  <2>2. [tx[c] EXCEPT !.pc = pc] \in TxType BY <1>pc, <2>0, TxUpdate
  <2> QED BY <1>1, <2>1, <2>2
<1>3. ASSUME NEW c \in Cores, BeginSnapshot(c) PROVE tx' \in [Cores -> TxType]
  <2>0. tx[c] \in TxType BY <1>t
  <2> DEFINE b == ComputeReadOnlyTid(global_last_tick_exclusive)
  <2>1. Put(c, [tx[c] EXCEPT !.pc = "ro", !.b = b]) BY <1>3, TxForm
  <2>2. b \in Nat
    <3>1. global_last_tick_exclusive \in Nat BY <1>n DEF global_last_tick_exclusive
    <3> QED BY <3>1, Aligned
  <2> HIDE DEF b
  <2>3. [tx[c] EXCEPT !.pc = "ro", !.b = b] \in TxType BY <1>pc, <2>0, <2>2, TxUpdate
  <2> QED BY <1>1, <2>1, <2>3
<1>4. ASSUME NEW c \in Cores, End(c) \/ GcSkip(c) \/ GcEnd(c) PROVE tx' \in [Cores -> TxType]
  <2>0. tx[c] \in TxType BY <1>t
  <2>1. Put(c, [NoTxn EXCEPT !.pc = "gc"]) \/ Put(c, NoTxn) BY <1>4, TxForm
  <2>2. [NoTxn EXCEPT !.pc = "gc"] \in TxType /\ NoTxn \in TxType BY <2>0, TxUpdate
  <2> QED BY <1>1, <2>1, <2>2
<1>5. ASSUME NEW c \in Cores, SnapshotSearch(c) PROVE tx' \in [Cores -> TxType]
  <2>0. tx[c] \in TxType BY <1>t
  <2>1. CASE root = null
    <3>1. Put(c, [tx[c] EXCEPT !.got = 0]) BY <1>5, <2>1, TxForm
    <3>2. [tx[c] EXCEPT !.got = 0] \in TxType BY <2>0, 0 \in Int, TxUpdate
    <3> QED BY <1>1, <3>1, <3>2
  <2>2. CASE root # null
    <3>1. Put(c, [tx[c] EXCEPT !.pc = "walk", !.cur = root]) BY <1>5, <2>2, TxForm
    <3>2. [tx[c] EXCEPT !.pc = "walk", !.cur = root] \in TxType BY <1>t, <1>pc, <2>0, <2>2, TxUpdate
    <3> QED BY <1>1, <3>1, <3>2
  <2> QED BY <2>1, <2>2
<1>6. ASSUME NEW c \in Cores, SnapshotVisit(c) PROVE tx' \in [Cores -> TxType]
  <2>0. tx[c] \in TxType BY <1>t
  <2>1. VisitForm(c) /\ tx[c].cur \in Tuples BY <1>6, VisitCases
  <2>2. \A g \in Int : Found(c, g) \in TxType BY <1>pc, <2>0, TxUpdate DEF Found
  <2> DEFINE t == tup[tx[c].cur]
  <2>3. t \in TupleType BY <2>1 DEF Types
  <2>4. t.w \in Int /\ t.next \in Tuples \cup {null} BY <2>3 DEF TupleType
  <2>5. (IF t.del THEN 0 ELSE t.w) \in Int BY <2>4
  <2>6. [tx[c] EXCEPT !.cur = t.next] \in TxType BY <2>0, <2>4, TxUpdate
  <2>7. Found(c, 0) \in TxType /\ Found(c, IF t.del THEN 0 ELSE t.w) \in TxType BY <2>2, <2>5
  <2> QED BY <1>1, <2>1, <2>6, <2>7 DEF VisitForm
<1>7. ASSUME NEW c \in Cores, Search(c) PROVE tx' \in [Cores -> TxType]
  <2>0. tx[c] \in TxType /\ root \in Tuples BY <1>t, <1>7 DEF Search
  <2>1. Put(c, [tx[c] EXCEPT !.held = tx[c].held \cup {root}]) BY <1>7, TxForm
  <2>2. [tx[c] EXCEPT !.held = tx[c].held \cup {root}] \in TxType BY <2>0, TxUpdate
  <2> QED BY <1>1, <2>1, <2>2
<1>8. ASSUME NEW c \in Cores, Lock(c) PROVE tx' \in [Cores -> TxType]
  <2>0. tx[c] \in TxType BY <1>t
  <2>1. Put(c, [tx[c] EXCEPT !.pc = "write", !.ce = current_tick_]) BY <1>8, TxForm
  <2>2. [tx[c] EXCEPT !.pc = "write", !.ce = current_tick_] \in TxType BY <1>n, <1>pc, <2>0, TxUpdate
  <2> QED BY <1>1, <2>1, <2>2
<1>9. ASSUME NEW c \in Cores, InsertTid(c) PROVE tx' \in [Cores -> TxType]
  <2>0. tx[c] \in TxType BY <1>t
  <2>1. Put(c, [tx[c] EXCEPT !.pc = "publish", !.ce = current_tick_]) BY <1>9, TxForm
  <2>2. [tx[c] EXCEPT !.pc = "publish", !.ce = current_tick_] \in TxType BY <1>n, <1>pc, <2>0, TxUpdate
  <2> QED BY <1>1, <2>1, <2>2
<1>10. ASSUME NEW c \in Cores, Insert(c) PROVE tx' \in [Cores -> TxType]
  <2>0. tx[c] \in TxType BY <1>t
  <2>1. PICK n \in Tuples : Put(c, [tx[c] EXCEPT !.pc = "inserted", !.held = tx[c].held \cup {n}])
    BY <1>10, TupleForm
  <2>2. [tx[c] EXCEPT !.pc = "inserted", !.held = tx[c].held \cup {n}] \in TxType
    BY <1>pc, <2>0, TxUpdate
  <2> QED BY <1>1, <2>1, <2>2
<1>11. ASSUME NEW c \in Cores, Put(c, [tx[c] EXCEPT !.pc = "rw", !.ce = 0])
       PROVE tx' \in [Cores -> TxType]
  <2>0. tx[c] \in TxType BY <1>t
  <2>1. 0 \in Nat OBVIOUS
  <2>2. [tx[c] EXCEPT !.pc = "rw", !.ce = 0] \in TxType BY <1>pc, <2>0, <2>1, TxUpdate
  <2> QED BY <1>1, <1>11, <2>2
<1>12. ASSUME NEW c \in Cores, AbortInsert(c) \/ CommitInsert(c) \/ AbortLocked(c)
       PROVE tx' \in [Cores -> TxType]
  BY <1>11, <1>12, TxForm
<1>13. ASSUME NEW c \in Cores, NEW del \in BOOLEAN,
              WriteInPlace(c, del) \/ WriteSpill(c, del) \/ WriteReplace(c, del)
       PROVE tx' \in [Cores -> TxType]
  BY <1>11, <1>13, TxForm
<1>14. ASSUME NEW c \in Cores, GcStart(c) PROVE tx' \in [Cores -> TxType]
  <2>0. tx[c] \in TxType BY <1>t
  <2>1. Put(c, [tx[c] EXCEPT !.pc = "reap"]) BY <1>14, TxForm
  <2>2. [tx[c] EXCEPT !.pc = "reap"] \in TxType BY <1>pc, <2>0, TxUpdate
  <2> QED BY <1>1, <2>1, <2>2
<1>15. ASSUME NEW c \in Cores, GcFree(c) \/ GcRequeue(c) \/ GcRemove(c) PROVE tx' \in [Cores -> TxType]
  BY <1>t, <1>15 DEF GcFree, GcRequeue, GcRemove
<1>16. ASSUME NEW n \in Tuples, RcuFree(n) PROVE tx' \in [Cores -> TxType]
  BY <1>t, <1>16 DEF RcuFree
<1>17. CASE Ticking BY <1>t, <1>17 DEF Ticking
<1>18. CASE UNCHANGED vars BY <1>t, <1>18 DEF vars
<1> QED
  BY <1>2, <1>3, <1>4, <1>5, <1>6, <1>7, <1>8, <1>9, <1>10, <1>12, <1>13, <1>14, <1>15, <1>16,
     <1>17, <1>18 DEF Next

\* The entry a collector looks at.
LEMMA EntryFacts ==
  ASSUME Types, NEW c \in Cores, Reaping(c)
  PROVE /\ scratch_[c] \in Seq(QueueEntry) /\ scratch_[c] # << >>
        /\ Entry(c) \in QueueEntry /\ Entry(c).tup \in Tuples /\ Entry(c).tick \in Nat
        /\ Entry(c) = scratch_[c][1] /\ 1 \in DOMAIN scratch_[c]
        /\ Tail(scratch_[c]) \in Seq(QueueEntry)
<1>1. scratch_[c] \in Seq(QueueEntry) /\ scratch_[c] # << >> BY DEF Types, Reaping
<1>2. Len(scratch_[c]) \in Nat /\ Len(scratch_[c]) # 0 /\ DOMAIN scratch_[c] = 1..Len(scratch_[c])
  BY <1>1, EmptySeq
<1>3. 1 \in DOMAIN scratch_[c] BY <1>2
<1>4. Entry(c) = scratch_[c][1] /\ Tail(scratch_[c]) \in Seq(QueueEntry) BY <1>1 DEF Entry
<1>5. Entry(c) \in QueueEntry BY <1>1, <1>3, <1>4
<1>6. Entry(c).tup \in Tuples /\ Entry(c).tick \in Nat BY <1>5 DEF QueueEntry
<1> QED BY <1>1, <1>3, <1>4, <1>5, <1>6

DataTypes ==
  /\ root \in Tuples \cup {null}
  /\ tup \in [Tuples -> TupleType]
  /\ writes \in Seq([ep : Nat, del : BOOLEAN])
  /\ lockr \in Cores \cup {0}
  /\ waits \in [Tuples -> SUBSET Cores]

LEMMA DataStep ==
  ASSUME Types, SafeInv, [Next]_vars
  PROVE DataTypes'
<1>t. DataTypes BY DEF Types, DataTypes
<1>u. ASSUME UNCHANGED dataVars PROVE DataTypes' BY <1>t, <1>u DEF dataVars, DataTypes
<1>w. ASSUME NEW c \in Cores, NEW del \in BOOLEAN, Wrote(c, del)
      PROVE writes' \in Seq([ep : Nat, del : BOOLEAN]) /\ lockr' \in Cores \cup {0}
  <2>1. tx[c].ce \in Nat BY DEF Types, TxType
  <2> QED BY <1>t, <1>w, <2>1 DEF Wrote, DataTypes
<1>1. ASSUME NEW c \in Cores,
             \/ Begin(c) \/ BeginSnapshot(c) \/ SnapshotSearch(c) \/ SnapshotVisit(c) \/ Search(c)
             \/ InsertTid(c) \/ GcSkip(c) \/ GcStart(c) \/ GcRequeue(c)
      PROVE UNCHANGED dataVars
  BY <1>1 DEF Begin, BeginSnapshot, SnapshotSearch, SnapshotVisit, Search, InsertTid, GcSkip,
              GcStart, GcRequeue
<1>2. ASSUME NEW c \in Cores, End(c) \/ GcEnd(c) PROVE DataTypes'
  BY <1>t, <1>2 DEF End, GcEnd, DataTypes
<1>3. ASSUME NEW c \in Cores, Lock(c) \/ AbortLocked(c) PROVE DataTypes'
  BY <1>t, <1>3 DEF Lock, AbortLocked, DataTypes
<1>4. ASSUME NEW c \in Cores, Insert(c) PROVE DataTypes'
  <2>1. PICK n \in Tuples : root' = n /\ Becomes(n, Tentative) BY <1>4, TupleForm
  <2>2. tup' \in [Tuples -> TupleType] BY <1>t, <2>1, BecomesType, TentativeFacts DEF DataTypes
  <2> QED BY <1>t, <1>4, <2>1, <2>2 DEF Insert, DataTypes
<1>5. ASSUME NEW n \in Tuples, NEW regions \in SUBSET Cores, Retire(n, regions),
             Becomes(n, [tup[n] EXCEPT !.st = "retired"])
      PROVE /\ root' = null /\ waits' \in [Tuples -> SUBSET Cores]
            /\ tup' \in [Tuples -> TupleType]
  <2>1. tup[n] \in TupleType BY <1>t DEF DataTypes
  <2>2. [tup[n] EXCEPT !.st = "retired"] \in TupleType BY <2>1, TupleUpdate
  <2> QED BY <1>t, <1>5, <2>2, BecomesType DEF Retire, DataTypes
<1>6. ASSUME NEW c \in Cores, AbortInsert(c) PROVE DataTypes'
  <2>1. root \in Tuples BY <1>6, WriterFacts DEF AbortInsert, Inserting
  <2>2. Becomes(root, [tup[root] EXCEPT !.st = "retired"]) BY <1>6, TupleForm
  <2> QED BY <1>t, <1>5, <1>6, <2>1, <2>2 DEF AbortInsert, DataTypes
<1>7. ASSUME NEW c \in Cores, GcRemove(c) PROVE DataTypes'
  <2>1. root \in Tuples BY <1>7, EntryFacts DEF GcRemove
  <2>2. Becomes(root, [tup[root] EXCEPT !.st = "retired"]) BY <1>7, TupleForm
  <2> QED BY <1>t, <1>5, <1>7, <2>1, <2>2 DEF GcRemove, DataTypes
<1>8. ASSUME NEW c \in Cores, CommitInsert(c) PROVE DataTypes'
  <2>1. tx[c].pc = "publish" BY <1>8 DEF CommitInsert, At
  <2>2. root \in Tuples /\ tup[root] \in TupleType /\ tx[c].ce \in Nat /\ tx[c].ce < MAX_EPOCH
    BY <2>1, WriterFacts DEF Inserting
  <2>3. tx[c].ce \in 0..MAX_EPOCH /\ Len(writes) + 1 \in Nat BY <1>t, <2>2, ClockNat DEF DataTypes
  <2>4. [tup[root] EXCEPT !.ep = tx[c].ce, !.w = Len(writes) + 1] \in TupleType
    BY <2>2, <2>3, TupleUpdate
  <2>5. Becomes(root, [tup[root] EXCEPT !.ep = tx[c].ce, !.w = Len(writes) + 1]) BY <1>8, TupleForm
  <2>6. tup' \in [Tuples -> TupleType] BY <1>t, <2>2, <2>4, <2>5, BecomesType DEF DataTypes
  <2>7. writes' \in Seq([ep : Nat, del : BOOLEAN]) /\ lockr' \in Cores \cup {0}
    BY <1>w, <1>8 DEF CommitInsert
  <2> QED BY <1>t, <1>8, <2>6, <2>7 DEF CommitInsert, DataTypes
<1>9. ASSUME NEW c \in Cores, NEW del \in BOOLEAN, WriteInPlace(c, del) PROVE DataTypes'
  <2>1. tx[c].pc = "write" BY <1>9 DEF WriteInPlace, At
  <2>2. root \in Tuples /\ tup[root] \in TupleType BY <2>1, WriterFacts
  <2>3. NewVersion(c, del, tup[root].next) \in TupleType
    <3>1. tup[root].next \in Tuples \cup {null} BY <2>2 DEF TupleType
    <3> QED BY <2>1, <3>1, NewVersionFacts
  <2>4. tup' \in [Tuples -> TupleType] BY <1>t, <1>9, <2>2, <2>3, TupleForm, BecomesType DEF DataTypes
  <2>5. writes' \in Seq([ep : Nat, del : BOOLEAN]) /\ lockr' \in Cores \cup {0}
    BY <1>w, <1>9 DEF WriteInPlace
  <2> QED BY <1>t, <1>9, <2>4, <2>5 DEF WriteInPlace, DataTypes
<1>10. ASSUME NEW c \in Cores, NEW del \in BOOLEAN, WriteSpill(c, del) PROVE DataTypes'
  <2>1. tup' \in [Tuples -> TupleType] BY <1>10, SpillForm
  <2>2. writes' \in Seq([ep : Nat, del : BOOLEAN]) /\ lockr' \in Cores \cup {0}
    BY <1>w, <1>10 DEF WriteSpill
  <2> QED BY <1>t, <1>10, <2>1, <2>2 DEF WriteSpill, DataTypes
<1>11. ASSUME NEW c \in Cores, NEW del \in BOOLEAN, WriteReplace(c, del) PROVE DataTypes'
  <2>1. tx[c].pc = "write" BY <1>11 DEF WriteReplace, At
  <2>2. root \in Tuples BY <2>1, WriterFacts
  <2>3. PICK rep \in Tuples : root' = rep /\ Becomes(rep, NewVersion(c, del, root))
    BY <1>11, ReplaceForm
  <2>4. NewVersion(c, del, root) \in TupleType BY <2>1, <2>2, NewVersionFacts
  <2>5. tup' \in [Tuples -> TupleType] BY <1>t, <2>3, <2>4, BecomesType DEF DataTypes
  <2>6. writes' \in Seq([ep : Nat, del : BOOLEAN]) /\ lockr' \in Cores \cup {0}
    BY <1>w, <1>11 DEF WriteReplace
  <2> QED BY <1>t, <1>11, <2>3, <2>5, <2>6 DEF WriteReplace, DataTypes
<1>12. ASSUME NEW n \in Tuples, Becomes(n, [tup[n] EXCEPT !.st = "freed"])
       PROVE tup' \in [Tuples -> TupleType]
  <2>1. tup[n] \in TupleType BY <1>t DEF DataTypes
  <2>2. [tup[n] EXCEPT !.st = "freed"] \in TupleType BY <2>1, TupleUpdate
  <2> QED BY <1>t, <1>12, <2>2, BecomesType DEF DataTypes
<1>13. ASSUME NEW c \in Cores, GcFree(c) PROVE DataTypes'
  <2>1. Entry(c).tup \in Tuples BY <1>13, EntryFacts DEF GcFree
  <2>2. tup' \in [Tuples -> TupleType] BY <1>12, <1>13, <2>1, TupleForm
  <2> QED BY <1>t, <1>13, <2>2 DEF GcFree, DataTypes
<1>14. ASSUME NEW n \in Tuples, RcuFree(n) PROVE DataTypes'
  <2>0. 1 \in Cores BY ClockAssumption DEF Cores
  <2>1. tup' \in [Tuples -> TupleType] BY <1>12, <1>14, <2>0, TupleForm
  <2> QED BY <1>t, <1>14, <2>1 DEF RcuFree, DataTypes
<1>15. CASE Ticking BY <1>u, <1>15 DEF Ticking
<1>16. CASE UNCHANGED vars BY <1>u, <1>16 DEF vars
<1> QED
  BY <1>u, <1>1, <1>2, <1>3, <1>4, <1>6, <1>7, <1>8, <1>9, <1>10, <1>11, <1>13, <1>14, <1>15,
     <1>16 DEF Next

-----------------------------------------------------------------------------
(* The queues: what appending, splitting and dropping do to their entries. *)

Queues == [Cores -> Seq(QueueEntry)]

\* No entry of q is about tuple n.
Without(q, n) == \A i \in DOMAIN q : q[i].tup # n

LEMMA ConcatFacts ==
  ASSUME NEW q \in Seq(QueueEntry), NEW es \in Seq(QueueEntry)
  PROVE /\ q \o es \in Seq(QueueEntry)
        /\ Elements(q \o es) = Elements(q) \cup Elements(es)
        /\ Len(q \o es) = Len(q) + Len(es)
        /\ Single(q) /\ Single(es) /\ Apart(q, es) => Single(q \o es)
        /\ \A p : Apart(q, p) /\ Apart(es, p) => Apart(q \o es, p)
        /\ \A p : Apart(p, q) /\ Apart(p, es) => Apart(p, q \o es)
<1> DEFINE r == q \o es
           m == Len(q)
           k == Len(es)
<1>1. /\ r \in Seq(QueueEntry) /\ Len(r) = m + k /\ m \in Nat /\ k \in Nat
      /\ \A i \in 1..m + k : r[i] = IF i <= m THEN q[i] ELSE es[i - m]
  BY ConcatProperties
<1>2. DOMAIN r = 1..m + k /\ DOMAIN q = 1..m /\ DOMAIN es = 1..k BY <1>1
<1> HIDE DEF r, m, k
<1>3. /\ \A i \in 1..m : i \in 1..m + k /\ r[i] = q[i]
      /\ \A i \in 1..k : m + i \in 1..m + k /\ r[m + i] = es[i]
  BY <1>1
<1>4. \A i \in 1..m + k : \/ i \in 1..m /\ r[i] = q[i]
                          \/ i - m \in 1..k /\ r[i] = es[i - m]
  BY <1>1
<1>5. Elements(r) = Elements(q) \cup Elements(es)
  <2>1. Elements(r) \subseteq Elements(q) \cup Elements(es) BY <1>2, <1>4 DEF Elements
  <2>2. Elements(q) \subseteq Elements(r) BY <1>2, <1>3 DEF Elements
  <2>3. Elements(es) \subseteq Elements(r)
    <3> SUFFICES ASSUME NEW i \in 1..k PROVE es[i] \in Elements(r) BY <1>2 DEF Elements
    <3>1. m + i \in DOMAIN r /\ r[m + i] = es[i] BY <1>2, <1>3
    <3> QED BY <3>1 DEF Elements
  <2> QED BY <2>1, <2>2, <2>3
<1>6. ASSUME Single(q), Single(es), Apart(q, es) PROVE Single(r)
  <2> SUFFICES ASSUME NEW i \in 1..m + k, NEW j \in 1..m + k, r[i].tup = r[j].tup PROVE i = j
    BY <1>2 DEF Single
  <2>1. CASE i \in 1..m /\ j \in 1..m
    BY <1>2, <1>3, <1>6, <2>1 DEF Single
  <2>2. CASE i - m \in 1..k /\ r[i] = es[i - m] /\ j - m \in 1..k /\ r[j] = es[j - m]
    <3>1. i - m = j - m BY <1>2, <1>6, <2>2 DEF Single
    <3> QED BY <1>1, <3>1
  <2>3. CASE i \in 1..m /\ r[i] = q[i] /\ j - m \in 1..k /\ r[j] = es[j - m]
    BY <1>2, <1>6, <2>3 DEF Apart
  <2>4. CASE i - m \in 1..k /\ r[i] = es[i - m] /\ j \in 1..m /\ r[j] = q[j]
    BY <1>2, <1>6, <2>4 DEF Apart
  <2> QED BY <1>4, <2>1, <2>2, <2>3, <2>4
<1>7. \A p : Apart(q, p) /\ Apart(es, p) => Apart(r, p)
  BY <1>2, <1>4 DEF Apart
<1>8. \A p : Apart(p, q) /\ Apart(p, es) => Apart(p, r)
  BY <1>2, <1>4 DEF Apart
<1> QED BY <1>1, <1>5, <1>6, <1>7, <1>8 DEF r, m, k

\* r is q without its first k entries, or with only the ones before them.
LEMMA PieceFacts ==
  ASSUME NEW q \in Seq(QueueEntry), NEW r \in Seq(QueueEntry), NEW k \in Nat,
         \A i \in DOMAIN r : k + i \in DOMAIN q /\ r[i] = q[k + i]
  PROVE /\ Elements(r) \subseteq Elements(q)
        /\ Single(q) => Single(r)
        /\ \A p : Apart(q, p) => Apart(r, p)
        /\ \A p : Apart(p, q) => Apart(p, r)
<1>1. Elements(r) \subseteq Elements(q) BY DEF Elements
<1>2. ASSUME Single(q), NEW i \in DOMAIN r, NEW j \in DOMAIN r, r[i].tup = r[j].tup PROVE i = j
  <2>1. k + i = k + j BY <1>2 DEF Single
  <2>2. i \in Int /\ j \in Int OBVIOUS
  <2> QED BY <2>1, <2>2
<1>3. \A p : (Apart(q, p) => Apart(r, p)) /\ (Apart(p, q) => Apart(p, r)) BY DEF Apart
<1> QED BY <1>1, <1>2, <1>3 DEF Single

LEMMA TailFacts ==
  ASSUME NEW s \in Seq(QueueEntry), s # << >>
  PROVE /\ Tail(s) \in Seq(QueueEntry)
        /\ Elements(s) = {Head(s)} \cup Elements(Tail(s))
        /\ Len(Tail(s)) = Len(s) - 1
        /\ Single(s) => Single(Tail(s)) /\ Without(Tail(s), Head(s).tup)
        /\ \A p : Apart(s, p) => Apart(Tail(s), p) /\ Without(p, Head(s).tup)
        /\ \A p : Apart(p, s) => Apart(p, Tail(s)) /\ Without(p, Head(s).tup)
<1> DEFINE t == Tail(s)
           n == Len(s)
<1>1. n \in Nat /\ n # 0 /\ DOMAIN s = 1..n BY EmptySeq
<1>2. t \in Seq(QueueEntry) /\ Len(t) = n - 1 /\ Head(s) = s[1] BY <1>1
<1>3. DOMAIN t = 1..n - 1 /\ \A i \in 1..n - 1 : t[i] = s[1 + i] BY <1>1, <1>2
<1> HIDE DEF t, n
<1>4. \A i \in DOMAIN t : 1 + i \in DOMAIN s /\ t[i] = s[1 + i] /\ 1 + i # 1 BY <1>1, <1>3
<1>5. 1 \in DOMAIN s BY <1>1
<1>6. Elements(s) \subseteq {s[1]} \cup Elements(t)
  <2> SUFFICES ASSUME NEW i \in 1..n, i # 1 PROVE s[i] \in Elements(t) BY <1>1 DEF Elements
  <2>1. i - 1 \in DOMAIN t /\ t[i - 1] = s[i] BY <1>1, <1>3
  <2> QED BY <2>1 DEF Elements
<1>7. /\ Elements(t) \subseteq Elements(s)
      /\ Single(s) => Single(t)
      /\ \A p : Apart(s, p) => Apart(t, p)
      /\ \A p : Apart(p, s) => Apart(p, t)
  BY <1>2, <1>4, PieceFacts
<1>8. s[1] \in Elements(s) BY <1>5 DEF Elements
<1>9. Single(s) => Without(t, s[1].tup) BY <1>4, <1>5 DEF Single, Without
<1>10. \A p : (Apart(s, p) \/ Apart(p, s)) => Without(p, s[1].tup) BY <1>5 DEF Apart, Without
<1> QED BY <1>2, <1>6, <1>7, <1>8, <1>9, <1>10 DEF t, n

LEMMA RangeEnd ==
  ASSUME NEW m \in Nat, NEW n \in Nat, 1..m = 1..n
  PROVE m = n
<1>1. n \in 1..m \/ n = 0 BY n \in 1..n \/ n = 0
<1>2. m \in 1..n \/ m = 0 BY m \in 1..m \/ m = 0
<1> QED BY <1>1, <1>2

\* a is the first n entries of q, b the rest.
Cut(q, n, a, b) ==
  /\ DOMAIN a = 1..n /\ \A i \in 1..n : a[i] = q[i]
  /\ DOMAIN b = 1..(Len(q) - n) /\ \A i \in 1..(Len(q) - n) : b[i] = q[n + i]

LEMMA CutSubSeq ==
  ASSUME NEW q \in Seq(QueueEntry), NEW n \in 0..Len(q)
  PROVE /\ SubSeq(q, 1, n) \in Seq(QueueEntry) /\ SubSeq(q, n + 1, Len(q)) \in Seq(QueueEntry)
        /\ Cut(q, n, SubSeq(q, 1, n), SubSeq(q, n + 1, Len(q)))
<1> DEFINE a == SubSeq(q, 1, n)
           b == SubSeq(q, n + 1, Len(q))
<1>0. Len(q) \in Nat /\ n \in Nat /\ n <= Len(q) OBVIOUS
<1>1. a \in Seq(QueueEntry) /\ DOMAIN a = 1..n /\ \A i \in 1..n : a[i] = q[i]
  BY <1>0
<1>2. b \in Seq(QueueEntry) /\ DOMAIN b = 1..(Len(q) - n) /\ \A i \in 1..(Len(q) - n) : b[i] = q[n + i]
  BY <1>0
<1> QED BY <1>1, <1>2 DEF Cut

LEMMA CutFacts ==
  ASSUME NEW q \in Seq(QueueEntry), NEW n \in 0..Len(q),
         NEW a \in Seq(QueueEntry), NEW b \in Seq(QueueEntry), Cut(q, n, a, b)
  PROVE /\ Elements(q) = Elements(a) \cup Elements(b)
        /\ Len(a) + Len(b) = Len(q)
        /\ Single(q) => Single(a) /\ Single(b) /\ Apart(b, a)
        /\ \A p : Apart(q, p) => Apart(a, p) /\ Apart(b, p)
        /\ \A p : Apart(p, q) => Apart(p, a) /\ Apart(p, b)
        /\ \A e \in Elements(a) : \E i \in 1..n : e = q[i]
<1>0. Len(q) \in Nat /\ n \in Nat /\ n <= Len(q) /\ DOMAIN q = 1..Len(q) OBVIOUS
<1>1. DOMAIN a = 1..n /\ \A i \in 1..n : a[i] = q[i]
  BY DEF Cut
<1>2. DOMAIN b = 1..(Len(q) - n) /\ \A i \in 1..(Len(q) - n) : b[i] = q[n + i]
  BY DEF Cut
<1>3. \A i \in DOMAIN a : 0 + i \in DOMAIN q /\ a[i] = q[0 + i] BY <1>0, <1>1
<1>4. \A i \in DOMAIN b : n + i \in DOMAIN q /\ b[i] = q[n + i] BY <1>0, <1>2
<1>5. /\ Elements(a) \subseteq Elements(q)
      /\ Single(q) => Single(a)
      /\ \A p : Apart(q, p) => Apart(a, p)
      /\ \A p : Apart(p, q) => Apart(p, a)
  BY <1>1, <1>3, PieceFacts
<1>6. /\ Elements(b) \subseteq Elements(q)
      /\ Single(q) => Single(b)
      /\ \A p : Apart(q, p) => Apart(b, p)
      /\ \A p : Apart(p, q) => Apart(p, b)
  BY <1>0, <1>2, <1>4, PieceFacts
<1>7. Elements(q) \subseteq Elements(a) \cup Elements(b)
  <2> SUFFICES ASSUME NEW i \in 1..Len(q) PROVE q[i] \in Elements(a) \cup Elements(b)
    BY <1>0 DEF Elements
  <2>1. CASE i <= n
    <3>1. i \in DOMAIN a /\ a[i] = q[i] BY <1>0, <1>1, <2>1
    <3> QED BY <3>1 DEF Elements
  <2>2. CASE i > n
    <3>1. i - n \in DOMAIN b /\ b[i - n] = q[i] BY <1>0, <1>2, <2>2
    <3> QED BY <3>1 DEF Elements
  <2> QED BY <1>0, <2>1, <2>2
<1>8. ASSUME Single(q) PROVE Apart(b, a)
  <2>1. ASSUME NEW i \in DOMAIN b, NEW j \in DOMAIN a PROVE b[i].tup # a[j].tup
    <3>1. /\ n + i \in DOMAIN q /\ j \in DOMAIN q /\ n + i # j
          /\ b[i] = q[n + i] /\ a[j] = q[j]
      BY <1>0, <1>1, <1>2
    <3> QED BY <1>8, <3>1 DEF Single
  <2> QED BY <2>1 DEF Apart
<1>9. \A e \in Elements(a) : \E i \in 1..n : e = q[i] BY <1>1 DEF Elements
<1>10. Len(a) + Len(b) = Len(q)
  <2>1. Len(a) \in Nat /\ DOMAIN a = 1..Len(a) /\ Len(b) \in Nat /\ DOMAIN b = 1..Len(b) OBVIOUS
  <2>2. Len(a) = n BY <1>0, <1>1, <2>1, RangeEnd
  <2>3. Len(b) = Len(q) - n
    <3>1. Len(q) - n \in Nat BY <1>0
    <3> QED BY <1>2, <2>1, <3>1, RangeEnd
  <2> QED BY <1>0, <2>2, <2>3
<1> QED BY <1>1, <1>2, <1>5, <1>6, <1>7, <1>8, <1>9, <1>10

\* One core's queue grows by entries of tuples that have none.
LEMMA AppendPlace ==
  ASSUME NEW q \in Queues, NEW s \in Queues, NEW c \in Cores, NEW es \in Seq(QueueEntry),
         OnePlaceIn(q, s), Single(es),
         \A d \in Cores : Apart(q[d], es) /\ Apart(s[d], es),
         NEW r \in Queues, r[c] = q[c] \o es, \A d \in Cores : d # c => r[d] = q[d]
  PROVE OnePlaceIn(r, s)
<1>0. q[c] \in Seq(QueueEntry) BY DEF Queues
<1>1. \A p, u : Apart(p, u) => Apart(u, p) BY DEF Apart
<1>2. /\ Single(r[c])
      /\ \A p : Apart(q[c], p) /\ Apart(es, p) => Apart(r[c], p)
      /\ \A p : Apart(p, q[c]) /\ Apart(p, es) => Apart(p, r[c])
  BY <1>0, ConcatFacts DEF OnePlaceIn
<1>3. ASSUME NEW d \in Cores PROVE Single(r[d]) /\ Single(s[d])
  BY <1>2 DEF OnePlaceIn
<1>4. ASSUME NEW d \in Cores, NEW f \in Cores PROVE Apart(r[d], s[f])
  BY <1>1, <1>2 DEF OnePlaceIn
<1>5. ASSUME NEW d \in Cores, NEW f \in Cores, d # f PROVE Apart(r[d], r[f]) /\ Apart(s[d], s[f])
  BY <1>1, <1>2, <1>5 DEF OnePlaceIn
<1> QED BY <1>3, <1>4, <1>5 DEF OnePlaceIn

\* One core's scratch queue loses its head.
LEMMA DropPlace ==
  ASSUME NEW q \in Queues, NEW s \in Queues, NEW c \in Cores, OnePlaceIn(q, s), s[c] # << >>,
         NEW r \in Queues, r[c] = Tail(s[c]), \A d \in Cores : d # c => r[d] = s[d]
  PROVE /\ OnePlaceIn(q, r)
        /\ \A d \in Cores : Without(q[d], Head(s[c]).tup) /\ Without(r[d], Head(s[c]).tup)
<1>0. s[c] \in Seq(QueueEntry) BY DEF Queues
<1>2. /\ Single(s[c]) => Single(r[c]) /\ Without(r[c], Head(s[c]).tup)
      /\ \A p : Apart(s[c], p) => Apart(r[c], p) /\ Without(p, Head(s[c]).tup)
      /\ \A p : Apart(p, s[c]) => Apart(p, r[c]) /\ Without(p, Head(s[c]).tup)
  BY <1>0, TailFacts
<1>3. ASSUME NEW d \in Cores PROVE Single(q[d]) /\ Single(r[d])
  BY <1>2 DEF OnePlaceIn
<1>4. ASSUME NEW d \in Cores, NEW f \in Cores PROVE Apart(q[d], r[f])
  BY <1>2 DEF OnePlaceIn
<1>5. ASSUME NEW d \in Cores, NEW f \in Cores, d # f PROVE Apart(q[d], q[f]) /\ Apart(r[d], r[f])
  BY <1>2, <1>5 DEF OnePlaceIn
<1>6. ASSUME NEW d \in Cores PROVE Without(q[d], Head(s[c]).tup) /\ Without(r[d], Head(s[c]).tup)
  BY <1>2 DEF OnePlaceIn
<1> QED BY <1>3, <1>4, <1>5, <1>6 DEF OnePlaceIn

\* One core's queue is split.
LEMMA SplitPlace ==
  ASSUME NEW q \in Queues, NEW s \in Queues, NEW c \in Cores, OnePlaceIn(q, s),
         NEW n \in 0..Len(q[c]), NEW r \in Queues, NEW u \in Queues, Cut(q[c], n, u[c], r[c]),
         \A d \in Cores : d # c => r[d] = q[d] /\ u[d] = s[d]
  PROVE OnePlaceIn(r, u)
<1>0. q[c] \in Seq(QueueEntry) /\ r[c] \in Seq(QueueEntry) /\ u[c] \in Seq(QueueEntry)
  BY DEF Queues
<1>1. \A p, v : Apart(p, v) => Apart(v, p) BY DEF Apart
<1>2. /\ Single(q[c]) => Single(u[c]) /\ Single(r[c]) /\ Apart(r[c], u[c])
      /\ \A p : Apart(q[c], p) => Apart(u[c], p) /\ Apart(r[c], p)
      /\ \A p : Apart(p, q[c]) => Apart(p, u[c]) /\ Apart(p, r[c])
  BY <1>0, CutFacts
<1>3. ASSUME NEW d \in Cores PROVE Single(r[d]) /\ Single(u[d])
  BY <1>2 DEF OnePlaceIn
<1>4. ASSUME NEW d \in Cores, NEW f \in Cores PROVE Apart(r[d], u[f])
  BY <1>1, <1>2 DEF OnePlaceIn
<1>5. ASSUME NEW d \in Cores, NEW f \in Cores, d # f PROVE Apart(r[d], r[f]) /\ Apart(u[d], u[f])
  BY <1>1, <1>2, <1>5 DEF OnePlaceIn
<1> QED BY <1>3, <1>4, <1>5 DEF OnePlaceIn

\* The entry for tuple n that a write of epoch e queues.
Mark(n, key, e) == [tup |-> n, key |-> key, tick |-> to_read_only_tick(e)]

LEMMA MarkFacts ==
  ASSUME NEW n \in Tuples, NEW key \in BOOLEAN, NEW e \in Nat
  PROVE /\ Mark(n, key, e) \in QueueEntry
        /\ Mark(n, key, e).tup = n /\ Mark(n, key, e).key = key /\ Mark(n, key, e).tick = Ro(e)
<1>1. to_read_only_tick(e) \in Nat BY RoNat DEF Ro
<1> QED BY <1>1 DEF Mark, QueueEntry, Ro

LEMMA ShortFacts ==
  /\ << >> \in Seq(QueueEntry) /\ Elements(<< >>) = {} /\ Len(<< >>) = 0 /\ Single(<< >>)
  /\ \A e \in QueueEntry : /\ <<e>> \in Seq(QueueEntry) /\ Elements(<<e>>) = {e}
                           /\ Len(<<e>>) = 1 /\ Single(<<e>>)
  BY DEF Elements, Single

\* At most one entry, and only about tuple n.
Short(s, n) ==
  /\ s \in Seq(QueueEntry) /\ Len(s) <= 1 /\ Single(s)
  /\ \A i \in DOMAIN s : s[i].tup = n

LEMMA ShortOne ==
  ASSUME NEW n \in Tuples, NEW key \in BOOLEAN, NEW e \in Nat
  PROVE /\ Short(<<Mark(n, key, e)>>, n) /\ Elements(<<Mark(n, key, e)>>) = {Mark(n, key, e)}
        /\ Short(<< >>, n)
<1> DEFINE m == Mark(n, key, e)
<1>1. m \in QueueEntry /\ m.tup = n BY MarkFacts
<1> HIDE DEF m
<1>2. Short(<<m>>, n) /\ Elements(<<m>>) = {m} BY <1>1 DEF Short, Single, Elements
<1>3. Short(<< >>, n) BY DEF Short, Single
<1> QED BY <1>2, <1>3 DEF m

\* What a write of epoch e queues for the tuple n it deletes,
LEMMA DeleteFacts ==
  ASSUME NEW n \in Tuples, NEW del \in BOOLEAN, NEW e \in Nat
  PROVE /\ Short(on_logical_delete(n, del, e), n)
        /\ Elements(on_logical_delete(n, del, e)) = IF del THEN {Mark(n, TRUE, e)} ELSE {}
<1>1. CASE del
  <2>1. on_logical_delete(n, del, e) = <<Mark(n, TRUE, e)>> BY <1>1 DEF on_logical_delete, Mark
  <2>2. Short(<<Mark(n, TRUE, e)>>, n) /\ Elements(<<Mark(n, TRUE, e)>>) = {Mark(n, TRUE, e)}
    BY ShortOne
  <2> QED BY <1>1, <2>1, <2>2
<1>2. CASE ~del
  <2>1. on_logical_delete(n, del, e) = << >> BY <1>2 DEF on_logical_delete
  <2>2. Short(<< >>, n) /\ Elements(<< >>) = {} BY ShortOne, ShortFacts
  <2> QED BY <1>2, <2>1, <2>2
<1> QED BY <1>1, <1>2

\* and for the tuple n it supersedes.
LEMMA SpillFacts ==
  ASSUME NEW n \in Tuples, NEW e \in Nat
  PROVE /\ Short(on_dbtuple_spill(n, e), n)
        /\ Elements(on_dbtuple_spill(n, e)) = IF tup[n].del THEN {} ELSE {Mark(n, FALSE, e)}
<1>1. CASE ~tup[n].del
  <2>1. on_dbtuple_spill(n, e) = <<Mark(n, FALSE, e)>> BY <1>1 DEF on_dbtuple_spill, Mark
  <2>2. Short(<<Mark(n, FALSE, e)>>, n) /\ Elements(<<Mark(n, FALSE, e)>>) = {Mark(n, FALSE, e)}
    BY ShortOne
  <2> QED BY <1>1, <2>1, <2>2
<1>2. CASE tup[n].del
  <2>1. on_dbtuple_spill(n, e) = << >> BY <1>2 DEF on_dbtuple_spill
  <2>2. Short(<< >>, n) /\ Elements(<< >>) = {} BY ShortOne, ShortFacts
  <2> QED BY <1>2, <2>1, <2>2
<1> QED BY <1>1, <1>2

LEMMA ShortPair ==
  ASSUME NEW a \in Tuples, NEW b \in Tuples, a # b, NEW s, Short(s, a), NEW t, Short(t, b)
  PROVE /\ s \o t \in Seq(QueueEntry) /\ Elements(s \o t) = Elements(s) \cup Elements(t)
        /\ Len(s \o t) <= 2 /\ Single(s \o t)
<1>1. s \in Seq(QueueEntry) /\ t \in Seq(QueueEntry) /\ Single(s) /\ Single(t) BY DEF Short
<1>2. Apart(s, t) BY DEF Short, Apart
<1>3. /\ s \o t \in Seq(QueueEntry) /\ Elements(s \o t) = Elements(s) \cup Elements(t)
      /\ Len(s \o t) = Len(s) + Len(t) /\ Single(s \o t)
  BY <1>1, <1>2, ConcatFacts
<1>4. Len(s) \in Nat /\ Len(t) \in Nat /\ Len(s) <= 1 /\ Len(t) <= 1 BY <1>1 DEF Short
<1> QED BY <1>3, <1>4

\* A core's queue grows by entries of tuples that have none.
LEMMA Enqueued ==
  ASSUME Types, SafeInv, NEW c \in Cores, NEW es \in Seq(QueueEntry), Enqueue(c, es),
         UNCHANGED scratch_, Single(es), \A e \in Elements(es) : ~HasEntry(e.tup)
  PROVE /\ queue_' \in Queues /\ OnePlace'
        /\ Len(queue_'[c]) = Len(queue_[c]) + Len(es)
        /\ \A d \in Cores : d # c => queue_'[d] = queue_[d]
        /\ EntriesOf(c)' = EntriesOf(c) \cup Elements(es)
        /\ \A d \in Cores : d # c => EntriesOf(d)' = EntriesOf(d)
<1>0. queue_ \in Queues /\ scratch_ \in Queues /\ OnePlaceIn(queue_, scratch_)
  BY DEF Types, Queues, SafeInv, OnePlace
<1>1. queue_[c] \in Seq(QueueEntry) BY <1>0 DEF Queues
<1>2. queue_[c] \o es \in Seq(QueueEntry) /\ Elements(queue_[c] \o es) = Elements(queue_[c]) \cup Elements(es)
      /\ Len(queue_[c] \o es) = Len(queue_[c]) + Len(es)
  BY <1>1, ConcatFacts
<1>3. /\ queue_' \in Queues /\ queue_'[c] = queue_[c] \o es
      /\ \A d \in Cores : d # c => queue_'[d] = queue_[d]
  BY <1>0, <1>2 DEF Enqueue, Queues
<1>4. ASSUME NEW d \in Cores PROVE Apart(queue_[d], es) /\ Apart(scratch_[d], es)
  <2>1. \A i \in DOMAIN es : es[i] \in Elements(es) BY DEF Elements
  <2>2. \A i \in DOMAIN queue_[d] : queue_[d][i] \in EntriesOf(d) BY DEF EntriesOf, Elements
  <2>3. \A i \in DOMAIN scratch_[d] : scratch_[d][i] \in EntriesOf(d) BY DEF EntriesOf, Elements
  <2> QED BY <2>1, <2>2, <2>3 DEF Apart, HasEntry
<1>5. OnePlaceIn(queue_', scratch_) BY <1>0, <1>3, <1>4, AppendPlace
<1>6. OnePlace' BY <1>5 DEF OnePlace, OnePlaceIn, Single, Apart
<1>7. EntriesOf(c)' = EntriesOf(c) \cup Elements(es)
  <2>1. EntriesOf(c)' = Elements(queue_'[c]) \cup Elements(scratch_[c]) BY DEF EntriesOf, Elements
  <2> QED BY <1>2, <1>3, <2>1 DEF EntriesOf
<1>8. \A d \in Cores : d # c => EntriesOf(d)' = EntriesOf(d) BY <1>3 DEF EntriesOf, Elements
<1> QED BY <1>2, <1>3, <1>6, <1>7, <1>8

\* A core's scratch queue loses its head.
LEMMA Dropped ==
  ASSUME Types, SafeInv, NEW c \in Cores, Reaping(c), DropEntry(c)
  PROVE /\ scratch_' \in Queues /\ OnePlaceIn(queue_, scratch_')
        /\ Len(scratch_'[c]) = Len(scratch_[c]) - 1
        /\ \A d \in Cores : d # c => scratch_'[d] = scratch_[d]
        /\ EntriesOf(c) = Elements(queue_[c]) \cup Elements(scratch_'[c]) \cup {Entry(c)}
        /\ Elements(scratch_'[c]) \subseteq Elements(scratch_[c])
        /\ Entry(c) \in Elements(scratch_[c])
        /\ \A d \in Cores : Without(queue_[d], Entry(c).tup) /\ Without(scratch_'[d], Entry(c).tup)
<1>0. queue_ \in Queues /\ scratch_ \in Queues /\ OnePlaceIn(queue_, scratch_)
  BY DEF Types, Queues, SafeInv, OnePlace
<1>1. scratch_[c] \in Seq(QueueEntry) /\ scratch_[c] # << >> BY EntryFacts
<1>2. /\ Tail(scratch_[c]) \in Seq(QueueEntry) /\ Len(Tail(scratch_[c])) = Len(scratch_[c]) - 1
      /\ Elements(scratch_[c]) = {Entry(c)} \cup Elements(Tail(scratch_[c]))
  BY <1>1, TailFacts DEF Entry
<1>3. /\ scratch_' \in Queues /\ scratch_'[c] = Tail(scratch_[c])
      /\ \A d \in Cores : d # c => scratch_'[d] = scratch_[d]
  BY <1>0, <1>2 DEF DropEntry, Queues
<1>4. /\ OnePlaceIn(queue_, scratch_')
      /\ \A d \in Cores : Without(queue_[d], Entry(c).tup) /\ Without(scratch_'[d], Entry(c).tup)
  BY <1>0, <1>1, <1>3, DropPlace DEF Entry
<1> QED BY <1>2, <1>3, <1>4 DEF EntriesOf

\* A tuple that is not in use, or the head of the chain unless deleted, has no
\* entry.
LEMMA NoEntry ==
  ASSUME SafeInv, NEW n \in Tuples, tup[n].st # "used" \/ (n = root /\ ~tup[n].del)
  PROVE ~HasEntry(n)
<1>1. \A d \in Cores : \A e \in EntriesOf(d) : EntryInv(e) BY DEF SafeInv, QueueInv
<1> QED BY <1>1 DEF HasEntry, EntryInv

\* Core c has queued the entries E.
Queued(c, E) ==
  /\ queue_' \in Queues /\ scratch_' = scratch_ /\ OnePlace'
  /\ Len(queue_'[c]) <= Len(queue_[c]) + 2
  /\ \A d \in Cores : d # c => queue_'[d] = queue_[d]
  /\ EntriesOf(c)' = EntriesOf(c) \cup E
  /\ \A d \in Cores : d # c => EntriesOf(d)' = EntriesOf(d)

LEMMA QueuedBy ==
  ASSUME Types, SafeInv, NEW c \in Cores, NEW es \in Seq(QueueEntry), Enqueue(c, es),
         UNCHANGED scratch_, Single(es), Len(es) <= 2, \A e \in Elements(es) : ~HasEntry(e.tup)
  PROVE Queued(c, Elements(es))
<1>1. /\ queue_' \in Queues /\ OnePlace'
      /\ Len(queue_'[c]) = Len(queue_[c]) + Len(es)
      /\ \A d \in Cores : d # c => queue_'[d] = queue_[d]
      /\ EntriesOf(c)' = EntriesOf(c) \cup Elements(es)
      /\ \A d \in Cores : d # c => EntriesOf(d)' = EntriesOf(d)
  BY Enqueued
<1>2. Len(queue_[c]) \in Nat /\ Len(es) \in Nat BY DEF Types
<1>3. Len(queue_'[c]) <= Len(queue_[c]) + 2 BY <1>1, <1>2
<1> QED BY <1>1, <1>3 DEF Queued

LEMMA InPlaceQueued ==
  ASSUME Types, SafeInv, NEW c \in Cores, NEW del \in BOOLEAN, WriteInPlace(c, del)
  PROVE Queued(c, IF del THEN {Mark(root, TRUE, tx[c].ce)} ELSE {})
<1>0. tx[c].pc = "write" /\ ~tup[root].del /\ UNCHANGED scratch_
  BY DEF WriteInPlace, At, Overwritable
<1>1. root \in Tuples /\ tx[c].ce \in Nat BY <1>0, WriterFacts
<1> DEFINE es == on_logical_delete(root, del, tx[c].ce)
<1>2. Enqueue(c, es) BY DEF WriteInPlace
<1>3. Short(es, root) /\ Elements(es) = IF del THEN {Mark(root, TRUE, tx[c].ce)} ELSE {}
  BY <1>1, DeleteFacts
<1>4. ~HasEntry(root) BY <1>0, <1>1, NoEntry
<1> HIDE DEF es
<1>5. es \in Seq(QueueEntry) /\ Single(es) /\ Len(es) <= 2
  <2>1. es \in Seq(QueueEntry) /\ Single(es) /\ Len(es) <= 1 BY <1>3 DEF Short
  <2> QED BY <2>1
<1>6. \A e \in Elements(es) : ~HasEntry(e.tup) BY <1>3, <1>4 DEF Short, Elements
<1>7. Queued(c, Elements(es)) BY <1>0, <1>2, <1>5, <1>6, QueuedBy
<1> QED BY <1>3, <1>7

LEMMA SpillQueued ==
  ASSUME Types, SafeInv, NEW c \in Cores, NEW del \in BOOLEAN, WriteSpill(c, del)
  PROVE \E s \in Tuples :
          /\ Fresh(s) /\ s # root
          /\ tup'[s] = tup[root]
          /\ tup'[root] = NewVersion(c, del, s)
          /\ \A p \in Tuples : p # root /\ p # s => tup'[p] = tup[p]
          /\ Queued(c, {Mark(s, FALSE, tx[c].ce)} \cup IF del THEN {Mark(root, TRUE, tx[c].ce)} ELSE {})
<1>0. tx[c].pc = "write" /\ ~tup[root].del /\ UNCHANGED scratch_ BY DEF WriteSpill, At
<1>1. root \in Tuples /\ tx[c].ce \in Nat BY <1>0, WriterFacts
<1>2. PICK s \in Tuples :
          /\ Fresh(s) /\ s # root
          /\ tup'[s] = tup[root]
          /\ tup'[root] = NewVersion(c, del, s)
          /\ \A p \in Tuples : p # root /\ p # s => tup'[p] = tup[p]
          /\ Enqueue(c, <<[tup |-> s, key |-> FALSE, tick |-> to_read_only_tick(tx[c].ce)]>>
                          \o on_logical_delete(root, del, tx[c].ce))
  BY SpillForm
<1> DEFINE u == <<Mark(s, FALSE, tx[c].ce)>>
           v == on_logical_delete(root, del, tx[c].ce)
<1>3. Enqueue(c, u \o v) BY <1>2 DEF Mark
<1>4. /\ Short(u, s) /\ Elements(u) = {Mark(s, FALSE, tx[c].ce)}
      /\ Short(v, root) /\ Elements(v) = IF del THEN {Mark(root, TRUE, tx[c].ce)} ELSE {}
  BY <1>1, ShortOne, DeleteFacts
<1> HIDE DEF u, v
<1>5. /\ u \o v \in Seq(QueueEntry) /\ Single(u \o v) /\ Len(u \o v) <= 2
      /\ Elements(u \o v) = Elements(u) \cup Elements(v)
  <2>1. s \in Tuples /\ root \in Tuples /\ s # root BY <1>1, <1>2
  <2>2. Short(u, s) /\ Short(v, root) BY <1>4
  <2> QED BY <2>1, <2>2, ShortPair
<1>6. ~HasEntry(root) /\ ~HasEntry(s)
  <2>1. tup[s].st # "used" BY <1>2 DEF Fresh
  <2> QED BY <1>0, <1>1, <2>1, NoEntry
<1>7. \A e \in Elements(u \o v) : ~HasEntry(e.tup) BY <1>4, <1>5, <1>6 DEF Short, Elements
<1>8. Queued(c, Elements(u \o v)) BY <1>0, <1>3, <1>5, <1>7, QueuedBy
<1> QED BY <1>2, <1>4, <1>5, <1>8

LEMMA ReplaceQueued ==
  ASSUME Types, SafeInv, NEW c \in Cores, NEW del \in BOOLEAN, WriteReplace(c, del)
  PROVE \E rep \in Tuples :
          /\ Fresh(rep) /\ rep # root /\ root' = rep
          /\ tup'[rep] = NewVersion(c, del, root)
          /\ \A p \in Tuples : p # rep => tup'[p] = tup[p]
          /\ Queued(c, (IF tup[root].del THEN {} ELSE {Mark(root, FALSE, tx[c].ce)})
                         \cup IF del THEN {Mark(rep, TRUE, tx[c].ce)} ELSE {})
<1>0. tx[c].pc = "write" /\ UNCHANGED scratch_ BY DEF WriteReplace, At
<1>1. root \in Tuples /\ tx[c].ce \in Nat /\ tup[root].del \in BOOLEAN
  BY <1>0, WriterFacts DEF TupleType
<1>2. PICK rep \in Tuples :
          /\ Fresh(rep) /\ rep # root /\ root' = rep
          /\ Becomes(rep, NewVersion(c, del, root))
          /\ Enqueue(c, on_dbtuple_spill(root, tx[c].ce) \o on_logical_delete(rep, del, tx[c].ce))
  BY ReplaceForm
<1> DEFINE u == on_dbtuple_spill(root, tx[c].ce)
           v == on_logical_delete(rep, del, tx[c].ce)
<1>3. Enqueue(c, u \o v) BY <1>2
<1>4. /\ Short(u, root) /\ Elements(u) = IF tup[root].del THEN {} ELSE {Mark(root, FALSE, tx[c].ce)}
      /\ Short(v, rep) /\ Elements(v) = IF del THEN {Mark(rep, TRUE, tx[c].ce)} ELSE {}
  BY <1>1, SpillFacts, DeleteFacts
<1> HIDE DEF u, v
<1>5. /\ u \o v \in Seq(QueueEntry) /\ Single(u \o v) /\ Len(u \o v) <= 2
      /\ Elements(u \o v) = Elements(u) \cup Elements(v)
  <2>1. root \in Tuples /\ rep \in Tuples /\ root # rep BY <1>1, <1>2
  <2>2. Short(u, root) /\ Short(v, rep) BY <1>4
  <2> QED BY <2>1, <2>2, ShortPair
<1>6. (~tup[root].del => ~HasEntry(root)) /\ ~HasEntry(rep)
  <2>1. tup[rep].st # "used" BY <1>2 DEF Fresh
  <2> QED BY <1>1, <2>1, NoEntry
<1>7. \A e \in Elements(u \o v) : ~HasEntry(e.tup)
  <2>1. ASSUME NEW e \in Elements(v) PROVE ~HasEntry(e.tup)
    BY <1>4, <1>6, <2>1 DEF Short, Elements
  <2>2. ASSUME NEW e \in Elements(u) PROVE ~HasEntry(e.tup)
    <3>1. ~tup[root].del BY <1>4, <2>2
    <3>2. e.tup = root BY <1>4, <2>2 DEF Short, Elements
    <3> QED BY <1>6, <3>1, <3>2
  <2> QED BY <1>5, <2>1, <2>2
<1>8. Queued(c, Elements(u \o v)) BY <1>0, <1>3, <1>5, <1>7, QueuedBy
<1>9. /\ tup'[rep] = NewVersion(c, del, root)
      /\ \A p \in Tuples : p # rep => tup'[p] = tup[p]
  <2>1. NewVersion(c, del, root) \in TupleType BY <1>0, <1>1, NewVersionFacts
  <2>2. tup \in [Tuples -> TupleType] BY DEF Types
  <2> QED BY <1>2, <2>1, <2>2, BecomesType
<1> QED BY <1>2, <1>4, <1>5, <1>8, <1>9

\* The collector's own steps.
LEMMA RequeueForm ==
  ASSUME Types, SafeInv, NEW c \in Cores, GcRequeue(c)
  PROVE /\ queue_' \in Queues /\ scratch_' \in Queues /\ OnePlace'
        /\ Len(queue_'[c]) = Len(queue_[c]) + 1 /\ Len(scratch_'[c]) = Len(scratch_[c]) - 1
        /\ \A d \in Cores : d # c => queue_'[d] = queue_[d] /\ scratch_'[d] = scratch_[d]
        /\ Elements(queue_'[c]) = Elements(queue_[c]) \cup {Mark(Entry(c).tup, FALSE, current_tick_)}
        /\ Elements(scratch_'[c]) \subseteq Elements(scratch_[c])
        /\ EntriesOf(c) = Elements(queue_[c]) \cup Elements(scratch_'[c]) \cup {Entry(c)}
<1> DEFINE e == Mark(Entry(c).tup, FALSE, current_tick_)
<1>0. Reaping(c) /\ DropEntry(c) /\ Enqueue(c, <<e>>) BY DEF GcRequeue, Mark
<1>1. /\ scratch_' \in Queues /\ OnePlaceIn(queue_, scratch_')
      /\ Len(scratch_'[c]) = Len(scratch_[c]) - 1
      /\ \A d \in Cores : d # c => scratch_'[d] = scratch_[d]
      /\ EntriesOf(c) = Elements(queue_[c]) \cup Elements(scratch_'[c]) \cup {Entry(c)}
      /\ Elements(scratch_'[c]) \subseteq Elements(scratch_[c])
      /\ \A d \in Cores : Without(queue_[d], Entry(c).tup) /\ Without(scratch_'[d], Entry(c).tup)
  BY <1>0, Dropped
<1>2. e \in QueueEntry /\ e.tup = Entry(c).tup
  BY <1>0, EntryFacts, ClockNat, MarkFacts
<1> HIDE DEF e
<1> DEFINE es == <<e>>
<1>3. es \in Seq(QueueEntry) /\ Elements(es) = {e} /\ Len(es) = 1 /\ Single(es)
      /\ \A i \in DOMAIN es : es[i] = e
  BY <1>2, ShortFacts
<1> HIDE DEF es
<1>4. \A d \in Cores : Apart(queue_[d], es) /\ Apart(scratch_'[d], es)
  BY <1>1, <1>2, <1>3 DEF Apart, Without
<1>5. queue_ \in Queues /\ queue_[c] \in Seq(QueueEntry) BY DEF Types, Queues
<1>6. /\ queue_[c] \o es \in Seq(QueueEntry) /\ Len(queue_[c] \o es) = Len(queue_[c]) + 1
      /\ Elements(queue_[c] \o es) = Elements(queue_[c]) \cup {e}
  BY <1>3, <1>5, ConcatFacts
<1>7. /\ queue_' \in Queues /\ queue_'[c] = queue_[c] \o es
      /\ \A d \in Cores : d # c => queue_'[d] = queue_[d]
  BY <1>0, <1>5, <1>6 DEF Enqueue, Queues, es
<1>8. OnePlaceIn(queue_', scratch_')
  <2>1. queue_ \in Queues /\ scratch_' \in Queues /\ es \in Seq(QueueEntry) /\ queue_' \in Queues
    BY ONLY <1>1, <1>3, <1>5, <1>7
  <2>2. OnePlaceIn(queue_, scratch_') /\ Single(es) BY ONLY <1>1, <1>3
  <2> QED BY <1>4, <1>7, <2>1, <2>2, AppendPlace, Zenon
<1>9. OnePlace' BY <1>8 DEF OnePlace, OnePlaceIn, Single, Apart
<1> QED BY <1>1, <1>6, <1>7, <1>9 DEF e

LEMMA StartForm ==
  ASSUME Types, SafeInv, NEW c \in Cores, GcStart(c)
  PROVE /\ queue_' \in Queues /\ scratch_' \in Queues /\ OnePlace'
        /\ Len(queue_'[c]) + Len(scratch_'[c]) = Len(queue_[c])
        /\ \A d \in Cores : d # c => queue_'[d] = queue_[d] /\ scratch_'[d] = scratch_[d]
        /\ Elements(queue_[c]) = Elements(queue_'[c]) \cup Elements(scratch_'[c])
        /\ scratch_[c] = << >>
        /\ \A e \in Elements(scratch_'[c]) : e.tick <= ro_tick_ex - 1
<1>0. queue_ \in Queues /\ scratch_ \in Queues /\ OnePlaceIn(queue_, scratch_) /\ TxInv(c)
  BY DEF Types, Queues, SafeInv, OnePlace
<1>1. queue_[c] \in Seq(QueueEntry) BY <1>0 DEF Queues
<1>2. scratch_[c] = << >> BY <1>0 DEF GcStart, At, TxInv
<1>3. PICK n \in 0..Len(queue_[c]) :
       /\ Accepted(queue_[c], ro_tick_ex - 1, n)
       /\ scratch_' = [scratch_ EXCEPT ![c] = SubSeq(queue_[c], 1, n)]
       /\ queue_' = [queue_ EXCEPT ![c] = SubSeq(queue_[c], n + 1, Len(queue_[c]))]
  BY DEF GcStart
<1> DEFINE a == SubSeq(queue_[c], 1, n)
           b == SubSeq(queue_[c], n + 1, Len(queue_[c]))
<1>4. a \in Seq(QueueEntry) /\ b \in Seq(QueueEntry) /\ Cut(queue_[c], n, a, b)
  BY <1>1, CutSubSeq
<1>5. scratch_' = [scratch_ EXCEPT ![c] = a] /\ queue_' = [queue_ EXCEPT ![c] = b] BY <1>3
<1> HIDE DEF a, b
<1>6. /\ queue_' \in Queues /\ scratch_' \in Queues /\ queue_'[c] = b /\ scratch_'[c] = a
      /\ \A d \in Cores : d # c => queue_'[d] = queue_[d] /\ scratch_'[d] = scratch_[d]
  BY <1>0, <1>4, <1>5 DEF Queues
<1>7. /\ Elements(queue_[c]) = Elements(a) \cup Elements(b)
      /\ Len(a) + Len(b) = Len(queue_[c])
      /\ \A e \in Elements(a) : \E i \in 1..n : e = queue_[c][i]
  BY <1>1, <1>4, CutFacts
<1>8. \A e \in Elements(a) : e.tick <= ro_tick_ex - 1 BY <1>3, <1>7 DEF Accepted
<1>9. OnePlaceIn(queue_', scratch_') BY <1>0, <1>4, <1>6, SplitPlace
<1>10. OnePlace' BY <1>9 DEF OnePlace, OnePlaceIn, Single, Apart
<1>11. Len(b) + Len(a) = Len(queue_[c])
  <2>1. Len(a) \in Nat /\ Len(b) \in Nat BY <1>4
  <2> QED BY <1>7, <2>1
<1> QED BY <1>2, <1>6, <1>7, <1>8, <1>10, <1>11

LEMMA TickIsRo ==
  ASSUME Types
  PROVE ro_tick_ex = Ro(last_tick_inclusive_)
<1>1. last_tick_inclusive_ \in Nat BY ClockNat
<1>2. global_last_tick_exclusive - 1 = last_tick_inclusive_ BY <1>1 DEF global_last_tick_exclusive
<1> QED BY <1>2 DEF ro_tick_ex, Ro

LEMMA Fits ==
  ASSUME NEW a \in Nat, NEW b \in Nat
  PROVE /\ a <= a + b /\ a + 1 + (b - 1) <= a + b /\ a + (b - 1) <= a + b
  OBVIOUS

LEMMA Room ==
  ASSUME NEW a \in Nat, NEW b \in Nat, NEW w \in Nat, a + b <= 2 * w - 2,
         NEW x \in Nat, NEW y \in Nat, NEW v \in Nat,
         \/ v = w /\ x + y <= a + b
         \/ v = w + 1 /\ y = b /\ x <= a + 2
  PROVE x + y <= 2 * v - 2
  OBVIOUS

\* The queues keep their types, have one entry per tuple, and stay short.
QueueTypes ==
  /\ queue_ \in Queues /\ scratch_ \in Queues /\ last_reaped_epoch_ \in [Cores -> Nat]
  /\ OnePlace
  /\ \A d \in Cores : Len(queue_[d]) + Len(scratch_[d]) <= 2 * Len(writes) - 2
  /\ Len(writes) <= MaxWrites

LEMMA QueueStep ==
  ASSUME Types, SafeInv, [Next]_vars
  PROVE QueueTypes'
<1>t. QueueTypes BY DEF Types, SafeInv, QueueInv, QueueTypes, Queues
<1>n. /\ Len(writes) \in Nat /\ MaxWrites \in Nat
      /\ \A d \in Cores : Len(queue_[d]) \in Nat /\ Len(scratch_[d]) \in Nat
  BY GCAssumption DEF Types
<1>o. ASSUME UNCHANGED gcVars PROVE OnePlace'
  BY <1>t, <1>o DEF gcVars, QueueTypes, OnePlace, OnePlaceIn, Single, Apart
<1>u. ASSUME UNCHANGED <<gcVars, writes>> PROVE QueueTypes'
  <2>1. OnePlace' BY <1>o, <1>u
  <2> QED BY <1>t, <1>u, <2>1 DEF gcVars, QueueTypes
<1>w. ASSUME NEW c \in Cores, NEW del, Wrote(c, del), Len(writes) < MaxWrites
      PROVE Len(writes)' = Len(writes) + 1 /\ Len(writes)' <= MaxWrites
  BY <1>n, <1>w DEF Wrote, Types
<1>q. ASSUME NEW c \in Cores, NEW E, Queued(c, E), UNCHANGED last_reaped_epoch_,
             Len(writes)' = Len(writes) + 1, Len(writes)' <= MaxWrites
      PROVE QueueTypes'
  <2>1. ASSUME NEW d \in Cores PROVE Len(queue_'[d]) + Len(scratch_'[d]) <= 2 * Len(writes)' - 2
    <3>1. Len(queue_'[d]) \in Nat /\ Len(queue_'[d]) <= Len(queue_[d]) + 2
      <4>1. CASE d = c BY <1>n, <1>q, <4>1 DEF Queued, Queues
      <4>2. CASE d # c
        <5>1. queue_'[d] = queue_[d] BY <1>q, <4>2, Zenon DEF Queued
        <5>2. Len(queue_[d]) \in Nat BY <1>n, Zenon
        <5> QED BY ONLY <5>1, <5>2
      <4> QED BY <4>1, <4>2, Zenon
    <3>2. Len(queue_[d]) + Len(scratch_[d]) <= 2 * Len(writes) - 2 BY <1>t DEF QueueTypes
    <3>3. scratch_'[d] = scratch_[d] BY <1>q DEF Queued
    <3>4. Len(writes)' \in Nat BY <1>n, <1>q
    <3>5. Len(scratch_'[d]) \in Nat /\ Len(scratch_'[d]) = Len(scratch_[d]) BY <1>n, <3>3
    <3>6. Len(writes) \in Nat /\ Len(queue_[d]) \in Nat /\ Len(scratch_[d]) \in Nat
          /\ Len(writes)' = Len(writes) + 1
      BY <1>n, <1>q, Zenon
    <3> QED BY ONLY <3>1, <3>2, <3>4, <3>5, <3>6, Room
  <2> QED BY <1>t, <1>q, <2>1 DEF QueueTypes, Queued
<1>1. ASSUME NEW c \in Cores,
             \/ Begin(c) \/ BeginSnapshot(c) \/ End(c) \/ SnapshotSearch(c) \/ SnapshotVisit(c)
             \/ Search(c) \/ Lock(c) \/ Insert(c) \/ InsertTid(c) \/ AbortInsert(c) \/ AbortLocked(c)
             \/ GcSkip(c) \/ GcEnd(c)
      PROVE UNCHANGED <<gcVars, writes>>
  BY <1>1 DEF Begin, BeginSnapshot, End, SnapshotSearch, SnapshotVisit, Search, Lock, Insert,
              InsertTid, AbortInsert, AbortLocked, GcSkip, GcEnd, dataVars
<1>2. ASSUME NEW c \in Cores, CommitInsert(c) PROVE QueueTypes'
  <2>1. Len(writes)' = Len(writes) + 1 /\ Len(writes)' <= MaxWrites BY <1>w, <1>2 DEF CommitInsert
  <2>2. UNCHANGED gcVars BY <1>2 DEF CommitInsert
  <2>3. \A d \in Cores : Len(queue_[d]) + Len(scratch_[d]) <= 2 * Len(writes)' - 2
    <3> SUFFICES ASSUME NEW d \in Cores
                 PROVE Len(queue_[d]) + Len(scratch_[d]) <= 2 * Len(writes)' - 2
      OBVIOUS
    <3>1. Len(queue_[d]) + Len(scratch_[d]) <= 2 * Len(writes) - 2 BY <1>t DEF QueueTypes
    <3>2. Len(queue_[d]) <= Len(queue_[d]) + 2 /\ Len(writes)' \in Nat BY <1>n, <2>1
    <3> QED BY <1>n, <2>1, <3>1, <3>2, Room
  <2>4. OnePlace' BY <1>o, <2>2
  <2> QED BY <1>t, <2>1, <2>2, <2>3, <2>4 DEF gcVars, QueueTypes
<1>3. ASSUME NEW c \in Cores, NEW del \in BOOLEAN, WriteInPlace(c, del) PROVE QueueTypes'
  BY <1>q, <1>w, <1>3, InPlaceQueued DEF WriteInPlace
<1>4. ASSUME NEW c \in Cores, NEW del \in BOOLEAN, WriteSpill(c, del) PROVE QueueTypes'
  <2>1. \E E : Queued(c, E) BY <1>4, SpillQueued
  <2> QED BY <1>q, <1>w, <1>4, <2>1 DEF WriteSpill
<1>5. ASSUME NEW c \in Cores, NEW del \in BOOLEAN, WriteReplace(c, del) PROVE QueueTypes'
  <2>1. \E E : Queued(c, E) BY <1>5, ReplaceQueued
  <2> QED BY <1>q, <1>w, <1>5, <2>1 DEF WriteReplace
<1>6. ASSUME NEW c \in Cores, GcStart(c) PROVE QueueTypes'
  <2>1. ro_tick_ex - 1 \in Nat
    <3>1. /\ ro_tick_ex = Ro(last_tick_inclusive_) /\ ro_tick_ex # 0
      <4>1. ro_tick_ex # 0 BY <1>6 DEF GcStart
      <4> QED BY <4>1, TickIsRo
    <3>2. ro_tick_ex \in Nat BY <3>1, ClockNat, RoNat
    <3> QED BY <3>1, <3>2
  <2>2. last_reaped_epoch_' \in [Cores -> Nat] BY <1>t, <1>6, <2>1 DEF GcStart, QueueTypes
  <2>3. /\ queue_' \in Queues /\ scratch_' \in Queues /\ OnePlace'
        /\ Len(queue_'[c]) + Len(scratch_'[c]) = Len(queue_[c])
        /\ \A d \in Cores : d # c => queue_'[d] = queue_[d] /\ scratch_'[d] = scratch_[d]
    BY <1>6, StartForm
  <2>4. UNCHANGED writes BY <1>6 DEF GcStart, dataVars
  <2>5. ASSUME NEW d \in Cores PROVE Len(queue_'[d]) + Len(scratch_'[d]) <= 2 * Len(writes) - 2
    <3>1. Len(queue_[d]) + Len(scratch_[d]) <= 2 * Len(writes) - 2 BY <1>t DEF QueueTypes
    <3>2. CASE d = c
      <4>1. Len(queue_'[c]) \in Nat /\ Len(scratch_'[c]) \in Nat BY <2>3 DEF Queues
      <4>0. Len(queue_[c]) \in Nat /\ Len(scratch_[c]) \in Nat BY <1>n
      <4>2. Len(queue_'[c]) + Len(scratch_'[c]) <= Len(queue_[c]) + Len(scratch_[c])
        BY <2>3, <4>0, Fits
      <4> QED BY <1>n, <3>1, <3>2, <4>0, <4>1, <4>2, Room
    <3>3. CASE d # c BY <2>3, <3>1, <3>3
    <3> QED BY <3>2, <3>3
  <2> QED BY <1>t, <2>2, <2>3, <2>4, <2>5 DEF QueueTypes
<1>7. ASSUME NEW c \in Cores, GcRequeue(c) PROVE QueueTypes'
  <2>1. /\ queue_' \in Queues /\ scratch_' \in Queues /\ OnePlace'
        /\ Len(queue_'[c]) = Len(queue_[c]) + 1 /\ Len(scratch_'[c]) = Len(scratch_[c]) - 1
        /\ \A d \in Cores : d # c => queue_'[d] = queue_[d] /\ scratch_'[d] = scratch_[d]
    BY <1>7, RequeueForm
  <2>2. UNCHANGED <<writes, last_reaped_epoch_>> BY <1>7 DEF GcRequeue, dataVars
  <2>3. ASSUME NEW d \in Cores PROVE Len(queue_'[d]) + Len(scratch_'[d]) <= 2 * Len(writes) - 2
    <3>1. Len(queue_[d]) + Len(scratch_[d]) <= 2 * Len(writes) - 2 BY <1>t DEF QueueTypes
    <3>2. CASE d = c
      <4>1. Len(queue_'[c]) \in Nat /\ Len(scratch_'[c]) \in Nat BY <2>1 DEF Queues
      <4>2. Len(queue_'[c]) + Len(scratch_'[c]) <= Len(queue_[c]) + Len(scratch_[c])
        <5>1. Len(queue_[c]) \in Nat /\ Len(scratch_[c]) \in Nat BY <1>n
        <5> QED BY <2>1, <4>1, <5>1, Fits
      <4> QED BY <1>n, <3>1, <3>2, <4>1, <4>2, Room
    <3>3. CASE d # c BY <2>1, <3>1, <3>3
    <3> QED BY <3>2, <3>3
  <2> QED BY <1>t, <2>1, <2>2, <2>3 DEF QueueTypes
<1>8. ASSUME NEW c \in Cores, GcFree(c) \/ GcRemove(c) PROVE QueueTypes'
  <2>0. Reaping(c) /\ DropEntry(c) /\ UNCHANGED <<queue_, last_reaped_epoch_, writes>>
    BY <1>8 DEF GcFree, GcRemove
  <2>1. /\ scratch_' \in Queues /\ OnePlaceIn(queue_, scratch_')
        /\ Len(scratch_'[c]) = Len(scratch_[c]) - 1
        /\ \A d \in Cores : d # c => scratch_'[d] = scratch_[d]
    BY <2>0, Dropped
  <2>2. OnePlace' BY <2>0, <2>1 DEF OnePlace, OnePlaceIn, Single, Apart
  <2>3. ASSUME NEW d \in Cores PROVE Len(queue_[d]) + Len(scratch_'[d]) <= 2 * Len(writes) - 2
    <3>1. Len(queue_[d]) + Len(scratch_[d]) <= 2 * Len(writes) - 2 BY <1>t DEF QueueTypes
    <3>2. CASE d = c
      <4>1. Len(queue_[c]) \in Nat /\ Len(scratch_'[c]) \in Nat BY <1>n, <2>1 DEF Queues
      <4>2. Len(queue_[c]) + Len(scratch_'[c]) <= Len(queue_[c]) + Len(scratch_[c])
        <5>1. Len(queue_[c]) \in Nat /\ Len(scratch_[c]) \in Nat BY <1>n
        <5> QED BY <2>1, <4>1, <5>1, Fits
      <4> QED BY <1>n, <3>1, <3>2, <4>1, <4>2, Room
    <3>3. CASE d # c BY <2>1, <3>1, <3>3
    <3> QED BY <3>2, <3>3
  <2> QED BY <1>t, <2>0, <2>1, <2>2, <2>3 DEF QueueTypes
<1>9. ASSUME NEW n \in Tuples, RcuFree(n) PROVE UNCHANGED <<gcVars, writes>>
  BY <1>9 DEF RcuFree
<1>10. CASE Ticking BY <1>u, <1>10 DEF Ticking, dataVars
<1>11. CASE UNCHANGED vars BY <1>u, <1>11 DEF vars, dataVars
<1> QED
  BY <1>u, <1>1, <1>2, <1>3, <1>4, <1>5, <1>6, <1>7, <1>8, <1>9, <1>10, <1>11 DEF Next

LEMMA TypesStep ==
  ASSUME Types, SafeInv, [Next]_vars
  PROVE Types'
<1>1. ClockTypeOK' BY ClockStep
<1>2. tx' \in [Cores -> TxType] BY TxsStep
<1>3. DataTypes' BY DataStep
<1>4. QueueTypes' BY QueueStep
<1> QED BY <1>1, <1>2, <1>3, <1>4 DEF Types, DataTypes, QueueTypes, Queues

-----------------------------------------------------------------------------
(* What a core's place says, preserved.                                    *)

LEMMA Within ==
  ASSUME NEW x \in Nat, NEW m \in Nat, NEW n \in Nat, x <= m + 1, m <= n
  PROVE x \in 0..n + 1
  OBVIOUS

LEMMA BoundForward ==
  ASSUME Types, SafeInv, [Next]_vars, NEW d \in Cores, BoundInv(d),
         tx'[d].b = tx[d].b, inside'[d] = inside[d]
  PROVE BoundInv(d)'
<1>1. PICK x \in 0..last_tick_inclusive_ + 1 :
        tx[d].b = ComputeReadOnlyTid(x) /\ inside[d] <= x + 1
  BY DEF BoundInv
<1>2. last_tick_inclusive_ \in Nat /\ last_tick_inclusive_ <= last_tick_inclusive_'
      /\ last_tick_inclusive_' \in Nat
  <2>1. last_tick_inclusive_ \in Nat BY ClockNat
  <2>2. last_tick_inclusive_' \in 0..MaxTick BY ClockStep DEF ClockTypeOK
  <2> QED BY <2>1, <2>2, ClockStep
<1>3. x \in 0..last_tick_inclusive_' + 1
  <2>1. x \in Nat /\ x <= last_tick_inclusive_ + 1 BY <1>2
  <2> QED BY <1>2, <2>1, Within
<1> QED BY <1>1, <1>3 DEF BoundInv, ComputeReadOnlyTid, to_read_only_tick

\* A core that does not move keeps its place.
LEMMA OtherTx ==
  ASSUME Types, SafeInv, [Next]_vars, NEW d \in Cores, tx'[d] = tx[d],
         inside'[d] = inside[d], scratch_'[d] = scratch_[d], lockr' = d <=> lockr = d
  PROVE TxInv(d)'
<1>1. TxInv(d) BY DEF SafeInv
<1>2. BoundInv(d) => BoundInv(d)' BY BoundForward
<1>3. ASSUME tx[d].pc \in {"write", "publish"} PROVE tx[d].ce <= current_tick_'
  <2>1. tx[d].ce <= current_tick_ /\ tx[d].ce \in Nat BY <1>1, <1>3 DEF TxInv, Types, TxType
  <2>2. current_tick_ \in Nat BY ClockNat
  <2>3. current_tick_' \in 1..MaxTick /\ MaxTick \in Nat BY ClockStep, ClockAssumption DEF ClockTypeOK
  <2>4. current_tick_ <= current_tick_' BY ClockStep
  <2> QED BY <2>1, <2>2, <2>3, <2>4
<1> QED BY <1>1, <1>2, <1>3 DEF TxInv

LEMMA OthersTx ==
  ASSUME Types, SafeInv, [Next]_vars, NEW c \in Cores,
         \A d \in Cores : d # c => /\ tx'[d] = tx[d] /\ inside'[d] = inside[d]
                                   /\ scratch_'[d] = scratch_[d],
         \/ lockr' = lockr \/ (lockr = 0 /\ lockr' = c) \/ (lockr = c /\ lockr' = 0)
  PROVE \A d \in Cores : d # c => TxInv(d)'
<1>1. ASSUME NEW d \in Cores, d # c PROVE lockr' = d <=> lockr = d BY <1>1 DEF Cores
<1> QED BY <1>1, OtherTx

LEMMA TxInvStep ==
  ASSUME Types, SafeInv, [Next]_vars, NEW d \in Cores
  PROVE TxInv(d)'
<1>t. /\ tx \in [Cores -> TxType] /\ inside \in [Cores -> 0..MaxTick] /\ scratch_ \in Queues
      /\ 0 \notin Cores
  BY DEF Types, ClockTypeOK, Queues, Cores
<1>n. /\ current_tick_ \in Nat /\ last_tick_inclusive_ \in Nat
      /\ \A c \in Cores : inside[c] \in Nat /\ inside[c] <= current_tick_
      /\ current_tick_ # 0
  <2>1. current_tick_ \in 1..MaxTick BY DEF Types, ClockTypeOK
  <2> QED BY <2>1, ClockNat DEF SafeInv, ClockInv
<1>u. ASSUME UNCHANGED <<tx, inside, scratch_, lockr>> PROVE TxInv(d)'
  BY <1>u, OtherTx
<1>1. ASSUME NEW c \in Cores, Begin(c) PROVE TxInv(d)'
  <2>0. TxInv(c) /\ tx[c] \in TxType /\ tx[c].pc = "none" BY <1>t, <1>1 DEF SafeInv, Begin, At
  <2>1. PICK pc \in {"rw", "ro_begin"} : Put(c, [tx[c] EXCEPT !.pc = pc]) BY <1>1, TxForm
  <2>2. [tx[c] EXCEPT !.pc = pc] \in TxType BY <2>0, TxUpdate DEF Open
  <2>3. /\ tx'[c] = [tx[c] EXCEPT !.pc = pc] /\ \A e \in Cores : e # c => tx'[e] = tx[e]
    BY <1>t, <2>1, <2>2, PutType
  <2>4. /\ inside'[c] = current_tick_ /\ \A e \in Cores : e # c => inside'[e] = inside[e]
        /\ UNCHANGED <<scratch_, lockr>>
    BY <1>t, <1>1 DEF Begin, Enter, gcVars, dataVars
  <2>5. TxInv(c)'
    BY <1>n, <2>0, <2>3, <2>4 DEF TxInv, TxType, Open, Closed, Inserting
  <2> QED BY <2>3, <2>4, <2>5, OthersTx
<1>2. ASSUME NEW c \in Cores, BeginSnapshot(c) PROVE TxInv(d)'
  <2>0. TxInv(c) /\ tx[c] \in TxType /\ tx[c].pc = "ro_begin" BY <1>t, <1>2 DEF SafeInv, BeginSnapshot, At
  <2> DEFINE b == ComputeReadOnlyTid(global_last_tick_exclusive)
  <2>1. Put(c, [tx[c] EXCEPT !.pc = "ro", !.b = b]) BY <1>2, TxForm
  <2>2. UNCHANGED <<last_tick_inclusive_, inside, scratch_, lockr, current_tick_>>
    BY <1>2 DEF BeginSnapshot, gcVars, dataVars, clockVars
  <2>3. global_last_tick_exclusive \in Nat BY <1>n DEF global_last_tick_exclusive
  <2>4. b \in Nat BY <2>3, Aligned
  <2>5. [tx[c] EXCEPT !.pc = "ro", !.b = b] \in TxType
    <3> HIDE DEF b
    <3> QED BY <2>0, <2>4, TxUpdate DEF Open
  <2>6. /\ tx'[c] = [tx[c] EXCEPT !.pc = "ro", !.b = b] /\ \A e \in Cores : e # c => tx'[e] = tx[e]
    BY <1>t, <2>1, <2>5, PutType
  <2>7. BoundInv(c)'
    <3>1. tx'[c].b = b BY <2>0, <2>6 DEF TxType
    <3>2. inside[c] <= last_tick_inclusive_ + 2
      BY <1>n DEF SafeInv, ClockInv
    <3>3. /\ last_tick_inclusive_ + 1 \in 0..last_tick_inclusive_ + 1
          /\ inside[c] <= last_tick_inclusive_ + 1 + 1
      BY <1>n, <3>2
    <3>4. b = ComputeReadOnlyTid(last_tick_inclusive_ + 1) BY DEF global_last_tick_exclusive
    <3> HIDE DEF b
    <3>5. \E x \in 0..last_tick_inclusive_ + 1 : tx'[c].b = ComputeReadOnlyTid(x) /\ inside[c] <= x + 1
      BY <3>1, <3>3, <3>4
    <3> QED BY <2>2, <3>5 DEF BoundInv, ComputeReadOnlyTid, to_read_only_tick
  <2> HIDE DEF b
  <2>8. TxInv(c)'
    BY <2>0, <2>2, <2>6, <2>7 DEF TxInv, TxType, Open, Closed, Inserting
  <2> QED BY <2>2, <2>6, <2>8, OthersTx
<1>3. ASSUME NEW c \in Cores, End(c) PROVE TxInv(d)'
  <2>0. TxInv(c) /\ tx[c] \in TxType /\ tx[c].pc \in {"rw", "ro"} BY <1>t, <1>3 DEF SafeInv, End
  <2>1. Put(c, [NoTxn EXCEPT !.pc = "gc"]) BY <1>3, TxForm
  <2>2. [NoTxn EXCEPT !.pc = "gc"] \in TxType BY <2>0, TxUpdate
  <2>3. /\ tx'[c] = [NoTxn EXCEPT !.pc = "gc"] /\ \A e \in Cores : e # c => tx'[e] = tx[e]
    BY <1>t, <2>1, <2>2, PutType
  <2>4. /\ \A e \in Cores : e # c => inside'[e] = inside[e]
        /\ UNCHANGED <<scratch_, lockr>>
    BY <1>t, <1>3 DEF End, Leave, gcVars
  <2>5. TxInv(c)'
    BY <2>0, <2>3, <2>4 DEF TxInv, NoTxn, Open, Closed, Inserting
  <2> QED BY <2>3, <2>4, <2>5, OthersTx
<1>4. ASSUME NEW c \in Cores, SnapshotSearch(c) PROVE TxInv(d)'
  <2>0. TxInv(c) /\ tx[c] \in TxType /\ tx[c].pc = "ro" /\ root \in Tuples \cup {null}
    BY <1>t, <1>4 DEF SafeInv, SnapshotSearch, At, Types
  <2>1. UNCHANGED <<last_tick_inclusive_, inside, scratch_, lockr, current_tick_>>
    BY <1>4 DEF SnapshotSearch, gcVars, dataVars, clockVars
  <2>2. CASE root = null
    <3>1. Put(c, [tx[c] EXCEPT !.got = 0]) BY <1>4, <2>2, TxForm
    <3>2. [tx[c] EXCEPT !.got = 0] \in TxType BY <2>0, 0 \in Int, TxUpdate
    <3>3. /\ tx'[c] = [tx[c] EXCEPT !.got = 0] /\ \A e \in Cores : e # c => tx'[e] = tx[e]
      BY <1>t, <3>1, <3>2, PutType
    <3>4. BoundInv(c)' BY <2>0, <2>1, <3>3, BoundForward DEF TxInv, TxType
    <3>5. TxInv(c)' BY <2>0, <2>1, <3>3, <3>4 DEF TxInv, TxType, Open, Closed, Inserting
    <3> QED BY <2>1, <3>3, <3>5, OthersTx
  <2>3. CASE root # null
    <3>1. Put(c, [tx[c] EXCEPT !.pc = "walk", !.cur = root]) BY <1>4, <2>3, TxForm
    <3>2. [tx[c] EXCEPT !.pc = "walk", !.cur = root] \in TxType BY <2>0, <2>3, TxUpdate DEF Open
    <3>3. /\ tx'[c] = [tx[c] EXCEPT !.pc = "walk", !.cur = root]
          /\ \A e \in Cores : e # c => tx'[e] = tx[e]
      BY <1>t, <3>1, <3>2, PutType
    <3>4. BoundInv(c)' BY <2>0, <2>1, <3>3, BoundForward DEF TxInv, TxType
    <3>5. TxInv(c)' BY <2>0, <2>1, <2>3, <3>3, <3>4 DEF TxInv, TxType, Open, Closed, Inserting
    <3> QED BY <2>1, <3>3, <3>5, OthersTx
  <2> QED BY <2>2, <2>3
<1>5. ASSUME NEW c \in Cores, SnapshotVisit(c) PROVE TxInv(d)'
  <2>0. TxInv(c) /\ tx[c] \in TxType /\ tx[c].pc = "walk"
    BY <1>t, <1>5 DEF SafeInv, SnapshotVisit, At
  <2>1. UNCHANGED <<last_tick_inclusive_, inside, scratch_, lockr, current_tick_>>
    BY <1>5 DEF SnapshotVisit, gcVars, dataVars, clockVars
  <2>2. VisitForm(c) /\ tx[c].cur \in Tuples BY <1>5, VisitCases
  <2>3. ASSUME NEW g \in Int, Put(c, Found(c, g)) PROVE TxInv(d)'
    <3>2. Found(c, g) \in TxType BY <2>0, TxUpdate DEF Found, Open
    <3>3. /\ tx'[c] = Found(c, g) /\ \A e \in Cores : e # c => tx'[e] = tx[e]
      BY <1>t, <2>3, <3>2, PutType
    <3>4. BoundInv(c)' BY <2>0, <2>1, <3>3, BoundForward DEF TxInv, TxType, Found
    <3>5. TxInv(c)' BY <2>0, <2>1, <3>3, <3>4 DEF TxInv, TxType, Found, Open, Closed, Inserting
    <3> QED BY <2>1, <3>3, <3>5, OthersTx
  <2>4. ASSUME NEW n \in Tuples, Put(c, [tx[c] EXCEPT !.cur = n]) PROVE TxInv(d)'
    <3>2. [tx[c] EXCEPT !.cur = n] \in TxType BY <2>0, TxUpdate
    <3>3. /\ tx'[c] = [tx[c] EXCEPT !.cur = n] /\ \A e \in Cores : e # c => tx'[e] = tx[e]
      BY <1>t, <2>4, <3>2, PutType
    <3>4. BoundInv(c)' BY <2>0, <2>1, <3>3, BoundForward DEF TxInv, TxType
    <3>5. n # null BY DEF Tuples, null
    <3>6. TxInv(c)' BY <2>0, <2>1, <3>3, <3>4, <3>5 DEF TxInv, TxType, Open, Closed, Inserting
    <3> QED BY <2>1, <3>3, <3>6, OthersTx
  <2> DEFINE t == tup[tx[c].cur]
  <2>5. t.w \in Int /\ t.next \in Tuples \cup {null}
    <3>1. t \in TupleType BY <2>2 DEF Types
    <3> QED BY <3>1 DEF TupleType
  <2>6. (IF t.del THEN 0 ELSE t.w) \in Int /\ 0 \in Int BY <2>5
  <2>7. \/ Put(c, Found(c, 0)) \/ Put(c, Found(c, IF t.del THEN 0 ELSE t.w))
        \/ t.next # null /\ Put(c, [tx[c] EXCEPT !.cur = t.next])
    BY <2>2 DEF VisitForm
  <2> HIDE DEF t
  <2> QED BY <2>3, <2>4, <2>5, <2>6, <2>7
<1>6. ASSUME NEW c \in Cores, Search(c) PROVE TxInv(d)'
  <2>0. TxInv(c) /\ tx[c] \in TxType /\ tx[c].pc = "rw" /\ root \in Tuples
    BY <1>t, <1>6 DEF SafeInv, Search, At, Types
  <2>1. UNCHANGED <<inside, scratch_, lockr>> BY <1>6 DEF Search, gcVars, dataVars, clockVars
  <2>2. Put(c, [tx[c] EXCEPT !.held = tx[c].held \cup {root}]) BY <1>6, TxForm
  <2>3. [tx[c] EXCEPT !.held = tx[c].held \cup {root}] \in TxType BY <2>0, TxUpdate
  <2>4. /\ tx'[c] = [tx[c] EXCEPT !.held = tx[c].held \cup {root}]
        /\ \A e \in Cores : e # c => tx'[e] = tx[e]
    BY <1>t, <2>2, <2>3, PutType
  <2>5. TxInv(c)' BY <2>0, <2>1, <2>4 DEF TxInv, TxType, Open, Closed, Inserting
  <2> QED BY <2>1, <2>4, <2>5, OthersTx
<1>7. ASSUME NEW c \in Cores, Lock(c) PROVE TxInv(d)'
  <2>0. TxInv(c) /\ tx[c] \in TxType /\ tx[c].pc = "rw" BY <1>t, <1>7 DEF SafeInv, Lock, At
  <2>1. /\ UNCHANGED <<inside, scratch_, current_tick_>> /\ lockr = 0 /\ lockr' = c
    BY <1>7 DEF Lock, gcVars, clockVars
  <2>2. Put(c, [tx[c] EXCEPT !.pc = "write", !.ce = current_tick_]) BY <1>7, TxForm
  <2>3. [tx[c] EXCEPT !.pc = "write", !.ce = current_tick_] \in TxType BY <1>n, <2>0, TxUpdate DEF Open
  <2>4. /\ tx'[c] = [tx[c] EXCEPT !.pc = "write", !.ce = current_tick_]
        /\ \A e \in Cores : e # c => tx'[e] = tx[e]
    BY <1>t, <2>2, <2>3, PutType
  <2>5. TxInv(c)' BY <1>n, <2>0, <2>1, <2>4 DEF TxInv, TxType, Open, Closed, Inserting
  <2> QED BY <2>1, <2>4, <2>5, OthersTx
<1>8. ASSUME NEW c \in Cores, Insert(c) PROVE TxInv(d)'
  <2>0. TxInv(c) /\ tx[c] \in TxType /\ tx[c].pc = "rw" BY <1>t, <1>8 DEF SafeInv, Insert, At
  <2>1. /\ UNCHANGED <<inside, scratch_>> /\ lockr = 0 /\ lockr' = c
    BY <1>8 DEF Insert, gcVars, clockVars, SafeInv, RootInv
  <2>2. PICK n \in Tuples : Put(c, [tx[c] EXCEPT !.pc = "inserted", !.held = tx[c].held \cup {n}])
    BY <1>8, TupleForm
  <2>3. [tx[c] EXCEPT !.pc = "inserted", !.held = tx[c].held \cup {n}] \in TxType
    BY <2>0, TxUpdate DEF Open
  <2>4. /\ tx'[c] = [tx[c] EXCEPT !.pc = "inserted", !.held = tx[c].held \cup {n}]
        /\ \A e \in Cores : e # c => tx'[e] = tx[e]
    BY <1>t, <2>2, <2>3, PutType
  <2>5. TxInv(c)' BY <2>0, <2>1, <2>4 DEF TxInv, TxType, Open, Closed, Inserting
  <2> QED BY <2>1, <2>4, <2>5, OthersTx
<1>9. ASSUME NEW c \in Cores, InsertTid(c) PROVE TxInv(d)'
  <2>0. TxInv(c) /\ tx[c] \in TxType /\ tx[c].pc = "inserted" BY <1>t, <1>9 DEF SafeInv, InsertTid, At
  <2>1. UNCHANGED <<inside, scratch_, lockr, current_tick_>>
    BY <1>9 DEF InsertTid, gcVars, clockVars, dataVars
  <2>2. Put(c, [tx[c] EXCEPT !.pc = "publish", !.ce = current_tick_]) BY <1>9, TxForm
  <2>3. [tx[c] EXCEPT !.pc = "publish", !.ce = current_tick_] \in TxType BY <1>n, <2>0, TxUpdate DEF Open
  <2>4. /\ tx'[c] = [tx[c] EXCEPT !.pc = "publish", !.ce = current_tick_]
        /\ \A e \in Cores : e # c => tx'[e] = tx[e]
    BY <1>t, <2>2, <2>3, PutType
  <2>5. TxInv(c)' BY <1>n, <2>0, <2>1, <2>4 DEF TxInv, TxType, Open, Closed, Inserting
  <2> QED BY <2>1, <2>4, <2>5, OthersTx
<1>10. ASSUME NEW c \in Cores, tx[c].pc \in {"write"} \cup Inserting,
              Put(c, [tx[c] EXCEPT !.pc = "rw", !.ce = 0]),
              UNCHANGED <<inside, scratch_>>, lockr' = 0
       PROVE TxInv(d)'
  <2>0. TxInv(c) /\ tx[c] \in TxType /\ lockr = c BY <1>t, <1>10, WriterFacts DEF SafeInv
  <2>1. [tx[c] EXCEPT !.pc = "rw", !.ce = 0] \in TxType BY <2>0, 0 \in Nat, TxUpdate DEF Open
  <2>2. /\ tx'[c] = [tx[c] EXCEPT !.pc = "rw", !.ce = 0]
        /\ \A e \in Cores : e # c => tx'[e] = tx[e]
    BY <1>t, <1>10, <2>1, PutType
  <2>3. TxInv(c)' BY <1>t, <1>10, <2>0, <2>2 DEF TxInv, TxType, Open, Closed, Inserting
  <2> QED BY <1>10, <2>0, <2>2, <2>3, OthersTx
<1>11. ASSUME NEW c \in Cores, AbortInsert(c) \/ CommitInsert(c) \/ AbortLocked(c) PROVE TxInv(d)'
  <2>1. /\ tx[c].pc \in {"write"} \cup Inserting
        /\ UNCHANGED <<inside, scratch_>> /\ lockr' = 0
    BY <1>11 DEF AbortInsert, CommitInsert, AbortLocked, Wrote, At, Inserting, clockVars, gcVars
  <2>2. Put(c, [tx[c] EXCEPT !.pc = "rw", !.ce = 0]) BY <1>11, TxForm
  <2> QED BY <1>10, <2>1, <2>2
<1>12. ASSUME NEW c \in Cores, NEW del \in BOOLEAN,
              WriteInPlace(c, del) \/ WriteSpill(c, del) \/ WriteReplace(c, del)
       PROVE TxInv(d)'
  <2>1. /\ tx[c].pc \in {"write"} \cup Inserting
        /\ UNCHANGED <<inside, scratch_>> /\ lockr' = 0
    BY <1>12 DEF WriteInPlace, WriteSpill, WriteReplace, Wrote, At, clockVars
  <2>2. Put(c, [tx[c] EXCEPT !.pc = "rw", !.ce = 0]) BY <1>12, TxForm
  <2> QED BY <1>10, <2>1, <2>2
<1>13. ASSUME NEW c \in Cores, GcSkip(c) \/ GcEnd(c) PROVE TxInv(d)'
  <2>0. TxInv(c) /\ tx[c] \in TxType /\ tx[c].pc \in {"gc", "reap"} /\ scratch_[c] = << >>
    BY <1>t, <1>13 DEF SafeInv, GcSkip, GcEnd, At, TxInv
  <2>1. Put(c, NoTxn) BY <1>13, TxForm
  <2>2. NoTxn \in TxType BY <2>0, TxUpdate
  <2>3. tx'[c] = NoTxn /\ \A e \in Cores : e # c => tx'[e] = tx[e]
    BY <1>t, <2>1, <2>2, PutType
  <2>4. /\ \A e \in Cores : e # c => inside'[e] = inside[e]
        /\ UNCHANGED <<scratch_, lockr>>
    BY <1>t, <1>13 DEF GcSkip, GcEnd, gcVars, clockVars, dataVars
  <2>5. TxInv(c)' BY <2>0, <2>3, <2>4 DEF TxInv, NoTxn, Open, Closed, Inserting
  <2> QED BY <2>3, <2>4, <2>5, OthersTx
<1>14. ASSUME NEW c \in Cores, GcStart(c) PROVE TxInv(d)'
  <2>0. TxInv(c) /\ tx[c] \in TxType /\ tx[c].pc = "gc" BY <1>t, <1>14 DEF SafeInv, GcStart, At
  <2>1. Put(c, [tx[c] EXCEPT !.pc = "reap"]) BY <1>14, TxForm
  <2>2. [tx[c] EXCEPT !.pc = "reap"] \in TxType BY <2>0, TxUpdate DEF Closed
  <2>3. /\ tx'[c] = [tx[c] EXCEPT !.pc = "reap"] /\ \A e \in Cores : e # c => tx'[e] = tx[e]
    BY <1>t, <2>1, <2>2, PutType
  <2>4. /\ \A e \in Cores : e # c => scratch_'[e] = scratch_[e]
        /\ UNCHANGED <<inside, lockr>>
    BY <1>14, StartForm DEF GcStart, clockVars, dataVars
  <2>5. TxInv(c)' BY <2>0, <2>3, <2>4 DEF TxInv, TxType, Open, Closed, Inserting
  <2> QED BY <2>3, <2>4, <2>5, OthersTx
<1>15. ASSUME NEW c \in Cores, GcFree(c) \/ GcRequeue(c) \/ GcRemove(c) PROVE TxInv(d)'
  <2>0. TxInv(c) /\ tx[c] \in TxType /\ tx[c].pc = "reap"
    BY <1>t, <1>15 DEF SafeInv, GcFree, GcRequeue, GcRemove, Reaping, At
  <2>1. /\ \A e \in Cores : e # c => scratch_'[e] = scratch_[e] /\ inside'[e] = inside[e]
        /\ UNCHANGED <<tx, lockr>>
    BY <1>t, <1>15 DEF GcFree, GcRequeue, GcRemove, DropEntry, clockVars, dataVars, Queues
  <2>2. TxInv(c)' BY <2>0, <2>1 DEF TxInv, Open, Closed, Inserting
  <2> QED BY <2>1, <2>2, OthersTx
<1>16. ASSUME NEW n \in Tuples, RcuFree(n) PROVE TxInv(d)'
  BY <1>u, <1>16 DEF RcuFree, clockVars, gcVars
<1>17. CASE Ticking
  BY <1>u, <1>17 DEF Ticking, Clock, Advance, Complete, dataVars, gcVars
<1>18. CASE UNCHANGED vars BY <1>u, <1>18 DEF vars, clockVars, dataVars, gcVars
<1> QED
  BY <1>1, <1>2, <1>3, <1>4, <1>5, <1>6, <1>7, <1>8, <1>9, <1>11, <1>12, <1>13, <1>14, <1>15,
     <1>16, <1>17, <1>18 DEF Next

\* Only core c's transaction moves: it becomes t.
Only(c, t) == tx'[c] = t /\ \A e \in Cores : e # c => tx'[e] = tx[e]

LEMMA TxMoves ==
  ASSUME Types, SafeInv, NEW c \in Cores
  PROVE /\ Begin(c) => \E pc \in {"rw", "ro_begin"} : Only(c, [tx[c] EXCEPT !.pc = pc])
        /\ BeginSnapshot(c) => \E b \in Nat : Only(c, [tx[c] EXCEPT !.pc = "ro", !.b = b])
        /\ End(c) => Only(c, [NoTxn EXCEPT !.pc = "gc"])
        /\ SnapshotSearch(c) /\ root = null => Only(c, [tx[c] EXCEPT !.got = 0])
        /\ SnapshotSearch(c) /\ root # null => Only(c, [tx[c] EXCEPT !.pc = "walk", !.cur = root])
        /\ SnapshotVisit(c) =>
             \/ \E g \in Int : Only(c, Found(c, g))
             \/ LET n == tup[tx[c].cur].next IN
                /\ n \in Tuples /\ Only(c, [tx[c] EXCEPT !.cur = n])
                /\ tup[tx[c].cur].ep # MAX_EPOCH /\ tup[tx[c].cur].ep >= tx[c].b
        /\ Search(c) => Only(c, [tx[c] EXCEPT !.held = tx[c].held \cup {root}])
        /\ Lock(c) => Only(c, [tx[c] EXCEPT !.pc = "write", !.ce = current_tick_])
        /\ InsertTid(c) => Only(c, [tx[c] EXCEPT !.pc = "publish", !.ce = current_tick_])
        /\ AbortInsert(c) \/ CommitInsert(c) \/ AbortLocked(c) =>
             Only(c, [tx[c] EXCEPT !.pc = "rw", !.ce = 0])
        /\ \A del \in BOOLEAN : WriteInPlace(c, del) \/ WriteSpill(c, del) \/ WriteReplace(c, del) =>
             Only(c, [tx[c] EXCEPT !.pc = "rw", !.ce = 0])
        /\ GcSkip(c) \/ GcEnd(c) => Only(c, NoTxn)
        /\ GcStart(c) => Only(c, [tx[c] EXCEPT !.pc = "reap"])
<1>p. ASSUME NEW t, Put(c, t) PROVE Only(c, t)
  <2>1. tx \in [Cores -> TxType] BY DEF Types
  <2> QED BY <1>p, <2>1 DEF Put, Only
<1>1. Begin(c) => \E pc \in {"rw", "ro_begin"} : Only(c, [tx[c] EXCEPT !.pc = pc])
  BY <1>p, TxForm
<1>2. ASSUME BeginSnapshot(c) PROVE \E b \in Nat : Only(c, [tx[c] EXCEPT !.pc = "ro", !.b = b])
  <2> DEFINE b == ComputeReadOnlyTid(global_last_tick_exclusive)
  <2>1. Only(c, [tx[c] EXCEPT !.pc = "ro", !.b = b]) BY <1>p, <1>2, TxForm
  <2>2. b \in Nat
    <3>1. last_tick_inclusive_ + 1 \in Nat BY ClockNat
    <3> QED BY <3>1, Aligned DEF global_last_tick_exclusive
  <2> HIDE DEF b
  <2> QED BY <2>1, <2>2
<1>3. ASSUME SnapshotVisit(c)
      PROVE \/ \E g \in Int : Only(c, Found(c, g))
            \/ LET n == tup[tx[c].cur].next IN
               /\ n \in Tuples /\ Only(c, [tx[c] EXCEPT !.cur = n])
               /\ tup[tx[c].cur].ep # MAX_EPOCH /\ tup[tx[c].cur].ep >= tx[c].b
  <2>1. VisitForm(c) /\ tx[c].cur \in Tuples BY <1>3, VisitCases
  <2> DEFINE t == tup[tx[c].cur]
  <2>2. t.w \in Int /\ t.next \in Tuples \cup {null}
    <3>1. t \in TupleType BY <2>1 DEF Types
    <3> QED BY <3>1 DEF TupleType
  <2>3. (IF t.del THEN 0 ELSE t.w) \in Int /\ 0 \in Int BY <2>2
  <2>4. \/ Put(c, Found(c, 0)) \/ Put(c, Found(c, IF t.del THEN 0 ELSE t.w))
        \/ /\ t.next # null /\ Put(c, [tx[c] EXCEPT !.cur = t.next])
           /\ t.ep # MAX_EPOCH /\ t.ep >= tx[c].b
    BY <2>1 DEF VisitForm
  <2>5. CASE Put(c, Found(c, 0)) BY <1>p, <2>3, <2>5
  <2>6. CASE Put(c, Found(c, IF t.del THEN 0 ELSE t.w)) BY <1>p, <2>3, <2>6
  <2>7. CASE /\ t.next # null /\ Put(c, [tx[c] EXCEPT !.cur = t.next])
             /\ t.ep # MAX_EPOCH /\ t.ep >= tx[c].b
    BY <1>p, <2>2, <2>7
  <2> QED BY <2>4, <2>5, <2>6, <2>7
<1>4. /\ End(c) => Only(c, [NoTxn EXCEPT !.pc = "gc"])
      /\ GcSkip(c) \/ GcEnd(c) => Only(c, NoTxn)
      /\ GcStart(c) => Only(c, [tx[c] EXCEPT !.pc = "reap"])
  BY <1>p, TxForm
<1>5. /\ SnapshotSearch(c) /\ root = null => Only(c, [tx[c] EXCEPT !.got = 0])
      /\ SnapshotSearch(c) /\ root # null => Only(c, [tx[c] EXCEPT !.pc = "walk", !.cur = root])
      /\ Search(c) => Only(c, [tx[c] EXCEPT !.held = tx[c].held \cup {root}])
  BY <1>p, TxForm
<1>6. /\ Lock(c) => Only(c, [tx[c] EXCEPT !.pc = "write", !.ce = current_tick_])
      /\ InsertTid(c) => Only(c, [tx[c] EXCEPT !.pc = "publish", !.ce = current_tick_])
      /\ AbortInsert(c) \/ CommitInsert(c) \/ AbortLocked(c) =>
           Only(c, [tx[c] EXCEPT !.pc = "rw", !.ce = 0])
  BY <1>p, TxForm
<1>7. ASSUME NEW del \in BOOLEAN, WriteInPlace(c, del) \/ WriteSpill(c, del) \/ WriteReplace(c, del)
      PROVE Only(c, [tx[c] EXCEPT !.pc = "rw", !.ce = 0])
  BY <1>p, <1>7, TxForm
<1> QED BY <1>1, <1>2, <1>3, <1>4, <1>5, <1>6, <1>7

\* What the step of core c does to the places of the cores.
LEMMA PcMoves ==
  ASSUME Types, SafeInv, NEW c \in Cores
  PROVE /\ (\/ Begin(c) \/ BeginSnapshot(c) \/ End(c) \/ SnapshotSearch(c) \/ SnapshotVisit(c)
            \/ Search(c) \/ GcSkip(c) \/ GcEnd(c) \/ GcStart(c))
             => tx'[c].pc \notin Inserting /\ tx[c].pc \notin Inserting
        /\ Lock(c) => tx'[c].pc = "write" /\ tx[c].pc = "rw"
        /\ InsertTid(c) => tx'[c].pc = "publish" /\ tx[c].pc = "inserted"
        /\ AbortInsert(c) \/ CommitInsert(c) \/ AbortLocked(c) => tx'[c].pc = "rw"
        /\ \A del \in BOOLEAN : WriteInPlace(c, del) \/ WriteSpill(c, del) \/ WriteReplace(c, del) =>
             tx'[c].pc = "rw"
<1>0. tx[c] \in TxType BY DEF Types
<1>o. \A t : Only(c, t) => tx'[c] = t BY DEF Only
<1>1. ASSUME Begin(c) PROVE tx'[c].pc \in {"rw", "ro_begin"} /\ tx[c].pc = "none"
  <2>1. tx[c].pc = "none" BY <1>1 DEF Begin, At
  <2>2. \E pc \in {"rw", "ro_begin"} : tx'[c] = [tx[c] EXCEPT !.pc = pc] BY <1>1, <1>o, TxMoves
  <2> QED BY <1>0, <2>1, <2>2 DEF TxType
<1>2. ASSUME BeginSnapshot(c) PROVE tx'[c].pc = "ro" /\ tx[c].pc = "ro_begin"
  <2>1. tx[c].pc = "ro_begin" BY <1>2 DEF BeginSnapshot, At
  <2>2. \E b \in Nat : tx'[c] = [tx[c] EXCEPT !.pc = "ro", !.b = b] BY <1>2, <1>o, TxMoves
  <2> QED BY <1>0, <2>1, <2>2 DEF TxType
<1>3. ASSUME End(c) PROVE tx'[c].pc = "gc" /\ tx[c].pc \in {"rw", "ro"}
  <2>1. tx[c].pc \in {"rw", "ro"} BY <1>3 DEF End
  <2>2. tx'[c] = [NoTxn EXCEPT !.pc = "gc"] BY <1>3, <1>o, TxMoves
  <2> QED BY <1>0, <2>1, <2>2 DEF NoTxn
<1>4. ASSUME SnapshotSearch(c) PROVE tx'[c].pc \in {"ro", "walk"} /\ tx[c].pc = "ro"
  <2>1. tx[c].pc = "ro" BY <1>4 DEF SnapshotSearch, At
  <2>2. \/ tx'[c] = [tx[c] EXCEPT !.got = 0]
        \/ tx'[c] = [tx[c] EXCEPT !.pc = "walk", !.cur = root]
    BY <1>4, <1>o, TxMoves
  <2> QED BY <1>0, <2>1, <2>2 DEF TxType
<1>5. ASSUME SnapshotVisit(c) PROVE tx'[c].pc \in {"ro", "walk"} /\ tx[c].pc = "walk"
  <2>1. tx[c].pc = "walk" BY <1>5 DEF SnapshotVisit, At
  <2>2. \/ \E g \in Int : tx'[c] = Found(c, g)
        \/ \E n \in Tuples : tx'[c] = [tx[c] EXCEPT !.cur = n]
    BY <1>5, <1>o, TxMoves
  <2> QED BY <1>0, <2>1, <2>2 DEF TxType, Found
<1>6. ASSUME Search(c) PROVE tx'[c].pc = "rw" /\ tx[c].pc = "rw"
  <2>1. tx[c].pc = "rw" BY <1>6 DEF Search, At
  <2>2. tx'[c] = [tx[c] EXCEPT !.held = tx[c].held \cup {root}] BY <1>6, <1>o, TxMoves
  <2> QED BY <1>0, <2>1, <2>2 DEF TxType
<1>7. ASSUME GcSkip(c) \/ GcEnd(c) PROVE tx'[c].pc = "none" /\ tx[c].pc \in {"gc", "reap"}
  <2>1. tx[c].pc \in {"gc", "reap"} BY <1>7 DEF GcSkip, GcEnd, At
  <2>2. tx'[c] = NoTxn BY <1>7, <1>o, TxMoves
  <2> QED BY <1>0, <2>1, <2>2 DEF NoTxn
<1>8. ASSUME GcStart(c) PROVE tx'[c].pc = "reap" /\ tx[c].pc = "gc"
  <2>1. tx[c].pc = "gc" BY <1>8 DEF GcStart, At
  <2>2. tx'[c] = [tx[c] EXCEPT !.pc = "reap"] BY <1>8, <1>o, TxMoves
  <2> QED BY <1>0, <2>1, <2>2 DEF TxType
<1>9. ASSUME Lock(c) PROVE tx'[c].pc = "write" /\ tx[c].pc = "rw"
  <2>1. tx[c].pc = "rw" BY <1>9 DEF Lock, At
  <2>2. tx'[c] = [tx[c] EXCEPT !.pc = "write", !.ce = current_tick_] BY <1>9, <1>o, TxMoves
  <2> QED BY <1>0, <2>1, <2>2 DEF TxType
<1>10. ASSUME InsertTid(c) PROVE tx'[c].pc = "publish" /\ tx[c].pc = "inserted"
  <2>1. tx[c].pc = "inserted" BY <1>10 DEF InsertTid, At
  <2>2. tx'[c] = [tx[c] EXCEPT !.pc = "publish", !.ce = current_tick_] BY <1>10, <1>o, TxMoves
  <2> QED BY <1>0, <2>1, <2>2 DEF TxType
<1>11. ASSUME tx'[c] = [tx[c] EXCEPT !.pc = "rw", !.ce = 0] PROVE tx'[c].pc = "rw"
  BY <1>0, <1>11 DEF TxType
<1>12. AbortInsert(c) \/ CommitInsert(c) \/ AbortLocked(c) => tx'[c].pc = "rw"
  BY <1>o, <1>11, TxMoves
<1>13. ASSUME NEW del \in BOOLEAN, WriteInPlace(c, del) \/ WriteSpill(c, del) \/ WriteReplace(c, del)
       PROVE tx'[c].pc = "rw"
  BY <1>o, <1>11, <1>13, TxMoves
<1> QED BY <1>1, <1>2, <1>3, <1>4, <1>5, <1>6, <1>7, <1>8, <1>9, <1>10, <1>12, <1>13 DEF Inserting

-----------------------------------------------------------------------------
(* The head of the chain, preserved.                                       *)

\* The steps that leave the dbtuples and the lock alone.
Quiet(c) ==
  \/ Begin(c) \/ BeginSnapshot(c) \/ End(c) \/ SnapshotSearch(c) \/ SnapshotVisit(c) \/ Search(c)
  \/ InsertTid(c) \/ GcSkip(c) \/ GcEnd(c) \/ GcStart(c) \/ GcRequeue(c)

LEMMA QuietFrame ==
  ASSUME NEW c \in Cores, Quiet(c)
  PROVE UNCHANGED <<root, tup, lockr, writes>>
  BY DEF Quiet, Begin, BeginSnapshot, End, SnapshotSearch, SnapshotVisit, Search, InsertTid,
         GcSkip, GcEnd, GcStart, GcRequeue, dataVars

LEMMA RootFrame ==
  ASSUME Types, RootInv, UNCHANGED <<root, tup, lockr>>,
         \A e \in Cores : tx'[e].pc \in Inserting <=> tx[e].pc \in Inserting
  PROVE RootInv'
<1>1. lockr # 0 => lockr \in Cores BY DEF Types
<1> QED BY <1>1 DEF RootInv

\* The lock is free, and whoever holds it is not inserting any more.
LEMMA NoInserter ==
  ASSUME Types, SafeInv, NEW c \in Cores, lockr = c \/ lockr = 0,
         \A e \in Cores : e # c => tx'[e] = tx[e], tx'[c].pc \notin Inserting
  PROVE \A e \in Cores : tx'[e].pc \notin Inserting
<1>1. \A e \in Cores : TxInv(e) BY DEF SafeInv
<1>2. \A e \in Cores : e # 0 BY DEF Cores
<1> QED BY <1>1, <1>2 DEF TxInv

LEMMA RootStep ==
  ASSUME Types, SafeInv, [Next]_vars
  PROVE RootInv'
<1>i. RootInv BY DEF SafeInv
<1>t. /\ tup \in [Tuples -> TupleType] /\ root \in Tuples \cup {null} /\ 0 \notin Cores
      /\ null \notin Tuples /\ lockr \in Cores \cup {0}
  BY DEF Types, Cores, Tuples, null
<1>u. ASSUME UNCHANGED <<root, tup, lockr, tx>> PROVE RootInv' BY <1>i, <1>u, RootFrame
<1>1. ASSUME NEW c \in Cores,
             \/ Begin(c) \/ BeginSnapshot(c) \/ End(c) \/ SnapshotSearch(c) \/ SnapshotVisit(c)
             \/ Search(c) \/ GcSkip(c) \/ GcEnd(c) \/ GcStart(c)
      PROVE RootInv'
  <2>1. tx'[c].pc \notin Inserting /\ tx[c].pc \notin Inserting BY <1>1, PcMoves
  <2>2. \A e \in Cores : e # c => tx'[e] = tx[e] BY <1>1, TxMoves DEF Only
  <2>3. UNCHANGED <<root, tup, lockr>> BY <1>1, QuietFrame DEF Quiet
  <2> QED BY <1>i, <2>1, <2>2, <2>3, RootFrame
<1>2. ASSUME NEW c \in Cores, InsertTid(c) PROVE RootInv'
  <2>1. tx'[c].pc \in Inserting /\ tx[c].pc \in Inserting BY <1>2, PcMoves DEF Inserting
  <2>2. \A e \in Cores : e # c => tx'[e] = tx[e] BY <1>2, TxMoves DEF Only
  <2>3. UNCHANGED <<root, tup, lockr>> BY <1>2, QuietFrame DEF Quiet
  <2> QED BY <1>i, <2>1, <2>2, <2>3, RootFrame
<1>3. ASSUME NEW c \in Cores, Lock(c) PROVE RootInv'
  <2>1. tx'[c].pc \notin Inserting BY <1>3, PcMoves DEF Inserting
  <2>2. \A e \in Cores : e # c => tx'[e] = tx[e] BY <1>3, TxMoves DEF Only
  <2>3. lockr = 0 /\ lockr' = c /\ UNCHANGED <<root, tup>> /\ root # null
    <3>1. root \in tx[c].held /\ tx[c].held \subseteq Tuples BY <1>3 DEF Lock, Types, TxType
    <3> QED BY <1>t, <1>3, <3>1 DEF Lock
  <2>4. \A e \in Cores : tx'[e].pc \notin Inserting BY <2>1, <2>2, <2>3, NoInserter
  <2> QED BY <1>i, <1>t, <2>3, <2>4 DEF RootInv
<1>4. ASSUME NEW c \in Cores, AbortLocked(c) PROVE RootInv'
  <2>0. tx[c].pc = "write" BY <1>4 DEF AbortLocked, At
  <2>1. tx'[c].pc \notin Inserting BY <1>4, PcMoves DEF Inserting
  <2>2. \A e \in Cores : e # c => tx'[e] = tx[e] BY <1>4, TxMoves DEF Only
  <2>3. lockr = c /\ lockr' = 0 /\ UNCHANGED <<root, tup>> /\ tup[root].ep # MAX_EPOCH
    BY <1>4, <2>0, WriterFacts DEF AbortLocked
  <2>4. \A e \in Cores : tx'[e].pc \notin Inserting BY <2>1, <2>2, <2>3, NoInserter
  <2> QED BY <1>i, <1>t, <2>3, <2>4 DEF RootInv
<1>5. ASSUME NEW c \in Cores, Insert(c) PROVE RootInv'
  <2>0. root = null /\ lockr' = c BY <1>5 DEF Insert
  <2>1. PICK n \in Tuples : /\ Fresh(n) /\ root' = n /\ Becomes(n, Tentative)
                            /\ Put(c, [tx[c] EXCEPT !.pc = "inserted", !.held = tx[c].held \cup {n}])
    BY <1>5, TupleForm
  <2>2. tup'[n] = Tentative BY <1>t, <2>1, TentativeFacts, BecomesType
  <2>3. tx'[c].pc = "inserted" /\ \A e \in Cores : e # c => tx'[e] = tx[e]
    BY <2>1 DEF Put, Types, TxType
  <2>4. tup'[n].ep = MAX_EPOCH /\ tup'[n].st = "used" /\ tup'[n].del = FALSE
    BY <2>2, TentativeFacts
  <2> QED BY <1>t, <2>0, <2>1, <2>3, <2>4 DEF RootInv, Inserting
<1>6. ASSUME NEW c \in Cores, AbortInsert(c) PROVE RootInv'
  <2>0. tx[c].pc \in Inserting BY <1>6 DEF AbortInsert, Inserting
  <2>1. tx'[c].pc \notin Inserting BY <1>6, PcMoves DEF Inserting
  <2>2. \A e \in Cores : e # c => tx'[e] = tx[e] BY <1>6, TxMoves DEF Only
  <2>3. lockr = c /\ lockr' = 0 /\ root' = null
    BY <1>6, <2>0, WriterFacts DEF AbortInsert, Retire
  <2>4. \A e \in Cores : tx'[e].pc \notin Inserting BY <2>1, <2>2, <2>3, NoInserter
  <2> QED BY <2>3, <2>4 DEF RootInv
<1>7. ASSUME NEW c \in Cores, CommitInsert(c) PROVE RootInv'
  <2>0. tx[c].pc = "publish" BY <1>7 DEF CommitInsert, At
  <2>1. tx'[c].pc \notin Inserting BY <1>7, PcMoves DEF Inserting
  <2>2. \A e \in Cores : e # c => tx'[e] = tx[e] BY <1>7, TxMoves DEF Only
  <2>3. /\ lockr = c /\ lockr' = 0 /\ root' = root /\ root \in Tuples /\ tup[root] \in TupleType
        /\ tx[c].ce \in Nat /\ tx[c].ce < MAX_EPOCH /\ tup[root].st = "used"
    BY <1>7, <2>0, WriterFacts DEF CommitInsert, Wrote, Inserting
  <2>4. \A e \in Cores : tx'[e].pc \notin Inserting BY <2>1, <2>2, <2>3, NoInserter
  <2>5. Becomes(root, [tup[root] EXCEPT !.ep = tx[c].ce, !.w = Len(writes) + 1]) BY <1>7, TupleForm
  <2>6. tup'[root].ep = tx[c].ce /\ tup'[root].st = "used"
    BY <1>t, <2>3, <2>5 DEF Becomes, TupleType
  <2>7. tx[c].ce # MAX_EPOCH BY <2>3, ClockNat
  <2> QED BY <1>t, <2>3, <2>4, <2>6, <2>7 DEF RootInv
<1>8. ASSUME NEW c \in Cores, tx[c].pc = "write", lockr' = 0, root' \in Tuples,
             tx'[c].pc \notin Inserting, \A e \in Cores : e # c => tx'[e] = tx[e],
             NEW del \in BOOLEAN, NEW next \in Tuples \cup {null},
             tup'[root'] = NewVersion(c, del, next)
      PROVE RootInv'
  <2>1. lockr = c /\ tx[c].ce \in Nat /\ tx[c].ce < MAX_EPOCH BY <1>8, WriterFacts
  <2>2. \A e \in Cores : tx'[e].pc \notin Inserting BY <1>8, <2>1, NoInserter
  <2>3. tup'[root'].ep = tx[c].ce /\ tup'[root'].st = "used" BY <1>8, NewVersionFacts
  <2>4. tx[c].ce # MAX_EPOCH BY <2>1, ClockNat
  <2> QED BY <1>t, <1>8, <2>2, <2>3, <2>4 DEF RootInv
<1>9. ASSUME NEW c \in Cores, NEW del \in BOOLEAN,
             WriteInPlace(c, del) \/ WriteSpill(c, del) \/ WriteReplace(c, del)
      PROVE RootInv'
  <2>0. tx[c].pc = "write" /\ lockr' = 0
    BY <1>9 DEF WriteInPlace, WriteSpill, WriteReplace, At, Wrote
  <2>1. tx'[c].pc \notin Inserting BY <1>9, PcMoves DEF Inserting
  <2>2. \A e \in Cores : e # c => tx'[e] = tx[e] BY <1>9, TxMoves DEF Only
  <2>3. root \in Tuples /\ tup[root] \in TupleType BY <2>0, WriterFacts
  <2>4. tup[root].next \in Tuples \cup {null} BY <2>3 DEF TupleType
  <2>5. CASE WriteInPlace(c, del)
    <3>1. root' = root /\ Becomes(root, NewVersion(c, del, tup[root].next))
      BY <2>5, TupleForm DEF WriteInPlace
    <3>2. tup'[root] = NewVersion(c, del, tup[root].next)
      BY <1>t, <2>0, <2>3, <2>4, <3>1, NewVersionFacts, BecomesType
    <3> QED BY <1>8, <2>0, <2>1, <2>2, <2>3, <2>4, <3>1, <3>2
  <2>6. CASE WriteSpill(c, del)
    <3>1. PICK s \in Tuples : tup'[root] = NewVersion(c, del, s) BY <2>6, SpillForm
    <3>2. root' = root BY <2>6 DEF WriteSpill
    <3> QED BY <1>8, <2>0, <2>1, <2>2, <2>3, <3>1, <3>2
  <2>7. CASE WriteReplace(c, del)
    <3>1. PICK rep \in Tuples : root' = rep /\ tup'[rep] = NewVersion(c, del, root)
      BY <2>7, ReplaceQueued
    <3> QED BY <1>8, <2>0, <2>1, <2>2, <2>3, <3>1
  <2> QED BY <1>9, <2>5, <2>6, <2>7
<1>10. ASSUME NEW n \in Tuples, n # root, Becomes(n, [tup[n] EXCEPT !.st = "freed"]),
              UNCHANGED <<root, lockr, tx>>
       PROVE RootInv'
  <2>1. root # null => tup'[root] = tup[root] BY <1>t, <1>10 DEF Becomes
  <2>2. \A e \in Cores : tx[e].pc \in Inserting => root # null
    BY <1>t, WriterFacts
  <2> QED BY <1>i, <1>10, <2>1, <2>2 DEF RootInv
<1>11. ASSUME NEW c \in Cores, GcFree(c) PROVE RootInv'
  <2>1. Entry(c).tup \in Tuples /\ Entry(c).tup # root
    <3>1. Reaping(c) /\ DropEntry(c) /\ ~Entry(c).key BY <1>11 DEF GcFree
    <3>2. Entry(c) \in Elements(scratch_[c]) BY <3>1, Dropped
    <3>3. EntryInv(Entry(c)) BY <3>2 DEF SafeInv, QueueInv, EntriesOf
    <3> QED BY <3>1, <3>3, EntryFacts DEF EntryInv
  <2> QED BY <1>10, <1>11, <2>1, TupleForm DEF GcFree
<1>12. ASSUME NEW n \in Tuples, RcuFree(n) PROVE RootInv'
  <2>1. n # root BY <1>i, <1>t, <1>12 DEF RcuFree, RootInv
  <2>2. 1 \in Cores BY ClockAssumption DEF Cores
  <2> QED BY <1>10, <1>12, <2>1, <2>2, TupleForm DEF RcuFree
<1>13. ASSUME NEW c \in Cores, GcRemove(c) PROVE RootInv'
  <2>1. root' = null /\ lockr = 0 /\ lockr' = 0 /\ UNCHANGED tx BY <1>13 DEF GcRemove, Retire
  <2>2. tx[c].pc \notin Inserting BY <1>13 DEF GcRemove, Reaping, At, Inserting
  <2>3. \A e \in Cores : tx'[e].pc \notin Inserting BY <2>1, <2>2, NoInserter
  <2> QED BY <2>1, <2>3 DEF RootInv
<1>14. ASSUME NEW c \in Cores, GcRequeue(c) PROVE RootInv'
  BY <1>u, <1>14 DEF GcRequeue, dataVars
<1>15. CASE Ticking BY <1>u, <1>15 DEF Ticking, dataVars
<1>16. CASE UNCHANGED vars BY <1>u, <1>16 DEF vars, dataVars
<1> QED
  BY <1>1, <1>2, <1>3, <1>4, <1>5, <1>6, <1>7, <1>9, <1>11, <1>12, <1>13, <1>14, <1>15, <1>16
     DEF Next

-----------------------------------------------------------------------------
(* The chain, preserved.                                                   *)

LEMMA RoForward ==
  ASSUME Types, SafeInv, [Next]_vars
  PROVE /\ Ro(last_tick_inclusive_) \in Nat /\ Ro(last_tick_inclusive_') \in Nat
        /\ Ro(last_tick_inclusive_) <= Ro(last_tick_inclusive_')
<1>1. last_tick_inclusive_ \in Nat BY ClockNat
<1>2. last_tick_inclusive_' \in 0..MaxTick /\ MaxTick \in Nat BY ClockStep, ClockAssumption DEF ClockTypeOK
<1>3. last_tick_inclusive_' \in Nat BY <1>2
<1> QED BY <1>1, <1>3, ClockStep, RoMonotone

LEMMA TickForward ==
  ASSUME Types, SafeInv, [Next]_vars
  PROVE current_tick_ \in Nat /\ current_tick_' \in Nat /\ current_tick_ <= current_tick_'
<1>1. current_tick_ \in Nat BY ClockNat
<1>2. current_tick_' \in 1..MaxTick /\ MaxTick \in Nat BY ClockStep, ClockAssumption DEF ClockTypeOK
<1> QED BY <1>1, <1>2, ClockStep

\* Where a link leads.
LEMMA LinkFacts ==
  ASSUME Types, SafeInv, NEW p \in Tuples, Alive(p)
  PROVE /\ tup[p].ep \in Nat /\ tup[p].next \in Tuples \cup {null}
        /\ tup[p].ep # MAX_EPOCH => tup[p].ep <= current_tick_
        /\ tup[p].next # null =>
             /\ tup[p].next \in Tuples /\ tup[p].next # root
             /\ tup[tup[p].next].st \in {"used", "freed"}
             /\ tup[tup[p].next].st = "freed" => Ro(tup[p].ep) < Ro(last_tick_inclusive_)
             /\ tup[p].ep # MAX_EPOCH
<1>1. LinkInv(p) BY DEF SafeInv
<1>2. tup[p].next \in Tuples \cup {null} BY DEF Types, TupleType
<1>3. tup[p].ep \in Nat BY ClockNat
<1> QED BY <1>1, <1>2, <1>3 DEF LinkInv

\* A tuple the step does not write.
LEMMA LinkKept ==
  ASSUME Types, SafeInv, [Next]_vars, NEW p \in Tuples, tup'[p].ep = tup[p].ep,
         tup'[p].next = tup[p].next, Alive(p)' => Alive(p),
         Alive(p) /\ tup[p].next # null =>
           tup[p].next # root' /\ tup'[tup[p].next].st = tup[tup[p].next].st
  PROVE LinkInv(p)'
<1> SUFFICES ASSUME Alive(p)'
             PROVE /\ tup'[p].ep = MAX_EPOCH => tup'[p].next = null
                   /\ tup'[p].ep # MAX_EPOCH => tup'[p].ep <= current_tick_'
                   /\ tup'[p].next # null =>
                        /\ tup'[p].next # root'
                        /\ tup'[tup'[p].next].st \in {"used", "freed"}
                        /\ tup'[tup'[p].next].st = "freed" => Ro(tup'[p].ep) < Ro(last_tick_inclusive_')
  BY DEF LinkInv, Ro, to_read_only_tick
<1>0. Alive(p) /\ LinkInv(p) BY DEF SafeInv
<1>1. tup[p].ep \in Nat /\ Ro(tup[p].ep) \in Nat BY ClockNat, RoNat
<1>2. tup[p].ep <= current_tick_ => tup[p].ep <= current_tick_' BY <1>1, TickForward
<1>3. Ro(tup[p].ep) < Ro(last_tick_inclusive_) => Ro(tup[p].ep) < Ro(last_tick_inclusive_')
  BY <1>1, RoForward
<1> QED BY <1>0, <1>2, <1>3 DEF LinkInv

LEMMA LinkStep ==
  ASSUME Types, SafeInv, [Next]_vars, NEW p \in Tuples
  PROVE LinkInv(p)'
<1>t. /\ tup \in [Tuples -> TupleType] /\ root \in Tuples \cup {null} /\ null \notin Tuples
  BY DEF Types, Tuples, null
<1>l. Alive(p) => /\ tup[p].ep \in Nat /\ tup[p].next \in Tuples \cup {null}
                  /\ tup[p].next # null =>
                       /\ tup[p].next \in Tuples /\ tup[p].next # root
                       /\ tup[tup[p].next].st \in {"used", "freed"}
                       /\ tup[tup[p].next].st = "freed" => Ro(tup[p].ep) < Ro(last_tick_inclusive_)
                       /\ tup[p].ep # MAX_EPOCH
  BY LinkFacts
<1>u. ASSUME UNCHANGED <<root, tup>> PROVE LinkInv(p)'
  BY <1>l, <1>u, LinkKept DEF Alive
<1>1. ASSUME NEW c \in Cores, Quiet(c) \/ Lock(c) \/ AbortLocked(c) PROVE LinkInv(p)'
  BY <1>u, <1>1, QuietFrame DEF Lock, AbortLocked
<1>2. ASSUME NEW c \in Cores, Insert(c) PROVE LinkInv(p)'
  <2>1. PICK n \in Tuples : Fresh(n) /\ root' = n /\ Becomes(n, Tentative) BY <1>2, TupleForm
  <2>2. tup'[n] = Tentative /\ \A q \in Tuples : q # n => tup'[q] = tup[q]
    BY <1>t, <2>1, TentativeFacts, BecomesType
  <2>3. tup[n].st = "none" BY <2>1 DEF Fresh
  <2>4. CASE p = n BY <2>2, <2>4, TentativeFacts DEF LinkInv
  <2>5. CASE p # n
    <3>1. tup'[p] = tup[p] BY <2>2, <2>5
    <3>2. Alive(p) /\ tup[p].next # null => /\ tup[p].next # n
                                            /\ tup'[tup[p].next] = tup[tup[p].next]
      BY <1>l, <2>2, <2>3
    <3> QED BY <2>1, <3>1, <3>2, LinkKept DEF Alive
  <2> QED BY <2>4, <2>5
<1>3. ASSUME root \in Tuples, tup[root].st = "used", root' = null,
             Becomes(root, [tup[root] EXCEPT !.st = "retired"])
      PROVE LinkInv(p)'
  <2>1. /\ \A q \in Tuples : q # root => tup'[q] = tup[q]
        /\ tup'[root].ep = tup[root].ep /\ tup'[root].next = tup[root].next
    BY <1>t, <1>3 DEF Becomes, TupleType
  <2>2. Alive(p)' => Alive(p) BY <1>3, <2>1 DEF Alive
  <2>3. Alive(p) /\ tup[p].next # null => /\ tup[p].next # root'
                                          /\ tup'[tup[p].next] = tup[tup[p].next]
    BY <1>l, <1>3, <2>1
  <2>4. tup'[p].ep = tup[p].ep /\ tup'[p].next = tup[p].next BY <2>1
  <2> QED BY <2>2, <2>3, <2>4, LinkKept
<1>4. ASSUME NEW c \in Cores, AbortInsert(c) PROVE LinkInv(p)'
  <2>1. root \in Tuples /\ tup[root].st = "used" BY <1>4, WriterFacts DEF AbortInsert, Inserting
  <2> QED BY <1>3, <1>4, <2>1, TupleForm DEF AbortInsert, Retire
<1>5. ASSUME NEW c \in Cores, GcRemove(c) PROVE LinkInv(p)'
  <2>1. root \in Tuples /\ tup[root].st = "used"
    <3>1. root \in Tuples BY <1>5, EntryFacts DEF GcRemove
    <3> QED BY <1>t, <3>1 DEF SafeInv, RootInv
  <2> QED BY <1>3, <1>5, <2>1, TupleForm DEF GcRemove, Retire
<1>6. ASSUME NEW c \in Cores, CommitInsert(c) PROVE LinkInv(p)'
  <2>0. tx[c].pc = "publish" BY <1>6 DEF CommitInsert, At
  <2>1. /\ root' = root /\ root \in Tuples /\ tup[root] \in TupleType /\ tup[root].st = "used"
        /\ tx[c].ce \in Nat /\ tx[c].ce < MAX_EPOCH /\ tx[c].ce <= current_tick_
        /\ tup[root].ep = MAX_EPOCH
    BY <1>6, <2>0, WriterFacts DEF CommitInsert, Inserting
  <2>2. Becomes(root, [tup[root] EXCEPT !.ep = tx[c].ce, !.w = Len(writes) + 1]) BY <1>6, TupleForm
  <2>3. /\ \A q \in Tuples : q # root => tup'[q] = tup[q]
        /\ tup'[root].ep = tx[c].ce /\ tup'[root].next = tup[root].next
    BY <1>t, <2>1, <2>2 DEF Becomes, TupleType
  <2>4. CASE p = root
    <3>1. tup[root].next = null BY <1>l, <2>1, <2>4 DEF Alive
    <3>2. tx[c].ce # MAX_EPOCH /\ tx[c].ce <= current_tick_' BY <2>1, TickForward, ClockNat
    <3> QED BY <2>3, <2>4, <3>1, <3>2 DEF LinkInv
  <2>5. CASE p # root
    <3>1. tup'[p] = tup[p] BY <2>3, <2>5
    <3>2. Alive(p) /\ tup[p].next # null => /\ tup[p].next # root'
                                            /\ tup'[tup[p].next] = tup[tup[p].next]
      BY <1>l, <2>1, <2>3
    <3> QED BY <3>1, <3>2, LinkKept DEF Alive
  <2> QED BY <2>4, <2>5
<1>7. ASSUME NEW c \in Cores, NEW del \in BOOLEAN, WriteInPlace(c, del) PROVE LinkInv(p)'
  <2>0. tx[c].pc = "write" /\ root' = root /\ Overwritable(c) BY <1>7 DEF WriteInPlace, At
  <2>1. /\ root \in Tuples /\ tup[root] \in TupleType /\ tup[root].st = "used"
        /\ tx[c].ce \in Nat /\ tx[c].ce < MAX_EPOCH /\ tx[c].ce <= current_tick_
        /\ tup[root].ep # MAX_EPOCH
    BY <2>0, WriterFacts
  <2>2. tup[root].next \in Tuples \cup {null} BY <2>1 DEF TupleType
  <2>3. /\ \A q \in Tuples : q # root => tup'[q] = tup[q]
        /\ tup'[root] = NewVersion(c, del, tup[root].next)
    <3>1. Becomes(root, NewVersion(c, del, tup[root].next)) BY <1>7, TupleForm
    <3>2. NewVersion(c, del, tup[root].next) \in TupleType BY <2>0, <2>2, NewVersionFacts
    <3> QED BY <1>t, <2>1, <3>1, <3>2, BecomesType
  <2>4. tup'[root].ep = tx[c].ce /\ tup'[root].next = tup[root].next
    BY <2>0, <2>2, <2>3, NewVersionFacts
  <2>5. CASE p = root
    <3>1. tx[c].ce # MAX_EPOCH /\ tx[c].ce <= current_tick_' BY <2>1, TickForward, ClockNat
    <3>2. Ro(tx[c].ce) = Ro(tup[root].ep) BY <2>0 DEF Overwritable, can_overwrite_record_tid, Ro
    <3>3. Ro(tup[root].ep) \in Nat BY <1>l, <2>1, <2>5, RoNat DEF Alive
    <3>4. tup[root].next # null =>
            /\ tup[root].next # root' /\ tup'[tup[root].next] = tup[tup[root].next]
            /\ tup[tup[root].next].st \in {"used", "freed"}
            /\ tup[tup[root].next].st = "freed" => Ro(tx[c].ce) < Ro(last_tick_inclusive_')
      BY <1>l, <2>0, <2>1, <2>3, <2>5, <3>2, <3>3, RoForward DEF Alive
    <3> QED BY <2>4, <2>5, <3>1, <3>4 DEF LinkInv, Ro, to_read_only_tick
  <2>6. CASE p # root
    <3>1. tup'[p] = tup[p] BY <2>3, <2>6
    <3>2. Alive(p) /\ tup[p].next # null => /\ tup[p].next # root'
                                            /\ tup'[tup[p].next] = tup[tup[p].next]
      BY <1>l, <2>0, <2>3
    <3> QED BY <3>1, <3>2, LinkKept DEF Alive
  <2> QED BY <2>5, <2>6
<1>8. ASSUME NEW c \in Cores, NEW del \in BOOLEAN, WriteSpill(c, del) PROVE LinkInv(p)'
  <2>0. tx[c].pc = "write" /\ root' = root BY <1>8 DEF WriteSpill, At
  <2>1. /\ root \in Tuples /\ tup[root] \in TupleType /\ tup[root].st = "used"
        /\ tx[c].ce \in Nat /\ tx[c].ce < MAX_EPOCH /\ tx[c].ce <= current_tick_
        /\ tup[root].ep # MAX_EPOCH
    BY <2>0, WriterFacts
  <2>2. PICK s \in Tuples : /\ Fresh(s) /\ s # root /\ tup'[s] = tup[root]
                            /\ tup'[root] = NewVersion(c, del, s)
                            /\ \A q \in Tuples : q # root /\ q # s => tup'[q] = tup[q]
    BY <1>8, SpillForm
  <2>3. tup'[root].ep = tx[c].ce /\ tup'[root].next = s BY <2>0, <2>2, NewVersionFacts
  <2>4. tup[s].st = "none" BY <2>2 DEF Fresh
  <2>5. tx[c].ce # MAX_EPOCH /\ tx[c].ce <= current_tick_' BY <2>1, TickForward, ClockNat
  <2>6. CASE p = root
    BY <1>t, <2>0, <2>1, <2>2, <2>3, <2>5, <2>6 DEF LinkInv
  <2>7. CASE p = s
    <3>1. /\ tup[root].next \in Tuples \cup {null} /\ tup[root].ep \in Nat
          /\ tup[root].ep <= current_tick_
          /\ tup[root].next # null =>
               /\ tup[root].next \in Tuples /\ tup[root].next # root
               /\ tup[tup[root].next].st \in {"used", "freed"}
               /\ tup[tup[root].next].st = "freed" => Ro(tup[root].ep) < Ro(last_tick_inclusive_)
      BY <2>1, LinkFacts DEF Alive
    <3>2. tup[root].next # null => tup'[tup[root].next] = tup[tup[root].next]
      BY <2>2, <2>4, <3>1
    <3>3. Ro(tup[root].ep) < Ro(last_tick_inclusive_) => Ro(tup[root].ep) < Ro(last_tick_inclusive_')
      BY <3>1, RoForward, RoNat
    <3>4. tup[root].ep <= current_tick_' BY <3>1, TickForward
    <3> QED BY <2>0, <2>1, <2>2, <2>7, <3>1, <3>2, <3>3, <3>4 DEF LinkInv, Ro, to_read_only_tick
  <2>8. CASE p # root /\ p # s
    <3>1. tup'[p] = tup[p] BY <2>2, <2>8
    <3>2. Alive(p) /\ tup[p].next # null => /\ tup[p].next # root'
                                            /\ tup'[tup[p].next] = tup[tup[p].next]
      BY <1>l, <2>0, <2>2, <2>4
    <3> QED BY <3>1, <3>2, LinkKept DEF Alive
  <2> QED BY <2>6, <2>7, <2>8
<1>9. ASSUME NEW c \in Cores, NEW del \in BOOLEAN, WriteReplace(c, del) PROVE LinkInv(p)'
  <2>0. tx[c].pc = "write" BY <1>9 DEF WriteReplace, At
  <2>1. /\ root \in Tuples /\ tup[root].st = "used"
        /\ tx[c].ce \in Nat /\ tx[c].ce < MAX_EPOCH /\ tx[c].ce <= current_tick_
    BY <2>0, WriterFacts
  <2>2. PICK rep \in Tuples : /\ Fresh(rep) /\ rep # root /\ root' = rep
                              /\ tup'[rep] = NewVersion(c, del, root)
                              /\ \A q \in Tuples : q # rep => tup'[q] = tup[q]
    BY <1>9, ReplaceQueued
  <2>3. tup'[rep].ep = tx[c].ce /\ tup'[rep].next = root BY <2>0, <2>1, <2>2, NewVersionFacts
  <2>4. tup[rep].st = "none" BY <2>2 DEF Fresh
  <2>5. tx[c].ce # MAX_EPOCH /\ tx[c].ce <= current_tick_' BY <2>1, TickForward, ClockNat
  <2>6. CASE p = rep
    BY <2>1, <2>2, <2>3, <2>5, <2>6 DEF LinkInv
  <2>7. CASE p # rep
    <3>1. tup'[p] = tup[p] BY <2>2, <2>7
    <3>2. Alive(p) /\ tup[p].next # null => /\ tup[p].next # root'
                                            /\ tup'[tup[p].next] = tup[tup[p].next]
      BY <1>l, <2>2, <2>4
    <3> QED BY <3>1, <3>2, LinkKept DEF Alive
  <2> QED BY <2>6, <2>7
<1>10. ASSUME NEW c \in Cores, GcFree(c) PROVE LinkInv(p)'
  <2> DEFINE n == Entry(c).tup
  <2>1. Reaping(c) /\ DropEntry(c) /\ ~Entry(c).key /\ root' = root BY <1>10 DEF GcFree
  <2>2. n \in Tuples /\ Entry(c).tick \in Nat BY <2>1, EntryFacts
  <2>3. Entry(c) \in Elements(scratch_[c]) BY <2>1, Dropped
  <2>4. EntryInv(Entry(c)) /\ Entry(c).tick < Ro(last_tick_inclusive_)
    BY <2>3 DEF SafeInv, QueueInv, EntriesOf
  <2>5. /\ \A q \in Tuples : q # n => tup'[q] = tup[q]
        /\ tup'[n].ep = tup[n].ep /\ tup'[n].next = tup[n].next /\ tup'[n].st = "freed"
    <3>1. Becomes(n, [tup[n] EXCEPT !.st = "freed"]) BY <1>10, TupleForm
    <3> HIDE DEF n
    <3> QED BY <1>t, <2>2, <3>1 DEF Becomes, TupleType
  <2> HIDE DEF n
  <2>6. CASE Alive(p)' /\ tup[p].next = n
    <3>1. p # n /\ tup'[p] = tup[p] /\ Alive(p) BY <2>5, <2>6 DEF Alive
    <3>2. Ro(tup[p].ep) <= Entry(c).tick BY <2>1, <2>4, <2>6, <3>1 DEF EntryInv, n
    <3>3. tup[p].ep \in Nat /\ Ro(tup[p].ep) \in Nat BY ClockNat, RoNat
    <3>4. Ro(tup[p].ep) < Ro(last_tick_inclusive_') BY <2>2, <2>4, <3>2, <3>3, RoForward
    <3>5. /\ tup[p].next # null => tup[p].next # root /\ tup[p].ep # MAX_EPOCH
          /\ tup[p].ep # MAX_EPOCH => tup[p].ep <= current_tick_'
      BY <3>1, <3>3, LinkFacts, TickForward
    <3> QED BY <1>t, <2>1, <2>2, <2>5, <2>6, <3>1, <3>4, <3>5 DEF LinkInv, Ro, to_read_only_tick
  <2>7. CASE Alive(p)' /\ tup[p].next # n
    <3>1. p # n /\ tup'[p] = tup[p] /\ Alive(p) BY <2>5, <2>7 DEF Alive
    <3>2. tup[p].next # null => /\ tup[p].next # root'
                                /\ tup'[tup[p].next] = tup[tup[p].next]
      BY <1>l, <2>1, <2>5, <2>7, <3>1
    <3> QED BY <3>1, <3>2, LinkKept
  <2> QED BY <2>6, <2>7 DEF LinkInv
<1>11. ASSUME NEW n \in Tuples, RcuFree(n) PROVE LinkInv(p)'
  <2>1. 1 \in Cores BY ClockAssumption DEF Cores
  <2>2. Becomes(n, [tup[n] EXCEPT !.st = "freed"]) BY <1>11, <2>1, TupleForm
  <2>3. /\ \A q \in Tuples : q # n => tup'[q] = tup[q]
        /\ tup'[n].ep = tup[n].ep /\ tup'[n].next = tup[n].next /\ tup'[n].st = "freed"
    BY <1>t, <2>2 DEF Becomes, TupleType
  <2>4. tup[n].st = "retired" /\ root' = root BY <1>11 DEF RcuFree
  <2>5. Alive(p)' => Alive(p) BY <2>3 DEF Alive
  <2>6. Alive(p) /\ tup[p].next # null => /\ tup[p].next # root'
                                          /\ tup'[tup[p].next] = tup[tup[p].next]
    BY <1>l, <2>3, <2>4
  <2>7. tup'[p].ep = tup[p].ep /\ tup'[p].next = tup[p].next BY <2>3
  <2> QED BY <2>5, <2>6, <2>7, LinkKept
<1>12. CASE Ticking BY <1>u, <1>12 DEF Ticking, dataVars
<1>13. CASE UNCHANGED vars BY <1>u, <1>13 DEF vars, dataVars
<1> QED
  BY <1>1, <1>2, <1>4, <1>5, <1>6, <1>7, <1>8, <1>9, <1>10, <1>11, <1>12, <1>13 DEF Next, Quiet

-----------------------------------------------------------------------------
(* What the cores hold.                                                    *)

\* A core that holds a tuple is inside a region.
LEMMA Holder ==
  ASSUME Types, SafeInv, NEW d \in Cores, NEW n \in Holds(d)
  PROVE /\ n \in Tuples /\ Alive(n) /\ inside[d] # 0
        /\ tup[n].st = "retired" => d \in waits[n]
        /\ inside[d] - 1 \in Nat /\ last_tick_inclusive_ <= inside[d] - 1
<1>1. tx[d] \in TxType /\ TxInv(d) /\ HoldInv(d) BY DEF Types, SafeInv
<1>2. tx[d].held \subseteq Tuples /\ tx[d].cur \in Tuples \cup {null} /\ tx[d].pc \in Open \cup Closed
  BY <1>1 DEF TxType
<1>3. n \in Tuples /\ Alive(n) /\ (tup[n].st = "retired" => d \in waits[n])
  BY <1>1, <1>2 DEF Holds, HoldInv
<1>4. tx[d].pc \notin Closed BY <1>1 DEF TxInv, Holds, Closed
<1>5. inside[d] # 0 BY <1>1, <1>2, <1>4 DEF TxInv
<1>6. inside[d] - 1 \in Nat /\ last_tick_inclusive_ <= inside[d] - 1
  <2>1. inside[d] \in Nat /\ last_tick_inclusive_ \in Nat BY ClockNat
  <2>2. last_tick_inclusive_ < inside[d] BY <1>5 DEF SafeInv, ClockInv
  <2> QED BY <1>5, <2>1, <2>2
<1> QED BY <1>3, <1>5, <1>6

LEMMA HoldKept ==
  ASSUME Types, SafeInv, NEW d \in Cores, Holds(d)' \subseteq Holds(d),
         \A n \in Holds(d) : /\ tup'[n].st = tup[n].st
                             /\ d \in waits[n] => d \in waits'[n]
  PROVE HoldInv(d)'
<1>1. HoldInv(d) BY DEF SafeInv
<1> QED BY <1>1 DEF HoldInv, Alive

\* What the step of core c does to what it holds.
LEMMA HoldMoves ==
  ASSUME Types, SafeInv, NEW c \in Cores
  PROVE /\ Begin(c) \/ BeginSnapshot(c) \/ Lock(c) \/ InsertTid(c) \/ GcStart(c) => Holds(c)' = Holds(c)
        /\ AbortInsert(c) \/ CommitInsert(c) \/ AbortLocked(c) => Holds(c)' = Holds(c)
        /\ \A del \in BOOLEAN : WriteInPlace(c, del) \/ WriteSpill(c, del) \/ WriteReplace(c, del) =>
             Holds(c)' = Holds(c)
        /\ End(c) \/ GcSkip(c) \/ GcEnd(c) => Holds(c)' = {}
        /\ SnapshotSearch(c) \/ Search(c) =>
             Holds(c)' \subseteq Holds(c) \cup ({root} \ {null})
        /\ SnapshotVisit(c) =>
             \/ Holds(c)' \subseteq Holds(c)
             \/ LET n == tup[tx[c].cur].next IN
                /\ n \in Tuples /\ Holds(c)' \subseteq Holds(c) \cup {n}
                /\ tup[tx[c].cur].ep # MAX_EPOCH /\ tup[tx[c].cur].ep >= tx[c].b
<1>0. tx[c] \in TxType BY DEF Types
<1>o. \A t : Only(c, t) => tx'[c] = t BY DEF Only
<1>1. ASSUME Begin(c) PROVE Holds(c)' = Holds(c)
  <2>1. \E pc \in {"rw", "ro_begin"} : tx'[c] = [tx[c] EXCEPT !.pc = pc] BY <1>o, <1>1, TxMoves
  <2> QED BY <1>0, <2>1 DEF Holds, TxType
<1>2. ASSUME BeginSnapshot(c) PROVE Holds(c)' = Holds(c)
  <2>1. \E b \in Nat : tx'[c] = [tx[c] EXCEPT !.pc = "ro", !.b = b] BY <1>o, <1>2, TxMoves
  <2> QED BY <1>0, <2>1 DEF Holds, TxType
<1>3. ASSUME Lock(c) \/ InsertTid(c) PROVE Holds(c)' = Holds(c)
  <2>1. \/ tx'[c] = [tx[c] EXCEPT !.pc = "write", !.ce = current_tick_]
        \/ tx'[c] = [tx[c] EXCEPT !.pc = "publish", !.ce = current_tick_]
    BY <1>o, <1>3, TxMoves
  <2> QED BY <1>0, <2>1 DEF Holds, TxType
<1>4. ASSUME GcStart(c) PROVE Holds(c)' = Holds(c)
  <2>1. tx'[c] = [tx[c] EXCEPT !.pc = "reap"] BY <1>o, <1>4, TxMoves
  <2> QED BY <1>0, <2>1 DEF Holds, TxType
<1>5. ASSUME tx'[c] = [tx[c] EXCEPT !.pc = "rw", !.ce = 0] PROVE Holds(c)' = Holds(c)
  BY <1>0, <1>5 DEF Holds, TxType
<1>6. ASSUME AbortInsert(c) \/ CommitInsert(c) \/ AbortLocked(c) PROVE Holds(c)' = Holds(c)
  <2>1. tx'[c] = [tx[c] EXCEPT !.pc = "rw", !.ce = 0] BY <1>o, <1>6, TxMoves
  <2> QED BY <1>5, <2>1
<1>7. ASSUME NEW del \in BOOLEAN, WriteInPlace(c, del) \/ WriteSpill(c, del) \/ WriteReplace(c, del)
      PROVE Holds(c)' = Holds(c)
  <2>1. tx'[c] = [tx[c] EXCEPT !.pc = "rw", !.ce = 0] BY <1>o, <1>7, TxMoves
  <2> QED BY <1>5, <2>1
<1>8. ASSUME End(c) \/ GcSkip(c) \/ GcEnd(c) PROVE Holds(c)' = {}
  <2>1. tx'[c] = [NoTxn EXCEPT !.pc = "gc"] \/ tx'[c] = NoTxn BY <1>o, <1>8, TxMoves
  <2> QED BY <2>1 DEF Holds, NoTxn
<1>9. ASSUME SnapshotSearch(c) \/ Search(c) PROVE Holds(c)' \subseteq Holds(c) \cup ({root} \ {null})
  <2>1. \/ tx'[c] = [tx[c] EXCEPT !.got = 0]
        \/ tx'[c] = [tx[c] EXCEPT !.pc = "walk", !.cur = root]
        \/ tx'[c] = [tx[c] EXCEPT !.held = tx[c].held \cup {root}]
    BY <1>o, <1>9, TxMoves
  <2>2. tx'[c].held \subseteq tx[c].held \cup {root} /\ tx'[c].cur \in {tx[c].cur, root}
    BY <1>0, <2>1 DEF TxType
  <2> QED BY <2>2 DEF Holds
<1>10. ASSUME SnapshotVisit(c)
       PROVE \/ Holds(c)' \subseteq Holds(c)
             \/ LET n == tup[tx[c].cur].next IN
                /\ n \in Tuples /\ Holds(c)' \subseteq Holds(c) \cup {n}
                /\ tup[tx[c].cur].ep # MAX_EPOCH /\ tup[tx[c].cur].ep >= tx[c].b
  <2>1. CASE \E g \in Int : Only(c, Found(c, g))
    <3>1. tx'[c].held = tx[c].held /\ tx'[c].cur = null BY <1>0, <2>1 DEF Only, Found, TxType
    <3> QED BY <3>1 DEF Holds
  <2>2. CASE LET n == tup[tx[c].cur].next IN
             /\ n \in Tuples /\ Only(c, [tx[c] EXCEPT !.cur = n])
             /\ tup[tx[c].cur].ep # MAX_EPOCH /\ tup[tx[c].cur].ep >= tx[c].b
    <3> DEFINE n == tup[tx[c].cur].next
    <3>1. tx'[c] = [tx[c] EXCEPT !.cur = n] BY <2>2 DEF Only
    <3>2. tx'[c].held = tx[c].held /\ tx'[c].cur = n
      <4> HIDE DEF n
      <4> QED BY <1>0, <3>1 DEF TxType
    <3>3. Holds(c)' \subseteq Holds(c) \cup {n}
      <4> HIDE DEF n
      <4> QED BY <3>2 DEF Holds
    <3> QED BY <2>2, <3>3
  <2> QED BY <1>10, <2>1, <2>2, TxMoves
<1> QED BY <1>1, <1>2, <1>3, <1>4, <1>6, <1>7, <1>8, <1>9, <1>10

\* The next version of the chain is there for a reader that goes on to it.
LEMMA NextAlive ==
  ASSUME Types, SafeInv, NEW c \in Cores, SnapshotVisit(c),
         NEW n \in Tuples, n = tup[tx[c].cur].next,
         tup[tx[c].cur].ep # MAX_EPOCH, tup[tx[c].cur].ep >= tx[c].b
  PROVE tup[n].st = "used"
<1> DEFINE k == tx[c].cur
<1>1. k \in Tuples /\ BoundInv(c) /\ inside[c] # 0 BY VisitCases
<1>2. null \notin Tuples BY DEF Tuples, null
<1>3. k \in Holds(c) BY <1>1, <1>2 DEF Holds
<1>4. Alive(k) BY <1>3, Holder
<1>5. /\ tup[k].ep \in Nat /\ tup[n].st \in {"used", "freed"}
      /\ tup[n].st = "freed" => Ro(tup[k].ep) < Ro(last_tick_inclusive_)
  BY <1>1, <1>2, <1>4, LinkFacts
<1>6. tx[c].b \in Nat /\ \A e \in Nat : Ro(e) < Ro(last_tick_inclusive_) => e < tx[c].b
  BY <1>1, BoundFacts DEF SafeInv
<1> HIDE DEF k
<1>7. tup[k].ep >= tx[c].b BY DEF k
<1> QED BY <1>5, <1>6, <1>7

LEMMA HoldStep ==
  ASSUME Types, SafeInv, [Next]_vars, NEW d \in Cores
  PROVE HoldInv(d)'
<1>t. /\ tup \in [Tuples -> TupleType] /\ root \in Tuples \cup {null} /\ null \notin Tuples
      /\ waits \in [Tuples -> SUBSET Cores] /\ inside \in [Cores -> 0..MaxTick]
  BY DEF Types, ClockTypeOK, Tuples, null
<1>h. \A n \in Holds(d) : n \in Tuples /\ Alive(n) /\ inside[d] # 0 BY Holder
<1>u. ASSUME UNCHANGED <<tup, waits, tx>> PROVE HoldInv(d)' BY <1>u, HoldKept DEF Holds
<1>o. ASSUME NEW c \in Cores, d # c, NEW t, Only(c, t) PROVE Holds(d)' = Holds(d)
  BY <1>o DEF Only, Holds
<1>1. ASSUME NEW c \in Cores,
             Begin(c) \/ BeginSnapshot(c) \/ Lock(c) \/ InsertTid(c) \/ GcStart(c) \/ AbortLocked(c)
      PROVE HoldInv(d)'
  <2>1. UNCHANGED <<tup, waits>>
    BY <1>1 DEF Begin, BeginSnapshot, Lock, InsertTid, GcStart, AbortLocked, dataVars
  <2>2. \E t : Only(c, t) BY <1>1, TxMoves
  <2>3. Holds(c)' = Holds(c) BY <1>1, HoldMoves
  <2> QED BY <1>o, <2>1, <2>2, <2>3, HoldKept
<1>2. ASSUME NEW c \in Cores, End(c) \/ GcEnd(c) \/ GcSkip(c) PROVE HoldInv(d)'
  <2>1. Holds(c)' = {} BY <1>2, HoldMoves
  <2>2. UNCHANGED tup /\ \A n \in Tuples : waits'[n] = waits[n] \ {c} \/ waits'[n] = waits[n]
    BY <1>t, <1>2 DEF End, GcEnd, GcSkip, dataVars
  <2>3. \E t : Only(c, t) BY <1>2, TxMoves
  <2>4. CASE d = c BY <2>1, <2>4 DEF HoldInv
  <2>5. CASE d # c
    <3>1. Holds(d)' = Holds(d) BY <1>o, <2>3, <2>5
    <3>2. \A n \in Holds(d) : d \in waits[n] => d \in waits'[n] BY <1>h, <2>2, <2>5
    <3> QED BY <2>2, <3>1, <3>2, HoldKept
  <2> QED BY <2>4, <2>5
<1>3. ASSUME NEW c \in Cores, UNCHANGED <<tup, waits>>, NEW n, n = null \/ tup[n].st = "used",
             Holds(c)' \subseteq Holds(c) \cup ({n} \ {null}), \E t : Only(c, t)
      PROVE HoldInv(d)'
  <2>1. CASE d = c
    <3>1. HoldInv(c) BY DEF SafeInv
    <3> QED BY <1>3, <2>1, <3>1 DEF HoldInv, Alive
  <2>2. CASE d # c
    <3>1. Holds(d)' = Holds(d) BY <1>o, <1>3, <2>2
    <3> QED BY <1>3, <3>1, HoldKept
  <2> QED BY <2>1, <2>2
<1>4. ASSUME NEW c \in Cores, SnapshotSearch(c) \/ Search(c) PROVE HoldInv(d)'
  <2>1. UNCHANGED <<tup, waits>> BY <1>4 DEF SnapshotSearch, Search, dataVars
  <2>2. Holds(c)' \subseteq Holds(c) \cup ({root} \ {null}) BY <1>4, HoldMoves
  <2>3. root = null \/ tup[root].st = "used" BY DEF SafeInv, RootInv
  <2>4. \E t : Only(c, t) BY <1>4, TxMoves
  <2> QED BY <1>3, <2>1, <2>2, <2>3, <2>4
<1>5. ASSUME NEW c \in Cores, SnapshotVisit(c) PROVE HoldInv(d)'
  <2>1. UNCHANGED <<tup, waits>> BY <1>5 DEF SnapshotVisit, dataVars
  <2>2. \E t : Only(c, t) BY <1>5, TxMoves
  <2>3. CASE Holds(c)' \subseteq Holds(c) BY <1>3, <2>1, <2>2, <2>3
  <2>4. CASE LET n == tup[tx[c].cur].next IN
             /\ n \in Tuples /\ Holds(c)' \subseteq Holds(c) \cup {n}
             /\ tup[tx[c].cur].ep # MAX_EPOCH /\ tup[tx[c].cur].ep >= tx[c].b
    <3> DEFINE n == tup[tx[c].cur].next
    <3>1. n \in Tuples /\ tup[n].st = "used" BY <1>5, <2>4, NextAlive
    <3>2. Holds(c)' \subseteq Holds(c) \cup {n} BY <2>4
    <3> HIDE DEF n
    <3>3. Holds(c)' \subseteq Holds(c) \cup ({n} \ {null}) BY <1>t, <3>1, <3>2
    <3> QED BY <1>3, <2>1, <2>2, <3>1, <3>3
  <2> QED BY <1>5, <2>3, <2>4, HoldMoves
<1>6. ASSUME NEW c \in Cores, Insert(c) PROVE HoldInv(d)'
  <2>1. PICK n \in Tuples : /\ Fresh(n) /\ Becomes(n, Tentative)
                            /\ Put(c, [tx[c] EXCEPT !.pc = "inserted", !.held = tx[c].held \cup {n}])
    BY <1>6, TupleForm
  <2>2. tup'[n] = Tentative /\ \A q \in Tuples : q # n => tup'[q] = tup[q]
    BY <1>t, <2>1, TentativeFacts, BecomesType
  <2>3. tup[n].st = "none" /\ tup'[n].st = "used" /\ UNCHANGED waits
    BY <1>6, <2>1, <2>2, TentativeFacts DEF Fresh, Insert
  <2>4. /\ tx'[c].held = tx[c].held \cup {n} /\ tx'[c].cur = tx[c].cur
        /\ \A e \in Cores : e # c => tx'[e] = tx[e]
    BY <2>1 DEF Put, Types, TxType
  <2>5. \A q \in Holds(d) : tup'[q].st = tup[q].st BY <1>h, <2>2, <2>3 DEF Alive
  <2>6. CASE d # c
    <3>1. Holds(d)' = Holds(d) BY <2>4, <2>6 DEF Holds
    <3> QED BY <2>3, <2>5, <3>1, HoldKept
  <2>7. CASE d = c
    <3>1. Holds(d)' \subseteq Holds(d) \cup {n} BY <2>4, <2>7 DEF Holds
    <3>2. HoldInv(d) BY DEF SafeInv
    <3> QED BY <2>3, <2>5, <3>1, <3>2 DEF HoldInv, Alive
  <2> QED BY <2>6, <2>7
<1>7. ASSUME root \in Tuples, tup[root].st = "used", Becomes(root, [tup[root] EXCEPT !.st = "retired"]),
             waits' = [waits EXCEPT ![root] = {e \in Cores : inside'[e] # 0}],
             inside[d] # 0 => inside'[d] # 0, Holds(d)' = Holds(d)
      PROVE HoldInv(d)'
  <2>1. /\ \A q \in Tuples : q # root => tup'[q] = tup[q] /\ waits'[q] = waits[q]
        /\ tup'[root].st = "retired" /\ waits'[root] = {e \in Cores : inside'[e] # 0}
    BY <1>t, <1>7 DEF Becomes, TupleType
  <2>2. HoldInv(d) BY DEF SafeInv
  <2> QED BY <1>h, <1>7, <2>1, <2>2 DEF HoldInv, Alive
<1>8. ASSUME NEW c \in Cores, AbortInsert(c) PROVE HoldInv(d)'
  <2>1. root \in Tuples /\ tup[root].st = "used" BY <1>8, WriterFacts DEF AbortInsert, Inserting
  <2>2. /\ waits' = [waits EXCEPT ![root] = {e \in Cores : inside[e] # 0}] /\ inside' = inside
    BY <1>8 DEF AbortInsert, Retire, clockVars
  <2>3. \E t : Only(c, t) BY <1>8, TxMoves
  <2>4. Holds(d)' = Holds(d) BY <1>o, <1>8, <2>3, HoldMoves
  <2>5. Becomes(root, [tup[root] EXCEPT !.st = "retired"]) BY <1>8, TupleForm
  <2> QED BY <1>7, <2>1, <2>2, <2>4, <2>5
<1>9. ASSUME NEW c \in Cores, GcRemove(c) PROVE HoldInv(d)'
  <2>1. root \in Tuples /\ tup[root].st = "used"
    <3>1. root \in Tuples BY <1>9, EntryFacts DEF GcRemove
    <3> QED BY <1>t, <3>1 DEF SafeInv, RootInv
  <2>2. waits' = [waits EXCEPT ![root] = {e \in Cores : inside'[e] # 0}]
    BY <1>9 DEF GcRemove, Retire
  <2>3. inside[d] # 0 => inside'[d] # 0 BY <1>t, <1>9 DEF GcRemove
  <2>4. Holds(d)' = Holds(d) BY <1>9 DEF GcRemove, Holds
  <2>5. Becomes(root, [tup[root] EXCEPT !.st = "retired"]) BY <1>9, TupleForm
  <2> QED BY <1>7, <2>1, <2>2, <2>3, <2>4, <2>5
<1>10. ASSUME NEW c \in Cores, Holds(c)' = Holds(c), \E t : Only(c, t), UNCHANGED waits,
              \A q \in Tuples : Alive(q) => tup'[q].st = tup[q].st
       PROVE HoldInv(d)'
  <2>1. Holds(d)' = Holds(d) BY <1>o, <1>10
  <2> QED BY <1>h, <1>10, <2>1, HoldKept
<1>11. ASSUME NEW c \in Cores, CommitInsert(c) PROVE HoldInv(d)'
  <2>0. tx[c].pc = "publish" BY <1>11 DEF CommitInsert, At
  <2>1. root \in Tuples BY <2>0, WriterFacts DEF Inserting
  <2>2. Becomes(root, [tup[root] EXCEPT !.ep = tx[c].ce, !.w = Len(writes) + 1]) BY <1>11, TupleForm
  <2>3. \A q \in Tuples : tup'[q].st = tup[q].st BY <1>t, <2>1, <2>2 DEF Becomes, TupleType
  <2>4. Holds(c)' = Holds(c) /\ (\E t : Only(c, t)) BY <1>11, HoldMoves, TxMoves
  <2> QED BY <1>10, <1>11, <2>3, <2>4 DEF CommitInsert
<1>12. ASSUME NEW c \in Cores, NEW del \in BOOLEAN,
              WriteInPlace(c, del) \/ WriteSpill(c, del) \/ WriteReplace(c, del)
       PROVE HoldInv(d)'
  <2>0. tx[c].pc = "write" /\ UNCHANGED waits
    BY <1>12 DEF WriteInPlace, WriteSpill, WriteReplace, At
  <2>1. root \in Tuples /\ tup[root].st = "used" /\ tup[root] \in TupleType BY <2>0, WriterFacts
  <2>2. Holds(c)' = Holds(c) /\ (\E t : Only(c, t)) BY <1>12, HoldMoves, TxMoves
  <2>3. tup[root].next \in Tuples \cup {null} BY <2>1 DEF TupleType
  <2>4. CASE WriteInPlace(c, del)
    <3>1. Becomes(root, NewVersion(c, del, tup[root].next)) BY <2>4, TupleForm
    <3>2. /\ NewVersion(c, del, tup[root].next) \in TupleType
          /\ NewVersion(c, del, tup[root].next).st = "used"
      BY <2>0, <2>3, NewVersionFacts
    <3>3. \A q \in Tuples : tup'[q].st = tup[q].st BY <1>t, <2>1, <3>1, <3>2, BecomesType
    <3> QED BY <1>10, <2>0, <2>2, <3>3
  <2>5. CASE WriteSpill(c, del)
    <3>1. PICK s \in Tuples : /\ Fresh(s) /\ tup'[root] = NewVersion(c, del, s)
                              /\ \A q \in Tuples : q # root /\ q # s => tup'[q] = tup[q]
      BY <2>5, SpillForm
    <3>2. NewVersion(c, del, s).st = "used" /\ tup[s].st = "none"
      BY <2>0, <3>1, NewVersionFacts DEF Fresh
    <3>3. \A q \in Tuples : Alive(q) => tup'[q].st = tup[q].st BY <2>1, <3>1, <3>2 DEF Alive
    <3> QED BY <1>10, <2>0, <2>2, <3>3
  <2>6. CASE WriteReplace(c, del)
    <3>1. PICK rep \in Tuples : Fresh(rep) /\ \A q \in Tuples : q # rep => tup'[q] = tup[q]
      BY <2>6, ReplaceQueued
    <3>2. \A q \in Tuples : Alive(q) => tup'[q].st = tup[q].st BY <3>1 DEF Alive, Fresh
    <3> QED BY <1>10, <2>0, <2>2, <3>2
  <2> QED BY <1>12, <2>4, <2>5, <2>6
<1>13. ASSUME NEW n \in Tuples, n \notin Holds(d), Becomes(n, [tup[n] EXCEPT !.st = "freed"]),
              UNCHANGED <<tx, waits>>
       PROVE HoldInv(d)'
  <2>1. \A q \in Holds(d) : tup'[q] = tup[q] BY <1>t, <1>h, <1>13 DEF Becomes
  <2>2. Holds(d)' = Holds(d) BY <1>13 DEF Holds
  <2> QED BY <1>13, <2>1, <2>2, HoldKept
<1>14. ASSUME NEW c \in Cores, GcFree(c) PROVE HoldInv(d)'
  <2>1. Reaping(c) /\ DropEntry(c) /\ ~Entry(c).key /\ UNCHANGED <<tx, waits>> BY <1>14 DEF GcFree
  <2>2. Entry(c).tup \in Tuples /\ Entry(c).tick \in Nat BY <2>1, EntryFacts
  <2>3. Entry(c) \in Elements(scratch_[c]) BY <2>1, Dropped
  <2>4. EntryInv(Entry(c)) /\ Entry(c).tick < Ro(last_tick_inclusive_)
    BY <2>3 DEF SafeInv, QueueInv, EntriesOf
  <2>5. ASSUME Entry(c).tup \in Holds(d) PROVE FALSE
    <3>1. Ro(inside[d] - 1) <= Entry(c).tick BY <2>1, <2>4, <2>5 DEF EntryInv
    <3>2. inside[d] - 1 \in Nat /\ last_tick_inclusive_ <= inside[d] - 1 BY <2>5, Holder
    <3>3. /\ Ro(last_tick_inclusive_) <= Ro(inside[d] - 1)
          /\ Ro(last_tick_inclusive_) \in Nat /\ Ro(inside[d] - 1) \in Nat
      BY <3>2, ClockNat, RoMonotone
    <3> QED BY <2>2, <2>4, <3>1, <3>3
  <2>6. Becomes(Entry(c).tup, [tup[Entry(c).tup] EXCEPT !.st = "freed"]) BY <1>14, TupleForm
  <2> QED BY <1>13, <2>1, <2>2, <2>5, <2>6
<1>15. ASSUME NEW n \in Tuples, RcuFree(n) PROVE HoldInv(d)'
  <2>1. 1 \in Cores BY ClockAssumption DEF Cores
  <2>2. Becomes(n, [tup[n] EXCEPT !.st = "freed"]) BY <1>15, <2>1, TupleForm
  <2>3. n \notin Holds(d) BY <1>15, Holder DEF RcuFree
  <2> QED BY <1>13, <1>15, <2>2, <2>3 DEF RcuFree
<1>16. ASSUME NEW c \in Cores, GcRequeue(c) PROVE HoldInv(d)'
  BY <1>u, <1>16 DEF GcRequeue, dataVars
<1>17. CASE Ticking BY <1>u, <1>17 DEF Ticking, dataVars
<1>18. CASE UNCHANGED vars BY <1>u, <1>18 DEF vars, dataVars
<1> QED
  BY <1>1, <1>2, <1>4, <1>5, <1>6, <1>8, <1>9, <1>11, <1>12, <1>14, <1>15, <1>16, <1>17, <1>18
     DEF Next

-----------------------------------------------------------------------------
(* What a step does to the chain, field by field.                          *)

Others(n) == \A q \in Tuples : q # n => tup'[q] = tup[q]

SameVersion(n) ==
  /\ tup'[n].ep = tup[n].ep /\ tup'[n].w = tup[n].w
  /\ tup'[n].del = tup[n].del /\ tup'[n].next = tup[n].next

\* The write of core c is the last one now.
Appended(c, del) ==
  /\ Len(writes') = Len(writes) + 1
  /\ \A i \in 1..Len(writes) : writes'[i] = writes[i]
  /\ writes'[Len(writes) + 1] = [ep |-> tx[c].ce, del |-> del]

Inserted(n) ==
  /\ UNCHANGED writes
  /\ tup[n].st = "none" /\ root = null /\ root' = n /\ Others(n)
  /\ tup'[n].ep = MAX_EPOCH /\ tup'[n].st = "used" /\ tup'[n].next = null /\ ~tup'[n].del

Retired ==
  /\ UNCHANGED writes
  /\ root \in Tuples /\ tup[root].st = "used" /\ root' = null /\ Others(root)
  /\ SameVersion(root) /\ tup'[root].st = "retired"

Freed(n) == UNCHANGED writes /\ root' = root /\ Others(n) /\ SameVersion(n) /\ tup'[n].st = "freed"

\* Core c writes the latest tuple.
Writer(c) ==
  /\ root \in Tuples /\ tup[root].st = "used"
  /\ tx[c].ce \in Nat /\ tx[c].ce <= current_tick_ /\ tx[c].ce # MAX_EPOCH
  /\ last_tick_inclusive_ + 1 <= tx[c].ce

Published(c) ==
  /\ Appended(c, FALSE)
  /\ Writer(c) /\ root' = root /\ Others(root) /\ tup'[root].st = "used"
  /\ tup[root].ep = MAX_EPOCH /\ ~tup[root].del /\ tup[root].next = null
  /\ tup'[root].ep = tx[c].ce /\ ~tup'[root].del /\ tup'[root].next = null
  /\ tup'[root].w = Len(writes) + 1

Installed(c, del, n, next) ==
  /\ tup'[n].ep = tx[c].ce /\ tup'[n].w = Len(writes) + 1 /\ tup'[n].del = del
  /\ tup'[n].next = next /\ tup'[n].st = "used"

Overwritten(c, del) ==
  /\ Appended(c, del)
  /\ Writer(c) /\ root' = root /\ Others(root) /\ Installed(c, del, root, tup[root].next)
  /\ tup[root].ep # MAX_EPOCH /\ ~tup[root].del /\ Ro(tup[root].ep) = Ro(tx[c].ce)

Spilled(c, del, s) ==
  /\ Appended(c, del)
  /\ Writer(c) /\ root' = root /\ tup[s].st = "none" /\ s # root
  /\ \A q \in Tuples : q # root /\ q # s => tup'[q] = tup[q]
  /\ tup'[s] = tup[root] /\ Installed(c, del, root, s)
  /\ tup[root].ep # MAX_EPOCH /\ ~tup[root].del
  /\ Queued(c, {Mark(s, FALSE, tx[c].ce)} \cup IF del THEN {Mark(root, TRUE, tx[c].ce)} ELSE {})

Replaced(c, del, rep) ==
  /\ Appended(c, del)
  /\ Writer(c) /\ root' = rep /\ tup[rep].st = "none" /\ rep # root /\ Others(rep)
  /\ Installed(c, del, rep, root) /\ tup[root].ep # MAX_EPOCH
  /\ Queued(c, (IF tup[root].del THEN {} ELSE {Mark(root, FALSE, tx[c].ce)})
                 \cup IF del THEN {Mark(rep, TRUE, tx[c].ce)} ELSE {})

Moved ==
  \/ UNCHANGED <<root, tup, writes>>
  \/ \E c \in Cores, n \in Tuples : Insert(c) /\ Inserted(n)
  \/ \E c \in Cores : (AbortInsert(c) \/ GcRemove(c)) /\ Retired
  \/ \E c \in Cores : CommitInsert(c) /\ Published(c)
  \/ \E c \in Cores, del \in BOOLEAN : WriteInPlace(c, del) /\ Overwritten(c, del)
  \/ \E c \in Cores, del \in BOOLEAN, s \in Tuples : WriteSpill(c, del) /\ Spilled(c, del, s)
  \/ \E c \in Cores, del \in BOOLEAN, rep \in Tuples : WriteReplace(c, del) /\ Replaced(c, del, rep)
  \/ \E c \in Cores : GcFree(c) /\ Freed(Entry(c).tup)
  \/ \E n \in Tuples : RcuFree(n) /\ Freed(n)

\* Whoever writes or publishes has the lock of the latest tuple.
LEMMA WriterMoves ==
  ASSUME Types, SafeInv, NEW c \in Cores, tx[c].pc \in {"write", "publish"}
  PROVE /\ Writer(c) /\ tup[root] \in TupleType
        /\ tx[c].pc = "write" => tup[root].ep # MAX_EPOCH
        /\ tx[c].pc = "publish" => /\ tup[root].ep = MAX_EPOCH /\ ~tup[root].del
                                   /\ tup[root].next = null
<1>1. /\ root \in Tuples /\ tup[root] \in TupleType /\ tup[root].st = "used"
      /\ tx[c].pc = "write" => tup[root].ep # MAX_EPOCH
      /\ tx[c].pc = "publish" => tup[root].ep = MAX_EPOCH /\ ~tup[root].del
      /\ tx[c].ce \in Nat /\ tx[c].ce <= current_tick_ /\ tx[c].ce < MAX_EPOCH
      /\ last_tick_inclusive_ + 1 <= tx[c].ce
  BY WriterFacts DEF Inserting
<1>2. tx[c].ce # MAX_EPOCH BY <1>1, ClockNat
<1>3. tup[root].ep = MAX_EPOCH => tup[root].next = null BY <1>1 DEF SafeInv, LinkInv, Alive
<1> QED BY <1>1, <1>2, <1>3 DEF Writer

LEMMA WroteMoves ==
  ASSUME Types, NEW c \in Cores, NEW del \in BOOLEAN, Wrote(c, del)
  PROVE Appended(c, del)
<1>1. writes \in Seq([ep : Nat, del : BOOLEAN]) /\ tx[c].ce \in Nat BY DEF Types, TxType
<1>2. writes' = Append(writes, [ep |-> tx[c].ce, del |-> del]) BY DEF Wrote
<1> DEFINE w == [ep |-> tx[c].ce, del |-> del]
<1>3. w \in [ep : Nat, del : BOOLEAN] BY <1>1
<1> HIDE DEF w
<1>4. /\ Len(Append(writes, w)) = Len(writes) + 1
      /\ \A i \in 1..Len(writes) : Append(writes, w)[i] = writes[i]
      /\ Append(writes, w)[Len(writes) + 1] = w
  BY <1>1, <1>3
<1> QED BY <1>2, <1>4 DEF Appended, w

\* The three ways to install a version.
LEMMA WriteMoves ==
  ASSUME Types, SafeInv, NEW c \in Cores, NEW del \in BOOLEAN
  PROVE /\ WriteInPlace(c, del) => Overwritten(c, del)
        /\ WriteSpill(c, del) => \E s \in Tuples : Spilled(c, del, s)
        /\ WriteReplace(c, del) => \E rep \in Tuples : Replaced(c, del, rep)
<1>t. tup \in [Tuples -> TupleType] /\ root \in Tuples \cup {null} BY DEF Types
<1>1. ASSUME WriteInPlace(c, del) PROVE Overwritten(c, del)
  <2>0. tx[c].pc = "write" /\ root' = root /\ Overwritable(c) BY <1>1 DEF WriteInPlace, At
  <2>1. Writer(c) /\ tup[root] \in TupleType /\ tup[root].ep # MAX_EPOCH BY <2>0, WriterMoves
  <2>2. root \in Tuples /\ tup[root].next \in Tuples \cup {null} BY <2>1 DEF Writer, TupleType
  <2>3. Becomes(root, NewVersion(c, del, tup[root].next)) BY <1>1, TupleForm
  <2>4. NewVersion(c, del, tup[root].next) \in TupleType BY <2>0, <2>2, NewVersionFacts
  <2>5. tup'[root] = NewVersion(c, del, tup[root].next) /\ Others(root)
    BY <1>t, <2>2, <2>3, <2>4, BecomesType DEF Others
  <2>6. Installed(c, del, root, tup[root].next)
    BY <2>0, <2>2, <2>5, NewVersionFacts DEF Installed
  <2>7. ~tup[root].del /\ Ro(tup[root].ep) = Ro(tx[c].ce)
    BY <2>0 DEF Overwritable, can_overwrite_record_tid, Ro
  <2>9. Appended(c, del) BY <1>1, WroteMoves DEF WriteInPlace
  <2>8. Overwritten(c, del) BY <2>9, <2>0, <2>1, <2>5, <2>6, <2>7 DEF Overwritten
  <2> QED BY <2>8
<1>2. ASSUME WriteSpill(c, del) PROVE \E s \in Tuples : Spilled(c, del, s)
  <2>0. tx[c].pc = "write" /\ root' = root /\ ~tup[root].del BY <1>2 DEF WriteSpill, At
  <2>1. Writer(c) /\ tup[root].ep # MAX_EPOCH BY <2>0, WriterMoves
  <2>2. PICK s \in Tuples : /\ Fresh(s) /\ s # root /\ tup'[s] = tup[root]
                            /\ tup'[root] = NewVersion(c, del, s)
                            /\ \A q \in Tuples : q # root /\ q # s => tup'[q] = tup[q]
                            /\ Queued(c, {Mark(s, FALSE, tx[c].ce)}
                                           \cup IF del THEN {Mark(root, TRUE, tx[c].ce)} ELSE {})
    BY <1>2, SpillQueued
  <2>3. Installed(c, del, root, s) BY <2>0, <2>2, NewVersionFacts DEF Installed
  <2>4. tup[s].st = "none" BY <2>2 DEF Fresh
  <2>6. Appended(c, del) BY <1>2, WroteMoves DEF WriteSpill
  <2>5. Spilled(c, del, s) BY <2>6, <2>0, <2>1, <2>2, <2>3, <2>4 DEF Spilled
  <2> QED BY <2>5
<1>3. ASSUME WriteReplace(c, del) PROVE \E rep \in Tuples : Replaced(c, del, rep)
  <2>0. tx[c].pc = "write" BY <1>3 DEF WriteReplace, At
  <2>1. Writer(c) /\ tup[root].ep # MAX_EPOCH BY <2>0, WriterMoves
  <2>2. PICK rep \in Tuples : /\ Fresh(rep) /\ rep # root /\ root' = rep
                              /\ tup'[rep] = NewVersion(c, del, root)
                              /\ \A q \in Tuples : q # rep => tup'[q] = tup[q]
                              /\ Queued(c, (IF tup[root].del THEN {} ELSE {Mark(root, FALSE, tx[c].ce)})
                                             \cup IF del THEN {Mark(rep, TRUE, tx[c].ce)} ELSE {})
    BY <1>3, ReplaceQueued
  <2>3. Installed(c, del, rep, root)
    <3>1. root \in Tuples \cup {null} BY <1>t
    <3> QED BY <2>0, <2>2, <3>1, NewVersionFacts DEF Installed
  <2>4. tup[rep].st = "none" BY <2>2 DEF Fresh
  <2>6. Appended(c, del) BY <1>3, WroteMoves DEF WriteReplace
  <2>5. Replaced(c, del, rep) BY <2>6, <2>1, <2>2, <2>3, <2>4 DEF Replaced, Others
  <2> QED BY <2>5
<1> QED BY <1>1, <1>2, <1>3

LEMMA Moves ==
  ASSUME Types, SafeInv, [Next]_vars
  PROVE Moved
<1>t. tup \in [Tuples -> TupleType] /\ root \in Tuples \cup {null} /\ null \notin Tuples
  BY DEF Types, Tuples, null
<1>s. ASSUME NEW n \in Tuples, NEW st \in {"retired", "freed"}, Becomes(n, [tup[n] EXCEPT !.st = st])
      PROVE Others(n) /\ SameVersion(n) /\ tup'[n].st = st
  BY <1>t, <1>s DEF Becomes, TupleType, Others, SameVersion
<1>u. ASSUME UNCHANGED <<root, tup, writes>> PROVE Moved BY <1>u DEF Moved
<1>1. ASSUME NEW c \in Cores, Quiet(c) \/ Lock(c) \/ AbortLocked(c) PROVE Moved
  BY <1>u, <1>1, QuietFrame DEF Lock, AbortLocked
<1>2. ASSUME NEW c \in Cores, Insert(c) PROVE Moved
  <2>1. PICK n \in Tuples : Fresh(n) /\ root' = n /\ Becomes(n, Tentative) BY <1>2, TupleForm
  <2>2. tup'[n] = Tentative /\ Others(n)
    BY <1>t, <2>1, TentativeFacts, BecomesType DEF Others
  <2>3. tup[n].st = "none" /\ root = null /\ UNCHANGED writes BY <1>2, <2>1 DEF Fresh, Insert
  <2>4. Inserted(n) BY <2>1, <2>2, <2>3, TentativeFacts DEF Inserted
  <2> QED BY <1>2, <2>4 DEF Moved
<1>3. ASSUME NEW c \in Cores, AbortInsert(c) \/ GcRemove(c) PROVE Moved
  <2>1. root \in Tuples /\ tup[root].st = "used"
    <3>1. CASE AbortInsert(c) BY <3>1, WriterFacts DEF AbortInsert, Inserting
    <3>2. CASE GcRemove(c)
      <4>1. root \in Tuples BY <3>2, EntryFacts DEF GcRemove
      <4> QED BY <1>t, <4>1 DEF SafeInv, RootInv
    <3> QED BY <1>3, <3>1, <3>2
  <2>2. Becomes(root, [tup[root] EXCEPT !.st = "retired"]) BY <1>3, TupleForm
  <2>3. root' = null /\ UNCHANGED writes BY <1>3 DEF AbortInsert, GcRemove, Retire
  <2>4. Retired BY <1>s, <2>1, <2>2, <2>3 DEF Retired
  <2> QED BY <1>3, <2>4 DEF Moved
<1>4. ASSUME NEW c \in Cores, CommitInsert(c) PROVE Moved
  <2>0. tx[c].pc = "publish" /\ root' = root BY <1>4 DEF CommitInsert, At
  <2>1. /\ Writer(c) /\ tup[root] \in TupleType
        /\ tup[root].ep = MAX_EPOCH /\ ~tup[root].del /\ tup[root].next = null
    BY <2>0, WriterMoves
  <2>2. Becomes(root, [tup[root] EXCEPT !.ep = tx[c].ce, !.w = Len(writes) + 1]) BY <1>4, TupleForm
  <2>3. root \in Tuples /\ tup[root].st = "used" BY <2>1 DEF Writer
  <2>4. /\ Others(root) /\ tup'[root].ep = tx[c].ce /\ tup'[root].next = tup[root].next
        /\ tup'[root].del = tup[root].del /\ tup'[root].st = tup[root].st
        /\ tup'[root].w = Len(writes) + 1
    BY <1>t, <2>2, <2>3 DEF Becomes, TupleType, Others
  <2>6. Appended(c, FALSE) BY <1>4, WroteMoves DEF CommitInsert
  <2>5. Published(c) BY <2>6, <2>0, <2>1, <2>3, <2>4 DEF Published
  <2> QED BY <1>4, <2>5 DEF Moved
<1>5. ASSUME NEW c \in Cores, NEW del \in BOOLEAN, WriteInPlace(c, del) PROVE Moved
  <2>1. Overwritten(c, del) BY <1>5, WriteMoves
  <2> QED BY <1>5, <2>1 DEF Moved
<1>6. ASSUME NEW c \in Cores, NEW del \in BOOLEAN, WriteSpill(c, del) PROVE Moved
  <2>1. \E s \in Tuples : Spilled(c, del, s) BY <1>6, WriteMoves
  <2> QED BY <1>6, <2>1 DEF Moved
<1>7. ASSUME NEW c \in Cores, NEW del \in BOOLEAN, WriteReplace(c, del) PROVE Moved
  <2>1. \E rep \in Tuples : Replaced(c, del, rep) BY <1>7, WriteMoves
  <2> QED BY <1>7, <2>1 DEF Moved
<1>8. ASSUME NEW c \in Cores, GcFree(c) PROVE Moved
  <2>1. Entry(c).tup \in Tuples /\ root' = root /\ UNCHANGED writes BY <1>8, EntryFacts DEF GcFree
  <2>2. Becomes(Entry(c).tup, [tup[Entry(c).tup] EXCEPT !.st = "freed"]) BY <1>8, TupleForm
  <2>3. Freed(Entry(c).tup) BY <1>s, <2>1, <2>2 DEF Freed
  <2> QED BY <1>8, <2>3 DEF Moved
<1>9. ASSUME NEW n \in Tuples, RcuFree(n) PROVE Moved
  <2>1. 1 \in Cores BY ClockAssumption DEF Cores
  <2>2. Becomes(n, [tup[n] EXCEPT !.st = "freed"]) /\ root' = root /\ UNCHANGED writes
    BY <1>9, <2>1, TupleForm DEF RcuFree
  <2>3. Freed(n) BY <1>s, <2>2 DEF Freed
  <2> QED BY <1>9, <2>3 DEF Moved
<1>10. CASE Ticking BY <1>u, <1>10 DEF Ticking, dataVars
<1>11. CASE UNCHANGED vars BY <1>u, <1>11 DEF vars, dataVars
<1> QED
  BY <1>1, <1>2, <1>3, <1>4, <1>5, <1>6, <1>7, <1>8, <1>9, <1>10, <1>11 DEF Next, Quiet

-----------------------------------------------------------------------------
(* The queue entries.                                                      *)

\* Who is in front of a version after a step was there before, or copies its
\* place.
LEMMA AheadMoves ==
  ASSUME Types, SafeInv, [Next]_vars, NEW n \in Tuples, n # root, tup[n].st = "used",
         NEW p \in Tuples, Alive(p)', tup'[p].next = n
  PROVE \E q \in Tuples : Alive(q) /\ tup[q].next = n /\ Ro(tup'[p].ep) = Ro(tup[q].ep)
<1> DEFINE Goal == \E q \in Tuples : Alive(q) /\ tup[q].next = n /\ Ro(tup'[p].ep) = Ro(tup[q].ep)
<1>0. null \notin Tuples /\ n # null BY DEF Tuples, null
<1>u. ASSUME tup'[p] = tup[p] PROVE Goal BY <1>u DEF Alive
<1>s. ASSUME SameVersion(p), tup'[p].st = "retired", tup[p].st = "used" PROVE Goal
  BY <1>s DEF SameVersion, Alive
<1>1. CASE UNCHANGED <<root, tup, writes>> BY <1>u, <1>1
<1>2. ASSUME NEW m \in Tuples, Inserted(m) PROVE Goal
  BY <1>0, <1>u, <1>2 DEF Inserted, Others
<1>3. CASE Retired BY <1>u, <1>s, <1>3 DEF Retired, Others
<1>4. ASSUME NEW c \in Cores, Published(c) PROVE Goal
  BY <1>0, <1>u, <1>4 DEF Published, Others
<1>5. ASSUME NEW c \in Cores, NEW del \in BOOLEAN, Overwritten(c, del) PROVE Goal
  <2>1. CASE p # root BY <1>u, <1>5, <2>1 DEF Overwritten, Others
  <2>2. CASE p = root
    <3>1. tup[root].next = n /\ tup[root].st = "used" /\ Ro(tup'[root].ep) = Ro(tup[root].ep)
      BY <1>5, <2>2 DEF Overwritten, Installed, Writer
    <3> QED BY <2>2, <3>1 DEF Alive
  <2> QED BY <2>1, <2>2
<1>6. ASSUME NEW c \in Cores, NEW del \in BOOLEAN, NEW s \in Tuples, Spilled(c, del, s) PROVE Goal
  <2>1. CASE p # root /\ p # s BY <1>u, <1>6, <2>1 DEF Spilled
  <2>2. CASE p = root BY <1>6, <2>2 DEF Spilled, Installed
  <2>3. CASE p = s
    <3>1. root \in Tuples /\ tup[root].st = "used" /\ tup'[s] = tup[root] BY <1>6 DEF Spilled, Writer
    <3> QED BY <2>3, <3>1 DEF Alive
  <2> QED BY <2>1, <2>2, <2>3
<1>7. ASSUME NEW c \in Cores, NEW del \in BOOLEAN, NEW rep \in Tuples, Replaced(c, del, rep) PROVE Goal
  BY <1>u, <1>7 DEF Replaced, Installed, Others
<1>8. ASSUME NEW m \in Tuples, Freed(m) PROVE Goal
  BY <1>u, <1>8 DEF Freed, Others, Alive
<1>9. \A c \in Cores : GcFree(c) => Entry(c).tup \in Tuples BY EntryFacts DEF GcFree
<1> QED BY <1>1, <1>2, <1>3, <1>4, <1>5, <1>6, <1>7, <1>8, <1>9, Moves DEF Moved

\* Who holds a version after a step held it before, or has come to it from the
\* tuple in front of it, which its snapshot does not see.
LEMMA HolderMoves ==
  ASSUME Types, SafeInv, [Next]_vars, NEW n \in Tuples, n # root, tup[n].st = "used",
         NEW d \in Cores, n \in Holds(d)'
  PROVE /\ inside'[d] = inside[d]
        /\ \/ n \in Holds(d)
           \/ \E p \in Tuples : /\ Alive(p) /\ tup[p].next = n /\ Ro(inside[d] - 1) \in Nat
                                /\ Ro(inside[d] - 1) <= Ro(tup[p].ep)
<1> DEFINE Front == \E p \in Tuples : /\ Alive(p) /\ tup[p].next = n /\ Ro(inside[d] - 1) \in Nat
                                      /\ Ro(inside[d] - 1) <= Ro(tup[p].ep)
           Goal == inside'[d] = inside[d] /\ (n \in Holds(d) \/ Front)
<1>t. inside \in [Cores -> 0..MaxTick] BY DEF Types, ClockTypeOK
<1>h. n \in Holds(d) => inside[d] # 0 BY Holder
<1>o. ASSUME NEW c \in Cores, d # c, NEW t, Only(c, t) PROVE n \in Holds(d)
  BY <1>o DEF Only, Holds
<1>u. ASSUME UNCHANGED tx PROVE n \in Holds(d) BY <1>u DEF Holds
<1>1. ASSUME NEW c \in Cores,
             \/ BeginSnapshot(c) \/ Lock(c) \/ InsertTid(c) \/ AbortInsert(c) \/ CommitInsert(c)
             \/ AbortLocked(c) \/ GcStart(c)
      PROVE Goal
  <2>1. inside' = inside
    BY <1>1 DEF BeginSnapshot, Lock, InsertTid, AbortInsert, CommitInsert, AbortLocked, GcStart,
                clockVars
  <2>2. Holds(c)' = Holds(c) BY <1>1, HoldMoves
  <2>3. \E t : Only(c, t) BY <1>1, TxMoves
  <2> QED BY <1>o, <2>1, <2>2, <2>3
<1>2. ASSUME NEW c \in Cores, NEW del \in BOOLEAN,
             WriteInPlace(c, del) \/ WriteSpill(c, del) \/ WriteReplace(c, del)
      PROVE Goal
  <2>1. inside' = inside BY <1>2 DEF WriteInPlace, WriteSpill, WriteReplace, clockVars
  <2>2. Holds(c)' = Holds(c) BY <1>2, HoldMoves
  <2>3. \E t : Only(c, t) BY <1>2, TxMoves
  <2> QED BY <1>o, <2>1, <2>2, <2>3
<1>3. ASSUME NEW c \in Cores, Begin(c) PROVE Goal
  <2>1. Holds(c)' = Holds(c) BY <1>3, HoldMoves
  <2>2. \E t : Only(c, t) BY <1>3, TxMoves
  <2>3. inside[c] = 0 /\ inside' = [inside EXCEPT ![c] = current_tick_] BY <1>3 DEF Begin, Enter
  <2>4. n \in Holds(d) BY <1>o, <2>1, <2>2
  <2>5. d # c BY <1>h, <2>3, <2>4
  <2> QED BY <1>t, <2>3, <2>4, <2>5
<1>4. ASSUME NEW c \in Cores, End(c) \/ GcEnd(c) PROVE Goal
  <2>1. Holds(c)' = {} BY <1>4, HoldMoves
  <2>2. \E t : Only(c, t) BY <1>4, TxMoves
  <2>3. inside' = [inside EXCEPT ![c] = 0] BY <1>4 DEF End, GcEnd, Leave
  <2>4. d # c BY <2>1
  <2> QED BY <1>o, <1>t, <2>2, <2>3, <2>4
<1>5. ASSUME NEW c \in Cores, GcSkip(c) PROVE Goal
  <2>1. Holds(c)' = {} BY <1>5, HoldMoves
  <2>2. \E t : Only(c, t) BY <1>5, TxMoves
  <2>3. inside' = inside BY <1>5 DEF GcSkip, clockVars
  <2> QED BY <1>o, <2>1, <2>2, <2>3
<1>6. ASSUME NEW c \in Cores, SnapshotSearch(c) \/ Search(c) PROVE Goal
  <2>1. Holds(c)' \subseteq Holds(c) \cup ({root} \ {null}) BY <1>6, HoldMoves
  <2>2. \E t : Only(c, t) BY <1>6, TxMoves
  <2>3. inside' = inside BY <1>6 DEF SnapshotSearch, Search, clockVars
  <2> QED BY <1>o, <2>1, <2>2, <2>3
<1>7. ASSUME NEW c \in Cores, Insert(c) PROVE Goal
  <2>1. PICK m \in Tuples : /\ Fresh(m)
                            /\ Put(c, [tx[c] EXCEPT !.pc = "inserted", !.held = tx[c].held \cup {m}])
    BY <1>7, TupleForm
  <2>2. /\ tx'[c].held = tx[c].held \cup {m} /\ tx'[c].cur = tx[c].cur
        /\ \A e \in Cores : e # c => tx'[e] = tx[e]
    BY <2>1 DEF Put, Types, TxType
  <2>3. n # m BY <2>1 DEF Fresh
  <2>4. inside' = inside BY <1>7 DEF Insert, clockVars
  <2>5. CASE d = c BY <2>2, <2>3, <2>4, <2>5 DEF Holds
  <2>6. CASE d # c BY <2>2, <2>4, <2>6 DEF Holds
  <2> QED BY <2>5, <2>6
<1>8. ASSUME NEW c \in Cores, SnapshotVisit(c) PROVE Goal
  <2>0. inside' = inside BY <1>8 DEF SnapshotVisit, clockVars
  <2>1. \E t : Only(c, t) BY <1>8, TxMoves
  <2>2. CASE d # c BY <1>o, <2>0, <2>1, <2>2
  <2>3. CASE d = c /\ Holds(c)' \subseteq Holds(c) BY <2>0, <2>3
  <2>4. CASE /\ d = c
             /\ LET m == tup[tx[c].cur].next IN
                /\ m \in Tuples /\ Holds(c)' \subseteq Holds(c) \cup {m}
                /\ tup[tx[c].cur].ep # MAX_EPOCH /\ tup[tx[c].cur].ep >= tx[c].b
    <3> DEFINE k == tx[c].cur
    <3>1. k \in Tuples /\ BoundInv(c) /\ inside[c] # 0 BY <1>8, VisitCases
    <3>2. k \in Holds(c) BY <3>1 DEF Holds, Tuples, null
    <3>3. Alive(k) BY <3>2, Holder
    <3>4. tup[k].ep \in Nat BY <3>1, ClockNat
    <3>5. \A e \in Nat : e >= tx[c].b => Ro(inside[c] - 1) <= Ro(e)
      BY <3>1, BoundFacts DEF SafeInv
    <3>6. Ro(inside[c] - 1) <= Ro(tup[k].ep) BY <2>4, <3>4, <3>5
    <3>8. Ro(inside[c] - 1) \in Nat
      <4>1. inside[c] - 1 \in Nat BY <3>1, BoundFacts DEF SafeInv
      <4> QED BY <4>1, RoNat
    <3>7. n \in Holds(c) \/ n = tup[k].next BY <2>4
    <3> HIDE DEF k
    <3> QED BY <2>0, <2>4, <3>1, <3>3, <3>6, <3>7, <3>8
  <2> QED BY <1>8, <2>2, <2>3, <2>4, HoldMoves
<1>9. ASSUME NEW c \in Cores, GcRemove(c) PROVE Goal
  <2>1. n \in Holds(d) BY <1>u, <1>9 DEF GcRemove
  <2>2. inside[d] # 0 BY <1>h, <2>1
  <2>3. inside'[d] = inside[d] BY <1>t, <1>9, <2>2 DEF GcRemove
  <2> QED BY <2>1, <2>3
<1>10. ASSUME NEW c \in Cores, GcFree(c) \/ GcRequeue(c) PROVE Goal
  BY <1>u, <1>10 DEF GcFree, GcRequeue, clockVars
<1>11. ASSUME NEW m \in Tuples, RcuFree(m) PROVE Goal
  BY <1>u, <1>11 DEF RcuFree, clockVars
<1>12. CASE Ticking
  BY <1>u, <1>12 DEF Ticking, Clock, Advance, Complete
<1>13. CASE UNCHANGED vars BY <1>u, <1>13 DEF vars, clockVars
<1> QED
  BY <1>1, <1>2, <1>3, <1>4, <1>5, <1>6, <1>7, <1>8, <1>9, <1>10, <1>11, <1>12, <1>13 DEF Next

\* An entry that stays: its tuple stays, and a deleted one is not written.
LEMMA EntryStays ==
  ASSUME Types, SafeInv, [Next]_vars, NEW d \in Cores, NEW e \in EntriesOf(d), e \in EntriesOf(d)'
  PROVE /\ e \in QueueEntry /\ e.tup \in Tuples /\ e.tick \in Nat /\ EntryInv(e)
        /\ tup'[e.tup].st = "used"
        /\ e.key => tup'[e.tup].del /\ tup'[e.tup].ep = tup[e.tup].ep
        /\ ~e.key => e.tup # root'
<1> DEFINE n == e.tup
           Goal == /\ tup'[n].st = "used"
                   /\ e.key => tup'[n].del /\ tup'[n].ep = tup[n].ep
                   /\ ~e.key => n # root'
<1>1. e \in QueueEntry
  <2>1. queue_[d] \in Seq(QueueEntry) /\ scratch_[d] \in Seq(QueueEntry) BY DEF Types
  <2> QED BY <2>1 DEF EntriesOf, Elements
<1>2. n \in Tuples /\ e.tick \in Nat BY <1>1 DEF QueueEntry
<1>3. EntryInv(e) BY DEF SafeInv, QueueInv
<1>4. /\ tup[n].st = "used" /\ (e.key => tup[n].del) /\ (~e.key => n # root) BY <1>3 DEF EntryInv
<1>5. HasEntry(n) BY DEF HasEntry
<1>6. root \in Tuples /\ ~tup[root].del => n # root BY <1>5, NoEntry
<1>7. null \notin Tuples BY DEF Tuples, null
<1> HIDE DEF n
<1>k. ASSUME tup'[n] = tup[n], n # root \/ root' = root, n # root' \/ root' = root PROVE Goal
  BY <1>4, <1>k
<1>d. ASSUME NEW c \in Cores, Reaping(c), DropEntry(c), UNCHANGED queue_ PROVE n # Entry(c).tup
  <2>1. Without(queue_[d], Entry(c).tup) /\ Without(scratch_'[d], Entry(c).tup) BY <1>d, Dropped
  <2>2. e \in Elements(queue_[d]) \cup Elements(scratch_'[d]) BY <1>d DEF EntriesOf, Elements
  <2> QED BY <2>1, <2>2 DEF Without, Elements, n
<1>8. ASSUME UNCHANGED <<root, tup, writes>> PROVE Goal
  <2>1. root' = root /\ tup' = tup BY <1>8
  <2> QED BY <1>4, <2>1
<1>9. ASSUME NEW m \in Tuples, Inserted(m) PROVE Goal
  BY <1>2, <1>4, <1>7, <1>9 DEF Inserted, Others
<1>10. ASSUME NEW c \in Cores, AbortInsert(c) \/ GcRemove(c), Retired PROVE Goal
  <2>1. n # root
    <3>1. CASE AbortInsert(c)
      <4>1. root \in Tuples /\ ~tup[root].del BY <3>1, WriterFacts DEF AbortInsert, Inserting
      <4> QED BY <1>6, <4>1
    <3>2. CASE GcRemove(c) BY <1>d, <3>2 DEF GcRemove
    <3> QED BY <1>10, <3>1, <3>2
  <2> QED BY <1>2, <1>4, <1>7, <1>10, <2>1 DEF Retired, Others
<1>11. ASSUME NEW c \in Cores, Published(c) PROVE Goal
  BY <1>2, <1>4, <1>6, <1>11 DEF Published, Others, Writer
<1>12. ASSUME NEW c \in Cores, NEW del \in BOOLEAN, Overwritten(c, del) PROVE Goal
  BY <1>2, <1>4, <1>6, <1>12 DEF Overwritten, Others, Writer
<1>13. ASSUME NEW c \in Cores, NEW del \in BOOLEAN, NEW s \in Tuples, Spilled(c, del, s) PROVE Goal
  BY <1>2, <1>4, <1>6, <1>13 DEF Spilled, Writer
<1>14. ASSUME NEW c \in Cores, NEW del \in BOOLEAN, NEW rep \in Tuples, Replaced(c, del, rep) PROVE Goal
  BY <1>2, <1>4, <1>14 DEF Replaced, Others
<1>15. ASSUME NEW c \in Cores, GcFree(c), Freed(Entry(c).tup) PROVE Goal
  <2>1. n # Entry(c).tup BY <1>d, <1>15 DEF GcFree
  <2> QED BY <1>2, <1>k, <1>15, <2>1 DEF Freed, Others
<1>16. ASSUME NEW m \in Tuples, RcuFree(m), Freed(m) PROVE Goal
  <2>1. n # m BY <1>4, <1>16 DEF RcuFree
  <2> QED BY <1>2, <1>k, <1>16, <2>1 DEF Freed, Others
<1>17. Goal
  <2> HIDE DEF Goal
  <2>1. Moved BY Moves
  <2> QED
    BY <1>8, <1>9, <1>10, <1>11, <1>12, <1>13, <1>14, <1>15, <1>16, <2>1 DEF Moved
<1> QED BY <1>1, <1>2, <1>3, <1>17 DEF n

\* An entry that stays keeps its promise.
LEMMA OldEntry ==
  ASSUME Types, SafeInv, [Next]_vars, NEW d \in Cores, NEW e \in EntriesOf(d), e \in EntriesOf(d)'
  PROVE EntryInv(e)'
<1>1. /\ e.tup \in Tuples /\ e.tick \in Nat /\ EntryInv(e)
      /\ tup'[e.tup].st = "used"
      /\ e.key => tup'[e.tup].del /\ tup'[e.tup].ep = tup[e.tup].ep
      /\ ~e.key => e.tup # root'
  BY EntryStays
<1>2. tup[e.tup].st = "used" /\ (~e.key => e.tup # root) BY <1>1 DEF EntryInv
<1>3. ASSUME ~e.key, NEW p \in Tuples, Alive(p)', tup'[p].next = e.tup PROVE Ro(tup'[p].ep) <= e.tick
  <2>1. PICK q \in Tuples : Alive(q) /\ tup[q].next = e.tup /\ Ro(tup'[p].ep) = Ro(tup[q].ep)
    BY <1>1, <1>2, <1>3, AheadMoves
  <2>2. Ro(tup[q].ep) <= e.tick BY <1>1, <1>3, <2>1 DEF EntryInv
  <2> QED BY <2>1, <2>2
<1>4. ASSUME ~e.key, NEW c \in Cores, e.tup \in Holds(c)' PROVE Ro(inside'[c] - 1) <= e.tick
  <2>1. inside'[c] = inside[c] BY <1>1, <1>2, <1>4, HolderMoves
  <2>2. CASE e.tup \in Holds(c) BY <1>1, <1>4, <2>1, <2>2 DEF EntryInv
  <2>3. CASE \E p \in Tuples : /\ Alive(p) /\ tup[p].next = e.tup /\ Ro(inside[c] - 1) \in Nat
                               /\ Ro(inside[c] - 1) <= Ro(tup[p].ep)
    <3>1. PICK p \in Tuples : /\ Alive(p) /\ tup[p].next = e.tup /\ Ro(inside[c] - 1) \in Nat
                              /\ Ro(inside[c] - 1) <= Ro(tup[p].ep)
      BY <2>3
    <3>2. Ro(tup[p].ep) <= e.tick BY <1>1, <1>4, <3>1 DEF EntryInv
    <3>3. Ro(tup[p].ep) \in Nat BY ClockNat, RoNat
    <3> QED BY <1>1, <2>1, <3>1, <3>2, <3>3
  <2> QED BY <1>1, <1>2, <1>4, <2>2, <2>3, HolderMoves
<1> QED BY <1>1, <1>3, <1>4 DEF EntryInv, Ro, to_read_only_tick

\* Where a new entry comes from.
LEMMA NewEntries ==
  ASSUME Types, SafeInv, [Next]_vars, NEW d \in Cores, NEW e, e \in EntriesOf(d)', e \notin EntriesOf(d)
  PROVE \/ /\ Overwritten(d, TRUE) /\ e = Mark(root, TRUE, tx[d].ce)
        \/ \E del \in BOOLEAN, s \in Tuples :
             /\ WriteSpill(d, del) /\ Spilled(d, del, s)
             /\ e = Mark(s, FALSE, tx[d].ce) \/ (del /\ e = Mark(root, TRUE, tx[d].ce))
        \/ \E del \in BOOLEAN, rep \in Tuples :
             /\ WriteReplace(d, del) /\ Replaced(d, del, rep)
             /\ \/ ~tup[root].del /\ e = Mark(root, FALSE, tx[d].ce)
                \/ del /\ e = Mark(rep, TRUE, tx[d].ce)
        \/ GcRequeue(d) /\ e = Mark(Entry(d).tup, FALSE, current_tick_)
<1> DEFINE A == Overwritten(d, TRUE) /\ e = Mark(root, TRUE, tx[d].ce)
           B == \E del \in BOOLEAN, s \in Tuples :
                  /\ WriteSpill(d, del) /\ Spilled(d, del, s)
                  /\ e = Mark(s, FALSE, tx[d].ce) \/ (del /\ e = Mark(root, TRUE, tx[d].ce))
           C == \E del \in BOOLEAN, rep \in Tuples :
                  /\ WriteReplace(d, del) /\ Replaced(d, del, rep)
                  /\ \/ ~tup[root].del /\ e = Mark(root, FALSE, tx[d].ce)
                     \/ del /\ e = Mark(rep, TRUE, tx[d].ce)
           D == GcRequeue(d) /\ e = Mark(Entry(d).tup, FALSE, current_tick_)
           Goal == A \/ B \/ C \/ D
<1>u. ASSUME UNCHANGED <<queue_, scratch_>> PROVE FALSE BY <1>u DEF EntriesOf, Elements
<1>q. ASSUME NEW c \in Cores, NEW E, Queued(c, E) PROVE d = c /\ e \in E
  <2>1. /\ EntriesOf(c)' = EntriesOf(c) \cup E
        /\ \A x \in Cores : x # c => EntriesOf(x)' = EntriesOf(x)
    BY <1>q DEF Queued
  <2> QED BY <2>1
<1>s. ASSUME NEW c \in Cores, d # c,
             \A x \in Cores : x # c => queue_'[x] = queue_[x] /\ scratch_'[x] = scratch_[x]
      PROVE FALSE
  <2>1. queue_'[d] = queue_[d] /\ scratch_'[d] = scratch_[d] BY <1>s
  <2> QED BY <2>1 DEF EntriesOf, Elements
<1>1. ASSUME NEW c \in Cores,
             \/ Begin(c) \/ BeginSnapshot(c) \/ End(c) \/ SnapshotSearch(c) \/ SnapshotVisit(c)
             \/ Search(c) \/ Lock(c) \/ Insert(c) \/ InsertTid(c) \/ AbortInsert(c) \/ AbortLocked(c)
             \/ CommitInsert(c) \/ GcSkip(c) \/ GcEnd(c)
      PROVE FALSE
  <2>1. UNCHANGED gcVars
    BY <1>1 DEF Begin, BeginSnapshot, End, SnapshotSearch, SnapshotVisit, Search, Lock, Insert,
                InsertTid, AbortInsert, AbortLocked, CommitInsert, GcSkip, GcEnd
  <2> QED BY <1>u, <2>1 DEF gcVars
<1>2. ASSUME NEW c \in Cores, NEW del \in BOOLEAN, WriteInPlace(c, del), Overwritten(c, del) PROVE A
  <2>1. Queued(c, IF del THEN {Mark(root, TRUE, tx[c].ce)} ELSE {}) BY <1>2, InPlaceQueued
  <2>0. d = c /\ e \in (IF del THEN {Mark(root, TRUE, tx[c].ce)} ELSE {}) BY <1>q, <2>1
  <2>3. del = TRUE BY <2>0
  <2>2. d = c /\ e = Mark(root, TRUE, tx[c].ce) BY <2>0, <2>3
  <2> QED BY <1>2, <2>2, <2>3
<1>3. ASSUME NEW c \in Cores, NEW del \in BOOLEAN, NEW s \in Tuples, WriteSpill(c, del),
             Spilled(c, del, s)
      PROVE B
  <2>1. Queued(c, {Mark(s, FALSE, tx[c].ce)} \cup IF del THEN {Mark(root, TRUE, tx[c].ce)} ELSE {})
    BY <1>3 DEF Spilled
  <2>2. d = c /\ e \in {Mark(s, FALSE, tx[c].ce)} \cup IF del THEN {Mark(root, TRUE, tx[c].ce)} ELSE {}
    BY <1>q, <2>1
  <2> QED BY <1>3, <2>2
<1>4. ASSUME NEW c \in Cores, NEW del \in BOOLEAN, NEW rep \in Tuples, WriteReplace(c, del),
             Replaced(c, del, rep)
      PROVE C
  <2>1. Queued(c, (IF tup[root].del THEN {} ELSE {Mark(root, FALSE, tx[c].ce)})
                    \cup IF del THEN {Mark(rep, TRUE, tx[c].ce)} ELSE {})
    BY <1>4 DEF Replaced
  <2>2. /\ d = c
        /\ e \in (IF tup[root].del THEN {} ELSE {Mark(root, FALSE, tx[c].ce)})
                   \cup IF del THEN {Mark(rep, TRUE, tx[c].ce)} ELSE {}
    BY <1>q, <2>1
  <2> QED BY <1>4, <2>2
<1>5. ASSUME NEW c \in Cores, GcFree(c) \/ GcRemove(c) PROVE FALSE
  <2>1. Reaping(c) /\ DropEntry(c) /\ UNCHANGED queue_ BY <1>5 DEF GcFree, GcRemove
  <2>2. /\ \A x \in Cores : x # c => scratch_'[x] = scratch_[x]
        /\ Elements(scratch_'[c]) \subseteq Elements(scratch_[c])
    BY <2>1, Dropped
  <2>3. d = c BY <1>s, <2>1, <2>2
  <2>4. EntriesOf(c)' = Elements(queue_[c]) \cup Elements(scratch_'[c])
    BY <2>1 DEF EntriesOf, Elements
  <2> QED BY <2>2, <2>3, <2>4 DEF EntriesOf
<1>6. ASSUME NEW c \in Cores, GcRequeue(c) PROVE D
  <2>1. /\ \A x \in Cores : x # c => queue_'[x] = queue_[x] /\ scratch_'[x] = scratch_[x]
        /\ Elements(queue_'[c]) = Elements(queue_[c]) \cup {Mark(Entry(c).tup, FALSE, current_tick_)}
        /\ Elements(scratch_'[c]) \subseteq Elements(scratch_[c])
    BY <1>6, RequeueForm
  <2>2. d = c BY <1>s, <2>1
  <2>3. EntriesOf(c)' = Elements(queue_'[c]) \cup Elements(scratch_'[c]) BY DEF EntriesOf, Elements
  <2> QED BY <1>6, <2>1, <2>2, <2>3 DEF EntriesOf
<1>7. ASSUME NEW c \in Cores, GcStart(c) PROVE FALSE
  <2>1. /\ \A x \in Cores : x # c => queue_'[x] = queue_[x] /\ scratch_'[x] = scratch_[x]
        /\ Elements(queue_[c]) = Elements(queue_'[c]) \cup Elements(scratch_'[c])
    BY <1>7, StartForm
  <2>2. d = c BY <1>s, <2>1
  <2>3. EntriesOf(c)' = Elements(queue_'[c]) \cup Elements(scratch_'[c]) BY DEF EntriesOf, Elements
  <2> QED BY <2>1, <2>2, <2>3 DEF EntriesOf
<1>8. ASSUME NEW n \in Tuples, RcuFree(n) PROVE FALSE BY <1>u, <1>8 DEF RcuFree, gcVars
<1>9. ASSUME Ticking \/ UNCHANGED vars PROVE FALSE BY <1>u, <1>9 DEF Ticking, vars, gcVars
<1> HIDE DEF A, B, C, D
<1>10. ASSUME NEW c \in Cores, NEW del \in BOOLEAN, WriteInPlace(c, del) PROVE Goal
  BY <1>2, <1>10, WriteMoves
<1>11. ASSUME NEW c \in Cores, NEW del \in BOOLEAN, WriteSpill(c, del) PROVE Goal
  BY <1>3, <1>11, WriteMoves
<1>12. ASSUME NEW c \in Cores, NEW del \in BOOLEAN, WriteReplace(c, del) PROVE Goal
  BY <1>4, <1>12, WriteMoves
<1>13. Goal
  BY <1>1, <1>5, <1>6, <1>7, <1>8, <1>9, <1>10, <1>11, <1>12 DEF Next
<1> QED BY <1>13 DEF A, B, C, D

\* A tuple nobody has allocated is not behind another one, and not held.
LEMMA FreshAlone ==
  ASSUME Types, SafeInv, NEW n \in Tuples, tup[n].st = "none"
  PROVE /\ n # root
        /\ \A p \in Tuples : Alive(p) => tup[p].next # n
        /\ \A x \in Cores : n \notin Holds(x)
<1>0. n # null BY DEF Tuples, null
<1>1. n # root BY <1>0 DEF SafeInv, RootInv
<1>2. ASSUME NEW p \in Tuples, Alive(p) PROVE tup[p].next # n BY <1>0, <1>2, LinkFacts
<1>3. ASSUME NEW x \in Cores, n \in Holds(x) PROVE FALSE
  <2>1. Alive(n) BY <1>3, Holder
  <2> QED BY <2>1 DEF Alive
<1> QED BY <1>1, <1>2, <1>3

\* The region a core runs in began before the epoch of a running writer ended.
LEMMA RegionBefore ==
  ASSUME Types, SafeInv, NEW x \in Cores, NEW n \in Holds(x), NEW e \in Nat,
         last_tick_inclusive_ + 1 <= e \/ e = current_tick_
  PROVE Ro(inside[x] - 1) <= Ro(e)
<1>1. inside[x] # 0 /\ inside[x] - 1 \in Nat BY Holder
<1>2. /\ current_tick_ \in Nat /\ last_tick_inclusive_ \in Nat /\ inside[x] \in Nat BY ClockNat
<1>3. /\ current_tick_ \in {last_tick_inclusive_ + 1, last_tick_inclusive_ + 2}
      /\ inside[x] <= current_tick_
  BY <1>1 DEF SafeInv, ClockInv
<1>4. inside[x] - 1 <= e BY <1>1, <1>2, <1>3
<1> QED BY <1>1, <1>4, RoMonotone

\* A deleted head, queued when it was written.
LEMMA KeyEntry ==
  ASSUME Types, NEW n \in Tuples, NEW ce \in Nat, NEW e, e = Mark(n, TRUE, ce),
         tup'[n].st = "used", tup'[n].del, tup'[n].ep = ce
  PROVE EntryInv(e)'
<1>0. TRUE \in BOOLEAN OBVIOUS
<1>m. Mark(n, TRUE, ce).tup = n /\ Mark(n, TRUE, ce).key = TRUE /\ Mark(n, TRUE, ce).tick = Ro(ce)
  <2>1. n \in Tuples /\ ce \in Nat OBVIOUS
  <2> QED BY ONLY <1>0, <2>1, MarkFacts
<1>r. Ro(ce) \in Nat BY RoNat, Zenon
<1>1. e.tup = n /\ e.key = TRUE /\ e.tick = Ro(ce) /\ Ro(ce) \in Nat
  BY <1>m, <1>r, Zenon
<1>2. Ro(tup'[n].ep) = Ro(ce) OBVIOUS
<1> HIDE DEF Ro
<1>3. Ro(ce) <= e.tick BY ONLY <1>1
<1>4. Ro(tup'[n].ep) <= e.tick BY ONLY <1>2, <1>3
<1> QED BY <1>1, <1>4 DEF EntryInv, Ro, to_read_only_tick

\* A superseded version, queued under the tick of epoch ce.
LEMMA PlainEntry ==
  ASSUME Types, NEW n \in Tuples, NEW ce \in Nat, NEW e, e = Mark(n, FALSE, ce),
         tup'[n].st = "used", n # root',
         \A p \in Tuples : Alive(p)' /\ tup'[p].next = n => Ro(tup'[p].ep) <= Ro(ce),
         \A x \in Cores : n \in Holds(x)' => Ro(inside'[x] - 1) <= Ro(ce)
  PROVE EntryInv(e)'
<1>1. e.tup = n /\ e.key = FALSE /\ e.tick = Ro(ce) BY MarkFacts
<1>3. \A p \in Tuples : Alive(p)' /\ tup'[p].next = e.tup => Ro(tup'[p].ep) <= e.tick BY <1>1
<1>4. \A x \in Cores : e.tup \in Holds(x)' => Ro(inside'[x] - 1) <= e.tick BY <1>1
<1> QED BY <1>1, <1>3, <1>4 DEF EntryInv, Ro, to_read_only_tick

\* A writer's step leaves what the cores hold, and their regions.
LEMMA WriteHolds ==
  ASSUME Types, SafeInv, NEW c \in Cores, NEW del \in BOOLEAN, WriteSpill(c, del) \/ WriteReplace(c, del)
  PROVE inside' = inside /\ \A x \in Cores : Holds(x)' = Holds(x)
<1>1. inside' = inside BY DEF WriteSpill, WriteReplace, clockVars
<1>2. Holds(c)' = Holds(c) BY HoldMoves
<1>3. \E t : Only(c, t) BY TxMoves
<1>4. \A x \in Cores : x # c => Holds(x)' = Holds(x) BY <1>3 DEF Only, Holds
<1> QED BY <1>1, <1>2, <1>4

\* A new entry makes its promise.
LEMMA NewEntry ==
  ASSUME Types, SafeInv, [Next]_vars, NEW d \in Cores, NEW e, e \in EntriesOf(d)', e \notin EntriesOf(d)
  PROVE EntryInv(e)'
<1>t. root \in Tuples \cup {null} /\ null \notin Tuples BY DEF Types, Tuples, null
<1>a. ASSUME NEW n \in Tuples, Writer(d), Installed(d, TRUE, n, tup'[n].next), e = Mark(n, TRUE, tx[d].ce)
      PROVE EntryInv(e)'
  <2>1. tx[d].ce \in Nat BY <1>a DEF Writer
  <2>2. tup'[n].st = "used" /\ tup'[n].del /\ tup'[n].ep = tx[d].ce BY <1>a DEF Installed
  <2> DEFINE ce == tx[d].ce
  <2> HIDE DEF ce
  <2>3. ce \in Nat /\ tup'[n].ep = ce /\ e = Mark(n, TRUE, ce) BY <1>a, <2>1, <2>2 DEF ce
  <2> QED BY <2>2, <2>3, KeyEntry
<1>1. ASSUME Overwritten(d, TRUE), e = Mark(root, TRUE, tx[d].ce) PROVE EntryInv(e)'
  <2>1. root \in Tuples /\ Writer(d) /\ Installed(d, TRUE, root, tup[root].next)
    BY <1>1 DEF Overwritten, Writer
  <2>2. Installed(d, TRUE, root, tup'[root].next) BY <2>1 DEF Installed
  <2> QED BY <1>a, <1>1, <2>1, <2>2
<1>2. ASSUME NEW del \in BOOLEAN, NEW s \in Tuples, Spilled(d, del, s), del,
             e = Mark(root, TRUE, tx[d].ce)
      PROVE EntryInv(e)'
  <2>1. root \in Tuples /\ Writer(d) /\ Installed(d, del, root, s) BY <1>2 DEF Spilled, Writer
  <2>2. Installed(d, TRUE, root, tup'[root].next) BY <1>2, <2>1 DEF Installed
  <2> QED BY <1>a, <1>2, <2>1, <2>2
<1>3. ASSUME NEW del \in BOOLEAN, NEW rep \in Tuples, Replaced(d, del, rep), del,
             e = Mark(rep, TRUE, tx[d].ce)
      PROVE EntryInv(e)'
  <2>1. Writer(d) /\ Installed(d, del, rep, root) BY <1>3 DEF Replaced
  <2>2. Installed(d, TRUE, rep, tup'[rep].next) BY <1>3, <2>1 DEF Installed
  <2> QED BY <1>a, <1>3, <2>1, <2>2
<1>4. ASSUME NEW del \in BOOLEAN, NEW s \in Tuples, WriteSpill(d, del), Spilled(d, del, s),
             e = Mark(s, FALSE, tx[d].ce)
      PROVE EntryInv(e)'
  <2> DEFINE ce == tx[d].ce
  <2>1. /\ root \in Tuples /\ tup[root].st = "used" /\ ce \in Nat /\ root' = root
        /\ tup[s].st = "none" /\ s # root
        /\ tup'[s] = tup[root] /\ tup'[root].ep = ce
        /\ \A q \in Tuples : q # root /\ q # s => tup'[q] = tup[q]
    BY <1>4 DEF Spilled, Writer, Installed
  <2>2. /\ \A p \in Tuples : Alive(p) => tup[p].next # s
        /\ \A x \in Cores : s \notin Holds(x)
    BY <2>1, FreshAlone
  <2> HIDE DEF ce
  <2>3. Ro(ce) \in Nat BY <2>1, RoNat
  <2>4. ASSUME NEW p \in Tuples, Alive(p)', tup'[p].next = s PROVE Ro(tup'[p].ep) <= Ro(ce)
    <3>1. p = root
      <4>1. tup[root].next # s BY <2>1, <2>2 DEF Alive
      <4> QED BY <2>1, <2>2, <2>4, <4>1 DEF Alive
    <3> QED BY <2>1, <2>3, <3>1
  <2>5. \A x \in Cores : s \notin Holds(x)' BY <1>4, <2>2, WriteHolds
  <2>6. tup'[s].st = "used" /\ s # root' BY <2>1
  <2>7. e = Mark(s, FALSE, ce) BY <1>4 DEF ce
  <2> QED BY <2>1, <2>4, <2>5, <2>6, <2>7, PlainEntry
<1>5. ASSUME NEW del \in BOOLEAN, NEW rep \in Tuples, WriteReplace(d, del), Replaced(d, del, rep),
             e = Mark(root, FALSE, tx[d].ce)
      PROVE EntryInv(e)'
  <2> DEFINE ce == tx[d].ce
  <2>1. /\ root \in Tuples /\ tup[root].st = "used" /\ ce \in Nat /\ root' = rep /\ rep # root
        /\ last_tick_inclusive_ + 1 <= ce
        /\ tup'[rep].ep = ce /\ \A q \in Tuples : q # rep => tup'[q] = tup[q]
    BY <1>5 DEF Replaced, Writer, Installed, Others
  <2> HIDE DEF ce
  <2>3. Ro(ce) \in Nat BY <2>1, RoNat
  <2>4. ASSUME NEW p \in Tuples, Alive(p)', tup'[p].next = root PROVE Ro(tup'[p].ep) <= Ro(ce)
    <3>1. p = rep
      <4> SUFFICES ASSUME p # rep PROVE FALSE OBVIOUS
      <4>1. Alive(p) /\ tup[p].next = root BY <2>1, <2>4 DEF Alive
      <4> QED BY <1>t, <2>1, <4>1, LinkFacts
    <3> QED BY <2>1, <2>3, <3>1
  <2>5. ASSUME NEW x \in Cores, root \in Holds(x)' PROVE Ro(inside'[x] - 1) <= Ro(ce)
    <3>1. root \in Holds(x) /\ inside'[x] = inside[x] BY <1>5, <2>5, WriteHolds
    <3>2. Ro(inside[x] - 1) <= Ro(ce) BY <2>1, <3>1, RegionBefore
    <3> QED BY <3>1, <3>2
  <2>6. tup'[root].st = "used" /\ root # root' BY <2>1
  <2> DEFINE n == root
  <2>7. /\ n \in Tuples /\ tup'[n].st = "used" /\ n # root'
        /\ \A p \in Tuples : Alive(p)' /\ tup'[p].next = n => Ro(tup'[p].ep) <= Ro(ce)
        /\ \A x \in Cores : n \in Holds(x)' => Ro(inside'[x] - 1) <= Ro(ce)
    BY <2>1, <2>4, <2>5, <2>6
  <2> HIDE DEF n
  <2>8. e = Mark(n, FALSE, ce) BY <1>5 DEF ce, n
  <2> QED BY <2>1, <2>7, <2>8, PlainEntry
<1>6. ASSUME GcRequeue(d), e = Mark(Entry(d).tup, FALSE, current_tick_) PROVE EntryInv(e)'
  <2> DEFINE n == Entry(d).tup
             t == current_tick_
  <2>1. Reaping(d) /\ DropEntry(d) /\ root # n /\ UNCHANGED <<root, tup, tx, inside>>
    BY <1>6 DEF GcRequeue, dataVars, clockVars
  <2>2. Entry(d) \in Elements(scratch_[d]) /\ n \in Tuples BY <2>1, Dropped, EntryFacts
  <2>3. tup[n].st = "used" BY <2>2 DEF SafeInv, QueueInv, EntriesOf, EntryInv
  <2>4. t \in Nat BY ClockNat
  <2> HIDE DEF n
  <2>5. ASSUME NEW p \in Tuples, Alive(p), tup[p].next = n PROVE Ro(tup[p].ep) <= Ro(t)
    <3>1. tup[p].ep \in Nat /\ tup[p].ep <= current_tick_ BY <1>t, <2>2, <2>5, LinkFacts
    <3> QED BY <2>4, <3>1, RoMonotone
  <2>6. ASSUME NEW x \in Cores, n \in Holds(x) PROVE Ro(inside[x] - 1) <= Ro(t)
    BY <2>4, <2>6, RegionBefore
  <2>7. \A x \in Cores : Holds(x)' = Holds(x) BY <2>1 DEF Holds
  <2> HIDE DEF t
  <2>8. /\ tup'[n].st = "used" /\ n # root'
        /\ \A p \in Tuples : Alive(p)' /\ tup'[p].next = n => Ro(tup'[p].ep) <= Ro(t)
        /\ \A x \in Cores : n \in Holds(x)' => Ro(inside'[x] - 1) <= Ro(t)
    BY <2>1, <2>3, <2>5, <2>6, <2>7 DEF Alive
  <2>9. e = Mark(n, FALSE, t) BY <1>6 DEF n, t
  <2> QED BY <2>2, <2>4, <2>8, <2>9, PlainEntry
<1> QED BY <1>1, <1>2, <1>3, <1>4, <1>5, <1>6, NewEntries

\* What a collector may free is behind every running snapshot.
LEMMA ScratchStep ==
  ASSUME Types, SafeInv, [Next]_vars, NEW d \in Cores, NEW e \in Elements(scratch_'[d])
  PROVE e.tick < Ro(last_tick_inclusive_')
<1>r. /\ Ro(last_tick_inclusive_) \in Nat /\ Ro(last_tick_inclusive_') \in Nat
      /\ Ro(last_tick_inclusive_) <= Ro(last_tick_inclusive_')
  BY RoForward
<1>n. \A x \in Elements(scratch_[d]) : x.tick < Ro(last_tick_inclusive_) /\ x.tick \in Nat
  <2>1. \A x \in Elements(scratch_[d]) : x.tick < Ro(last_tick_inclusive_) BY DEF SafeInv, QueueInv
  <2>2. scratch_[d] \in Seq(QueueEntry) BY DEF Types
  <2>3. \A x \in Elements(scratch_[d]) : x \in QueueEntry BY <2>2 DEF Elements
  <2> QED BY <2>1, <2>3 DEF QueueEntry
<1>o. ASSUME e \in Elements(scratch_[d]) PROVE e.tick < Ro(last_tick_inclusive_')
  BY <1>r, <1>n, <1>o
<1>u. ASSUME scratch_'[d] = scratch_[d] PROVE e.tick < Ro(last_tick_inclusive_')
  BY <1>o, <1>u DEF Elements
<1>1. ASSUME NEW c \in Cores,
             \/ Begin(c) \/ BeginSnapshot(c) \/ End(c) \/ SnapshotSearch(c) \/ SnapshotVisit(c)
             \/ Search(c) \/ Lock(c) \/ Insert(c) \/ InsertTid(c) \/ AbortInsert(c) \/ AbortLocked(c)
             \/ CommitInsert(c) \/ GcSkip(c) \/ GcEnd(c)
      PROVE UNCHANGED scratch_
  BY <1>1 DEF Begin, BeginSnapshot, End, SnapshotSearch, SnapshotVisit, Search, Lock, Insert,
              InsertTid, AbortInsert, AbortLocked, CommitInsert, GcSkip, GcEnd, gcVars
<1>2. ASSUME NEW c \in Cores, NEW del \in BOOLEAN,
             WriteInPlace(c, del) \/ WriteSpill(c, del) \/ WriteReplace(c, del)
      PROVE UNCHANGED scratch_
  BY <1>2 DEF WriteInPlace, WriteSpill, WriteReplace
<1>3. ASSUME NEW c \in Cores, GcFree(c) \/ GcRemove(c) PROVE e.tick < Ro(last_tick_inclusive_')
  <2>1. Reaping(c) /\ DropEntry(c) BY <1>3 DEF GcFree, GcRemove
  <2>2. /\ \A x \in Cores : x # c => scratch_'[x] = scratch_[x]
        /\ Elements(scratch_'[c]) \subseteq Elements(scratch_[c])
    BY <2>1, Dropped
  <2> QED BY <1>o, <1>u, <2>2
<1>4. ASSUME NEW c \in Cores, GcRequeue(c) PROVE e.tick < Ro(last_tick_inclusive_')
  <2>2. /\ \A x \in Cores : x # c => scratch_'[x] = scratch_[x]
        /\ Elements(scratch_'[c]) \subseteq Elements(scratch_[c])
    BY <1>4, RequeueForm
  <2> QED BY <1>o, <1>u, <2>2
<1>5. ASSUME NEW c \in Cores, GcStart(c) PROVE e.tick < Ro(last_tick_inclusive_')
  <2>1. /\ \A x \in Cores : x # c => scratch_'[x] = scratch_[x]
        /\ \A x \in Elements(scratch_'[c]) : x.tick <= ro_tick_ex - 1
        /\ scratch_' \in Queues
    BY <1>5, StartForm
  <2>2. ro_tick_ex = Ro(last_tick_inclusive_) BY TickIsRo
  <2>3. CASE d # c BY <1>u, <2>1, <2>3
  <2>4. CASE d = c
    <3>1. scratch_'[c] \in Seq(QueueEntry) BY <2>1 DEF Queues
    <3>2. e \in QueueEntry BY <2>4, <3>1 DEF Elements
    <3>3. e.tick \in Nat BY <3>2 DEF QueueEntry
    <3>4. e.tick <= Ro(last_tick_inclusive_) - 1 BY <2>1, <2>2, <2>4
    <3> QED BY <1>r, <3>3, <3>4
  <2> QED BY <2>3, <2>4
<1>6. ASSUME NEW n \in Tuples, RcuFree(n) PROVE UNCHANGED scratch_ BY <1>6 DEF RcuFree, gcVars
<1>7. ASSUME Ticking \/ UNCHANGED vars PROVE UNCHANGED scratch_ BY <1>7 DEF Ticking, vars, gcVars
<1> QED BY <1>u, <1>1, <1>2, <1>3, <1>4, <1>5, <1>6, <1>7 DEF Next

LEMMA QueueInvStep ==
  ASSUME Types, SafeInv, [Next]_vars, NEW d \in Cores
  PROVE QueueInv(d)'
<1>1. \A e \in EntriesOf(d)' : EntryInv(e)' BY OldEntry, NewEntry
<1>2. \A e \in Elements(scratch_'[d]) : e.tick < Ro(last_tick_inclusive_') BY ScratchStep
<1>3. Len(queue_'[d]) + Len(scratch_'[d]) <= 2 * Len(writes') - 2 BY QueueStep DEF QueueTypes
<1> QED BY <1>1, <1>2, <1>3 DEF QueueInv, Elements, Ro, to_read_only_tick

\* An entry leaves the queues with its tuple only.
LEMMA EntryLeaves ==
  ASSUME Types, SafeInv, [Next]_vars, NEW n \in Tuples, HasEntry(n), tup'[n].st = "used"
  PROVE HasEntry(n)'
<1>0. PICK d \in Cores : \E e \in EntriesOf(d) : e.tup = n BY DEF HasEntry
<1>1. PICK e \in EntriesOf(d) : e.tup = n BY <1>0
<1>s. ASSUME NEW x \in EntriesOf(d)', x.tup = n PROVE HasEntry(n)' BY <1>s DEF HasEntry
<1>u. ASSUME queue_'[d] = queue_[d], scratch_'[d] = scratch_[d] PROVE HasEntry(n)'
  <2>1. e \in EntriesOf(d)' BY <1>u DEF EntriesOf, Elements
  <2> QED BY <1>1, <1>s, <2>1
<1>q. ASSUME NEW c \in Cores, NEW E, Queued(c, E) PROVE HasEntry(n)'
  <2>1. e \in EntriesOf(d)' BY <1>q DEF Queued
  <2> QED BY <1>1, <1>s, <2>1
<1>2. ASSUME NEW c \in Cores,
             \/ Begin(c) \/ BeginSnapshot(c) \/ End(c) \/ SnapshotSearch(c) \/ SnapshotVisit(c)
             \/ Search(c) \/ Lock(c) \/ Insert(c) \/ InsertTid(c) \/ AbortInsert(c) \/ AbortLocked(c)
             \/ CommitInsert(c) \/ GcSkip(c) \/ GcEnd(c)
      PROVE UNCHANGED <<queue_, scratch_>>
  BY <1>2 DEF Begin, BeginSnapshot, End, SnapshotSearch, SnapshotVisit, Search, Lock, Insert,
              InsertTid, AbortInsert, AbortLocked, CommitInsert, GcSkip, GcEnd, gcVars
<1>3. ASSUME NEW c \in Cores, NEW del \in BOOLEAN, WriteInPlace(c, del) PROVE HasEntry(n)'
  BY <1>q, <1>3, InPlaceQueued
<1>4. ASSUME NEW c \in Cores, NEW del \in BOOLEAN, WriteSpill(c, del) PROVE HasEntry(n)'
  <2>1. \E E : Queued(c, E) BY <1>4, SpillQueued
  <2> QED BY <1>q, <2>1
<1>5. ASSUME NEW c \in Cores, NEW del \in BOOLEAN, WriteReplace(c, del) PROVE HasEntry(n)'
  <2>1. \E E : Queued(c, E) BY <1>5, ReplaceQueued
  <2> QED BY <1>q, <2>1
<1>6. ASSUME NEW c \in Cores, GcFree(c) \/ GcRemove(c) PROVE HasEntry(n)'
  <2>1. Reaping(c) /\ DropEntry(c) /\ UNCHANGED queue_ BY <1>6 DEF GcFree, GcRemove
  <2>2. /\ \A x \in Cores : x # c => scratch_'[x] = scratch_[x]
        /\ EntriesOf(c) = Elements(queue_[c]) \cup Elements(scratch_'[c]) \cup {Entry(c)}
    BY <2>1, Dropped
  <2>3. e # Entry(c)
    <3>1. Entry(c).tup \in Tuples BY <2>1, EntryFacts
    <3>2. CASE GcFree(c)
      <4>1. Becomes(Entry(c).tup, [tup[Entry(c).tup] EXCEPT !.st = "freed"]) BY <3>2, TupleForm
      <4>2. tup'[Entry(c).tup].st = "freed" BY <3>1, <4>1 DEF Becomes, Types, TupleType
      <4> QED BY <1>1, <4>2
    <3>3. CASE GcRemove(c)
      <4>1. Becomes(root, [tup[root] EXCEPT !.st = "retired"]) /\ root = Entry(c).tup
        BY <3>3, TupleForm DEF GcRemove
      <4>2. tup'[Entry(c).tup].st = "retired" BY <3>1, <4>1 DEF Becomes, Types, TupleType
      <4> QED BY <1>1, <4>2
    <3> QED BY <1>6, <3>2, <3>3
  <2>4. CASE d # c BY <1>u, <2>1, <2>2, <2>4
  <2>5. CASE d = c
    <3>1. e \in Elements(queue_[c]) \cup Elements(scratch_'[c]) BY <1>1, <2>2, <2>3, <2>5
    <3>2. e \in EntriesOf(d)' BY <2>1, <2>5, <3>1 DEF EntriesOf, Elements
    <3> QED BY <1>1, <1>s, <3>2
  <2> QED BY <2>4, <2>5
<1>7. ASSUME NEW c \in Cores, GcRequeue(c) PROVE HasEntry(n)'
  <2> DEFINE m == Mark(Entry(c).tup, FALSE, current_tick_)
  <2>1. /\ \A x \in Cores : x # c => queue_'[x] = queue_[x] /\ scratch_'[x] = scratch_[x]
        /\ Elements(queue_'[c]) = Elements(queue_[c]) \cup {m}
        /\ EntriesOf(c) = Elements(queue_[c]) \cup Elements(scratch_'[c]) \cup {Entry(c)}
    BY <1>7, RequeueForm
  <2>2. EntriesOf(c)' = Elements(queue_'[c]) \cup Elements(scratch_'[c]) BY DEF EntriesOf, Elements
  <2>3. m.tup = Entry(c).tup BY DEF Mark
  <2> HIDE DEF m
  <2>4. CASE d # c BY <1>u, <2>1, <2>4
  <2>5. CASE d = c /\ e # Entry(c)
    <3>1. e \in EntriesOf(d)' BY <1>1, <2>1, <2>2, <2>5
    <3> QED BY <1>1, <1>s, <3>1
  <2>6. CASE d = c /\ e = Entry(c)
    <3>1. m \in EntriesOf(d)' /\ m.tup = n BY <1>1, <2>1, <2>2, <2>3, <2>6
    <3> QED BY <1>s, <3>1
  <2> QED BY <2>4, <2>5, <2>6
<1>8. ASSUME NEW c \in Cores, GcStart(c) PROVE HasEntry(n)'
  <2>1. /\ \A x \in Cores : x # c => queue_'[x] = queue_[x] /\ scratch_'[x] = scratch_[x]
        /\ Elements(queue_[c]) = Elements(queue_'[c]) \cup Elements(scratch_'[c])
        /\ scratch_[c] = << >>
    BY <1>8, StartForm
  <2>2. EntriesOf(c)' = Elements(queue_'[c]) \cup Elements(scratch_'[c]) BY DEF EntriesOf, Elements
  <2>3. EntriesOf(c) = Elements(queue_[c]) BY <2>1, ShortFacts DEF EntriesOf
  <2>4. CASE d # c BY <1>u, <2>1, <2>4
  <2>5. CASE d = c
    <3>1. e \in EntriesOf(d)' BY <1>1, <2>1, <2>2, <2>3, <2>5
    <3> QED BY <1>1, <1>s, <3>1
  <2> QED BY <2>4, <2>5
<1>9. ASSUME NEW m \in Tuples, RcuFree(m) PROVE UNCHANGED <<queue_, scratch_>> BY <1>9 DEF RcuFree, gcVars
<1>10. ASSUME Ticking \/ UNCHANGED vars PROVE UNCHANGED <<queue_, scratch_>>
  BY <1>10 DEF Ticking, vars, gcVars
<1> QED
  BY <1>u, <1>2, <1>3, <1>4, <1>5, <1>6, <1>7, <1>8, <1>9, <1>10 DEF Next

LEMMA KeptStep ==
  ASSUME Types, SafeInv, [Next]_vars
  PROVE KeptInv'
<1> SUFFICES ASSUME NEW n \in Tuples, tup'[n].st = "used", n # root' \/ tup'[n].del
             PROVE HasEntry(n)'
  BY DEF KeptInv
<1>t. null \notin Tuples BY DEF Tuples, null
<1>o. ASSUME tup'[n] = tup[n], n # root \/ tup[n].del PROVE HasEntry(n)'
  <2>1. HasEntry(n) BY <1>o DEF SafeInv, KeptInv
  <2> QED BY <2>1, EntryLeaves
<1>q. ASSUME NEW c \in Cores, NEW E, Queued(c, E), NEW m \in E, m.tup = n PROVE HasEntry(n)'
  <2>1. m \in EntriesOf(c)' BY <1>q DEF Queued
  <2> QED BY <1>q, <2>1 DEF HasEntry
<1>m. \A m \in Tuples, ce \in Nat, key \in BOOLEAN : Mark(m, key, ce).tup = m BY MarkFacts
<1>1. CASE UNCHANGED <<root, tup, writes>> BY <1>o, <1>1
<1>2. ASSUME NEW m \in Tuples, Inserted(m) PROVE HasEntry(n)'
  BY <1>t, <1>o, <1>2 DEF Inserted, Others
<1>3. CASE Retired BY <1>o, <1>3 DEF Retired, Others
<1>4. ASSUME NEW c \in Cores, Published(c) PROVE HasEntry(n)'
  BY <1>o, <1>4 DEF Published, Others
<1>5. ASSUME NEW c \in Cores, NEW del \in BOOLEAN, WriteInPlace(c, del), Overwritten(c, del)
      PROVE HasEntry(n)'
  <2>1. CASE n # root BY <1>o, <1>5, <2>1 DEF Overwritten, Others
  <2>2. CASE n = root
    <3>1. del /\ tx[c].ce \in Nat BY <1>5, <2>2 DEF Overwritten, Installed, Writer
    <3>2. Queued(c, IF del THEN {Mark(root, TRUE, tx[c].ce)} ELSE {}) BY <1>5, InPlaceQueued
    <3>3. Mark(root, TRUE, tx[c].ce) \in (IF del THEN {Mark(root, TRUE, tx[c].ce)} ELSE {}) BY <3>1
    <3>4. Mark(root, TRUE, tx[c].ce).tup = n BY <1>m, <2>2, <3>1
    <3> QED BY <1>q, <3>2, <3>3, <3>4
  <2> QED BY <2>1, <2>2
<1>6. ASSUME NEW c \in Cores, NEW del \in BOOLEAN, NEW s \in Tuples, Spilled(c, del, s)
      PROVE HasEntry(n)'
  <2> DEFINE E == {Mark(s, FALSE, tx[c].ce)} \cup IF del THEN {Mark(root, TRUE, tx[c].ce)} ELSE {}
  <2>0. Queued(c, E) /\ tx[c].ce \in Nat /\ root \in Tuples BY <1>6 DEF Spilled, Writer
  <2>1. CASE n # root /\ n # s BY <1>o, <1>6, <2>1 DEF Spilled
  <2>2. CASE n = root
    <3>1. del BY <1>6, <2>2 DEF Spilled, Installed
    <3>2. Mark(root, TRUE, tx[c].ce) \in E BY <3>1
    <3>3. Mark(root, TRUE, tx[c].ce).tup = n BY <1>m, <2>0, <2>2
    <3> HIDE DEF E
    <3> QED BY <1>q, <2>0, <3>2, <3>3
  <2>3. CASE n = s
    <3>2. Mark(s, FALSE, tx[c].ce) \in E OBVIOUS
    <3>3. Mark(s, FALSE, tx[c].ce).tup = n BY <1>m, <2>0, <2>3
    <3> HIDE DEF E
    <3> QED BY <1>q, <2>0, <3>2, <3>3
  <2> QED BY <2>1, <2>2, <2>3
<1>7. ASSUME NEW c \in Cores, NEW del \in BOOLEAN, NEW rep \in Tuples, Replaced(c, del, rep)
      PROVE HasEntry(n)'
  <2> DEFINE E == (IF tup[root].del THEN {} ELSE {Mark(root, FALSE, tx[c].ce)})
                    \cup IF del THEN {Mark(rep, TRUE, tx[c].ce)} ELSE {}
  <2>0. Queued(c, E) /\ tx[c].ce \in Nat /\ root \in Tuples BY <1>7 DEF Replaced, Writer
  <2>1. CASE n # rep /\ (n # root \/ tup[n].del) BY <1>o, <1>7, <2>1 DEF Replaced, Others
  <2>2. CASE n = root /\ ~tup[n].del
    <3>2. Mark(root, FALSE, tx[c].ce) \in E BY <2>2
    <3>3. Mark(root, FALSE, tx[c].ce).tup = n BY <1>m, <2>0, <2>2
    <3> HIDE DEF E
    <3> QED BY <1>q, <2>0, <3>2, <3>3
  <2>3. CASE n = rep
    <3>1. del BY <1>7, <2>3 DEF Replaced, Installed
    <3>2. Mark(rep, TRUE, tx[c].ce) \in E BY <3>1
    <3>3. Mark(rep, TRUE, tx[c].ce).tup = n BY <1>m, <2>0, <2>3
    <3> HIDE DEF E
    <3> QED BY <1>q, <2>0, <3>2, <3>3
  <2> QED BY <2>1, <2>2, <2>3
<1>8. ASSUME NEW m, Freed(m) PROVE HasEntry(n)'
  BY <1>o, <1>8 DEF Freed, Others
<1>9. Moved BY Moves
<1> QED BY <1>1, <1>2, <1>3, <1>4, <1>5, <1>6, <1>7, <1>8, <1>9 DEF Moved

-----------------------------------------------------------------------------
(* The invariant.                                                          *)

LEMMA InitSafe == Init => SafeInv
<1> SUFFICES ASSUME Init PROVE SafeInv OBVIOUS
<1>1. /\ current_tick_ = 1 /\ last_tick_inclusive_ = 0 /\ inside = [c \in Cores |-> 0]
      /\ root = 1 /\ 1 \in Tuples /\ null \notin Tuples /\ lockr = 0 /\ 0 \notin Cores
      /\ Len(writes) = 1 /\ MaxWrites \in Nat \ {0} /\ MAX_EPOCH \in Nat /\ MAX_EPOCH > 1
  BY ClockAssumption, GCAssumption DEF Init, ClockInit, Tuples, null, Cores, MAX_EPOCH
<1>2. /\ tup[1].ep = 1 /\ tup[1].st = "used" /\ tup[1].next = null /\ ~tup[1].del
      /\ \A n \in Tuples : n # 1 => tup[n].st = "none"
  BY <1>1 DEF Init, Unallocated
<1>3. \A c \in Cores : /\ tx[c].pc = "none" /\ tx[c].held = {} /\ tx[c].cur = null /\ tx[c].got = -1
                       /\ queue_[c] = << >> /\ scratch_[c] = << >>
  BY DEF Init, NoTxn
<1>4. ClockInv BY <1>1 DEF ClockInv
<1>5. RootInv BY <1>1, <1>2, <1>3 DEF RootInv, Inserting
<1>6. OnePlace BY <1>3 DEF OnePlace, OnePlaceIn, Single, Apart
<1>7. KeptInv BY <1>1, <1>2 DEF KeptInv
<1>8. ASSUME NEW c \in Cores PROVE TxInv(c) /\ HoldInv(c) /\ QueueInv(c)
  <2>1. TxInv(c) BY <1>1, <1>3 DEF TxInv, Open, Closed, Inserting
  <2>2. HoldInv(c) BY <1>3 DEF HoldInv, Holds
  <2>3. Elements(queue_[c]) = {} /\ Elements(scratch_[c]) = {} /\ Len(queue_[c]) = 0 /\ Len(scratch_[c]) = 0
    BY <1>3, ShortFacts
  <2>4. QueueInv(c) BY <1>1, <2>3 DEF QueueInv, EntriesOf
  <2> QED BY <2>1, <2>2, <2>4
<1>9. ASSUME NEW p \in Tuples PROVE LinkInv(p) BY <1>1, <1>2 DEF LinkInv, Alive
<1>10. Len(writes) <= MaxWrites BY <1>1
<1> QED BY <1>4, <1>5, <1>6, <1>7, <1>8, <1>9, <1>10 DEF SafeInv

LEMMA SafeStep ==
  ASSUME Types, SafeInv, [Next]_vars
  PROVE Types' /\ SafeInv'
<1>1. Types' BY TypesStep
<1>2. ClockInv' BY ClockStep
<1>3. RootInv' BY RootStep
<1>4. OnePlace' /\ Len(writes') <= MaxWrites BY QueueStep DEF QueueTypes
<1>5. KeptInv' BY KeptStep
<1>6. \A c \in Cores : TxInv(c)' BY TxInvStep
<1>7. \A c \in Cores : HoldInv(c)' BY HoldStep
<1>8. \A c \in Cores : QueueInv(c)' BY QueueInvStep
<1>9. \A p \in Tuples : LinkInv(p)' BY LinkStep
<1>10. SafeInv' BY <1>2, <1>3, <1>4, <1>5, <1>6, <1>7, <1>8, <1>9 DEF SafeInv
<1> QED BY <1>1, <1>10

\* The inductive invariant of collection: no core, entry or chain is ahead of
\* what the clock allows to be freed.
THEOREM SafeInvariant == Spec => [](Types /\ SafeInv)
<1>1. Init => Types /\ SafeInv BY InitTypes, InitSafe
<1>2. Types /\ SafeInv /\ [Next]_vars => (Types /\ SafeInv)' BY SafeStep
<1> QED BY <1>1, <1>2, PTL DEF Spec

\* No pointer that a transaction can still follow leads to freed memory,
\* although release_no_rcu() frees superseded versions without RCU.
THEOREM NeverUseAfterFree == Spec => []NoUseAfterFree
<1>1. Types /\ SafeInv => NoUseAfterFree
  <2> SUFFICES ASSUME Types, SafeInv, NEW c \in Cores, NEW n \in tx[c].held \union {tx[c].cur}, n # null
               PROVE tup[n].st # "freed"
    BY DEF NoUseAfterFree
  <2>1. n \in Holds(c) BY DEF Holds
  <2>2. HoldInv(c) BY DEF SafeInv
  <2> QED BY <2>1, <2>2 DEF HoldInv, Alive
<1> QED BY <1>1, SafeInvariant, PTL

LEMMA ShortEnough ==
  ASSUME NEW a \in Nat, NEW b \in Nat, NEW w \in Nat, NEW m \in Nat, a + b <= 2 * w - 2, w <= m
  PROVE a <= 2 * m /\ b <= 2 * m
  OBVIOUS

\* The garbage is queued once: a superseded or deleted version has its place in
\* one queue_ or scratch_, and nothing waits there that was freed already.
THEOREM AlwaysQueuedOnce == Spec => []GarbageQueuedOnce
<1>1. Types /\ SafeInv => GarbageQueuedOnce
  <2> SUFFICES ASSUME Types, SafeInv, NEW n \in Tuples
               PROVE /\ Cardinality(QueuePlaces(n)) <= 1
                     /\ QueuePlaces(n) # {} => tup[n].st = "used"
                     /\ tup[n].st = "used" /\ n # root => QueuePlaces(n) # {}
    BY DEF GarbageQueuedOnce
  <2> DEFINE Of(c, k) == IF k THEN queue_[c] ELSE scratch_[c]
             There(c, k, i) == i \in DOMAIN Of(c, k) /\ Of(c, k)[i].tup = n
             W == 1..2 * MaxWrites
  <2>p. ASSUME NEW p \in QueuePlaces(n)
        PROVE \E c \in Cores, k \in BOOLEAN, i \in W : p = <<c, k, i>> /\ There(c, k, i)
    <3>1. p \in Cores \X BOOLEAN \X W BY <2>p DEF QueuePlaces
    <3>2. PICK c \in Cores, k \in BOOLEAN, i \in W : p = <<c, k, i>> BY <3>1
    <3>3. There(c, k, i) BY <2>p, <3>2 DEF QueuePlaces
    <3> QED BY <3>2, <3>3
  <2>e. ASSUME NEW c \in Cores, NEW k \in BOOLEAN, NEW i, There(c, k, i)
        PROVE \E e \in EntriesOf(c) : e.tup = n
    BY <2>e DEF EntriesOf, Elements
  <2>1. ASSUME NEW c \in Cores, NEW k \in BOOLEAN, NEW i, There(c, k, i),
               NEW d \in Cores, NEW l \in BOOLEAN, NEW j, There(d, l, j)
        PROVE c = d /\ k = l /\ i = j
    <3>0. /\ \A x \in Cores : Single(queue_[x]) /\ Single(scratch_[x])
          /\ \A x, y \in Cores : Apart(queue_[x], scratch_[y])
          /\ \A x, y \in Cores : x # y => Apart(queue_[x], queue_[y]) /\ Apart(scratch_[x], scratch_[y])
      BY DEF SafeInv, OnePlace, OnePlaceIn
    <3>1. CASE k /\ l
      <4>1. c = d BY <2>1, <3>0, <3>1 DEF Apart
      <4> QED BY <2>1, <3>0, <3>1, <4>1 DEF Single
    <3>2. CASE ~k /\ ~l
      <4>1. c = d BY <2>1, <3>0, <3>2 DEF Apart
      <4> QED BY <2>1, <3>0, <3>2, <4>1 DEF Single
    <3>3. CASE k /\ ~l BY <2>1, <3>0, <3>3 DEF Apart
    <3>4. CASE ~k /\ l BY <2>1, <3>0, <3>4 DEF Apart
    <3> QED BY <3>1, <3>2, <3>3, <3>4
  <2>2. Cardinality(QueuePlaces(n)) <= 1
    <3>1. CASE QueuePlaces(n) = {} BY <3>1, FS_EmptySet
    <3>2. CASE QueuePlaces(n) # {}
      <4>1. PICK p \in QueuePlaces(n) : TRUE BY <3>2
      <4>2. PICK c \in Cores, k \in BOOLEAN, i \in W : p = <<c, k, i>> /\ There(c, k, i) BY <2>p
      <4>3. ASSUME NEW q \in QueuePlaces(n) PROVE q = p
        <5>1. PICK d \in Cores, l \in BOOLEAN, j \in W : q = <<d, l, j>> /\ There(d, l, j) BY <2>p
        <5> HIDE DEF There
        <5>2. c = d /\ k = l /\ i = j BY <2>1, <4>2, <5>1
        <5> QED BY <4>2, <5>1, <5>2
      <4>4. QueuePlaces(n) = {p} BY <4>3
      <4>5. Cardinality(QueuePlaces(n)) = 1 BY <4>4, FS_Singleton
      <4> QED BY <4>5
    <3> QED BY <3>1, <3>2
  <2>3. ASSUME QueuePlaces(n) # {} PROVE tup[n].st = "used"
    <3>1. PICK p \in QueuePlaces(n) : TRUE BY <2>3
    <3>2. PICK c \in Cores, k \in BOOLEAN, i \in W : p = <<c, k, i>> /\ There(c, k, i) BY <2>p
    <3>3. PICK e \in EntriesOf(c) : e.tup = n BY <2>e, <3>2
    <3>4. EntryInv(e) BY DEF SafeInv, QueueInv
    <3> QED BY <3>3, <3>4 DEF EntryInv
  <2>4. ASSUME tup[n].st = "used", n # root PROVE QueuePlaces(n) # {}
    <3>1. HasEntry(n) BY <2>4 DEF SafeInv, KeptInv
    <3>2. PICK c \in Cores : \E e \in EntriesOf(c) : e.tup = n BY <3>1 DEF HasEntry
    <3>3. PICK k \in BOOLEAN : \E i \in DOMAIN Of(c, k) : Of(c, k)[i].tup = n
      <4>1. CASE \E e \in Elements(queue_[c]) : e.tup = n
        <5>1. \E i \in DOMAIN Of(c, TRUE) : Of(c, TRUE)[i].tup = n BY <4>1 DEF Elements
        <5> QED BY <5>1
      <4>2. CASE \E e \in Elements(scratch_[c]) : e.tup = n
        <5>1. \E i \in DOMAIN Of(c, FALSE) : Of(c, FALSE)[i].tup = n BY <4>2 DEF Elements
        <5> QED BY <5>1
      <4> QED BY <3>2, <4>1, <4>2 DEF EntriesOf
    <3>4. PICK i \in DOMAIN Of(c, k) : Of(c, k)[i].tup = n BY <3>3
    <3>5. i \in W
      <4>1. /\ queue_[c] \in Seq(QueueEntry) /\ scratch_[c] \in Seq(QueueEntry)
            /\ Len(writes) \in Nat /\ MaxWrites \in Nat
        BY GCAssumption DEF Types
      <4>2. /\ Len(queue_[c]) + Len(scratch_[c]) <= 2 * Len(writes) - 2
            /\ Len(writes) <= MaxWrites
        BY DEF SafeInv, QueueInv
      <4>3. /\ Len(queue_[c]) \in Nat /\ DOMAIN queue_[c] = 1..Len(queue_[c])
            /\ Len(scratch_[c]) \in Nat /\ DOMAIN scratch_[c] = 1..Len(scratch_[c])
        BY <4>1
      <4>4. Len(queue_[c]) <= 2 * MaxWrites /\ Len(scratch_[c]) <= 2 * MaxWrites
        BY <4>1, <4>2, <4>3, ShortEnough
      <4> QED BY <3>4, <4>1, <4>3, <4>4
    <3>6. <<c, k, i>> \in QueuePlaces(n) BY <3>4, <3>5 DEF QueuePlaces
    <3> QED BY <3>6
  <2> QED BY <2>2, <2>3, <2>4
<1> QED BY <1>1, SafeInvariant, PTL

-----------------------------------------------------------------------------
(* What a snapshot reads.                                                  *)

LEMMA WriteNat ==
  ASSUME Types
  PROVE /\ Len(writes) \in Nat
        /\ \A i \in 1..Len(writes) : writes[i].ep \in Nat /\ writes[i].del \in BOOLEAN
<1> DEFINE S == [ep : Nat, del : BOOLEAN]
<1>1. writes \in Seq(S) BY DEF Types
<1>2. \A x \in S : x.ep \in Nat /\ x.del \in BOOLEAN OBVIOUS
<1> HIDE DEF S
<1>3. \A i \in 1..Len(writes) : writes[i] \in S BY <1>1
<1>4. Len(writes) \in Nat BY <1>1
<1> QED BY <1>2, <1>3, <1>4

\* The writes grow at the end, by epochs that no snapshot sees.
LEMMA WritesGrow ==
  ASSUME Types, SafeInv, [Next]_vars
  PROVE /\ Len(writes) \in Nat /\ Len(writes') \in Nat
        /\ Len(writes') \in {Len(writes), Len(writes) + 1}
        /\ \A i \in 1..Len(writes) : writes'[i] = writes[i]
        /\ \A i \in Len(writes) + 1..Len(writes') :
             writes'[i].ep \in Nat /\ last_tick_inclusive_ + 1 <= writes'[i].ep
<1> DEFINE Goal == /\ Len(writes') \in {Len(writes), Len(writes) + 1}
                   /\ \A i \in 1..Len(writes) : writes'[i] = writes[i]
                   /\ \A i \in Len(writes) + 1..Len(writes') :
                        writes'[i].ep \in Nat /\ last_tick_inclusive_ + 1 <= writes'[i].ep
<1>n. Len(writes) \in Nat BY DEF Types
<1>u. ASSUME UNCHANGED writes PROVE Goal BY <1>n, <1>u
<1>a. ASSUME NEW c \in Cores, NEW del, Appended(c, del), Writer(c) PROVE Goal
  <2>1. tx[c].ce \in Nat /\ last_tick_inclusive_ + 1 <= tx[c].ce BY <1>a DEF Writer
  <2>2. writes'[Len(writes) + 1].ep = tx[c].ce BY <1>a DEF Appended
  <2>3. Len(writes') = Len(writes) + 1 /\ \A i \in 1..Len(writes) : writes'[i] = writes[i]
    BY <1>a DEF Appended
  <2>4. \A i \in Len(writes) + 1..Len(writes') : i = Len(writes) + 1 BY <1>n, <2>3
  <2> QED BY <2>1, <2>2, <2>3, <2>4
<1> HIDE DEF Goal
<1>1. ASSUME NEW n, Inserted(n) \/ Retired \/ Freed(n) PROVE Goal
  BY <1>u, <1>1 DEF Inserted, Retired, Freed
<1>2. ASSUME NEW c \in Cores, NEW del, NEW n,
             Published(c) \/ Overwritten(c, del) \/ Spilled(c, del, n) \/ Replaced(c, del, n)
      PROVE Goal
  BY <1>a, <1>2 DEF Published, Overwritten, Spilled, Replaced
<1>3. Moved BY Moves
<1>4. Goal BY <1>u, <1>1, <1>2, <1>3 DEF Moved
<1>5. Len(writes') \in Nat BY <1>n, <1>4 DEF Goal
<1> QED BY <1>n, <1>4, <1>5 DEF Goal

\* A version in the chain keeps its write, or gets the last one.
LEMMA VersionMoves ==
  ASSUME Types, SafeInv, [Next]_vars, NEW p \in Tuples, tup[p].st # "none"
  PROVE \/ tup'[p].ep = tup[p].ep /\ tup'[p].w = tup[p].w /\ tup'[p].del = tup[p].del
        \/ tup'[p].ep # MAX_EPOCH /\ tup'[p].w = Len(writes')
<1> DEFINE Goal == \/ tup'[p].ep = tup[p].ep /\ tup'[p].w = tup[p].w /\ tup'[p].del = tup[p].del
                   \/ tup'[p].ep # MAX_EPOCH /\ tup'[p].w = Len(writes')
<1>u. ASSUME tup'[p] = tup[p] PROVE Goal BY <1>u
<1>v. ASSUME SameVersion(p) PROVE Goal BY <1>v DEF SameVersion
<1>i. ASSUME NEW c \in Cores, NEW del, NEW next, Writer(c), Appended(c, del), Installed(c, del, p, next)
      PROVE Goal
  BY <1>i DEF Writer, Appended, Installed
<1> HIDE DEF Goal
<1>1. CASE UNCHANGED <<root, tup, writes>> BY <1>u, <1>1
<1>2. ASSUME NEW m \in Tuples, Inserted(m) PROVE Goal BY <1>u, <1>2 DEF Inserted, Others
<1>3. ASSUME Retired PROVE Goal BY <1>u, <1>v, <1>3 DEF Retired, Others
<1>4. ASSUME NEW c \in Cores, Published(c) PROVE Goal
  <2>1. CASE p = root
    <3>1. tup'[p].ep # MAX_EPOCH /\ tup'[p].w = Len(writes')
      BY <1>4, <2>1 DEF Published, Writer, Appended
    <3> QED BY <3>1 DEF Goal
  <2>2. CASE p # root BY <1>u, <1>4, <2>2 DEF Published, Others
  <2> QED BY <2>1, <2>2
<1>5. ASSUME NEW c \in Cores, NEW del \in BOOLEAN, Overwritten(c, del) PROVE Goal
  BY <1>u, <1>i, <1>5 DEF Overwritten, Others
<1>6. ASSUME NEW c \in Cores, NEW del \in BOOLEAN, NEW s \in Tuples, Spilled(c, del, s) PROVE Goal
  BY <1>u, <1>i, <1>6 DEF Spilled
<1>7. ASSUME NEW c \in Cores, NEW del \in BOOLEAN, NEW rep \in Tuples, Replaced(c, del, rep) PROVE Goal
  BY <1>u, <1>i, <1>7 DEF Replaced, Others
<1>8. ASSUME NEW m, Freed(m) PROVE Goal BY <1>u, <1>v, <1>8 DEF Freed, Others
<1>9. Moved BY Moves
<1>10. Goal
  <2>1. CASE UNCHANGED <<root, tup, writes>> BY <1>u, <2>1
  <2> QED BY <1>2, <1>3, <1>4, <1>5, <1>6, <1>7, <1>8, <1>9, <2>1 DEF Moved
<1> QED BY <1>10 DEF Goal

\* What lay below every snapshot, and what was of one tick, does so afterwards.
LEMMA FloorKept ==
  ASSUME Types, SafeInv, [Next]_vars, NEW k \in 0..Len(writes), Floor(writes, last_tick_inclusive_, k)
  PROVE Floor(writes', last_tick_inclusive_', k)
<1>1. CASE k = 0 BY <1>1 DEF Floor
<1>2. CASE k # 0
  <2>0. Len(writes) \in Nat BY WriteNat
  <2>1. k \in 1..Len(writes) BY <1>2, <2>0
  <2>2. writes'[k] = writes[k] BY <2>1, WritesGrow
  <2>3. writes[k].del /\ Ro(writes[k].ep) < Ro(last_tick_inclusive_) BY <1>2 DEF Floor
  <2>4. writes[k].ep \in Nat BY <2>1, WriteNat
  <2>5. Ro(writes[k].ep) \in Nat BY <2>4, RoNat
  <2>6. Ro(writes'[k].ep) < Ro(last_tick_inclusive_') BY <2>2, <2>3, <2>5, RoForward
  <2> QED BY <2>2, <2>3, <2>6 DEF Floor
<1> QED BY <1>1, <1>2

LEMMA SameTickKept ==
  ASSUME Types, SafeInv, [Next]_vars, NEW k \in Nat, NEW w \in 0..Len(writes), NEW ep,
         SameTick(writes, k, w, ep)
  PROVE SameTick(writes', k, w, ep)
<1>0. Len(writes) \in Nat BY WriteNat
<1>1. \A i \in k + 1..w : i \in 1..Len(writes) BY <1>0
<1>2. \A i \in k + 1..w : writes'[i] = writes[i] BY <1>1, WritesGrow
<1> QED BY <1>2 DEF SameTick

\* A version keeps what it says of the writes, wherever it stands.
LEMMA VersionKept ==
  ASSUME Types, SafeInv, [Next]_vars, NEW v \in TupleType, NEW u,
         Describes(v, tup, writes, last_tick_inclusive_),
         u.ep = v.ep, u.w = v.w, u.del = v.del, u.next = v.next,
         v.next # null => tup'[v.next].ep = tup[v.next].ep /\ tup'[v.next].w = tup[v.next].w
  PROVE Describes(u, tup', writes', last_tick_inclusive_')
<1>g. /\ Len(writes) \in Nat /\ Len(writes') \in Nat
      /\ Len(writes') \in {Len(writes), Len(writes) + 1}
      /\ \A i \in 1..Len(writes) : writes'[i] = writes[i]
  BY WritesGrow
<1>t. v.next \in Tuples \cup {null} BY DEF TupleType
<1>1. v.w \in 1..Len(writes) /\ v.w \in 1..Len(writes') /\ v.w \in 0..Len(writes)
  <2>1. v.w \in 1..Len(writes) BY DEF Describes
  <2> QED BY <1>g, <2>1
<1>2. writes'[v.w].ep = v.ep /\ writes'[v.w].del = v.del BY <1>g, <1>1 DEF Describes
<1>3. ASSUME v.next # null
      PROVE tup'[v.next].ep # MAX_EPOCH /\ SameTick(writes', tup'[v.next].w, v.w, v.ep)
  <2>1. tup[v.next].ep # MAX_EPOCH /\ SameTick(writes, tup[v.next].w, v.w, v.ep)
    BY <1>3 DEF Describes
  <2>2. tup[v.next].w \in Nat BY <1>t, <1>3 DEF Types, TupleType
  <2>3. SameTick(writes', tup[v.next].w, v.w, v.ep) BY <1>1, <2>1, <2>2, SameTickKept
  <2> QED BY <1>3, <2>1, <2>3
<1>4. ASSUME v.next = null
      PROVE \E k \in 0..Len(writes') : /\ Floor(writes', last_tick_inclusive_', k)
                                       /\ SameTick(writes', k, v.w, v.ep)
  <2>1. PICK k \in 0..Len(writes) : /\ Floor(writes, last_tick_inclusive_, k)
                                    /\ SameTick(writes, k, v.w, v.ep)
    BY <1>4 DEF Describes
  <2>2. k \in Nat /\ k \in 0..Len(writes') BY <1>g
  <2>3. SameTick(writes', k, v.w, v.ep) BY <1>1, <2>1, <2>2, SameTickKept
  <2>4. Floor(writes', last_tick_inclusive_', k) BY <2>1, FloorKept
  <2> QED BY <2>2, <2>3, <2>4
<1> QED BY <1>1, <1>2, <1>3, <1>4 DEF Describes

\* The version a write installs, in front of the version of the write before it,
\* of one of its own tick, or of nothing.
LEMMA VersionNew ==
  ASSUME Types, SafeInv, [Next]_vars, NEW c \in Cores, NEW del, Writer(c), Appended(c, del), NEW u,
         u.ep = tx[c].ce, u.w = Len(writes) + 1, u.del = del,
         u.next # null => /\ tup'[u.next].ep # MAX_EPOCH /\ tup'[u.next].w \in Nat
                          /\ SameTick(writes, tup'[u.next].w, Len(writes), tx[c].ce),
         u.next = null => \E k \in 0..Len(writes) : /\ Floor(writes, last_tick_inclusive_, k)
                                                    /\ SameTick(writes, k, Len(writes), tx[c].ce)
  PROVE Describes(u, tup', writes', last_tick_inclusive_')
<1>g. /\ Len(writes) \in Nat /\ Len(writes') = Len(writes) + 1
      /\ writes'[Len(writes) + 1].ep = tx[c].ce /\ writes'[Len(writes) + 1].del = del
  BY WriteNat DEF Appended
<1>1. ASSUME NEW k \in Nat, SameTick(writes, k, Len(writes), tx[c].ce)
      PROVE SameTick(writes', k, Len(writes) + 1, tx[c].ce)
  <2>0. Len(writes) \in 0..Len(writes) BY <1>g
  <2>1. SameTick(writes', k, Len(writes), tx[c].ce) BY <1>1, <2>0, SameTickKept
  <2>2. ASSUME NEW i \in k + 1..Len(writes) + 1 PROVE Ro(writes'[i].ep) = Ro(tx[c].ce)
    <3>1. CASE i = Len(writes) + 1 BY <1>g, <3>1
    <3>2. CASE i # Len(writes) + 1
      <4>1. i \in k + 1..Len(writes) BY <1>g, <3>2
      <4> QED BY <2>1, <4>1 DEF SameTick
    <3> QED BY <3>1, <3>2
  <2> QED BY <2>2 DEF SameTick
<1>2. ASSUME u.next # null
      PROVE tup'[u.next].ep # MAX_EPOCH /\ SameTick(writes', tup'[u.next].w, u.w, u.ep)
  <2>1. SameTick(writes', tup'[u.next].w, Len(writes) + 1, tx[c].ce) BY <1>1, <1>2
  <2> QED BY <1>2, <2>1
<1>3. ASSUME u.next = null
      PROVE \E k \in 0..Len(writes') : /\ Floor(writes', last_tick_inclusive_', k)
                                       /\ SameTick(writes', k, u.w, u.ep)
  <2>1. PICK k \in 0..Len(writes) : /\ Floor(writes, last_tick_inclusive_, k)
                                    /\ SameTick(writes, k, Len(writes), tx[c].ce)
    BY <1>3
  <2>2. k \in Nat /\ k \in 0..Len(writes') BY <1>g
  <2>3. SameTick(writes', k, u.w, u.ep) BY <1>1, <2>1, <2>2
  <2>4. Floor(writes', last_tick_inclusive_', k) BY <2>1, FloorKept
  <2> QED BY <2>2, <2>3, <2>4
<1>4. u.w \in 1..Len(writes') /\ writes'[u.w].ep = u.ep /\ writes'[u.w].del = u.del BY <1>g
<1> QED BY <1>2, <1>3, <1>4 DEF Describes

\* An empty run of writes.
LEMMA NoRun ==
  ASSUME Types, NEW ep
  PROVE SameTick(writes, Len(writes), Len(writes), ep)
<1>1. Len(writes) \in Nat BY WriteNat
<1>2. \A i \in Len(writes) + 1..Len(writes) : FALSE BY <1>1
<1> QED BY <1>2 DEF SameTick

LEMMA VersionStep ==
  ASSUME Types, SafeInv, ReadInv, [Next]_vars, NEW p \in Tuples
  PROVE VersionInv(p)'
<1> SUFFICES ASSUME Alive(p)', tup'[p].ep # MAX_EPOCH
             PROVE Describes(tup'[p], tup', writes', last_tick_inclusive_')
  BY DEF VersionInv
<1> DEFINE Goal == Describes(tup'[p], tup', writes', last_tick_inclusive_')
<1>t. /\ tup \in [Tuples -> TupleType] /\ root \in Tuples \cup {null} /\ null \notin Tuples
  BY DEF Types, Tuples, null
<1>v. \A q \in Tuples : Alive(q) /\ tup[q].ep # MAX_EPOCH =>
        Describes(tup[q], tup, writes, last_tick_inclusive_)
  BY DEF ReadInv, VersionInv
<1>n. Len(writes) \in Nat BY WriteNat
<1>w. \A q \in Tuples : tup[q].w \in Nat BY <1>t DEF TupleType
<1>k. ASSUME NEW q \in Tuples, Alive(q), (SameVersion(p) /\ q = p) \/ tup'[p] = tup[q],
             tup[q].next # null => /\ tup'[tup[q].next].ep = tup[tup[q].next].ep
                                   /\ tup'[tup[q].next].w = tup[tup[q].next].w
      PROVE Goal
  <2>1. /\ tup'[p].ep = tup[q].ep /\ tup'[p].w = tup[q].w /\ tup'[p].del = tup[q].del
        /\ tup'[p].next = tup[q].next
    BY <1>k DEF SameVersion
  <2>2. Describes(tup[q], tup, writes, last_tick_inclusive_) BY <1>v, <1>k, <2>1
  <2>3. tup[q] \in TupleType BY <1>t
  <2> QED BY <1>k, <2>1, <2>2, <2>3, VersionKept
<1>l. ASSUME NEW q \in Tuples, Alive(q), tup[q].next # null
      PROVE /\ tup[q].next \in Tuples /\ tup[q].next # root
            /\ tup[tup[q].next].st \in {"used", "freed"}
  BY <1>l, LinkFacts
<1> HIDE DEF Goal
<1>1. ASSUME UNCHANGED <<root, tup, writes>> PROVE Goal
  <2>1. tup' = tup /\ Alive(p) BY <1>1 DEF Alive
  <2> QED BY <1>k, <2>1
<1>2. ASSUME NEW m \in Tuples, Inserted(m) PROVE Goal
  <2>1. p # m /\ tup'[p] = tup[p] /\ tup[m].st = "none" BY <1>2 DEF Inserted, Others
  <2>2. Alive(p) BY <2>1 DEF Alive
  <2>3. tup[p].next # null => tup'[tup[p].next] = tup[tup[p].next]
    BY <1>l, <1>2, <2>1, <2>2 DEF Inserted, Others
  <2> QED BY <1>k, <2>1, <2>2, <2>3
<1>3. ASSUME Retired PROVE Goal
  <2>1. Alive(p) /\ (SameVersion(p) \/ tup'[p] = tup[p]) BY <1>3 DEF Retired, Others, Alive
  <2>2. tup[p].next # null => tup'[tup[p].next] = tup[tup[p].next]
    BY <1>l, <1>3, <2>1 DEF Retired, Others
  <2> QED BY <1>k, <2>1, <2>2
<1>o. ASSUME NEW c \in Cores, p # root, Others(root) PROVE Goal
  <2>1. tup'[p] = tup[p] /\ Alive(p) BY <1>o DEF Others, Alive
  <2>2. tup[p].next # null => tup'[tup[p].next] = tup[tup[p].next] BY <1>l, <1>o, <2>1 DEF Others
  <2> QED BY <1>k, <2>1, <2>2
<1>4. ASSUME NEW c \in Cores, Published(c) PROVE Goal
  <2>1. CASE p # root BY <1>o, <1>4, <2>1 DEF Published
  <2>2. CASE p = root
    <3>1. Writer(c) /\ Appended(c, FALSE) BY <1>4 DEF Published
    <3>2. /\ tup'[p].ep = tx[c].ce /\ tup'[p].w = Len(writes) + 1 /\ tup'[p].del = FALSE
          /\ tup'[p].next = null
      <4>1. tup'[p].del \in BOOLEAN
        <5>1. Types' BY TypesStep
        <5> QED BY <5>1 DEF Types, TupleType
      <4> QED BY <1>4, <2>2, <4>1 DEF Published
    <3>3. Floor(writes, last_tick_inclusive_, Len(writes))
      <4>1. tup[root].ep = MAX_EPOCH BY <1>4 DEF Published
      <4> QED BY <4>1 DEF ReadInv, LatestInv, Bottom
    <3>4. \E k \in 0..Len(writes) : /\ Floor(writes, last_tick_inclusive_, k)
                                    /\ SameTick(writes, k, Len(writes), tx[c].ce)
      <4>1. Len(writes) \in 0..Len(writes) BY <1>n
      <4> QED BY <3>3, <4>1, NoRun
    <3> QED BY <3>1, <3>2, <3>4, VersionNew DEF Goal
  <2> QED BY <2>1, <2>2
<1>5. ASSUME NEW c \in Cores, NEW del \in BOOLEAN, Overwritten(c, del) PROVE Goal
  <2>1. CASE p # root BY <1>o, <1>5, <2>1 DEF Overwritten
  <2>2. CASE p = root
    <3>1. Writer(c) /\ Appended(c, del) /\ root \in Tuples /\ Alive(root) /\ Others(root)
      BY <1>5 DEF Overwritten, Writer, Alive
    <3>2. /\ tup'[p].ep = tx[c].ce /\ tup'[p].w = Len(writes) + 1 /\ tup'[p].del = del
          /\ tup'[p].next = tup[root].next
      BY <1>5, <2>2 DEF Overwritten, Installed
    <3>3. Ro(tup[root].ep) = Ro(tx[c].ce) /\ tup[root].ep # MAX_EPOCH BY <1>5 DEF Overwritten
    <3>4. tup[root].w = Len(writes) BY <1>t, <3>1, <3>3 DEF ReadInv, LatestInv
    <3>5. Describes(tup[root], tup, writes, last_tick_inclusive_) BY <1>v, <3>1, <3>3
    <3>6. ASSUME NEW k, SameTick(writes, k, Len(writes), tup[root].ep)
          PROVE SameTick(writes, k, Len(writes), tx[c].ce)
      BY <3>3, <3>6 DEF SameTick
    <3>7. ASSUME tup[root].next # null
          PROVE /\ tup'[tup[root].next].ep # MAX_EPOCH /\ tup'[tup[root].next].w \in Nat
                /\ SameTick(writes, tup'[tup[root].next].w, Len(writes), tx[c].ce)
      <4>1. tup[root].next \in Tuples /\ tup'[tup[root].next] = tup[tup[root].next]
        BY <1>l, <3>1, <3>7 DEF Others
      <4>2. /\ tup[tup[root].next].ep # MAX_EPOCH
            /\ SameTick(writes, tup[tup[root].next].w, Len(writes), tup[root].ep)
        BY <3>4, <3>5, <3>7 DEF Describes
      <4>3. SameTick(writes, tup[tup[root].next].w, Len(writes), tx[c].ce) BY <3>6, <4>2
      <4> QED BY <1>w, <4>1, <4>2, <4>3
    <3>8. ASSUME tup[root].next = null
          PROVE \E k \in 0..Len(writes) : /\ Floor(writes, last_tick_inclusive_, k)
                                          /\ SameTick(writes, k, Len(writes), tx[c].ce)
      <4>1. PICK k \in 0..Len(writes) : /\ Floor(writes, last_tick_inclusive_, k)
                                        /\ SameTick(writes, k, Len(writes), tup[root].ep)
        BY <3>4, <3>5, <3>8 DEF Describes
      <4>2. SameTick(writes, k, Len(writes), tx[c].ce) BY <3>6, <4>1
      <4> QED BY <4>1, <4>2
    <3> QED BY <3>1, <3>2, <3>7, <3>8, VersionNew DEF Goal
  <2> QED BY <2>1, <2>2
\* The new version stands in front of the last one.
<1>f. ASSUME NEW c \in Cores, NEW del, Writer(c), Appended(c, del), tup[root].ep # MAX_EPOCH,
             NEW next \in Tuples, Installed(c, del, p, next), tup'[next] = tup[root]
      PROVE Goal
  <2>1. /\ tup'[p].ep = tx[c].ce /\ tup'[p].w = Len(writes) + 1 /\ tup'[p].del = del
        /\ tup'[p].next = next
    BY <1>f DEF Installed
  <2>2. root \in Tuples BY <1>f DEF Writer
  <2>3. tup[root].w = Len(writes) BY <1>t, <1>f, <2>2 DEF ReadInv, LatestInv
  <2>4. /\ tup'[next].ep # MAX_EPOCH /\ tup'[next].w \in Nat
        /\ SameTick(writes, tup'[next].w, Len(writes), tx[c].ce)
    BY <1>n, <1>f, <2>3, NoRun
  <2>5. tup'[p].next # null BY <1>t, <2>1
  <2> QED BY <1>f, <2>1, <2>4, <2>5, VersionNew DEF Goal
<1>6. ASSUME NEW c \in Cores, NEW del \in BOOLEAN, NEW s \in Tuples, Spilled(c, del, s) PROVE Goal
  <2>0. /\ Writer(c) /\ Appended(c, del) /\ root \in Tuples /\ Alive(root) /\ tup[s].st = "none"
        /\ \A q \in Tuples : q # root /\ q # s => tup'[q] = tup[q]
        /\ tup'[s] = tup[root] /\ Installed(c, del, root, s) /\ tup[root].ep # MAX_EPOCH
    BY <1>6 DEF Spilled, Writer, Alive
  <2>1. ASSUME NEW q \in Tuples, Alive(q), tup[q].next # null
        PROVE tup'[tup[q].next] = tup[tup[q].next]
    BY <1>l, <2>0, <2>1
  <2>2. CASE p # root /\ p # s
    <3>1. tup'[p] = tup[p] /\ Alive(p) BY <2>0, <2>2 DEF Alive
    <3> QED BY <1>k, <2>1, <3>1
  <2>3. CASE p = root BY <1>f, <2>0, <2>3
  <2>4. CASE p = s
    <3>1. tup'[p] = tup[root] BY <2>0, <2>4
    <3> QED BY <1>k, <2>0, <2>1, <3>1
  <2> QED BY <2>2, <2>3, <2>4
<1>7. ASSUME NEW c \in Cores, NEW del \in BOOLEAN, NEW rep \in Tuples, Replaced(c, del, rep) PROVE Goal
  <2>0. /\ Writer(c) /\ Appended(c, del) /\ root \in Tuples /\ tup[rep].st = "none" /\ rep # root
        /\ \A q \in Tuples : q # rep => tup'[q] = tup[q]
        /\ Installed(c, del, rep, root) /\ tup[root].ep # MAX_EPOCH
    BY <1>7 DEF Replaced, Writer, Others
  <2>1. CASE p = rep
    <3>1. tup'[root] = tup[root] BY <2>0
    <3> QED BY <1>f, <2>0, <2>1, <3>1
  <2>2. CASE p # rep
    <3>1. tup'[p] = tup[p] /\ Alive(p) BY <2>0, <2>2 DEF Alive
    <3>2. tup[p].next # null => tup'[tup[p].next] = tup[tup[p].next] BY <1>l, <2>0, <3>1
    <3> QED BY <1>k, <3>1, <3>2
  <2> QED BY <2>1, <2>2
<1>8. ASSUME NEW m, Freed(m) PROVE Goal
  <2>1. tup'[p] = tup[p] /\ Alive(p) BY <1>8 DEF Freed, Others, Alive
  <2>2. tup[p].next # null => /\ tup'[tup[p].next].ep = tup[tup[p].next].ep
                              /\ tup'[tup[p].next].w = tup[tup[p].next].w
    BY <1>l, <1>8, <2>1 DEF Freed, Others, SameVersion
  <2> QED BY <1>k, <2>1, <2>2
<1>9. Moved BY Moves
<1>10. Goal BY <1>1, <1>2, <1>3, <1>4, <1>5, <1>6, <1>7, <1>8, <1>9 DEF Moved
<1> QED BY <1>10 DEF Goal

LEMMA LatestStep ==
  ASSUME Types, SafeInv, ReadInv, [Next]_vars
  PROVE LatestInv'
<1>n. Len(writes) \in Nat /\ Len(writes) \in 0..Len(writes)
  <2>1. Len(writes) \in Nat BY WriteNat
  <2> QED BY <2>1
<1>t. root \in Tuples \cup {null} /\ null \notin Tuples BY DEF Types, Tuples, null
<1>i. LatestInv BY DEF ReadInv
<1>b. ASSUME UNCHANGED writes, Floor(writes, last_tick_inclusive_, Len(writes)),
             root' = null \/ tup'[root'].ep = MAX_EPOCH
      PROVE LatestInv'
  <2>1. Floor(writes', last_tick_inclusive_', Len(writes)) BY <1>n, <1>b, FloorKept
  <2>2. Bottom(Len(writes))'
    <3>1. Len(writes') = Len(writes) BY <1>b
    <3> QED BY <2>1, <3>1 DEF Bottom
  <2> QED BY <1>b, <2>2 DEF LatestInv
<1>r. ASSUME root' # null, tup'[root'].ep # MAX_EPOCH, tup'[root'].w = Len(writes') PROVE LatestInv'
  BY <1>r DEF LatestInv
<1>s. ASSUME UNCHANGED <<root, writes>>, root # null => tup'[root].ep = tup[root].ep /\ tup'[root].w = tup[root].w
      PROVE LatestInv'
  <2>1. CASE root = null \/ tup[root].ep = MAX_EPOCH
    <3>1. Floor(writes, last_tick_inclusive_, Len(writes)) BY <1>i, <2>1 DEF LatestInv, Bottom
    <3> QED BY <1>b, <1>s, <2>1, <3>1
  <2>2. CASE root # null /\ tup[root].ep # MAX_EPOCH
    <3>1. tup[root].w = Len(writes) BY <1>i, <2>2 DEF LatestInv
    <3> QED BY <1>r, <1>s, <2>2, <3>1
  <2> QED BY <2>1, <2>2
<1>1. ASSUME UNCHANGED <<root, tup, writes>> PROVE LatestInv' BY <1>s, <1>1
<1>2. ASSUME NEW m \in Tuples, Inserted(m) PROVE LatestInv'
  <2>1. Floor(writes, last_tick_inclusive_, Len(writes)) BY <1>i, <1>2 DEF LatestInv, Bottom, Inserted
  <2> QED BY <1>b, <1>2, <2>1 DEF Inserted
<1>3. ASSUME NEW c \in Cores, AbortInsert(c), Retired PROVE LatestInv'
  <2>1. tup[root].ep = MAX_EPOCH BY <1>3, WriterFacts DEF AbortInsert, Inserting
  <2>2. Floor(writes, last_tick_inclusive_, Len(writes)) BY <1>i, <2>1 DEF LatestInv, Bottom
  <2> QED BY <1>b, <1>3, <2>2 DEF Retired
<1>4. ASSUME NEW c \in Cores, GcRemove(c), Retired PROVE LatestInv'
  <2>1. Reaping(c) /\ DropEntry(c) /\ Entry(c).key /\ root = Entry(c).tup BY <1>4 DEF GcRemove
  <2>2. Entry(c) \in Elements(scratch_[c]) /\ root \in Tuples /\ Entry(c).tick \in Nat
    BY <2>1, Dropped, EntryFacts
  <2>3. EntryInv(Entry(c)) /\ Entry(c).tick < Ro(last_tick_inclusive_)
    BY <2>2 DEF SafeInv, QueueInv, EntriesOf
  <2>4. tup[root].del /\ Ro(tup[root].ep) <= Entry(c).tick BY <2>1, <2>3 DEF EntryInv
  <2>5. tup[root].ep # MAX_EPOCH /\ tup[root].st = "used"
    BY <1>t, <2>2, <2>4 DEF SafeInv, RootInv
  <2>6. Describes(tup[root], tup, writes, last_tick_inclusive_)
    BY <2>2, <2>5 DEF ReadInv, VersionInv, Alive
  <2>7. tup[root].w = Len(writes) BY <1>i, <1>t, <2>2, <2>5 DEF LatestInv
  <2>8. writes[Len(writes)].del /\ writes[Len(writes)].ep = tup[root].ep
    BY <2>4, <2>6, <2>7 DEF Describes
  <2>9. Ro(tup[root].ep) < Ro(last_tick_inclusive_)
    <3>1. tup[root].ep \in Nat BY <2>2, ClockNat
    <3>2. Ro(tup[root].ep) \in Nat /\ Ro(last_tick_inclusive_) \in Nat BY <3>1, RoNat, RoForward
    <3> QED BY <2>2, <2>3, <2>4, <3>2
  <2>10. Floor(writes, last_tick_inclusive_, Len(writes)) BY <2>8, <2>9 DEF Floor
  <2> QED BY <1>b, <1>4, <2>10 DEF Retired
<1>5. ASSUME NEW c \in Cores, Published(c) PROVE LatestInv'
  <2>1. root' # null /\ tup'[root'].ep # MAX_EPOCH /\ tup'[root'].w = Len(writes')
    BY <1>t, <1>5 DEF Published, Writer, Appended
  <2> QED BY <1>r, <2>1
<1>6. ASSUME NEW c \in Cores, NEW del \in BOOLEAN, NEW next, root' \in Tuples, Writer(c), Appended(c, del),
             Installed(c, del, root', next)
      PROVE LatestInv'
  <2>1. root' # null /\ tup'[root'].ep # MAX_EPOCH /\ tup'[root'].w = Len(writes')
    BY <1>t, <1>6 DEF Installed, Writer, Appended
  <2> QED BY <1>r, <2>1
<1>7. ASSUME NEW c \in Cores, NEW del \in BOOLEAN, Overwritten(c, del) PROVE LatestInv'
  BY <1>6, <1>7 DEF Overwritten, Writer
<1>8. ASSUME NEW c \in Cores, NEW del \in BOOLEAN, NEW s \in Tuples, Spilled(c, del, s) PROVE LatestInv'
  BY <1>6, <1>8 DEF Spilled, Writer
<1>9. ASSUME NEW c \in Cores, NEW del \in BOOLEAN, NEW rep \in Tuples, Replaced(c, del, rep) PROVE LatestInv'
  BY <1>6, <1>9 DEF Replaced
<1>10. ASSUME NEW m, Freed(m) PROVE LatestInv'
  BY <1>s, <1>t, <1>10 DEF Freed, Others, SameVersion
<1>11. Moved BY Moves
<1> QED BY <1>1, <1>2, <1>3, <1>4, <1>5, <1>7, <1>8, <1>9, <1>10, <1>11 DEF Moved

\* A snapshot with bound b reads g of the writes ws.
Sees(ws, b, g) ==
  \E n \in 0..Len(ws) :
    /\ n # 0 => ws[n].ep < b
    /\ \A i \in n + 1..Len(ws) : ws[i].ep >= b
    /\ g = IF n = 0 \/ ws[n].del THEN 0 ELSE n

\* It sees no write after write w.
NotAfter(ws, w, b) == \A i \in w + 1..Len(ws) : ws[i].ep >= b

LEMMA NotAfterKept ==
  ASSUME Types, SafeInv, [Next]_vars, NEW b \in Nat, b <= last_tick_inclusive_ + 1,
         NEW w \in Nat, NotAfter(writes, w, b)
  PROVE NotAfter(writes', w, b)
<1>n. last_tick_inclusive_ \in Nat BY ClockNat
<1>g. /\ Len(writes) \in Nat /\ Len(writes') \in Nat
      /\ Len(writes') \in {Len(writes), Len(writes) + 1}
      /\ \A i \in 1..Len(writes) : writes'[i] = writes[i]
      /\ \A i \in Len(writes) + 1..Len(writes') :
           writes'[i].ep \in Nat /\ last_tick_inclusive_ + 1 <= writes'[i].ep
  BY WritesGrow
<1>1. ASSUME NEW i \in w + 1..Len(writes') PROVE writes'[i].ep >= b
  <2>1. CASE i \in 1..Len(writes)
    <3>1. i \in w + 1..Len(writes) BY <1>g, <2>1
    <3>2. writes[i].ep >= b BY <3>1 DEF NotAfter
    <3> QED BY <1>g, <2>1, <3>2
  <2>2. CASE i \in Len(writes) + 1..Len(writes') BY <1>n, <1>g, <2>2
  <2> QED BY <1>g, <2>1, <2>2
<1> QED BY <1>1 DEF NotAfter

\* What a snapshot reads it keeps reading: it does not see the new writes.
LEMMA SeesKept ==
  ASSUME Types, SafeInv, [Next]_vars, NEW b \in Nat, b <= last_tick_inclusive_ + 1,
         NEW g, Sees(writes, b, g)
  PROVE Sees(writes', b, g)
<1>g. /\ Len(writes) \in Nat /\ Len(writes') \in Nat
      /\ Len(writes') \in {Len(writes), Len(writes) + 1}
      /\ \A i \in 1..Len(writes) : writes'[i] = writes[i]
  BY WritesGrow
<1>1. PICK n \in 0..Len(writes) :
        /\ n # 0 => writes[n].ep < b
        /\ \A i \in n + 1..Len(writes) : writes[i].ep >= b
        /\ g = IF n = 0 \/ writes[n].del THEN 0 ELSE n
  BY DEF Sees
<1>2. n # 0 => writes'[n] = writes[n] BY <1>g
<1>3. n \in Nat /\ n \in 0..Len(writes') BY <1>g
<1>4. NotAfter(writes', n, b)
  <2>1. NotAfter(writes, n, b) BY <1>1 DEF NotAfter
  <2> QED BY <1>3, <2>1, NotAfterKept
<1>5. n # 0 => writes'[n].ep < b BY <1>1, <1>2
<1>6. g = IF n = 0 \/ writes'[n].del THEN 0 ELSE n BY <1>1, <1>2
<1> QED BY <1>3, <1>4, <1>5, <1>6 DEF Sees, NotAfter

\* A running snapshot that sees nothing after write k, and nothing is below it.
LEMMA FloorSeen ==
  ASSUME Types, ClockInv, NEW c \in Cores, inside[c] # 0, BoundInv(c), NEW k \in 0..Len(writes),
         Floor(writes, last_tick_inclusive_, k), NotAfter(writes, k, tx[c].b)
  PROVE Sees(writes, tx[c].b, 0)
<1>n. Len(writes) \in Nat BY WriteNat
<1>1. ASSUME k # 0 PROVE writes[k].ep < tx[c].b /\ writes[k].del
  <2>1. k \in 1..Len(writes) BY <1>n, <1>1
  <2>2. writes[k].ep \in Nat BY <2>1, WriteNat
  <2>3. writes[k].del /\ Ro(writes[k].ep) < Ro(last_tick_inclusive_) BY <1>1 DEF Floor
  <2> QED BY <2>2, <2>3, BoundFacts
<1>2. 0 = IF k = 0 \/ writes[k].del THEN 0 ELSE k BY <1>1
<1> QED BY <1>1, <1>2 DEF Sees, NotAfter

LEMMA NothingAfter ==
  ASSUME NEW ws, Len(ws) \in Nat, NEW b
  PROVE NotAfter(ws, Len(ws), b)
<1>1. \A i \in Len(ws) + 1..Len(ws) : FALSE OBVIOUS
<1> QED BY <1>1 DEF NotAfter

\* What a step does to the snapshot of core d.
Rests(d) ==
  /\ tx'[d].b = tx[d].b /\ tx'[d].cur = tx[d].cur /\ tx'[d].got = tx[d].got
  /\ tx'[d].pc = "walk" => tx[d].pc = "walk"
Leaves(d) == tx'[d].got = -1 /\ tx'[d].pc # "walk"
Misses(d) ==
  /\ tx[d].pc = "ro" /\ root = null /\ UNCHANGED <<tup, writes>>
  /\ tx'[d].pc = "ro" /\ tx'[d].b = tx[d].b /\ tx'[d].got = 0
Enters(d) ==
  /\ tx[d].pc = "ro" /\ root # null /\ UNCHANGED <<tup, writes>>
  /\ tx'[d].b = tx[d].b /\ tx'[d].got = tx[d].got /\ tx'[d].cur = root
Finds(d) ==
  /\ tx[d].pc = "walk" /\ UNCHANGED <<tup, writes>>
  /\ tx'[d].pc = "ro" /\ tx'[d].b = tx[d].b
  /\ LET t == tup[tx[d].cur] IN
     \/ t.ep = MAX_EPOCH /\ tx'[d].got = 0
     \/ t.ep # MAX_EPOCH /\ t.ep < tx[d].b /\ tx'[d].got = IF t.del THEN 0 ELSE t.w
     \/ t.ep # MAX_EPOCH /\ t.ep >= tx[d].b /\ t.next = null /\ tx'[d].got = 0
Follows(d) ==
  /\ tx[d].pc = "walk" /\ UNCHANGED <<tup, writes>>
  /\ tx'[d].b = tx[d].b /\ tx'[d].got = tx[d].got
  /\ LET t == tup[tx[d].cur] IN
     t.ep # MAX_EPOCH /\ t.ep >= tx[d].b /\ t.next # null /\ tx'[d].cur = t.next

Reads(d) == Rests(d) \/ Leaves(d) \/ Misses(d) \/ Enters(d) \/ Finds(d) \/ Follows(d)

LEMMA ReaderMoves ==
  ASSUME Types, SafeInv, [Next]_vars, NEW d \in Cores
  PROVE Reads(d)
<1>0. tx[d] \in TxType /\ TxInv(d) BY DEF Types, SafeInv
<1>o. ASSUME tx'[d] = tx[d] PROVE Reads(d) BY <1>o DEF Reads, Rests
<1>p. ASSUME NEW c \in Cores, NEW t, Only(c, t), c # d PROVE Reads(d)
  BY <1>o, <1>p DEF Only
<1>q. \A t : Only(d, t) => tx'[d] = t BY DEF Only
<1>1. ASSUME NEW c \in Cores, Begin(c) PROVE Reads(d)
  <2>1. PICK pc \in {"rw", "ro_begin"} : Only(c, [tx[c] EXCEPT !.pc = pc]) BY <1>1, TxMoves
  <2>2. CASE c # d BY <1>p, <2>1, <2>2
  <2>3. CASE c = d
    <3>1. tx'[d] = [tx[d] EXCEPT !.pc = pc] BY <1>q, <2>1, <2>3
    <3> QED BY <1>0, <3>1 DEF TxType, Reads, Rests
  <2> QED BY <2>2, <2>3
<1>2. ASSUME NEW c \in Cores, BeginSnapshot(c) PROVE Reads(d)
  <2>1. PICK b \in Nat : Only(c, [tx[c] EXCEPT !.pc = "ro", !.b = b]) BY <1>2, TxMoves
  <2>2. CASE c # d BY <1>p, <2>1, <2>2
  <2>3. CASE c = d
    <3>1. tx'[d] = [tx[d] EXCEPT !.pc = "ro", !.b = b] BY <1>q, <2>1, <2>3
    <3>2. tx[d].pc = "ro_begin" BY <1>2, <2>3 DEF BeginSnapshot, At
    <3>3. tx[d].got = -1 BY <1>0, <3>2 DEF TxInv
    <3>4. tx'[d].got = -1 /\ tx'[d].pc = "ro" BY <1>0, <3>1, <3>3 DEF TxType
    <3> QED BY <3>4 DEF Reads, Leaves
  <2> QED BY <2>2, <2>3
<1>3. ASSUME NEW c \in Cores, End(c) \/ GcSkip(c) \/ GcEnd(c) PROVE Reads(d)
  <2>1. Only(c, [NoTxn EXCEPT !.pc = "gc"]) \/ Only(c, NoTxn) BY <1>3, TxMoves
  <2>2. CASE c # d BY <1>p, <2>1, <2>2
  <2>3. CASE c = d
    <3>1. tx'[d] = [NoTxn EXCEPT !.pc = "gc"] \/ tx'[d] = NoTxn BY <1>q, <2>1, <2>3
    <3> QED BY <3>1 DEF NoTxn, Reads, Leaves
  <2> QED BY <2>2, <2>3
<1>4. ASSUME NEW c \in Cores, SnapshotSearch(c) PROVE Reads(d)
  <2>0. UNCHANGED <<tup, writes>> /\ tx[c].pc = "ro" BY <1>4 DEF SnapshotSearch, At, dataVars
  <2>1. CASE root = null
    <3>1. Only(c, [tx[c] EXCEPT !.got = 0]) BY <1>4, <2>1, TxMoves
    <3>2. CASE c # d BY <1>p, <3>1, <3>2
    <3>3. CASE c = d
      <4>1. tx'[d] = [tx[d] EXCEPT !.got = 0] BY <1>q, <3>1, <3>3
      <4>2. tx'[d].pc = tx[d].pc /\ tx'[d].b = tx[d].b /\ tx'[d].got = 0 BY <1>0, <4>1 DEF TxType
      <4> QED BY <2>0, <2>1, <3>3, <4>2 DEF Reads, Misses
    <3> QED BY <3>2, <3>3
  <2>2. CASE root # null
    <3>1. Only(c, [tx[c] EXCEPT !.pc = "walk", !.cur = root]) BY <1>4, <2>2, TxMoves
    <3>2. CASE c # d BY <1>p, <3>1, <3>2
    <3>3. CASE c = d
      <4>1. tx'[d] = [tx[d] EXCEPT !.pc = "walk", !.cur = root] BY <1>q, <3>1, <3>3
      <4>2. tx'[d].b = tx[d].b /\ tx'[d].got = tx[d].got /\ tx'[d].cur = root BY <1>0, <4>1 DEF TxType
      <4> QED BY <2>0, <2>2, <3>3, <4>2 DEF Reads, Enters
    <3> QED BY <3>2, <3>3
  <2> QED BY <2>1, <2>2
<1>5. ASSUME NEW c \in Cores, SnapshotVisit(c) PROVE Reads(d)
  <2>0. UNCHANGED <<tup, writes>> /\ tx[c].pc = "walk" BY <1>5 DEF SnapshotVisit, At, dataVars
  <2>1. VisitForm(c) BY <1>5, VisitCases
  <2>2. ASSUME NEW t, Put(c, t) PROVE Only(c, t)
    <3>1. tx \in [Cores -> TxType] BY DEF Types
    <3> QED BY <2>2, <3>1 DEF Put, Only
  <2>3. CASE c # d
    <3>1. \E t : Put(c, t) BY <2>1 DEF VisitForm
    <3> QED BY <1>p, <2>2, <2>3, <3>1
  <2>4. CASE c = d
    <3>1. \A t : Put(d, t) => tx'[d] = t BY <1>q, <2>2, <2>4
    <3>2. ASSUME NEW g, tx'[d] = Found(d, g)
          PROVE tx'[d].pc = "ro" /\ tx'[d].b = tx[d].b /\ tx'[d].got = g
      BY <1>0, <3>2 DEF TxType, Found
    <3>3. ASSUME NEW n, tx'[d] = [tx[d] EXCEPT !.cur = n]
          PROVE tx'[d].b = tx[d].b /\ tx'[d].got = tx[d].got /\ tx'[d].cur = n
      BY <1>0, <3>3 DEF TxType
    <3> DEFINE v == tup[tx[d].cur]
    <3>4. \/ v.ep = MAX_EPOCH /\ tx'[d] = Found(d, 0)
          \/ v.ep # MAX_EPOCH /\ v.ep < tx[d].b /\ tx'[d] = Found(d, IF v.del THEN 0 ELSE v.w)
          \/ v.ep # MAX_EPOCH /\ v.ep >= tx[d].b /\ v.next = null /\ tx'[d] = Found(d, 0)
          \/ /\ v.ep # MAX_EPOCH /\ v.ep >= tx[d].b /\ v.next # null
             /\ tx'[d] = [tx[d] EXCEPT !.cur = v.next]
      BY <2>1, <2>4, <3>1 DEF VisitForm
    <3>5. tx[d].pc = "walk" BY <2>0, <2>4
    <3>6. CASE v.ep = MAX_EPOCH /\ tx'[d] = Found(d, 0) BY <2>0, <3>2, <3>5, <3>6 DEF Reads, Finds
    <3>7. CASE v.ep # MAX_EPOCH /\ v.ep < tx[d].b /\ tx'[d] = Found(d, IF v.del THEN 0 ELSE v.w)
      <4>1. tx'[d].pc = "ro" /\ tx'[d].b = tx[d].b /\ tx'[d].got = IF v.del THEN 0 ELSE v.w
        BY <3>2, <3>7
      <4> QED BY <2>0, <3>5, <3>7, <4>1 DEF Reads, Finds
    <3>8. CASE v.ep # MAX_EPOCH /\ v.ep >= tx[d].b /\ v.next = null /\ tx'[d] = Found(d, 0)
      BY <2>0, <3>2, <3>5, <3>8 DEF Reads, Finds
    <3>9. CASE /\ v.ep # MAX_EPOCH /\ v.ep >= tx[d].b /\ v.next # null
               /\ tx'[d] = [tx[d] EXCEPT !.cur = v.next]
      BY <2>0, <3>3, <3>5, <3>9 DEF Reads, Follows
    <3> QED BY <3>4, <3>6, <3>7, <3>8, <3>9
  <2> QED BY <2>3, <2>4
<1>r. ASSUME NEW c \in Cores, NEW pc, NEW ce, NEW held, pc # "walk",
             \/ Only(c, [tx[c] EXCEPT !.pc = pc, !.ce = ce])
             \/ Only(c, [tx[c] EXCEPT !.pc = pc, !.held = held])
             \/ Only(c, [tx[c] EXCEPT !.pc = pc])
      PROVE Reads(d)
  <2>1. CASE c # d BY <1>p, <1>r, <2>1
  <2>2. CASE c = d
    <3>1. \/ tx'[d] = [tx[d] EXCEPT !.pc = pc, !.ce = ce]
          \/ tx'[d] = [tx[d] EXCEPT !.pc = pc, !.held = held]
          \/ tx'[d] = [tx[d] EXCEPT !.pc = pc]
      BY <1>q, <1>r, <2>2
    <3> QED BY <1>0, <1>r, <3>1 DEF TxType, Reads, Rests
  <2> QED BY <2>1, <2>2
<1>6. ASSUME NEW c \in Cores, \/ Search(c) \/ Lock(c) \/ InsertTid(c) \/ AbortInsert(c) \/ CommitInsert(c)
                              \/ AbortLocked(c) \/ GcStart(c)
      PROVE Reads(d)
  <2>1. \/ Only(c, [tx[c] EXCEPT !.held = tx[c].held \cup {root}])
        \/ Only(c, [tx[c] EXCEPT !.pc = "write", !.ce = current_tick_])
        \/ Only(c, [tx[c] EXCEPT !.pc = "publish", !.ce = current_tick_])
        \/ Only(c, [tx[c] EXCEPT !.pc = "rw", !.ce = 0])
        \/ Only(c, [tx[c] EXCEPT !.pc = "reap"])
    BY <1>6, TxMoves
  <2>2. CASE Only(c, [tx[c] EXCEPT !.held = tx[c].held \cup {root}])
    <3>1. CASE c # d BY <1>p, <2>2, <3>1
    <3>2. CASE c = d
      <4>1. tx'[d] = [tx[d] EXCEPT !.held = tx[d].held \cup {root}] BY <1>q, <2>2, <3>2
      <4> QED BY <1>0, <4>1 DEF TxType, Reads, Rests
    <3> QED BY <3>1, <3>2
  <2>3. CASE Only(c, [tx[c] EXCEPT !.pc = "write", !.ce = current_tick_]) BY <1>r, <2>3
  <2>4. CASE Only(c, [tx[c] EXCEPT !.pc = "publish", !.ce = current_tick_]) BY <1>r, <2>4
  <2>5. CASE Only(c, [tx[c] EXCEPT !.pc = "rw", !.ce = 0]) BY <1>r, <2>5
  <2>6. CASE Only(c, [tx[c] EXCEPT !.pc = "reap"]) BY <1>r, <2>6
  <2> QED BY <2>1, <2>2, <2>3, <2>4, <2>5, <2>6
<1>7. ASSUME NEW c \in Cores, NEW del \in BOOLEAN, WriteInPlace(c, del) \/ WriteSpill(c, del) \/ WriteReplace(c, del)
      PROVE Reads(d)
  <2>1. Only(c, [tx[c] EXCEPT !.pc = "rw", !.ce = 0]) BY <1>7, TxMoves
  <2> QED BY <1>r, <2>1
<1>8. ASSUME NEW c \in Cores, Insert(c) PROVE Reads(d)
  <2>1. PICK n \in Tuples : tx' = [tx EXCEPT ![c].pc = "inserted", ![c].held = @ \union {n}]
    BY <1>8 DEF Insert
  <2>2. tx' = [tx EXCEPT ![c] = [tx[c] EXCEPT !.pc = "inserted", !.held = tx[c].held \union {n}]]
    <3>1. tx \in [Cores -> TxType] BY DEF Types
    <3> QED BY <2>1, <3>1 DEF TxType
  <2>3. Only(c, [tx[c] EXCEPT !.pc = "inserted", !.held = tx[c].held \union {n}])
    <3>1. tx \in [Cores -> TxType] BY DEF Types
    <3> QED BY <2>2, <3>1 DEF Only
  <2> QED BY <1>r, <2>3
<1>9. ASSUME NEW c \in Cores, GcFree(c) \/ GcRequeue(c) \/ GcRemove(c) PROVE Reads(d)
  BY <1>o, <1>9 DEF GcFree, GcRequeue, GcRemove
<1>10. ASSUME NEW n \in Tuples, RcuFree(n) PROVE Reads(d) BY <1>o, <1>10 DEF RcuFree
<1>11. CASE Ticking BY <1>o, <1>11 DEF Ticking
<1>12. CASE UNCHANGED vars BY <1>o, <1>12 DEF vars
<1> QED
  BY <1>1, <1>2, <1>3, <1>4, <1>5, <1>6, <1>7, <1>8, <1>9, <1>10, <1>11, <1>12 DEF Next

\* The bound of a running snapshot.
LEMMA SnapshotBound ==
  ASSUME Types, SafeInv, NEW d \in Cores, tx[d].pc \in {"ro", "walk"}
  PROVE /\ ClockInv /\ inside[d] # 0 /\ BoundInv(d)
        /\ tx[d].b \in Nat /\ tx[d].b <= last_tick_inclusive_ + 1
<1>1. TxInv(d) /\ ClockInv BY DEF SafeInv
<1>2. inside[d] # 0 /\ BoundInv(d) BY <1>1 DEF TxInv, Open
<1> QED BY <1>1, <1>2, BoundFacts

\* The tuple a walking snapshot stands at.
LEMMA WalkFacts ==
  ASSUME Types, SafeInv, ReadInv, NEW d \in Cores, tx[d].pc = "walk"
  PROVE LET t == tup[tx[d].cur] IN
        /\ tx[d].cur \in Tuples /\ t \in TupleType /\ t.st # "none"
        /\ t.ep \in Nat /\ t.w \in Nat
        /\ t.ep = MAX_EPOCH => Sees(writes, tx[d].b, 0)
        /\ t.ep # MAX_EPOCH => /\ NotAfter(writes, t.w, tx[d].b)
                               /\ Describes(t, tup, writes, last_tick_inclusive_)
<1> DEFINE t == tup[tx[d].cur]
<1>1. tx[d] \in TxType /\ TxInv(d) /\ WalkInv(d) BY DEF Types, SafeInv, ReadInv
<1>2. tx[d].cur \in Tuples BY <1>1 DEF TxType, TxInv
<1>3. tx[d].cur \in Holds(d) BY <1>1, <1>2 DEF Holds, TxInv
<1>4. Alive(tx[d].cur) BY <1>3, Holder
<1>5. t \in TupleType BY <1>2 DEF Types
<1>6. t.st # "none" BY <1>4 DEF Alive
<1>7. t.ep \in Nat /\ t.w \in Nat BY <1>2, <1>5, ClockNat DEF TupleType
<1>8. ASSUME t.ep = MAX_EPOCH PROVE Sees(writes, tx[d].b, 0)
  <2>1. Visible(tx[d].b, 0) BY <1>1, <1>8 DEF WalkInv
  <2> QED BY <2>1 DEF Visible, LastBefore, Sees
<1>9. ASSUME t.ep # MAX_EPOCH PROVE NotAfter(writes, t.w, tx[d].b)
  BY <1>1, <1>9 DEF WalkInv, NotAfter
<1>10. ASSUME t.ep # MAX_EPOCH PROVE Describes(t, tup, writes, last_tick_inclusive_)
  BY <1>2, <1>4, <1>10 DEF ReadInv, VersionInv
<1> QED BY <1>2, <1>5, <1>6, <1>7, <1>8, <1>9, <1>10

\* A version too new for the snapshot: so are the writes of its tick below it.
LEMMA TooNew ==
  ASSUME Types, SafeInv, NEW d \in Cores, tx[d].pc \in {"ro", "walk"},
         NEW w \in 1..Len(writes), NEW k \in Nat, NEW ep \in Nat, ep >= tx[d].b,
         SameTick(writes, k, w, ep), NotAfter(writes, w, tx[d].b)
  PROVE NotAfter(writes, k, tx[d].b)
<1>n. Len(writes) \in Nat BY WriteNat
<1>b. /\ tx[d].b \in Nat
      /\ \A e, f \in Nat : e >= tx[d].b /\ Ro(f) = Ro(e) => f >= tx[d].b
  BY SnapshotBound, BoundFacts
<1>1. ASSUME NEW i \in k + 1..Len(writes) PROVE writes[i].ep >= tx[d].b
  <2>0. i \in 1..Len(writes) BY <1>n
  <2>1. writes[i].ep \in Nat BY <2>0, WriteNat
  <2>2. CASE i \in k + 1..w
    <3>1. Ro(writes[i].ep) = Ro(ep) BY <2>2 DEF SameTick
    <3> QED BY <1>b, <2>1, <3>1
  <2>3. CASE i \in w + 1..Len(writes) BY <2>3 DEF NotAfter
  <2> QED BY <1>n, <2>0, <2>2, <2>3
<1> QED BY <1>1 DEF NotAfter

LEMMA WalkStep ==
  ASSUME Types, SafeInv, ReadInv, [Next]_vars, NEW d \in Cores
  PROVE WalkInv(d)'
<1> DEFINE u == tup'[tx'[d].cur]
           Goal == IF u.ep = MAX_EPOCH THEN Sees(writes', tx'[d].b, 0)
                   ELSE NotAfter(writes', u.w, tx'[d].b)
<1>s. SUFFICES ASSUME tx'[d].pc = "walk" PROVE Goal
  BY DEF WalkInv, Visible, LastBefore, Sees, NotAfter
<1>n. Len(writes) \in Nat /\ Len(writes') \in Nat /\ Len(writes) \in 0..Len(writes)
  <2>1. Len(writes) \in Nat /\ Len(writes') \in Nat BY WritesGrow
  <2> QED BY <2>1
<1>1. CASE Rests(d)
  <2>0. tx[d].pc = "walk" /\ tx'[d].cur = tx[d].cur /\ tx'[d].b = tx[d].b BY <1>s, <1>1 DEF Rests
  <2> DEFINE t == tup[tx[d].cur]
  <2>1. /\ tx[d].cur \in Tuples /\ t.st # "none" /\ t.w \in Nat
        /\ t.ep = MAX_EPOCH => Sees(writes, tx[d].b, 0)
        /\ t.ep # MAX_EPOCH => NotAfter(writes, t.w, tx[d].b)
    BY <2>0, WalkFacts
  <2>2. tx[d].b \in Nat /\ tx[d].b <= last_tick_inclusive_ + 1 BY <2>0, SnapshotBound
  <2>3. \/ u.ep = t.ep /\ u.w = t.w
        \/ u.ep # MAX_EPOCH /\ u.w = Len(writes')
    BY <2>0, <2>1, VersionMoves
  <2> HIDE DEF t, u
  <2>4. t.ep = MAX_EPOCH => Sees(writes', tx[d].b, 0) BY <2>1, <2>2, SeesKept
  <2>5. t.ep # MAX_EPOCH => NotAfter(writes', t.w, tx[d].b) BY <2>1, <2>2, NotAfterKept
  <2>6. NotAfter(writes', Len(writes'), tx[d].b) BY <1>n, NothingAfter
  <2> QED BY <2>0, <2>3, <2>4, <2>5, <2>6
<1>2. CASE Leaves(d) \/ Misses(d) \/ Finds(d) BY <1>s, <1>2 DEF Leaves, Misses, Finds
<1>3. CASE Enters(d)
  <2>1. /\ tx[d].pc = "ro" /\ root # null /\ u = tup[root] /\ tx'[d].b = tx[d].b /\ writes' = writes
    BY <1>3 DEF Enters
  <2>2. ClockInv /\ inside[d] # 0 /\ BoundInv(d) BY <2>1, SnapshotBound
  <2>3. NotAfter(writes, Len(writes), tx[d].b) BY <1>n, NothingAfter
  <2>4. LatestInv BY DEF ReadInv
  <2>5. ASSUME tup[root].ep = MAX_EPOCH PROVE Sees(writes, tx[d].b, 0)
    <3>1. Floor(writes, last_tick_inclusive_, Len(writes)) BY <2>4, <2>5 DEF LatestInv, Bottom
    <3> QED BY <1>n, <2>2, <2>3, <3>1, FloorSeen
  <2>6. ASSUME tup[root].ep # MAX_EPOCH PROVE NotAfter(writes, tup[root].w, tx[d].b)
    <3>1. tup[root].w = Len(writes) BY <2>1, <2>4, <2>6 DEF LatestInv
    <3> QED BY <2>3, <3>1
  <2> HIDE DEF u
  <2> QED BY <2>1, <2>5, <2>6
<1>4. CASE Follows(d)
  <2> DEFINE t == tup[tx[d].cur]
  <2>1. /\ tx[d].pc = "walk" /\ tx'[d].b = tx[d].b /\ writes' = writes
        /\ t.ep # MAX_EPOCH /\ t.ep >= tx[d].b /\ t.next # null /\ u = tup[t.next]
    BY <1>4 DEF Follows
  <2>2. /\ t \in TupleType /\ t.ep \in Nat /\ t.w \in Nat
        /\ NotAfter(writes, t.w, tx[d].b) /\ Describes(t, tup, writes, last_tick_inclusive_)
    BY <2>1, WalkFacts
  <2>3. t.w \in 1..Len(writes) /\ tup[t.next].ep # MAX_EPOCH
        /\ SameTick(writes, tup[t.next].w, t.w, t.ep)
    BY <2>1, <2>2 DEF Describes
  <2>4. t.next \in Tuples BY <2>1, <2>2 DEF TupleType
  <2>5. tup[t.next].w \in Nat BY <2>4 DEF Types, TupleType
  <2> HIDE DEF t, u
  <2>6. NotAfter(writes, tup[t.next].w, tx[d].b) BY <2>1, <2>2, <2>3, <2>5, TooNew
  <2> QED BY <2>1, <2>3, <2>6
<1> HIDE DEF Goal
<1> QED BY <1>1, <1>2, <1>3, <1>4, ReaderMoves DEF Reads

LEMMA ConsistentStep ==
  ASSUME Types, SafeInv, ReadInv, [Next]_vars
  PROVE SnapshotConsistent'
<1> SUFFICES ASSUME NEW d \in Cores, tx'[d].got # -1 PROVE Sees(writes', tx'[d].b, tx'[d].got)
  BY DEF SnapshotConsistent, Visible, LastBefore, Sees
<1> DEFINE Goal == Sees(writes', tx'[d].b, tx'[d].got)
<1>n. Len(writes) \in Nat /\ Len(writes) \in 0..Len(writes)
  <2>1. Len(writes) \in Nat BY WriteNat
  <2> QED BY <2>1
<1>k. ASSUME tx[d].got # -1 PROVE Sees(writes', tx[d].b, tx[d].got)
  <2>1. Sees(writes, tx[d].b, tx[d].got)
    <3>1. SnapshotConsistent BY DEF ReadInv
    <3> QED BY <1>k, <3>1 DEF SnapshotConsistent, Visible, LastBefore, Sees
  <2>2. tx[d].pc \in {"ro", "walk"}
    <3>1. TxInv(d) BY DEF SafeInv
    <3> QED BY <1>k, <3>1 DEF TxInv
  <2>3. tx[d].b \in Nat /\ tx[d].b <= last_tick_inclusive_ + 1 BY <2>2, SnapshotBound
  <2> QED BY <2>1, <2>3, SeesKept
<1>1. CASE Rests(d) \/ Enters(d) \/ Follows(d)
  <2>1. tx'[d].b = tx[d].b /\ tx'[d].got = tx[d].got BY <1>1 DEF Rests, Enters, Follows
  <2> QED BY <1>k, <2>1
<1>2. CASE Leaves(d) BY <1>2 DEF Leaves
<1>3. CASE Misses(d)
  <2>1. tx[d].pc = "ro" /\ root = null /\ writes' = writes /\ tx'[d].b = tx[d].b /\ tx'[d].got = 0
    BY <1>3 DEF Misses
  <2>2. ClockInv /\ inside[d] # 0 /\ BoundInv(d) BY <2>1, SnapshotBound
  <2>3. Floor(writes, last_tick_inclusive_, Len(writes)) BY <2>1 DEF ReadInv, LatestInv, Bottom
  <2>4. NotAfter(writes, Len(writes), tx[d].b) BY <1>n, NothingAfter
  <2>5. Sees(writes, tx[d].b, 0) BY <1>n, <2>2, <2>3, <2>4, FloorSeen
  <2> QED BY <2>1, <2>5
<1>4. CASE Finds(d)
  <2> DEFINE t == tup[tx[d].cur]
  <2>1. /\ tx[d].pc = "walk" /\ writes' = writes /\ tx'[d].b = tx[d].b
        /\ \/ t.ep = MAX_EPOCH /\ tx'[d].got = 0
           \/ t.ep # MAX_EPOCH /\ t.ep < tx[d].b /\ tx'[d].got = IF t.del THEN 0 ELSE t.w
           \/ t.ep # MAX_EPOCH /\ t.ep >= tx[d].b /\ t.next = null /\ tx'[d].got = 0
    BY <1>4 DEF Finds
  <2>2. /\ t \in TupleType /\ t.ep \in Nat /\ t.w \in Nat
        /\ t.ep = MAX_EPOCH => Sees(writes, tx[d].b, 0)
        /\ t.ep # MAX_EPOCH => /\ NotAfter(writes, t.w, tx[d].b)
                               /\ Describes(t, tup, writes, last_tick_inclusive_)
    BY <2>1, WalkFacts
  <2> HIDE DEF t
  <2>3. CASE t.ep = MAX_EPOCH /\ tx'[d].got = 0 BY <2>1, <2>2, <2>3
  <2>4. CASE t.ep # MAX_EPOCH /\ t.ep < tx[d].b /\ tx'[d].got = IF t.del THEN 0 ELSE t.w
    <3>1. t.w \in 1..Len(writes) /\ writes[t.w].ep = t.ep /\ writes[t.w].del = t.del
      BY <2>2, <2>4 DEF Describes
    <3>2. t.w \in 0..Len(writes) /\ t.w # 0 BY <1>n, <3>1
    <3>3. NotAfter(writes, t.w, tx[d].b) BY <2>2, <2>4
    <3>4. Sees(writes, tx[d].b, IF t.del THEN 0 ELSE t.w)
      BY <2>4, <3>1, <3>2, <3>3 DEF Sees, NotAfter
    <3> QED BY <2>1, <2>4, <3>4
  <2>5. CASE t.ep # MAX_EPOCH /\ t.ep >= tx[d].b /\ t.next = null /\ tx'[d].got = 0
    <3>1. t.w \in 1..Len(writes) BY <2>2, <2>5 DEF Describes
    <3>2. PICK k \in 0..Len(writes) : /\ Floor(writes, last_tick_inclusive_, k)
                                      /\ SameTick(writes, k, t.w, t.ep)
      BY <2>2, <2>5 DEF Describes
    <3>3. k \in Nat OBVIOUS
    <3>4. NotAfter(writes, k, tx[d].b) BY <2>1, <2>2, <2>5, <3>1, <3>2, <3>3, TooNew
    <3>5. ClockInv /\ inside[d] # 0 /\ BoundInv(d) BY <2>1, SnapshotBound
    <3>6. Sees(writes, tx[d].b, 0) BY <3>2, <3>4, <3>5, FloorSeen
    <3> QED BY <2>1, <2>5, <3>6
  <2> QED BY <2>1, <2>3, <2>4, <2>5
<1> HIDE DEF Goal
<1> QED BY <1>1, <1>2, <1>3, <1>4, ReaderMoves DEF Reads, Goal

LEMMA InitRead == Init => ReadInv
<1> SUFFICES ASSUME Init PROVE ReadInv OBVIOUS
<1>1. /\ root = 1 /\ 1 \in Tuples /\ null = 0 /\ last_tick_inclusive_ = 0
      /\ writes = <<[ep |-> 1, del |-> FALSE]>> /\ MAX_EPOCH \in Nat /\ MAX_EPOCH > 1
  BY ClockAssumption, GCAssumption DEF Init, ClockInit, Tuples, null, MAX_EPOCH
<1>2. /\ tup[1].ep = 1 /\ tup[1].w = 1 /\ tup[1].del = FALSE /\ tup[1].next = null
      /\ \A n \in Tuples : n # 1 => tup[n].st = "none"
  BY <1>1 DEF Init, Unallocated
<1>3. \A c \in Cores : tx[c].pc = "none" /\ tx[c].got = -1 BY DEF Init, NoTxn
<1>4. Len(writes) = 1 /\ writes[1].ep = 1 /\ writes[1].del = FALSE BY <1>1
<1>5. Describes(tup[1], tup, writes, last_tick_inclusive_)
  <2>1. Floor(writes, last_tick_inclusive_, 0) BY DEF Floor
  <2>2. SameTick(writes, 0, 1, 1) BY <1>4 DEF SameTick
  <2>3. 0 \in 0..Len(writes) /\ 1 \in 1..Len(writes) BY <1>4
  <2> QED BY <1>2, <1>4, <2>1, <2>2, <2>3 DEF Describes
<1>6. \A p \in Tuples : VersionInv(p) BY <1>2, <1>5 DEF VersionInv, Alive
<1>7. LatestInv BY <1>1, <1>2, <1>4 DEF LatestInv
<1> QED BY <1>3, <1>6, <1>7 DEF ReadInv, WalkInv, SnapshotConsistent

\* A snapshot reads the last write before its bound, whatever was overwritten,
\* spilled, replaced, deleted or collected since, and reads it again.
THEOREM SnapshotsAlwaysConsistent == Spec => []SnapshotConsistent
<1>1. Init => Types /\ SafeInv /\ ReadInv BY InitTypes, InitSafe, InitRead
<1>2. Types /\ SafeInv /\ ReadInv /\ [Next]_vars => (Types /\ SafeInv /\ ReadInv)'
  <2> SUFFICES ASSUME Types, SafeInv, ReadInv, [Next]_vars PROVE (Types /\ SafeInv /\ ReadInv)'
    OBVIOUS
  <2>1. Types' /\ SafeInv' BY SafeStep
  <2>2. \A p \in Tuples : VersionInv(p)' BY VersionStep
  <2>3. \A c \in Cores : WalkInv(c)' BY WalkStep
  <2>4. ReadInv' BY <2>2, <2>3, LatestStep, ConsistentStep DEF ReadInv
  <2> QED BY <2>1, <2>4
<1>3. ReadInv => SnapshotConsistent BY DEF ReadInv
<1> QED BY <1>1, <1>2, <1>3, PTL DEF Spec
=============================================================================
