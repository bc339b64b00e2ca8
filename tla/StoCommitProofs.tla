-------------------------- MODULE StoCommitProofs --------------------------
(***************************************************************************)
(* Proofs about StoCommit: the commit ids follow the conflicts of the      *)
(* transactions, the streams hold them in that order, and a follower that  *)
(* cuts the streams at a watermark has what its replays depend on.         *)
(*                                                                         *)
(* The argument.  A stamp is drawn in serialize_util(), after the installs *)
(* and before stop() unlocks.  So what a valid record holds either has a   *)
(* stamp or is still locked by its writer (RecInv), and a read aborts on a *)
(* lock.  A get may still come before the install of a transaction that    *)
(* has found the record: the value it saw was stamped when it read, or the *)
(* record was an insert not yet valid, which check() rejects, unless it    *)
(* passes as a duplicate of an earlier read, which saw it invalid as well  *)
(* (Pair).  When the checks are over every value seen is stamped and t is  *)
(* not (Good).  An overwrite needs the record's lock, or a record inserted *)
(* after the last one of the key died; the first comes after the unlock of *)
(* the earlier writer, and the second can only follow a delete, which      *)
(* DependsOn leaves out (Holds, NobodyElse).                               *)
(*                                                                         *)
(* A machine that replays (Follow) stamps nothing.  The streams' invariant *)
(* LogInv needs of the transactions only that nobody else stamps.          *)
(***************************************************************************)
EXTENDS StoCommit, FiniteSetTheorems, NaturalsInduction, TLAPS

-----------------------------------------------------------------------------
(* Types.                                                                  *)

\* Running its operations, not past its checks yet, giving up, past its checks.
Running == {"op", "get", "read", "scan", "insert", "found", "observe", "delete"}
Active == Running \union {"lock", "check"}
Failing == {"abort", "fail"}
Past == {"install", "log", "stop", "committed"}
Pcs == Active \union Failing \union Past \union {"aborted"}

Version == [n : Int, valid : BOOLEAN]
ItemRec ==
  [rec : 0..MaxRecs, rd : Version, wr : BOOLEAN, ins : BOOLEAN, del : BOOLEAN, val : Int, seen : Int]
Record ==
  [key : Keys \union {0}, val : Int, n : Nat, valid : BOOLEAN, lock : Txns \union {0}]
TxRec ==
  [pc : Pcs, prog : Seq(Operation), ip : Nat, items : Seq(ItemRec), e : 0..MaxRecs,
   todo : Seq(Recs), left : SUBSET Nat, locked : SUBSET Recs, cid : Nat]
LeafRec == [v : Int, size : Int, mod : {"insert", "remove"}]

Types ==
  /\ tree \in [Keys -> 0..MaxRecs]
  /\ leaf \in LeafRec
  /\ rec \in [Recs -> Record]
  /\ nrec \in 0..MaxRecs
  /\ tx \in [Txns -> TxRec]
  /\ clock \in Nat
  /\ eff \in [Keys -> Seq(Txns)]

-----------------------------------------------------------------------------
(* The invariant.                                                          *)

\* The values that name transaction t.
ValuesOf(t) == {(MaxOps + 1) * t + i : i \in 1..MaxOps}

\* d has its commit id, and t, if it has one, a greater one.
Stamped(d) == tx[d].cid # 0
Precedes(d, t) == Stamped(d) /\ (Stamped(t) => tx[d].cid < tx[t].cid)

\* A record that has left the index.
Linked(u) == tree[rec[u].key] = u
Dead(u) == ~rec[u].valid /\ ~Linked(u)

\* The index: the record of a key has that key, a valid record is in the index,
\* and a record that is not allocated yet is nobody's.
TreeInv ==
  /\ \A k \in Keys : tree[k] # 0 => tree[k] \in 1..nrec /\ rec[tree[k]].key = k
  /\ \A u \in Recs : u <= nrec => rec[u].key \in Keys /\ (rec[u].valid => Linked(u))
  /\ \A u \in Recs : u > nrec => ~rec[u].valid /\ rec[u].lock = 0

\* What a valid record holds is stamped, unless its writer still has it locked.
WriterOf(u, d) == Stamped(d) \/ (rec[u].lock = d /\ tx[d].pc \in {"install", "log"})
RecInv == \A u \in Recs, d \in Txns : rec[u].valid /\ rec[u].val \in ValuesOf(d) => WriterOf(u, d)

\* An item of transaction t.
Full(it) == it.rd # NoVersion \/ it.ins
Static(t, it) ==
  /\ it.rec <= nrec
  /\ it.wr \/ it.seen # None => it.rec # 0
  /\ it.ins => it.wr /\ it.rd = NoVersion
  /\ it.del => it.wr
  /\ it.seen # None => it.rd # NoVersion
  /\ it.wr /\ ~it.del => it.val \in ValuesOf(t)

\* An own insert is in the index, not valid, and has the transaction's value.
Pending(t, u) == Linked(u) /\ ~rec[u].valid /\ rec[u].val \in ValuesOf(t)

\* What a get saw comes from a transaction that precedes t.
Good(t, it) == \A d \in Txns \ {t} : it.seen \in ValuesOf(d) => Precedes(d, t)

\* A read of a valid record is good, and stays so unless the record dies.
ReadItem(t, it) ==
  it.rec # 0 /\ it.rd.valid =>
    \/ Dead(it.rec)
    \/ rec[it.rec].valid /\ Good(t, it)

\* Of two reads of a record the second finds it valid if the first does.
Pair(a, b) ==
  /\ a.ins /\ b.ins => a.rec # b.rec
  /\ a.rec = b.rec /\ b.rec # 0 /\ a.rd.valid /\ b.rd # NoVersion => b.rd.valid \/ Dead(b.rec)

SoundItem(t, it) == ReadItem(t, it) /\ (it.ins => Pending(t, it.rec))
Sound(t, items) ==
  /\ \A i \in DOMAIN items : SoundItem(t, items[i])
  /\ \A i, j \in DOMAIN items : i < j => Pair(items[i], items[j])

\* The program: an operation that has begun is one of it.
ProgOK(r) ==
  /\ Len(r.prog) \in 1..MaxOps
  /\ r.ip \in 1..(Len(r.prog) + 1)
  /\ r.pc \in Running \ {"op"} => r.ip <= Len(r.prog)
  /\ r.pc = "insert" => r.prog[r.ip].op = "put"
  /\ r.pc \in {"get", "read", "found", "observe", "delete"} => r.e \in 1..nrec
  /\ \A i \in DOMAIN r.todo : r.todo[i] <= nrec

CidOK(r) ==
  /\ r.cid <= clock
  /\ r.pc = "stop" => r.cid # 0
  /\ r.cid # 0 => r.pc \in {"stop", "committed"}

\* The locks a transaction has are the ones it knows of.
LockOK(t, r) == \A u \in Recs : u \in r.locked <=> rec[u].lock = t

\* Only the item in hand, if it is the last one, has no read.
AtLast(r, i) ==
  /\ i \in DOMAIN r.items
  /\ r.items[i].rec = r.e
  /\ ~r.items[i].wr
  /\ \A j \in DOMAIN r.items : Full(r.items[j]) \/ (j = i /\ i = Len(r.items))
FullOK(r) ==
  /\ r.pc = "read" => AtLast(r, ReadIndex(r.items, r.e))
  /\ r.pc = "observe" => AtLast(r, find_item(r.items, r.e)) /\ find_item(r.items, r.e) = Len(r.items)
  /\ r.pc \in Active \ {"read", "observe"} => \A j \in DOMAIN r.items : Full(r.items[j])

\* The items in is are locked and have different records.
Owned(t, items, is) ==
  /\ \A i \in is : rec[items[i].rec].lock = t
  /\ \A i, j \in is : i # j => items[i].rec # items[j].rec

\* The reads of record u have been checked.
Checked(t, items, u) ==
  /\ \A i \in DOMAIN items : items[i].rec = u => Good(t, items[i])
  /\ rec[u].lock = t => rec[u].valid

LockPhase(t, r) ==
  r.pc = "lock" => /\ r.left \subseteq WriteSet(r) /\ r.left # {}
                   /\ Owned(t, r.items, WriteSet(r) \ r.left)

CheckPhase(t, r) ==
  r.pc = "check" =>
    /\ r.left \subseteq ReadSet(r) /\ r.left # {}
    /\ \A i \in r.left, j \in ReadSet(r) \ r.left : j < i
    /\ Owned(t, r.items, WriteSet(r))
    /\ \A i \in ReadSet(r) \ r.left : r.items[i].rec # 0 => Checked(t, r.items, r.items[i].rec)

\* A record to be written is in the index: it is valid, or an own insert.
Ready(t, it) == IF it.ins THEN Pending(t, it.rec) ELSE rec[it.rec].valid

InstallPhase(t, r) ==
  r.pc = "install" =>
    /\ r.left \subseteq WriteSet(r) /\ r.left # {}
    /\ Owned(t, r.items, WriteSet(r))
    /\ \A i \in r.left : Ready(t, r.items[i])

TxOK(t, r) ==
  /\ ProgOK(r) /\ CidOK(r) /\ LockOK(t, r) /\ FullOK(r)
  /\ \A i \in DOMAIN r.items : Static(t, r.items[i])
  /\ r.pc \in Active \union Failing => Sound(t, r.items)
  /\ r.pc \in Past => \A i \in DOMAIN r.items : Good(t, r.items[i])
  /\ LockPhase(t, r) /\ CheckPhase(t, r) /\ InstallPhase(t, r)

\* Key k is held by d, which has installed it: nobody else can install it.
Holds(d, k) ==
  \E i \in WriteSet(tx[d]) :
    LET it == tx[d].items[i] IN
    ~it.del /\ rec[it.rec].key = k /\ rec[it.rec].valid /\ rec[it.rec].lock = d

EffInv ==
  \A k \in Keys : \A i \in DOMAIN eff[k] :
    LET d == eff[k][i] IN
    /\ tx[d].pc \in Past
    /\ k \in Writes(d)
    /\ Stamped(d) \/ k \in Deletes(d) \/ Holds(d, k)

\* The installs of a key are stamped in their order.
PairInv ==
  \A k \in Keys : \A i, j \in DOMAIN eff[k] :
    i < j /\ eff[k][i] # eff[k][j] /\ k \notin Deletes(eff[k][i]) => Precedes(eff[k][i], eff[k][j])

\* A leader.
Lead == Types /\ TreeInv /\ RecInv /\ EffInv /\ PairInv /\ \A t \in Txns : TxOK(t, tx[t])

\* A follower stamps nothing.
FollowTx(r) ==
  /\ {"pc", "prog", "cid"} \subseteq DOMAIN r
  /\ r.cid = 0 /\ r.pc # "log" /\ r.prog[1].op = "mbta"
Follow == tx \in [Txns -> {tx[t] : t \in Txns}] /\ \A t \in Txns : FollowTx(tx[t])

Inv == Lead \/ Follow

-----------------------------------------------------------------------------
(* Numbers, sets and records.                                              *)

\* What StoAssumption says about the numbers.
LEMMA Numbers ==
  /\ MaxRecs \in Nat /\ Len(Worker) \in Nat /\ Txns = 1..Len(Worker)
  /\ \A t \in Txns : t \in Nat /\ t # 0
  /\ \A u \in Recs : u \in Nat /\ u # 0 /\ u <= MaxRecs /\ u \in 0..MaxRecs
  /\ \A u \in 0..MaxRecs : u \in Nat /\ (u # 0 => u \in Recs)
BY StoAssumption DEF Txns, Recs

\* A value names its writer.
LEMMA ValueFacts ==
  ASSUME NEW t \in Txns, NEW v \in ValuesOf(t)
  PROVE  /\ v \in Int /\ v # 0 /\ v # None
         /\ \A s \in Txns \ {t} : v \notin ValuesOf(s)
<1>1. t \in Nat /\ t # 0 BY Numbers
<1>2. PICK i \in 1..9 : v = 10 * t + i BY DEF ValuesOf, MaxOps
<1>3. ASSUME NEW s \in Txns \ {t}, v \in ValuesOf(s) PROVE FALSE
  <2>1. s \in Nat BY Numbers
  <2>2. PICK j \in 1..9 : v = 10 * s + j BY <1>3 DEF ValuesOf, MaxOps
  <2> QED BY <1>1, <1>2, <2>1, <2>2
<1> QED BY <1>1, <1>2, <1>3 DEF None

LEMMA LeastNat ==
  ASSUME NEW S, S \subseteq Nat, S # {}
  PROVE  Min(S) \in S /\ \A y \in S : Min(S) <= y
<1> DEFINE R == OpToRel(<, Nat)
<1>1. IsWellFoundedOn(R, Nat) BY NatLessThanWellFounded
<1>2. ASSUME NEW x \in Nat, NEW y \in Nat, ~(<<y, x>> \in R) PROVE ~(y < x)
  BY <1>2, Zenon DEF OpToRel
<1> HIDE DEF R
<1>3. PICK x \in S : \A y \in S : ~(<<y, x>> \in R) BY <1>1, WFMin, Zenon
<1>4. ASSUME NEW y \in S PROVE x <= y
  <2>1. x \in Nat /\ y \in Nat OBVIOUS
  <2>2. ~(y < x) BY <2>1, <1>2, <1>3
  <2> QED BY <2>1, <2>2
<1>5. \E z \in S : \A y \in S : z <= y BY <1>4
<1> QED BY <1>5 DEF Min

LEMMA GreatestNat ==
  ASSUME NEW S, S \subseteq Nat, S # {}, NEW b \in Nat, \A x \in S : x <= b
  PROVE  Max(S) \in S /\ \A y \in S : y <= Max(S)
<1> DEFINE D == {b - x : x \in S}
<1>0. ASSUME NEW x \in S PROVE b - x \in Nat
  <2>1. x \in Nat /\ x <= b OBVIOUS
  <2> QED BY <2>1
<1>1. D \subseteq Nat /\ D # {} BY <1>0
<1> HIDE DEF D
<1>2. Min(D) \in D /\ \A y \in D : Min(D) <= y BY <1>1, LeastNat
<1>3. PICK z \in S : Min(D) = b - z BY <1>2 DEF D
<1>4. ASSUME NEW y \in S PROVE z >= y
  <2>1. b - y \in D BY DEF D
  <2>2. b - z <= b - y BY <1>2, <1>3, <2>1
  <2>3. y \in Nat /\ z \in Nat OBVIOUS
  <2> QED BY <2>2, <2>3
<1>5. \E m \in S : \A y \in S : m >= y BY <1>4
<1>6. Max(S) \in S /\ \A y \in S : Max(S) >= y BY <1>5 DEF Max
<1>7. ASSUME NEW y \in S PROVE y <= Max(S)
  <2>1. Max(S) >= y /\ Max(S) \in Nat /\ y \in Nat BY <1>6
  <2> QED BY <2>1
<1> QED BY <1>6, <1>7

\* SetToSeq() lists every element of a finite set once.
LEMMA Listing ==
  ASSUME NEW S, IsFiniteSet(S)
  PROVE  /\ Cardinality(S) \in Nat
         /\ SetToSeq(S) \in [1..Cardinality(S) -> S]
         /\ \A i, j \in 1..Cardinality(S) : SetToSeq(S)[i] = SetToSeq(S)[j] => i = j
         /\ \A x \in S : \E i \in 1..Cardinality(S) : SetToSeq(S)[i] = x
<1> DEFINE n == Cardinality(S)
           f == SetToSeq(S)
<1>1. n \in Nat /\ ExistsBijection(1..n, S) BY FS_CardinalityType
<1>2. \E g \in [1..n -> S] : IsInjective(g)
  BY <1>1 DEF ExistsBijection, Bijection, Injection
<1>3. f \in [1..n -> S] /\ IsInjective(f) BY <1>2 DEF SetToSeq
<1> HIDE DEF f
<1>4. f \in Injection(1..n, S) BY <1>3 DEF Injection
<1>5. Cardinality(1..n) = n
  <2>1. 1 \in Int /\ n \in Int BY <1>1
  <2>2. Cardinality(1..n) = IF 1 > n THEN 0 ELSE n - 1 + 1 BY <2>1, FS_Interval
  <2> QED BY <1>1, <2>2
<1>6. f \in Surjection(1..n, S) BY <1>4, <1>5, FS_Injection
<1>7. \A i, j \in 1..n : f[i] = f[j] => i = j BY <1>3 DEF IsInjective
<1>8. \A x \in S : \E i \in 1..n : f[i] = x BY <1>6 DEF Surjection
<1> QED BY <1>1, <1>3, <1>7, <1>8 DEF f

\* The fields of a transaction, of an item and of a record.
LEMMA TxFields ==
  ASSUME NEW r \in TxRec
  PROVE  /\ r.pc \in Pcs /\ r.prog \in Seq(Operation) /\ r.ip \in Nat
         /\ r.items \in Seq(ItemRec) /\ r.e \in 0..MaxRecs /\ r.todo \in Seq(Recs)
         /\ r.left \subseteq Nat /\ r.locked \subseteq Recs /\ r.cid \in Nat
BY DEF TxRec

LEMMA ItemFields ==
  ASSUME NEW it \in ItemRec
  PROVE  /\ it.rec \in 0..MaxRecs /\ it.rd \in Version /\ it.wr \in BOOLEAN /\ it.ins \in BOOLEAN
         /\ it.del \in BOOLEAN /\ it.val \in Int /\ it.seen \in Int
         /\ it.rd.valid \in BOOLEAN /\ it.rd.n \in Int
BY DEF ItemRec, Version

LEMMA RecFields ==
  ASSUME Types, NEW u \in Recs
  PROVE  /\ rec[u] \in Record /\ rec[u].key \in Keys \union {0} /\ rec[u].val \in Int
         /\ rec[u].n \in Nat /\ rec[u].valid \in BOOLEAN /\ rec[u].lock \in Txns \union {0}
<1>1. rec[u] \in Record BY DEF Types
<1> QED BY <1>1 DEF Record

\* The items of a sequence of them.
LEMMA SeqFacts ==
  ASSUME NEW s \in Seq(ItemRec)
  PROVE  /\ Len(s) \in Nat /\ DOMAIN s = 1..Len(s)
         /\ \A i \in DOMAIN s : i \in Nat /\ i # 0 /\ i <= Len(s) /\ s[i] \in ItemRec
OBVIOUS

\* The least element of the indices that are left.
LEMMA LeftFacts ==
  ASSUME NEW S, S \subseteq Nat, S # {}
  PROVE  Min(S) \in S /\ Min(S) \in Nat /\ \A y \in S : y # Min(S) => Min(S) < y
<1>1. Min(S) \in S /\ \A y \in S : Min(S) <= y BY LeastNat
<1>2. Min(S) \in Nat BY <1>1
<1>3. ASSUME NEW y \in S, y # Min(S) PROVE Min(S) < y
  <2>1. y \in Nat /\ Min(S) <= y BY <1>1
  <2> HIDE <1>1
  <2> QED BY ONLY <1>2, <1>3, <2>1
<1> QED BY <1>1, <1>2, <1>3

-----------------------------------------------------------------------------
(* What a step of transaction t leaves alone.                              *)

\* The other transactions, the keys of the records, the locks and the inserts of
\* others, and the order of the stamps; a record that has died stays dead.
Frame(t) ==
  /\ \A s \in Txns \ {t} : tx'[s] = tx[s]
  /\ nrec <= nrec' /\ clock <= clock'
  /\ \A u \in Recs : u <= nrec => rec'[u].key = rec[u].key
  /\ \A u \in Recs, s \in Txns \ {t} :
       /\ rec'[u].lock = s <=> rec[u].lock = s
       /\ rec[u].lock = s /\ rec[u].valid => rec'[u].valid
       /\ u <= nrec /\ Pending(s, u) => Pending(s, u)'
  /\ \A u \in Recs : u <= nrec => /\ Dead(u) => Dead(u)'
                                  /\ rec[u].valid => rec'[u].valid \/ Dead(u)'
  /\ \A d, s \in Txns : Precedes(d, s) => Precedes(d, s)'

LEMMA FrameItem ==
  ASSUME Types, Types', NEW t \in Txns, Frame(t), NEW s \in Txns, NEW it \in ItemRec, Static(s, it)
  PROVE  /\ Static(s, it)'
         /\ Good(s, it) => Good(s, it)'
         /\ ReadItem(s, it) => ReadItem(s, it)'
<1>1. it.rec <= nrec' 
  <2>1. it.rec \in Nat /\ nrec \in Nat /\ nrec' \in Nat BY ItemFields, Numbers DEF Types
  <2>2. it.rec <= nrec /\ nrec <= nrec' BY DEF Static, Frame
  <2> QED BY ONLY <2>1, <2>2
<1>2. Static(s, it)' BY <1>1 DEF Static, Full
<1>3. Good(s, it) => Good(s, it)' BY DEF Good, Frame
<1>4. ASSUME ReadItem(s, it), it.rec # 0, it.rd.valid
      PROVE  Dead(it.rec)' \/ (rec'[it.rec].valid /\ Good(s, it)')
  <2>1. it.rec \in Recs /\ it.rec <= nrec BY <1>4, ItemFields, Numbers DEF Static
  <2>2. Dead(it.rec) => Dead(it.rec)' BY <2>1 DEF Frame
  <2>3. rec[it.rec].valid => rec'[it.rec].valid \/ Dead(it.rec)' BY <2>1 DEF Frame
  <2> QED BY <1>3, <1>4, <2>2, <2>3 DEF ReadItem
<1>5. ReadItem(s, it) => ReadItem(s, it)' BY <1>4 DEF ReadItem
<1> QED BY <1>2, <1>3, <1>5

LEMMA FramePair ==
  ASSUME Types, NEW t \in Txns, Frame(t), NEW a \in ItemRec, NEW b \in ItemRec,
         b.rec <= nrec, Pair(a, b)
  PROVE  Pair(a, b)'
<1>1. ASSUME b.rec # 0, Dead(b.rec) PROVE Dead(b.rec)'
  <2>1. b.rec \in Recs BY <1>1, ItemFields, Numbers
  <2> QED BY <1>1, <2>1 DEF Frame
<1> QED BY <1>1 DEF Pair

LEMMA FrameSound ==
  ASSUME Types, Types', NEW t \in Txns, Frame(t), NEW s \in Txns, NEW items \in Seq(ItemRec),
         \A i \in DOMAIN items : Static(s, items[i]), Sound(s, items),
         \A u \in Recs : u <= nrec /\ Pending(s, u) => Pending(s, u)'
  PROVE  Sound(s, items)'
<1>1. ASSUME NEW i \in DOMAIN items PROVE SoundItem(s, items[i])'
  <2>1. items[i] \in ItemRec /\ Static(s, items[i]) BY SeqFacts
  <2>2. SoundItem(s, items[i]) BY DEF Sound
  <2>3. ReadItem(s, items[i])' BY <2>1, <2>2, FrameItem DEF SoundItem
  <2>4. ASSUME items[i].ins PROVE Pending(s, items[i].rec)'
    <3>1. Pending(s, items[i].rec) BY <2>2, <2>4 DEF SoundItem
    <3>2. items[i].rec \in Recs /\ items[i].rec <= nrec
      BY <2>1, <2>4, ItemFields, Numbers DEF Static
    <3> QED BY <3>1, <3>2
  <2> QED BY <2>3, <2>4 DEF SoundItem
<1>2. ASSUME NEW i \in DOMAIN items, NEW j \in DOMAIN items, i < j PROVE Pair(items[i], items[j])'
  <2>1. items[i] \in ItemRec /\ items[j] \in ItemRec BY SeqFacts
  <2>2. items[j].rec <= nrec BY DEF Static
  <2>3. Pair(items[i], items[j]) BY <1>2 DEF Sound
  <2> QED BY <2>1, <2>2, <2>3, FramePair
<1> QED BY <1>1, <1>2 DEF Sound

\* What a transaction has written is in Recs.
LEMMA WriteFacts ==
  ASSUME NEW t, NEW r \in TxRec, \A i \in DOMAIN r.items : Static(t, r.items[i])
  PROVE  /\ \A i \in WriteSet(r) :
              /\ i \in Nat /\ i # 0 /\ i \in DOMAIN r.items /\ r.items[i] \in ItemRec
              /\ r.items[i].rec \in Recs /\ r.items[i].rec <= nrec /\ r.items[i].wr
         /\ \A i \in ReadSet(r) : i \in Nat /\ i # 0 /\ i \in DOMAIN r.items /\ r.items[i] \in ItemRec
         /\ WriteSet(r) \subseteq Nat /\ ReadSet(r) \subseteq Nat
<1>1. r.items \in Seq(ItemRec) BY TxFields
<1>2. ASSUME NEW i \in WriteSet(r)
      PROVE  /\ i \in Nat /\ i # 0 /\ i \in DOMAIN r.items /\ r.items[i] \in ItemRec
             /\ r.items[i].rec \in Recs /\ r.items[i].rec <= nrec /\ r.items[i].wr
  <2>1. i \in DOMAIN r.items /\ r.items[i].wr BY DEF WriteSet
  <2>2. i \in Nat /\ i # 0 /\ r.items[i] \in ItemRec BY <1>1, <2>1, SeqFacts
  <2>3. r.items[i].rec # 0 /\ r.items[i].rec <= nrec BY <2>1 DEF Static
  <2>4. r.items[i].rec \in Recs BY <2>2, <2>3, ItemFields, Numbers
  <2> QED BY <2>1, <2>2, <2>3, <2>4
<1>3. ASSUME NEW i \in ReadSet(r)
      PROVE  i \in Nat /\ i # 0 /\ i \in DOMAIN r.items /\ r.items[i] \in ItemRec
  <2>1. i \in DOMAIN r.items BY DEF ReadSet
  <2> QED BY <1>1, <2>1, SeqFacts
<1> QED BY <1>2, <1>3

\* The locks of another transaction.
LEMMA FrameOwned ==
  ASSUME NEW t \in Txns, Frame(t), NEW s \in Txns \ {t}, NEW items, NEW is,
         \A i \in is : items[i].rec \in Recs, Owned(s, items, is)
  PROVE  Owned(s, items, is)'
BY DEF Owned, Frame

LEMMA FrameTx ==
  ASSUME Lead, Types', NEW t \in Txns, Frame(t), NEW s \in Txns \ {t}
  PROVE  TxOK(s, tx[s])'
<1>0. PICK r : r = tx[s] OBVIOUS
<1>1. Types /\ r \in TxRec /\ TxOK(s, r) /\ tx'[s] = r BY <1>0 DEF Lead, Types, Frame
<1> HIDE <1>0
<1>2. r.items \in Seq(ItemRec) /\ r.e \in 0..MaxRecs /\ r.todo \in Seq(Recs) /\ r.cid \in Nat BY <1>1, TxFields
<1>3. \A i \in DOMAIN r.items : r.items[i] \in ItemRec /\ Static(s, r.items[i])
  BY <1>1, <1>2, SeqFacts DEF TxOK
<1>4. \A i \in DOMAIN r.items : Static(s, r.items[i])' BY <1>1, <1>3, FrameItem
<1>5. nrec \in Nat /\ nrec' \in Nat /\ nrec <= nrec' /\ clock \in Nat /\ clock' \in Nat /\ clock <= clock'
  BY <1>1, Numbers DEF Types, Frame
<1>6. ProgOK(r)'
  <2>1. ASSUME NEW a \in Nat, a <= nrec PROVE a <= nrec' BY ONLY <1>5, <2>1
  <2>2. ASSUME r.e \in 1..nrec PROVE r.e \in 1..nrec' BY ONLY <1>5, <2>2
  <2>3. ASSUME NEW i \in DOMAIN r.todo PROVE r.todo[i] <= nrec'
    <3>1. r.todo[i] \in Nat BY <1>2, Numbers
    <3>2. r.todo[i] <= nrec BY <1>1 DEF TxOK, ProgOK
    <3> QED BY <2>1, <3>1, <3>2
  <2> QED BY <1>1, <2>2, <2>3 DEF TxOK, ProgOK
<1>7. CidOK(r)'
  <2>1. r.cid <= clock' BY <1>1, <1>2, <1>5 DEF TxOK, CidOK
  <2> QED BY <1>1, <2>1 DEF TxOK, CidOK
<1>8. LockOK(s, r)' BY <1>1 DEF TxOK, LockOK, Frame
<1>9. FullOK(r)' BY <1>1 DEF TxOK, FullOK, AtLast, Full
<1>10. r.pc \in Active \union Failing => Sound(s, r.items)'
  <2>1. \A u \in Recs : u <= nrec /\ Pending(s, u) => Pending(s, u)' BY DEF Frame
  <2> QED BY <1>1, <1>2, <1>3, <2>1, FrameSound DEF TxOK
<1>11. \A i \in DOMAIN r.items : Good(s, r.items[i]) => Good(s, r.items[i])' BY <1>1, <1>3, FrameItem
<1>12. r.pc \in Past => \A i \in DOMAIN r.items : Good(s, r.items[i])' BY <1>1, <1>11 DEF TxOK
<1>13. /\ \A i \in WriteSet(r) : r.items[i].rec \in Recs /\ r.items[i].rec <= nrec /\ i \in DOMAIN r.items
       /\ \A i \in ReadSet(r) : i \in DOMAIN r.items
  BY <1>1, <1>3, WriteFacts
<1>14. LockPhase(s, r)'
  <2>1. \A i \in WriteSet(r) \ r.left : r.items[i].rec \in Recs BY <1>13
  <2>2. Owned(s, r.items, WriteSet(r) \ r.left) => Owned(s, r.items, WriteSet(r) \ r.left)'
    BY <2>1, FrameOwned
  <2> QED BY <1>1, <2>2 DEF TxOK, LockPhase, WriteSet
<1>15. Owned(s, r.items, WriteSet(r)) => Owned(s, r.items, WriteSet(r))' BY <1>13, FrameOwned
<1>16. CheckPhase(s, r)'
  <2>1. ASSUME NEW i \in ReadSet(r), r.items[i].rec # 0, Checked(s, r.items, r.items[i].rec)
        PROVE  Checked(s, r.items, r.items[i].rec)'
    <3>1. r.items[i].rec \in Recs BY <1>3, <1>13, <2>1, ItemFields, Numbers
    <3>2. \A j \in DOMAIN r.items : r.items[j].rec = r.items[i].rec => Good(s, r.items[j])'
      BY <1>11, <2>1 DEF Checked
    <3>3. rec'[r.items[i].rec].lock = s => rec'[r.items[i].rec].valid
      BY <2>1, <3>1 DEF Checked, Frame
    <3> QED BY <3>2, <3>3 DEF Checked
  <2> QED BY <1>1, <1>15, <2>1 DEF TxOK, CheckPhase, ReadSet, WriteSet
<1>17. InstallPhase(s, r)'
  <2>1. ASSUME NEW i \in WriteSet(r), rec[r.items[i].rec].lock = s, Ready(s, r.items[i])
        PROVE  Ready(s, r.items[i])'
    <3>1. r.items[i].rec \in Recs /\ r.items[i].rec <= nrec BY <1>13
    <3> QED BY <2>1, <3>1 DEF Ready, Frame
  <2> QED BY <1>1, <1>15, <2>1 DEF TxOK, InstallPhase, Owned, WriteSet
<1>18. TxOK(s, r)' BY <1>4, <1>6, <1>7, <1>8, <1>9, <1>10, <1>12, <1>14, <1>16, <1>17 DEF TxOK
<1> QED BY <1>1, <1>18

\* The facts of a transaction.
LEMMA TxFacts ==
  ASSUME Lead, NEW t \in Txns
  PROVE  /\ Types /\ tx[t] \in TxRec /\ TxOK(t, tx[t])
         /\ tx[t].items \in Seq(ItemRec)
         /\ \A i \in DOMAIN tx[t].items : tx[t].items[i] \in ItemRec /\ Static(t, tx[t].items[i])
<1>1. Types /\ tx[t] \in TxRec /\ TxOK(t, tx[t]) BY DEF Lead, Types
<1>2. tx[t].items \in Seq(ItemRec) BY <1>1, TxFields
<1> QED BY <1>1, <1>2, SeqFacts DEF TxOK

\* The keys a transaction writes stay the same.
LEMMA SameKeys ==
  ASSUME Lead, \A u \in Recs : u <= nrec => rec'[u].key = rec[u].key,
         NEW d \in Txns, tx'[d].items = tx[d].items
  PROVE  Writes(d)' = Writes(d) /\ Deletes(d)' = Deletes(d) /\ WriteSet(tx[d])' = WriteSet(tx[d])
<1>1. /\ tx[d] \in TxRec
      /\ \A i \in DOMAIN tx[d].items : Static(d, tx[d].items[i])
  BY TxFacts
<1>2. \A i \in WriteSet(tx[d]) : rec'[tx[d].items[i].rec].key = rec[tx[d].items[i].rec].key
  BY <1>1, WriteFacts
<1>3. ASSUME NEW i \in DOMAIN tx[d].items, tx[d].items[i].wr
      PROVE  rec'[tx[d].items[i].rec].key = rec[tx[d].items[i].rec].key
  BY <1>2, <1>3 DEF WriteSet
<1>4. ASSUME NEW i \in DOMAIN tx[d].items, tx[d].items[i].del
      PROVE  rec'[tx[d].items[i].rec].key = rec[tx[d].items[i].rec].key
  BY <1>1, <1>3, <1>4 DEF Static
<1>5. Writes(d)' = Writes(d) BY <1>3 DEF Writes
<1>6. Deletes(d)' = Deletes(d) BY <1>4 DEF Deletes
<1>7. WriteSet(tx[d])' = WriteSet(tx[d]) BY DEF WriteSet
<1> QED BY <1>5, <1>6, <1>7

\* What an entry of eff says.
EffOK(d, k) ==
  tx[d].pc \in Past /\ k \in Writes(d) /\ (Stamped(d) \/ k \in Deletes(d) \/ Holds(d, k))

LEMMA EffFacts ==
  ASSUME Lead, NEW k \in Keys, NEW i \in DOMAIN eff[k]
  PROVE  eff[k][i] \in Txns /\ EffOK(eff[k][i], k)
<1>1. eff[k] \in Seq(Txns) BY DEF Lead, Types
<1>2. eff[k][i] \in Txns BY <1>1
<1> QED BY <1>2 DEF Lead, EffInv, EffOK

\* Another transaction keeps what it has installed.
LEMMA EffKeeps ==
  ASSUME Lead, NEW t \in Txns, Frame(t), NEW d \in Txns \ {t}, NEW k, EffOK(d, k)
  PROVE  EffOK(d, k)' /\ Deletes(d)' = Deletes(d)
<1>1. tx'[d] = tx[d] BY DEF Frame
<1>2. Writes(d)' = Writes(d) /\ Deletes(d)' = Deletes(d) /\ WriteSet(tx[d])' = WriteSet(tx[d])
  BY <1>1, SameKeys DEF Frame
<1>3. ASSUME Holds(d, k) PROVE Holds(d, k)'
  <2>1. PICK i \in WriteSet(tx[d]) :
          LET it == tx[d].items[i] IN
          ~it.del /\ rec[it.rec].key = k /\ rec[it.rec].valid /\ rec[it.rec].lock = d
    BY <1>3 DEF Holds
  <2>2. tx[d].items[i].rec \in Recs /\ tx[d].items[i].rec <= nrec BY TxFacts, WriteFacts
  <2>3. LET it == tx[d].items[i] IN
        ~it.del /\ rec'[it.rec].key = k /\ rec'[it.rec].valid /\ rec'[it.rec].lock = d
    BY <2>1, <2>2 DEF Frame
  <2> QED BY <1>1, <1>2, <2>3 DEF Holds
<1> QED BY <1>1, <1>2, <1>3 DEF EffOK, Stamped

\* A step that installs nothing, of a transaction that has nothing installed or
\* that is stamped after it.
LEMMA EffFrame ==
  ASSUME Lead, NEW t \in Txns, Frame(t), eff' = eff,
         tx[t].pc \notin Past \/ (tx'[t].pc \in Past /\ tx'[t].items = tx[t].items /\ Stamped(t)')
  PROVE  EffInv' /\ PairInv'
<1>1. ASSUME NEW d \in Txns, NEW k, EffOK(d, k) PROVE EffOK(d, k)' /\ Deletes(d)' = Deletes(d)
  <2>1. CASE d # t BY <1>1, <2>1, EffKeeps
  <2>2. CASE d = t
    <3>1. tx'[t].pc \in Past /\ tx'[t].items = tx[t].items /\ Stamped(t)' BY <1>1, <2>2 DEF EffOK
    <3>2. Writes(t)' = Writes(t) /\ Deletes(t)' = Deletes(t) BY <3>1, SameKeys DEF Frame
    <3> QED BY <1>1, <2>2, <3>1, <3>2 DEF EffOK
  <2> QED BY <2>1, <2>2
<1>2. ASSUME NEW k \in Keys, NEW i \in DOMAIN eff[k]
      PROVE  eff[k][i] \in Txns /\ EffOK(eff[k][i], k)' /\ Deletes(eff[k][i])' = Deletes(eff[k][i])
  BY <1>1, EffFacts
<1>3. EffInv' BY <1>2 DEF EffInv, EffOK
<1>4. PairInv' BY <1>2 DEF PairInv, Frame, Lead
<1> QED BY <1>3, <1>4

\* A step of transaction t.
LEMMA OneStep ==
  ASSUME Lead, NEW t \in Txns, Frame(t), Types', TreeInv', RecInv', EffInv', PairInv', TxOK(t, tx[t])'
  PROVE  Lead'
<1>1. ASSUME NEW s \in Txns PROVE TxOK(s, tx[s])'
  <2>1. CASE s = t BY <2>1
  <2>2. CASE s # t BY <2>2, FrameTx
  <2> QED BY <2>1, <2>2
<1> QED BY <1>1 DEF Lead

\* A step that changes no shared variable, and no stamp, leaves what TxOK says.
LEMMA SameTx ==
  ASSUME UNCHANGED <<tree, rec, nrec, clock>>, \A s \in Txns : tx'[s].cid = tx[s].cid,
         NEW t \in Txns, NEW r, TxOK(t, r)
  PROVE  TxOK(t, r)'
<1>1. \A d \in Txns : Precedes(d, t)' <=> Precedes(d, t) BY DEF Precedes, Stamped
<1>2. \A it : Good(t, it)' <=> Good(t, it) BY <1>1 DEF Good
<1>3. \A u : Dead(u)' <=> Dead(u) BY DEF Dead, Linked
<1>4. \A u : Pending(t, u)' <=> Pending(t, u) BY DEF Pending, Linked
<1>5. \A it : SoundItem(t, it)' <=> SoundItem(t, it) BY <1>2, <1>3, <1>4 DEF SoundItem, ReadItem
<1>6. \A a, b : Pair(a, b)' <=> Pair(a, b) BY <1>3 DEF Pair
<1>7. Sound(t, r.items)' <=> Sound(t, r.items) BY <1>5, <1>6 DEF Sound
<1>8. \A it : Static(t, it)' <=> Static(t, it) BY DEF Static
<1>9. ProgOK(r)' /\ CidOK(r)' /\ LockOK(t, r)' /\ FullOK(r)'
  BY DEF TxOK, ProgOK, CidOK, LockOK, FullOK, AtLast, Full
<1>10. \A is : Owned(t, r.items, is)' <=> Owned(t, r.items, is) BY DEF Owned
<1>11. \A u : Checked(t, r.items, u)' <=> Checked(t, r.items, u) BY <1>2 DEF Checked
<1>12. \A it : Ready(t, it)' <=> Ready(t, it) BY <1>4 DEF Ready
<1>13. LockPhase(t, r)' BY <1>10 DEF TxOK, LockPhase, WriteSet
<1>14. CheckPhase(t, r)' BY <1>10, <1>11 DEF TxOK, CheckPhase, WriteSet, ReadSet
<1>15. InstallPhase(t, r)' BY <1>10, <1>12 DEF TxOK, InstallPhase, WriteSet
<1> QED BY <1>2, <1>7, <1>8, <1>9, <1>13, <1>14, <1>15 DEF TxOK

\* A step of transaction t on its own record, before it is past its checks.
LEMMA QuietStep ==
  ASSUME Lead, NEW t \in Txns, NEW r \in TxRec, Becomes(t, r),
         UNCHANGED <<tree, leaf, rec, nrec, clock, eff>>,
         r.cid = tx[t].cid, tx[t].pc \notin Past, TxOK(t, r)
  PROVE  Lead'
<1>1. Types /\ TreeInv /\ RecInv BY DEF Lead
<1>2. tx' \in [Txns -> TxRec] /\ tx'[t] = r /\ \A s \in Txns \ {t} : tx'[s] = tx[s]
  BY <1>1 DEF Types, Becomes
<1>3. Types' BY <1>1, <1>2 DEF Types
<1>4. TreeInv' BY <1>1 DEF TreeInv, Linked
<1>5. \A s \in Txns : tx'[s].cid = tx[s].cid BY <1>2
<1>6. RecInv'
  <2>1. \A u, d : d \in Txns /\ WriterOf(u, d) => WriterOf(u, d)' BY <1>2, <1>5 DEF WriterOf, Stamped, Past
  <2> QED BY <1>1, <2>1 DEF RecInv
<1>7. Frame(t)
  <2>1. \A u : Dead(u)' <=> Dead(u) BY DEF Dead, Linked
  <2>2. \A s, u : Pending(s, u)' <=> Pending(s, u) BY DEF Pending, Linked
  <2>3. \A d, s \in Txns : Precedes(d, s)' <=> Precedes(d, s) BY <1>5 DEF Precedes, Stamped
  <2>4. nrec <= nrec' /\ clock <= clock' BY <1>1, Numbers DEF Types
  <2> QED BY <1>2, <2>1, <2>2, <2>3, <2>4 DEF Frame
<1>8. EffInv' /\ PairInv' BY <1>7, EffFrame
<1>9. TxOK(t, r)' BY <1>5, SameTx
<1>10. TxOK(t, tx[t])' BY <1>2, <1>9
<1> QED BY <1>3, <1>4, <1>6, <1>7, <1>8, <1>10, OneStep

-----------------------------------------------------------------------------
(* The items of a transaction.                                             *)

ItemsOK(t, s) ==
  s \in Seq(ItemRec) /\ (\A i \in DOMAIN s : Static(t, s[i])) /\ Sound(t, s)
AllFull(s) == \A i \in DOMAIN s : Full(s[i])

LEMMA NoVersionFacts == NoVersion \in Version /\ ~NoVersion.valid
BY DEF NoVersion, Version, None

LEMMA NewItemFacts ==
  ASSUME Types, NEW t \in Txns, NEW u \in 0..nrec
  PROVE  /\ NewItem(u) \in ItemRec /\ Static(t, NewItem(u)) /\ SoundItem(t, NewItem(u))
         /\ NewItem(u).rec = u /\ NewItem(u).rd = NoVersion /\ ~NewItem(u).wr /\ ~NewItem(u).ins
         /\ ~NewItem(u).del /\ NewItem(u).seen = None
<1>1. nrec \in 0..MaxRecs /\ MaxRecs \in Nat BY Numbers DEF Types
<1>2. u \in 0..MaxRecs /\ u <= nrec BY <1>1
<1>3. /\ NewItem(u).rec = u /\ NewItem(u).rd = NoVersion /\ ~NewItem(u).wr /\ ~NewItem(u).ins
      /\ ~NewItem(u).del /\ NewItem(u).seen = None
  BY DEF NewItem
<1>4. NewItem(u) \in ItemRec
  <2>1. None \in Int /\ 0 \in Int BY DEF None
  <2> QED BY <1>2, <2>1, NoVersionFacts DEF NewItem, ItemRec
<1>5. Static(t, NewItem(u)) BY <1>2, <1>3 DEF Static
<1>6. SoundItem(t, NewItem(u)) BY <1>3, NoVersionFacts DEF SoundItem, ReadItem
<1> QED BY <1>3, <1>4, <1>5, <1>6

LEMMA AppendFacts ==
  ASSUME NEW S, NEW s \in Seq(S), NEW x \in S
  PROVE  /\ Append(s, x) \in Seq(S) /\ Len(Append(s, x)) = Len(s) + 1 /\ Len(s) \in Nat
         /\ DOMAIN Append(s, x) = DOMAIN s \union {Len(s) + 1}
         /\ \A i \in DOMAIN s : Append(s, x)[i] = s[i] /\ i \in Nat /\ i # 0 /\ i <= Len(s)
         /\ Append(s, x)[Len(s) + 1] = x
OBVIOUS

LEMMA AppendItem ==
  ASSUME NEW t, NEW s, ItemsOK(t, s), NEW it \in ItemRec, Static(t, it), SoundItem(t, it),
         \A j \in DOMAIN s : Pair(s[j], it)
  PROVE  ItemsOK(t, Append(s, it))
<1> DEFINE new == Append(s, it)
<1>0. s \in Seq(ItemRec) BY DEF ItemsOK
<1>1. /\ new \in Seq(ItemRec) /\ Len(s) \in Nat /\ DOMAIN new = DOMAIN s \union {Len(s) + 1}
      /\ \A i \in DOMAIN s : new[i] = s[i] /\ i \in Nat /\ i <= Len(s)
      /\ new[Len(s) + 1] = it
  BY <1>0, AppendFacts
<1> HIDE DEF new
<1>2. \A i \in DOMAIN new : Static(t, new[i]) /\ SoundItem(t, new[i])
  BY <1>1 DEF ItemsOK, Sound
<1>3. ASSUME NEW i \in DOMAIN new, NEW j \in DOMAIN new, i < j PROVE Pair(new[i], new[j])
  <2>1. i \in DOMAIN s
    <3>1. ASSUME i = Len(s) + 1 PROVE FALSE BY <1>1, <1>3, <3>1
    <3> QED BY <1>1, <3>1
  <2>2. CASE j \in DOMAIN s BY <1>1, <1>3, <2>1, <2>2 DEF ItemsOK, Sound
  <2>3. CASE j = Len(s) + 1 BY <1>1, <2>1, <2>3
  <2> QED BY <1>1, <2>2, <2>3
<1>4. ItemsOK(t, new) BY <1>1, <1>2, <1>3 DEF ItemsOK, Sound
<1> QED BY <1>4 DEF new

\* An item is rewritten: it keeps its record and its read, or gets its first one.
LEMMA ReplaceItem ==
  ASSUME NEW t, NEW s, ItemsOK(t, s), NEW i \in DOMAIN s, NEW it \in ItemRec,
         Static(t, it), SoundItem(t, it), it.rec = s[i].rec, it.ins = s[i].ins,
         \/ it.rec = 0
         \/ it.rd = s[i].rd
         \/ i = Len(s) /\ it.rd.valid = rec[it.rec].valid
  PROVE  /\ ItemsOK(t, [s EXCEPT ![i] = it])
         /\ (\A j \in DOMAIN s : j # i => Full(s[j])) /\ Full(it) => AllFull([s EXCEPT ![i] = it])
         /\ [s EXCEPT ![i] = it] \in Seq(ItemRec)
<1> DEFINE new == [s EXCEPT ![i] = it]
<1>0. s \in Seq(ItemRec) BY DEF ItemsOK
<1>1. /\ new \in Seq(ItemRec) /\ DOMAIN new = DOMAIN s /\ new[i] = it
      /\ \A j \in DOMAIN s : j # i => new[j] = s[j]
      /\ \A j \in DOMAIN s : j \in Nat /\ j <= Len(s) /\ Len(s) \in Nat
  BY <1>0
<1> HIDE DEF new
<1>2. \A j \in DOMAIN new : Static(t, new[j]) /\ SoundItem(t, new[j])
  BY <1>1 DEF ItemsOK, Sound
<1>3. ASSUME NEW j \in DOMAIN new, NEW k \in DOMAIN new, j < k PROVE Pair(new[j], new[k])
  <2>0. Pair(s[j], s[k]) BY <1>1, <1>3 DEF ItemsOK, Sound
  <2>1. CASE j # i /\ k # i BY <1>1, <2>0, <2>1
  <2>2. CASE j = i
    <3>1. k # i /\ ~(i = Len(s)) BY <1>1, <1>3, <2>2
    <3>2. it.rec = 0 \/ it.rd = s[i].rd BY <3>1
    <3> QED BY <1>1, <2>0, <2>2, <3>1, <3>2 DEF Pair
  <2>3. CASE k = i /\ j # i
    <3>1. CASE it.rec = 0 \/ it.rd = s[i].rd BY <1>1, <2>0, <2>3, <3>1 DEF Pair
    <3>2. CASE it.rd.valid = rec[it.rec].valid
      <4>1. ReadItem(t, s[j]) BY <1>1 DEF ItemsOK, Sound, SoundItem
      <4> QED BY <1>1, <2>0, <2>3, <3>2, <4>1 DEF Pair, ReadItem
    <3> QED BY <3>1, <3>2
  <2> QED BY <2>1, <2>2, <2>3
<1>4. ItemsOK(t, new) BY <1>1, <1>2, <1>3 DEF ItemsOK, Sound
<1>5. (\A j \in DOMAIN s : j # i => Full(s[j])) /\ Full(it) => AllFull(new) BY <1>1 DEF AllFull
<1> QED BY <1>1, <1>4, <1>5 DEF new

\* Looking up an item.
LEMMA FindFacts ==
  ASSUME NEW s \in Seq(ItemRec), NEW u
  PROVE  \/ find_item(s, u) = 0 /\ \A i \in DOMAIN s : s[i].rec # u
         \/ find_item(s, u) \in DOMAIN s /\ s[find_item(s, u)].rec = u /\ find_item(s, u) # 0
<1> DEFINE hits == {i \in DOMAIN s : s[i].rec = u}
<1>1. find_item(s, u) = IF hits = {} THEN 0 ELSE Min(hits) BY DEF find_item
<1>2. hits \subseteq Nat /\ \A i \in hits : i # 0 BY SeqFacts
<1>3. ASSUME hits # {} PROVE Min(hits) \in hits BY <1>2, <1>3, LeastNat
<1> QED BY <1>1, <1>2, <1>3

\* The items with one for record u, at index i.
Touched(s, new, i, u) ==
  \/ new = s /\ i \in DOMAIN s /\ s[i].rec = u
  \/ new = Append(s, NewItem(u)) /\ i = Len(s) + 1

LEMMA WithItemFacts ==
  ASSUME Types, NEW s \in Seq(ItemRec), NEW u \in 0..nrec
  PROVE  Touched(s, WithItem(s, u), find_item(WithItem(s, u), u), u)
<1>1. CASE find_item(s, u) = 0
  <2>1. /\ Len(s) \in Nat /\ DOMAIN Append(s, NewItem(u)) = DOMAIN s \union {Len(s) + 1}
        /\ \A i \in DOMAIN s : Append(s, NewItem(u))[i] = s[i] /\ s[i] \in ItemRec
        /\ Append(s, NewItem(u))[Len(s) + 1] = NewItem(u) /\ NewItem(u).rec = u
        /\ Append(s, NewItem(u)) \in Seq(ItemRec)
    <3>1. NewItem(u) \in ItemRec
      <4>1. u \in 0..MaxRecs BY Numbers DEF Types
      <4>2. None \in Int /\ 0 \in Int BY DEF None
      <4> QED BY <4>1, <4>2, NoVersionFacts DEF NewItem, ItemRec
    <3>2. NewItem(u).rec = u BY DEF NewItem
    <3> QED BY <3>1, <3>2, AppendFacts, SeqFacts
  <2>2. WithItem(s, u) = Append(s, NewItem(u)) BY <1>1 DEF WithItem
  <2>3. \A i \in DOMAIN s : s[i].rec # u BY <1>1, FindFacts
  <2>4. find_item(Append(s, NewItem(u)), u) \in DOMAIN Append(s, NewItem(u))
        /\ Append(s, NewItem(u))[find_item(Append(s, NewItem(u)), u)].rec = u
    <3>1. PICK new : new = Append(s, NewItem(u)) OBVIOUS
    <3>2. new \in Seq(ItemRec) /\ Len(s) + 1 \in DOMAIN new /\ new[Len(s) + 1].rec = u BY <2>1, <3>1
    <3>3. find_item(new, u) \in DOMAIN new /\ new[find_item(new, u)].rec = u BY <3>2, FindFacts
    <3> QED BY <3>1, <3>3
  <2>5. find_item(Append(s, NewItem(u)), u) = Len(s) + 1 BY <2>1, <2>3, <2>4
  <2> QED BY <2>2, <2>5 DEF Touched
<1>2. CASE find_item(s, u) # 0
  <2>1. WithItem(s, u) = s BY <1>2 DEF WithItem
  <2>2. find_item(s, u) \in DOMAIN s /\ s[find_item(s, u)].rec = u BY <1>2, FindFacts
  <2> QED BY <2>1, <2>2 DEF Touched
<1> QED BY <1>1, <1>2

LEMMA ReadItemFacts ==
  ASSUME Types, NEW s \in Seq(ItemRec), NEW u \in 0..nrec
  PROVE  Touched(s, ReadItems(s, u), ReadIndex(ReadItems(s, u), u), u)
<1>1. /\ Len(s) \in Nat /\ DOMAIN Append(s, NewItem(u)) = DOMAIN s \union {Len(s) + 1}
      /\ \A i \in DOMAIN s : Append(s, NewItem(u))[i] = s[i]
      /\ Append(s, NewItem(u))[Len(s) + 1] = NewItem(u) /\ ~NewItem(u).wr
      /\ Len(Append(s, NewItem(u))) = Len(s) + 1
  <2>1. NewItem(u) \in ItemRec
    <3>1. u \in 0..MaxRecs BY Numbers DEF Types
    <3>2. None \in Int /\ 0 \in Int BY DEF None
    <3> QED BY <3>1, <3>2, NoVersionFacts DEF NewItem, ItemRec
  <2>2. ~NewItem(u).wr BY DEF NewItem
  <2> QED BY <2>1, <2>2, AppendFacts
<1>2. any_writes_(Append(s, NewItem(u))) <=> any_writes_(s) BY <1>1 DEF any_writes_
<1>3. CASE any_writes_(s)
  <2>1. ReadItems(s, u) = WithItem(s, u) BY <1>3 DEF ReadItems
  <2>2. any_writes_(WithItem(s, u)) BY <1>2, <1>3 DEF WithItem
  <2>3. ReadIndex(ReadItems(s, u), u) = find_item(WithItem(s, u), u) BY <2>1, <2>2 DEF ReadIndex
  <2> QED BY <2>1, <2>3, WithItemFacts
<1>4. CASE ~any_writes_(s)
  <2>1. ReadItems(s, u) = Append(s, NewItem(u)) BY <1>4 DEF ReadItems
  <2>2. ReadIndex(ReadItems(s, u), u) = Len(s) + 1 BY <1>1, <1>2, <1>4, <2>1 DEF ReadIndex
  <2> QED BY <2>1, <2>2 DEF Touched
<1> QED BY <1>3, <1>4

LEMMA TouchedFacts ==
  ASSUME Types, NEW t \in Txns, NEW s, ItemsOK(t, s), AllFull(s), NEW u \in 0..nrec,
         NEW new, NEW i, Touched(s, new, i, u)
  PROVE  /\ ItemsOK(t, new) /\ i \in DOMAIN new /\ new[i].rec = u /\ new[i] \in ItemRec
         /\ Static(t, new[i]) /\ SoundItem(t, new[i]) /\ new \in Seq(ItemRec)
         /\ \A j \in DOMAIN new : Full(new[j]) \/ (j = i /\ i = Len(new) /\ new[i] = NewItem(u))
         /\ Full(new[i]) => AllFull(new)
<1>0. s \in Seq(ItemRec) BY DEF ItemsOK
<1>1. CASE new = s /\ i \in DOMAIN s /\ s[i].rec = u
  BY <1>0, <1>1, SeqFacts DEF ItemsOK, AllFull, Sound
<1>2. CASE new = Append(s, NewItem(u)) /\ i = Len(s) + 1
  <2>1. /\ NewItem(u) \in ItemRec /\ Static(t, NewItem(u)) /\ SoundItem(t, NewItem(u))
        /\ NewItem(u).rec = u /\ NewItem(u).rd = NoVersion /\ ~NewItem(u).ins
    BY NewItemFacts
  <2>2. \A j \in DOMAIN s : Pair(s[j], NewItem(u)) BY <2>1 DEF Pair
  <2>3. ItemsOK(t, new) BY <1>2, <2>1, <2>2, AppendItem
  <2>4. /\ new \in Seq(ItemRec) /\ Len(new) = i /\ DOMAIN new = DOMAIN s \union {i}
        /\ \A j \in DOMAIN s : new[j] = s[j]
        /\ new[i] = NewItem(u)
    BY <1>0, <1>2, <2>1, AppendFacts
  <2>5. \A j \in DOMAIN new : Full(new[j]) \/ (j = i /\ i = Len(new) /\ new[i] = NewItem(u))
    BY <2>4 DEF AllFull
  <2>6. i \in DOMAIN new /\ new[i].rec = u /\ new[i] \in ItemRec /\ Static(t, new[i]) /\ SoundItem(t, new[i])
    BY <2>1, <2>4
  <2>7. Full(new[i]) => AllFull(new) BY <2>5 DEF AllFull
  <2> QED BY <2>3, <2>4, <2>5, <2>6, <2>7
<1> QED BY <1>1, <1>2 DEF Touched

-----------------------------------------------------------------------------
(* The operations.                                                         *)

\* The variables other transactions see.
shared == <<tree, leaf, rec, nrec, clock, eff>>

\* The items of a transaction that runs, and its stamp.
LEMMA RunFacts ==
  ASSUME Lead, NEW t \in Txns, tx[t].pc \in Running
  PROVE  /\ ItemsOK(t, tx[t].items) /\ tx[t].cid = 0 /\ tx[t].pc \notin Past /\ ProgOK(tx[t])
         /\ tx[t].pc \notin {"read", "observe"} => AllFull(tx[t].items)
         /\ LockOK(t, tx[t])
<1>1. TxOK(t, tx[t]) /\ tx[t].items \in Seq(ItemRec) BY TxFacts
<1>2. tx[t].pc \in Active /\ tx[t].pc \notin Past BY DEF Active, Running, Past
<1>3. ItemsOK(t, tx[t].items) BY <1>1, <1>2 DEF TxOK, ItemsOK
<1>4. tx[t].cid = 0 BY <1>1 DEF TxOK, CidOK, Running
<1>5. tx[t].pc \notin {"read", "observe"} => AllFull(tx[t].items)
  BY <1>1, <1>2 DEF TxOK, FullOK, AllFull
<1> QED BY <1>1, <1>2, <1>3, <1>4, <1>5 DEF TxOK

\* A step from operation to operation.
LEMMA RunStep ==
  ASSUME Lead, NEW t \in Txns, tx[t].pc \in Running, NEW r \in TxRec, Becomes(t, r), UNCHANGED shared,
         r.pc \in Running, r.cid = tx[t].cid, r.locked = tx[t].locked,
         ProgOK(r), FullOK(r), ItemsOK(t, r.items)
  PROVE  Lead'
<1>1. /\ tx[t].cid = 0 /\ tx[t].pc \notin Past /\ LockOK(t, tx[t]) BY RunFacts
<1>2. clock \in Nat BY DEF Lead, Types
<1>3. CidOK(r) BY <1>1, <1>2 DEF CidOK, Running
<1>4. LockOK(t, r) BY <1>1 DEF LockOK
<1>5. r.pc \notin Past /\ r.pc \notin {"lock", "check", "install"} BY DEF Running, Past
<1>6. LockPhase(t, r) /\ CheckPhase(t, r) /\ InstallPhase(t, r)
  BY <1>5 DEF LockPhase, CheckPhase, InstallPhase
<1>7. TxOK(t, r) BY <1>3, <1>4, <1>5, <1>6 DEF TxOK, ItemsOK
<1> QED BY <1>1, <1>7, QuietStep DEF shared

\* The operation is over.
LEMMA NextOpStep ==
  ASSUME Lead, NEW t \in Txns, tx[t].pc \in Running, HasOp(t), NEW items, ItemsOK(t, items), AllFull(items),
         Becomes(t, NextOp(t, items)), UNCHANGED shared
  PROVE  Lead'
<1> DEFINE r == NextOp(t, items)
<1>1. tx[t] \in TxRec /\ ProgOK(tx[t]) BY TxFacts, RunFacts
<1>2. tx[t].ip \in Nat /\ tx[t].ip + 1 \in Nat /\ 0 \in 0..MaxRecs /\ "op" \in Pcs
  BY <1>1, TxFields, Numbers DEF Pcs, Active, Running
<1>3. r \in TxRec BY <1>1, <1>2 DEF NextOp, TxRec, ItemsOK
<1>4. /\ r.pc = "op" /\ r.ip = tx[t].ip + 1 /\ r.items = items /\ r.cid = tx[t].cid
      /\ r.locked = tx[t].locked /\ r.prog = tx[t].prog /\ r.todo = tx[t].todo
  BY <1>1 DEF NextOp, TxRec
<1> HIDE DEF r
<1>5. ProgOK(r)
  <2>1. Len(tx[t].prog) \in 1..MaxOps /\ tx[t].ip \in 1..Len(tx[t].prog)
    BY <1>1, <1>2 DEF ProgOK, HasOp, MaxOps
  <2>2. tx[t].ip + 1 \in 1..(Len(tx[t].prog) + 1) BY <2>1 DEF MaxOps
  <2> QED BY <1>1, <1>4, <2>1, <2>2 DEF ProgOK
<1>6. FullOK(r) BY <1>4 DEF FullOK, AllFull
<1>7. r.pc \in Running BY <1>4 DEF Running
<1>8. Becomes(t, r) BY DEF r
<1> QED BY <1>3, <1>4, <1>5, <1>6, <1>7, <1>8, RunStep

\* The operation goes on, and looks at record u.
LEMMA GoToStep ==
  ASSUME Lead, NEW t \in Txns, tx[t].pc \in Running, HasOp(t), NEW items, ItemsOK(t, items),
         NEW pc \in Running \ {"op", "scan"}, NEW u \in 0..nrec,
         pc = "insert" => Op(t).op = "put", pc # "insert" => u # 0,
         FullOK(GoTo(t, pc, items, u)),
         Becomes(t, GoTo(t, pc, items, u)), UNCHANGED shared
  PROVE  Lead'
<1> DEFINE r == GoTo(t, pc, items, u)
<1>1. tx[t] \in TxRec /\ ProgOK(tx[t]) BY TxFacts, RunFacts
<1>2. u \in 0..MaxRecs /\ pc \in Pcs /\ nrec \in Nat BY Numbers DEF Pcs, Active, Running, Lead, Types
<1>3. r \in TxRec BY <1>1, <1>2 DEF GoTo, TxRec, ItemsOK
<1>4. /\ r.pc = pc /\ r.ip = tx[t].ip /\ r.items = items /\ r.cid = tx[t].cid /\ r.e = u
      /\ r.locked = tx[t].locked /\ r.prog = tx[t].prog /\ r.todo = tx[t].todo
  BY <1>1 DEF GoTo, TxRec
<1>5. FullOK(r) /\ Becomes(t, r) OBVIOUS
<1> HIDE DEF r
<1>6. ProgOK(r)
  <2>1. u # 0 => u \in 1..nrec BY <1>2
  <2> QED BY <1>1, <1>4, <2>1 DEF ProgOK, HasOp, Op, Running
<1> QED BY <1>3, <1>4, <1>5, <1>6, RunStep

\* The transaction gives up.
LEMMA AbortingStep ==
  ASSUME Lead, NEW t \in Txns, tx[t].pc \in Running, Becomes(t, Aborting(t)), UNCHANGED shared
  PROVE  Lead'
<1> DEFINE r == Aborting(t)
<1>1. tx[t] \in TxRec /\ TxOK(t, tx[t]) BY TxFacts
<1>2. ItemsOK(t, tx[t].items) /\ tx[t].cid = 0 /\ tx[t].pc \notin Past BY RunFacts
<1>3. r \in TxRec
  <2>1. "abort" \in Pcs BY DEF Pcs, Failing
  <2> QED BY <1>1, <2>1 DEF Aborting, TxRec
<1>4. /\ r.pc = "abort" /\ r.ip = tx[t].ip /\ r.items = tx[t].items /\ r.cid = tx[t].cid
      /\ r.locked = tx[t].locked /\ r.prog = tx[t].prog /\ r.todo = tx[t].todo
  BY <1>1 DEF Aborting, TxRec
<1>5. Becomes(t, r) OBVIOUS
<1> HIDE DEF r
<1>6. ProgOK(r) /\ CidOK(r) /\ LockOK(t, r) /\ FullOK(r)
  BY <1>1, <1>2, <1>4 DEF TxOK, ProgOK, CidOK, LockOK, FullOK, Active, Running
<1>7. TxOK(t, r)
  BY <1>2, <1>4, <1>6 DEF TxOK, ItemsOK, Past, LockPhase, CheckPhase, InstallPhase
<1> QED BY <1>2, <1>3, <1>4, <1>5, <1>7, QuietStep DEF shared

\* The operation in hand.
LEMMA OpFacts ==
  ASSUME Lead, NEW t \in Txns, HasOp(t)
  PROVE  /\ Op(t) \in Operation
         /\ Op(t).op \in {"get", "put", "insert", "remove", "scan"}
         /\ Op(t).op # "scan" => Op(t).key \in Keys
         /\ ValueOf(t) \in ValuesOf(t) /\ ValueOf(t) \in Int
<1>1. tx[t].prog \in Seq(Operation) /\ tx[t].ip \in Nat /\ ProgOK(tx[t]) BY TxFacts, TxFields DEF TxOK
<1>2. /\ tx[t].ip \in 1..Len(tx[t].prog) /\ Len(tx[t].prog) \in 1..9 /\ 1 \in 1..Len(tx[t].prog)
      /\ tx[t].ip \in 1..9
  <2>1. Len(tx[t].prog) \in 1..9 /\ tx[t].ip \in 1..(Len(tx[t].prog) + 1) BY <1>1 DEF ProgOK, MaxOps
  <2>2. tx[t].ip <= Len(tx[t].prog) BY DEF HasOp
  <2>3. ASSUME NEW n \in 1..9, NEW i \in 1..(n + 1), i <= n
        PROVE  i \in 1..n /\ 1 \in 1..n /\ i \in 1..9
    BY <2>3
  <2> QED BY <2>1, <2>2, <2>3, Zenon
<1>3. Op(t) \in Operation /\ tx[t].prog[1] \in Operation BY <1>1, <1>2 DEF Op
<1>4. ASSUME NEW o \in Operation
      PROVE  o.op \in {"get", "put", "insert", "remove", "scan"} /\ (o.op # "scan" => o.key \in Keys)
  BY DEF Operation
<1>5. ~IsReplay(t) BY <1>3, <1>4 DEF IsReplay
<1>6. ValueOf(t) = (MaxOps + 1) * t + tx[t].ip BY <1>5 DEF ValueOf
<1>7. ValueOf(t) \in ValuesOf(t) BY <1>2, <1>6 DEF ValuesOf, MaxOps
<1> QED BY <1>3, <1>4, <1>7, ValueFacts

\* The index has records that are allocated.
LEMMA TreeFacts ==
  ASSUME Lead, NEW k \in Keys
  PROVE  tree[k] \in 0..nrec /\ nrec \in Nat /\ 0 \in 0..nrec
<1>1. tree[k] \in 0..MaxRecs /\ nrec \in 0..MaxRecs /\ MaxRecs \in Nat BY Numbers DEF Lead, Types
<1>2. tree[k] # 0 => tree[k] \in 1..nrec BY DEF Lead, TreeInv
<1> QED BY <1>1, <1>2

\* The version of a record, and that of the leaf.
LEMMA VersFacts ==
  ASSUME Types, NEW u \in Recs
  PROVE  Vers(u) \in Version /\ Vers(u).valid = rec[u].valid /\ Vers(u) # NoVersion
<1>1. rec[u].n \in Nat /\ rec[u].valid \in BOOLEAN BY RecFields
<1>2. Vers(u).n = rec[u].n /\ Vers(u).valid = rec[u].valid BY DEF Vers
<1>3. NoVersion.n = -1 BY DEF NoVersion, None
<1>4. rec[u].n # -1 BY <1>1
<1> QED BY <1>1, <1>2, <1>3, <1>4 DEF Vers, Version

LEMMA LeafFacts ==
  ASSUME NEW l \in LeafRec
  PROVE  LeafVers(l) \in Version /\ LeafVers(l) # NoVersion
<1>1. full_version_value(l) \in Int BY DEF full_version_value, LeafRec
<1>2. LeafVers(l).valid BY DEF LeafVers
<1> QED BY <1>1, <1>2, NoVersionFacts DEF LeafVers, Version

LEMMA ObserveFacts ==
  ASSUME NEW it \in ItemRec, NEW v \in Version
  PROVE  /\ observe(it, v) \in ItemRec
         /\ observe(it, v).rec = it.rec /\ observe(it, v).wr = it.wr /\ observe(it, v).ins = it.ins
         /\ observe(it, v).del = it.del /\ observe(it, v).val = it.val /\ observe(it, v).seen = it.seen
         /\ it.rd # NoVersion => observe(it, v).rd = it.rd
         /\ it.rd = NoVersion => observe(it, v).rd = v
<1>1. it.rd \in Version BY ItemFields
<1> DEFINE x == IF it.rd = NoVersion THEN v ELSE it.rd
<1>2. x \in Version BY <1>1
<1>3. observe(it, v) = [it EXCEPT !.rd = x] BY DEF observe
<1> HIDE DEF x
<1>4. [it EXCEPT !.rd = x] \in ItemRec BY <1>2 DEF ItemRec
<1>5. /\ [it EXCEPT !.rd = x].rec = it.rec /\ [it EXCEPT !.rd = x].wr = it.wr /\ [it EXCEPT !.rd = x].ins = it.ins
      /\ [it EXCEPT !.rd = x].del = it.del /\ [it EXCEPT !.rd = x].val = it.val
      /\ [it EXCEPT !.rd = x].seen = it.seen /\ [it EXCEPT !.rd = x].rd = x
  BY DEF ItemRec
<1> QED BY <1>3, <1>4, <1>5 DEF x

LEMMA ObservedFacts ==
  ASSUME Types, NEW it \in ItemRec, NEW u \in Recs
  PROVE  /\ Observed(it, u) \in ItemRec
         /\ Observed(it, u).rec = it.rec /\ Observed(it, u).wr = it.wr /\ Observed(it, u).ins = it.ins
         /\ Observed(it, u).del = it.del /\ Observed(it, u).val = it.val
         /\ it.rd # NoVersion => Observed(it, u).rd = it.rd
         /\ it.rd = NoVersion => Observed(it, u).rd = Vers(u)
         /\ it.seen # None => Observed(it, u).seen = it.seen
         /\ it.seen = None => Observed(it, u).seen = rec[u].val
<1> DEFINE y == IF it.seen = None THEN rec[u].val ELSE it.seen
           o == observe(it, Vers(u))
<1>0. Vers(u) \in Version BY VersFacts
<1>1. /\ o \in ItemRec /\ o.rec = it.rec /\ o.wr = it.wr /\ o.ins = it.ins
      /\ o.del = it.del /\ o.val = it.val
      /\ it.rd # NoVersion => o.rd = it.rd
      /\ it.rd = NoVersion => o.rd = Vers(u)
  BY <1>0, ObserveFacts
<1>2. y \in Int BY RecFields, ItemFields
<1>3. Observed(it, u) = [o EXCEPT !.seen = y] BY DEF Observed
<1> HIDE DEF y, o
<1>4. [o EXCEPT !.seen = y] \in ItemRec BY <1>1, <1>2 DEF ItemRec
<1>5. /\ [o EXCEPT !.seen = y].rec = o.rec /\ [o EXCEPT !.seen = y].wr = o.wr /\ [o EXCEPT !.seen = y].ins = o.ins
      /\ [o EXCEPT !.seen = y].del = o.del /\ [o EXCEPT !.seen = y].val = o.val
      /\ [o EXCEPT !.seen = y].seen = y /\ [o EXCEPT !.seen = y].rd = o.rd
  BY <1>1 DEF ItemRec
<1> QED BY <1>1, <1>3, <1>4, <1>5 DEF y

\* A value read from a valid record that is not locked is stamped.
LEMMA ValidIsStamped ==
  ASSUME Lead, NEW t \in Txns, tx[t].cid = 0, NEW u \in Recs, rec[u].lock = 0, rec[u].valid,
         NEW d \in Txns, rec[u].val \in ValuesOf(d)
  PROVE  Precedes(d, t)
<1>1. WriterOf(u, d) BY DEF Lead, RecInv
<1>2. d # 0 BY Numbers
<1> QED BY <1>1, <1>2 DEF WriterOf, Precedes, Stamped

\* A get of record u: the item has a read then, and stays sound.
LEMMA ObserveItems ==
  ASSUME Lead, NEW t \in Txns, tx[t].cid = 0, NEW s, ItemsOK(t, s), NEW u \in Recs, u <= nrec,
         rec[u].lock = 0, NEW i \in DOMAIN s, s[i].rec = u, ~s[i].wr,
         \A j \in DOMAIN s : Full(s[j]) \/ (j = i /\ i = Len(s))
  PROVE  LET new == [s EXCEPT ![i] = Observed(s[i], u)] IN ItemsOK(t, new) /\ AllFull(new)
<1> DEFINE it == s[i]
           new == Observed(it, u)
<1>0. Types /\ u # 0 BY Numbers DEF Lead
<1>1. it \in ItemRec /\ Static(t, it) /\ ReadItem(t, it) /\ it.rec = u /\ ~it.wr
  BY SeqFacts DEF ItemsOK, Sound, SoundItem
<1>2. Vers(u) \in Version /\ Vers(u).valid = rec[u].valid /\ Vers(u) # NoVersion BY <1>0, VersFacts
<1> HIDE DEF it
<1>3. /\ new \in ItemRec /\ new.rec = it.rec /\ new.wr = it.wr /\ new.ins = it.ins
      /\ new.del = it.del /\ new.val = it.val
      /\ it.rd # NoVersion => new.rd = it.rd
      /\ it.rd = NoVersion => new.rd = Vers(u)
      /\ it.seen # None => new.seen = it.seen
      /\ it.seen = None => new.seen = rec[u].val
  BY <1>0, <1>1, ObservedFacts
<1> HIDE DEF new
<1>4. ~it.ins /\ ~it.del BY <1>1 DEF Static
<1>5. new.rd # NoVersion BY <1>2, <1>3
<1>6. Static(t, new) BY <1>0, <1>1, <1>3, <1>4, <1>5 DEF Static
<1>7. ASSUME new.rd.valid, ~Dead(u) PROVE rec[u].valid /\ Good(t, new)
  <2>1. rec[u].valid BY <1>0, <1>1, <1>2, <1>3, <1>7 DEF ReadItem
  <2>2. CASE it.seen = None
    <3>1. new.seen = rec[u].val BY <1>3, <2>2
    <3> QED BY <2>1, <3>1, ValidIsStamped DEF Good
  <2>3. CASE it.seen # None
    <3>1. it.rd # NoVersion BY <1>1, <2>3 DEF Static
    <3>2. Good(t, it) BY <1>0, <1>1, <1>3, <1>7, <3>1 DEF ReadItem
    <3> QED BY <1>3, <2>1, <2>3, <3>2 DEF Good
  <2> QED BY <2>2, <2>3
<1>8. SoundItem(t, new) BY <1>1, <1>3, <1>4, <1>7 DEF SoundItem, ReadItem
<1>9. new.rd = s[i].rd \/ (i = Len(s) /\ new.rd.valid = rec[new.rec].valid)
  BY <1>1, <1>2, <1>3, <1>4 DEF it, Full
<1>10. new.rec = s[i].rec /\ new.ins = s[i].ins BY <1>3 DEF it
<1>11. ItemsOK(t, [s EXCEPT ![i] = new]) /\ AllFull([s EXCEPT ![i] = new])
  BY <1>3, <1>5, <1>6, <1>8, <1>9, <1>10, ReplaceItem DEF Full
<1> QED BY <1>11 DEF new, it

LEMMA ensureNotFoundItems ==
  ASSUME Lead, NEW t \in Txns, NEW s, ItemsOK(t, s), AllFull(s)
  PROVE  ItemsOK(t, ensureNotFound(s)) /\ AllFull(ensureNotFound(s))
<1> DEFINE new == ReadItems(s, 0)
           i == ReadIndex(new, 0)
           it == observe(new[i], LeafVers(leaf))
<1>0. Types /\ s \in Seq(ItemRec) /\ 0 \in 0..nrec BY Numbers DEF Lead, ItemsOK, Types
<1>1. Touched(s, new, i, 0) BY <1>0, ReadItemFacts
<1>2. LeafVers(leaf) \in Version /\ LeafVers(leaf) # NoVersion BY <1>0, LeafFacts DEF Types
<1>3. ensureNotFound(s) = [new EXCEPT ![i] = it] BY DEF ensureNotFound
<1> HIDE DEF new, i
<1>4. /\ ItemsOK(t, new) /\ i \in DOMAIN new /\ new[i].rec = 0 /\ new[i] \in ItemRec
      /\ Static(t, new[i]) /\ SoundItem(t, new[i])
      /\ \A j \in DOMAIN new : Full(new[j]) \/ (j = i /\ i = Len(new) /\ new[i] = NewItem(0))
  BY <1>0, <1>1, TouchedFacts
<1>5. /\ it \in ItemRec /\ it.rec = 0 /\ it.wr = new[i].wr /\ it.ins = new[i].ins
      /\ it.del = new[i].del /\ it.val = new[i].val /\ it.seen = new[i].seen
      /\ new[i].rd # NoVersion => it.rd = new[i].rd
      /\ new[i].rd = NoVersion => it.rd = LeafVers(leaf)
  BY <1>2, <1>4, ObserveFacts
<1> HIDE DEF it
<1>6. Static(t, it) /\ ~it.ins BY <1>4, <1>5 DEF Static
<1>7. SoundItem(t, it) BY <1>5, <1>6 DEF SoundItem, ReadItem
<1>8. Full(it) BY <1>2, <1>5 DEF Full
<1>9. ItemsOK(t, [new EXCEPT ![i] = it]) /\ AllFull([new EXCEPT ![i] = it])
  BY <1>4, <1>5, <1>6, <1>7, <1>8, ReplaceItem
<1> QED BY <1>3, <1>9

LEMMA SearchStep ==
  ASSUME Lead, NEW t \in Txns, Search(t)
  PROVE  Lead'
<1> DEFINE u == tree[Op(t).key]
           found == CASE Op(t).op = "get" -> "get"
                      [] Op(t).op = "remove" -> "delete"
                      [] Op(t).op = "put" -> "found"
                      [] OTHER -> "compare"
<1>1. /\ IsOp(t, {"get", "put", "remove", "mbta"}) /\ UNCHANGED shared
      /\ Becomes(t, IF u # 0 THEN GoTo(t, found, tx[t].items, u)
                    ELSE IF Op(t).op \in {"put", "mbta"} THEN GoTo(t, "insert", tx[t].items, 0)
                    ELSE NextOp(t, ensureNotFound(tx[t].items)))
  BY DEF Search, shared, treeVars, logVars
<1>2. tx[t].pc = "op" /\ HasOp(t) /\ Op(t).op \in {"get", "put", "remove", "mbta"} BY <1>1 DEF IsOp, At
<1>3. Op(t).op \in {"get", "put", "remove"} /\ Op(t).key \in Keys BY <1>2, OpFacts
<1>4. found \in {"get", "delete", "found"} BY <1>3
<1>5. u \in 0..nrec /\ 0 \in 0..nrec BY <1>3, TreeFacts
<1> HIDE DEF u, found
<1>6. tx[t].pc \in Running BY <1>2 DEF Running
<1>7. ItemsOK(t, tx[t].items) /\ AllFull(tx[t].items) /\ tx[t] \in TxRec BY <1>2, <1>6, RunFacts, TxFacts
<1>8. ASSUME NEW pc \in Running \ {"op", "scan", "read", "observe"}, NEW v
      PROVE FullOK(GoTo(t, pc, tx[t].items, v))
  <2> DEFINE r == GoTo(t, pc, tx[t].items, v)
  <2>1. r.pc = pc /\ r.items = tx[t].items BY <1>7 DEF GoTo, TxRec
  <2> HIDE DEF r
  <2>2. FullOK(r) BY <1>7, <2>1 DEF FullOK, AllFull
  <2> QED BY <2>2 DEF r
<1>9. CASE u # 0
  <2>1. found \in Running \ {"op", "scan", "read", "observe"} BY <1>4 DEF Running
  <2>2. Becomes(t, GoTo(t, found, tx[t].items, u)) BY <1>1, <1>9
  <2>3. FullOK(GoTo(t, found, tx[t].items, u)) BY <1>8, <2>1
  <2> QED BY <1>1, <1>2, <1>4, <1>5, <1>6, <1>7, <1>9, <2>1, <2>2, <2>3, GoToStep
<1>10. CASE u = 0 /\ Op(t).op = "put"
  <2>1. "insert" \in Running \ {"op", "scan", "read", "observe"} BY DEF Running
  <2>2. Becomes(t, GoTo(t, "insert", tx[t].items, 0)) BY <1>1, <1>10
  <2>3. FullOK(GoTo(t, "insert", tx[t].items, 0)) BY <1>8, <2>1
  <2> QED BY <1>1, <1>2, <1>5, <1>6, <1>7, <1>10, <2>1, <2>2, <2>3, GoToStep
<1>11. CASE u = 0 /\ Op(t).op # "put"
  <2>1. Becomes(t, NextOp(t, ensureNotFound(tx[t].items))) BY <1>1, <1>3, <1>11
  <2>2. ItemsOK(t, ensureNotFound(tx[t].items)) /\ AllFull(ensureNotFound(tx[t].items))
    BY <1>7, ensureNotFoundItems
  <2> QED BY <1>1, <1>2, <1>6, <2>1, <2>2, NextOpStep
<1> QED BY <1>9, <1>10, <1>11

\* The record in hand.
LEMMA HandFacts ==
  ASSUME Lead, NEW t \in Txns, tx[t].pc \in {"get", "read", "found", "observe", "delete"}
  PROVE  /\ tx[t].e \in Recs /\ tx[t].e <= nrec /\ tx[t].e \in 0..nrec /\ tx[t].e # 0
         /\ HasOp(t) /\ tx[t].pc \in Running
<1>1. ProgOK(tx[t]) /\ tx[t].pc \in Running BY RunFacts DEF Running
<1>2. tx[t].e \in 1..nrec /\ nrec \in 0..MaxRecs /\ MaxRecs \in Nat BY <1>1, Numbers DEF ProgOK, Lead, Types
<1>3. tx[t].e \in Recs /\ tx[t].e <= nrec /\ tx[t].e \in 0..nrec /\ tx[t].e # 0 BY <1>2 DEF Recs
<1> QED BY <1>1, <1>3 DEF ProgOK, HasOp, Running

LEMMA GetStep ==
  ASSUME Lead, NEW t \in Txns, Get(t)
  PROVE  Lead'
<1> DEFINE u == tx[t].e
           items == ReadItems(tx[t].items, u)
           i == ReadIndex(items, u)
           it == items[i]
<1>1. /\ tx[t].pc = "get" /\ UNCHANGED shared
      /\ Becomes(t, IF ~ validityCheck(it, u) THEN Aborting(t)
                    ELSE IF it.del \/ it.wr THEN NextOp(t, items)
                    ELSE GoTo(t, "read", items, u))
  BY DEF Get, At, shared, treeVars, logVars
<1>2. u \in Recs /\ u <= nrec /\ u \in 0..nrec /\ u # 0 /\ HasOp(t) /\ tx[t].pc \in Running
  BY <1>1, HandFacts
<1>3. ItemsOK(t, tx[t].items) /\ AllFull(tx[t].items) /\ tx[t] \in TxRec /\ Types
  BY <1>1, <1>2, RunFacts, TxFacts
<1>4. Touched(tx[t].items, items, i, u)
  <2>1. tx[t].items \in Seq(ItemRec) BY <1>3 DEF ItemsOK
  <2> QED BY <1>2, <1>3, <2>1, ReadItemFacts
<1>4b. i = ReadIndex(items, u) OBVIOUS
<1> HIDE DEF items, i, u
<1>5. /\ ItemsOK(t, items) /\ i \in DOMAIN items /\ it.rec = u /\ it \in ItemRec /\ Static(t, it)
      /\ \A j \in DOMAIN items : Full(items[j]) \/ (j = i /\ i = Len(items) /\ it = NewItem(u))
      /\ Full(it) => AllFull(items)
  BY <1>2, <1>3, <1>4, TouchedFacts
<1> HIDE DEF it
<1>6. CASE ~ validityCheck(it, u) BY <1>1, <1>2, <1>6, AbortingStep
<1>7. CASE validityCheck(it, u) /\ (it.del \/ it.wr)
  <2>1. it # NewItem(u) BY <1>2, <1>3, <1>7, NewItemFacts
  <2>2. AllFull(items) BY <1>5, <2>1 DEF AllFull
  <2>3. Becomes(t, NextOp(t, items)) BY <1>1, <1>7
  <2> QED BY <1>1, <1>2, <1>5, <2>2, <2>3, NextOpStep
<1>8. CASE validityCheck(it, u) /\ ~(it.del \/ it.wr)
  <2> DEFINE r == GoTo(t, "read", items, u)
  <2>1. r.pc = "read" /\ r.items = items /\ r.e = u BY <1>3 DEF GoTo, TxRec
  <2>2. Becomes(t, r) BY <1>1, <1>8
  <2> HIDE DEF r
  <2>3. AtLast(r, i) BY <1>5, <1>8, <2>1 DEF AtLast, it
  <2>4. ReadIndex(r.items, r.e) = i BY <1>4b, <2>1
  <2>5. FullOK(r) BY <2>1, <2>3, <2>4 DEF FullOK
  <2>6. "read" \in Running \ {"op", "scan"} BY DEF Running
  <2> QED BY <1>1, <1>2, <1>5, <2>2, <2>5, <2>6, GoToStep DEF r
<1> QED BY <1>6, <1>7, <1>8

LEMMA atomicReadStep ==
  ASSUME Lead, NEW t \in Txns, atomicRead(t)
  PROVE  Lead'
<1> DEFINE u == tx[t].e
           items == tx[t].items
           i == ReadIndex(items, u)
           new == [items EXCEPT ![i] = Observed(items[i], u)]
<1>1. /\ tx[t].pc = "read" /\ UNCHANGED shared
      /\ Becomes(t, IF rec[u].lock # 0 THEN Aborting(t) ELSE NextOp(t, new))
  BY DEF atomicRead, At, shared, treeVars, logVars
<1>2. u \in Recs /\ u <= nrec /\ HasOp(t) /\ tx[t].pc \in Running
  BY <1>1, HandFacts
<1>3. ItemsOK(t, items) /\ tx[t].cid = 0 BY <1>2, RunFacts
<1>4. AtLast(tx[t], i) BY <1>1, TxFacts DEF TxOK, FullOK
<1>5. /\ i \in DOMAIN items /\ items[i].rec = u /\ ~items[i].wr
      /\ \A j \in DOMAIN items : Full(items[j]) \/ (j = i /\ i = Len(items))
  BY <1>4 DEF AtLast
<1> HIDE DEF i, u
<1>6. CASE rec[u].lock # 0 BY <1>1, <1>2, <1>6, AbortingStep
<1>7. CASE rec[u].lock = 0
  <2>1. ItemsOK(t, new) /\ AllFull(new) BY <1>2, <1>3, <1>5, <1>7, ObserveItems
  <2>2. Becomes(t, NextOp(t, new)) BY <1>1, <1>7
  <2> HIDE DEF new
  <2> QED BY <1>1, <1>2, <2>1, <2>2, NextOpStep
<1> QED BY <1>6, <1>7

LEMMA ScanStep ==
  ASSUME Lead, NEW t \in Txns, Scan(t)
  PROVE  Lead'
<1> DEFINE S == {tree[k] : k \in Keys} \ {0}
           here == SetToSeq(S)
           items == ensureNotFound(tx[t].items)
           r == [GoTo(t, "scan", items, 0) EXCEPT !.todo = here]
<1>1. IsOp(t, {"scan"}) /\ UNCHANGED shared /\ Becomes(t, r)
  BY DEF Scan, shared, treeVars, logVars
<1>2. tx[t].pc = "op" /\ HasOp(t) /\ tx[t].pc \in Running BY <1>1 DEF IsOp, At, Running
<1>3. ItemsOK(t, tx[t].items) /\ AllFull(tx[t].items) /\ tx[t] \in TxRec /\ ProgOK(tx[t])
  BY <1>2, RunFacts, TxFacts
<1>4. ItemsOK(t, items) /\ AllFull(items) BY <1>3, ensureNotFoundItems
<1>5. here \in Seq(Recs) /\ \A i \in DOMAIN here : here[i] <= nrec
  <2>1. \A x \in S : x \in Recs /\ x <= nrec
    <3>1. ASSUME NEW k \in Keys, tree[k] # 0 PROVE tree[k] \in Recs /\ tree[k] <= nrec
      <4>1. tree[k] \in 0..nrec /\ tree[k] \in 0..MaxRecs /\ nrec \in Nat BY TreeFacts DEF Lead, Types
      <4> QED BY <3>1, <4>1, Numbers
    <3> QED BY <3>1
  <2>2. IsFiniteSet(S)
    <3>1. IsFiniteSet(Recs) BY Numbers, FS_Interval DEF Recs
    <3>2. S \subseteq Recs BY <2>1
    <3> QED BY <3>1, <3>2, FS_Subset
  <2> HIDE DEF S
  <2>3. Cardinality(S) \in Nat /\ here \in [1..Cardinality(S) -> S] BY <2>2, Listing
  <2> HIDE DEF here
  <2>4. here \in Seq(S) /\ DOMAIN here = 1..Cardinality(S) BY <2>3
  <2>5. here \in Seq(Recs) BY <2>1, <2>4
  <2> QED BY <2>1, <2>3, <2>4, <2>5
<1> HIDE DEF here, items
<1>6. GoTo(t, "scan", items, 0) \in TxRec
  <2>1. "scan" \in Pcs /\ 0 \in 0..MaxRecs /\ items \in Seq(ItemRec)
    BY <1>4, Numbers DEF Pcs, Active, Running, ItemsOK
  <2> QED BY <1>3, <2>1 DEF GoTo, TxRec
<1>7. r \in TxRec BY <1>5, <1>6 DEF TxRec
<1>8. /\ r.pc = "scan" /\ r.ip = tx[t].ip /\ r.items = items /\ r.cid = tx[t].cid
      /\ r.locked = tx[t].locked /\ r.prog = tx[t].prog /\ r.todo = here
  BY <1>3 DEF GoTo, TxRec
<1> HIDE DEF r
<1>9. ProgOK(r) BY <1>2, <1>3, <1>5, <1>8 DEF ProgOK, HasOp
<1>10. FullOK(r) BY <1>4, <1>8 DEF FullOK, AllFull
<1>11. r.pc \in Running BY <1>8 DEF Running
<1> QED BY <1>1, <1>2, <1>4, <1>7, <1>8, <1>9, <1>10, <1>11, RunStep

\* One record less to scan.
LEMMA AfterStep ==
  ASSUME Lead, NEW t \in Txns, tx[t].pc = "scan", tx[t].todo # << >>, NEW new, ItemsOK(t, new), AllFull(new),
         UNCHANGED shared, Becomes(t, [tx[t] EXCEPT !.todo = Tail(tx[t].todo), !.items = new])
  PROVE  Lead'
<1> DEFINE r == [tx[t] EXCEPT !.todo = Tail(tx[t].todo), !.items = new]
<1>1. tx[t].pc \in Running BY DEF Running
<1>2. tx[t] \in TxRec /\ ProgOK(tx[t]) BY <1>1, RunFacts, TxFacts
<1>3. tx[t].todo \in Seq(Recs) /\ \A i \in DOMAIN tx[t].todo : tx[t].todo[i] <= nrec
  BY <1>2, TxFields DEF ProgOK
<1>4. Tail(tx[t].todo) \in Seq(Recs) BY <1>3
<1>5. ASSUME NEW i \in DOMAIN Tail(tx[t].todo) PROVE Tail(tx[t].todo)[i] <= nrec
  <2>1. i + 1 \in DOMAIN tx[t].todo /\ Tail(tx[t].todo)[i] = tx[t].todo[i + 1] BY <1>3
  <2> QED BY <1>3, <2>1
<1>6. r \in TxRec BY <1>2, <1>4 DEF TxRec, ItemsOK
<1>7. /\ r.pc = "scan" /\ r.ip = tx[t].ip /\ r.items = new /\ r.cid = tx[t].cid
      /\ r.locked = tx[t].locked /\ r.prog = tx[t].prog /\ r.todo = Tail(tx[t].todo)
  BY <1>2 DEF TxRec
<1>8. Becomes(t, r) OBVIOUS
<1> HIDE DEF r
<1>9. ProgOK(r) BY <1>2, <1>5, <1>7 DEF ProgOK
<1>10. FullOK(r) BY <1>7 DEF FullOK, AllFull
<1>11. r.pc \in Running BY <1>7 DEF Running
<1> QED BY <1>1, <1>6, <1>7, <1>8, <1>9, <1>10, <1>11, RunStep

LEMMA ScanValueStep ==
  ASSUME Lead, NEW t \in Txns, ScanValue(t)
  PROVE  Lead'
<1> DEFINE u == Head(tx[t].todo)
           items == ReadItems(tx[t].items, u)
           i == ReadIndex(items, u)
           it == items[i]
           After(new) == [tx[t] EXCEPT !.todo = Tail(tx[t].todo), !.items = new]
           new == [items EXCEPT ![i] = Observed(it, u)]
<1>1. /\ tx[t].pc = "scan" /\ tx[t].todo # << >> /\ UNCHANGED shared
      /\ Becomes(t, IF it.del \/ it.wr THEN After(items)
                    ELSE IF rec[u].lock # 0 THEN Aborting(t)
                    ELSE After(new))
  BY DEF ScanValue, At, shared, treeVars, logVars
<1>2. tx[t].pc \in Running BY <1>1 DEF Running
<1>3. /\ ItemsOK(t, tx[t].items) /\ AllFull(tx[t].items) /\ tx[t] \in TxRec /\ Types
      /\ ProgOK(tx[t]) /\ tx[t].cid = 0
  BY <1>1, <1>2, RunFacts, TxFacts
<1>4. u \in Recs /\ u <= nrec /\ u \in 0..nrec /\ u # 0
  <2>1. tx[t].todo \in Seq(Recs) /\ \A j \in DOMAIN tx[t].todo : tx[t].todo[j] <= nrec
    BY <1>3, TxFields DEF ProgOK
  <2>2. 1 \in DOMAIN tx[t].todo /\ u = tx[t].todo[1] /\ u \in Recs BY <1>1, <2>1
  <2>3. u <= nrec BY <2>1, <2>2
  <2>4. u \in Nat /\ u # 0 /\ nrec \in Nat BY <1>3, <2>2, Numbers DEF Types
  <2> QED BY <2>2, <2>3, <2>4
<1>5. Touched(tx[t].items, items, i, u)
  <2>1. tx[t].items \in Seq(ItemRec) BY <1>3 DEF ItemsOK
  <2> QED BY <1>3, <1>4, <2>1, ReadItemFacts
<1> HIDE DEF items, i, u
<1>6. /\ ItemsOK(t, items) /\ i \in DOMAIN items /\ it.rec = u /\ it \in ItemRec /\ Static(t, it)
      /\ \A j \in DOMAIN items : Full(items[j]) \/ (j = i /\ i = Len(items) /\ it = NewItem(u))
  BY <1>3, <1>4, <1>5, TouchedFacts
<1>7. CASE it.del \/ it.wr
  <2>1. it # NewItem(u) BY <1>3, <1>4, <1>7, NewItemFacts
  <2>2. AllFull(items) BY <1>6, <2>1 DEF AllFull
  <2>3. Becomes(t, After(items)) BY <1>1, <1>7
  <2> QED BY <1>1, <1>6, <2>2, <2>3, AfterStep
<1>8. CASE ~(it.del \/ it.wr) /\ rec[u].lock # 0
  <2>1. Becomes(t, Aborting(t)) BY <1>1, <1>8
  <2> QED BY <1>1, <1>2, <2>1, AbortingStep
<1>9. CASE ~(it.del \/ it.wr) /\ rec[u].lock = 0
  <2>1. ItemsOK(t, new) /\ AllFull(new) BY <1>3, <1>4, <1>6, <1>9, ObserveItems
  <2>2. Becomes(t, After(new)) BY <1>1, <1>9
  <2> HIDE DEF new
  <2> QED BY <1>1, <2>1, <2>2, AfterStep
<1> QED BY <1>7, <1>8, <1>9

LEMMA ScanDoneStep ==
  ASSUME Lead, NEW t \in Txns, ScanDone(t)
  PROVE  Lead'
<1>1. tx[t].pc = "scan" /\ UNCHANGED shared /\ Becomes(t, NextOp(t, tx[t].items))
  BY DEF ScanDone, At, shared, treeVars, logVars
<1>2. tx[t].pc \in Running BY <1>1 DEF Running
<1>3. ItemsOK(t, tx[t].items) /\ AllFull(tx[t].items) /\ ProgOK(tx[t]) BY <1>1, <1>2, RunFacts
<1>4. HasOp(t) BY <1>1, <1>2, <1>3 DEF ProgOK, HasOp
<1> QED BY <1>1, <1>2, <1>3, <1>4, NextOpStep

LEMMA InsertFoundStep ==
  ASSUME Lead, NEW t \in Txns, InsertFound(t)
  PROVE  Lead'
<1> DEFINE u == tree[Op(t).key]
           r == GoTo(t, "found", tx[t].items, u)
<1>1. /\ IsOp(t, {"insert"}) \/ At(t, "insert")
      /\ u # 0 /\ UNCHANGED shared
      /\ Becomes(t, IF Op(t).op = "mbta" /\ ~ Newer(t, u) THEN NextOp(t, tx[t].items) ELSE r)
  BY DEF InsertFound, shared, treeVars, logVars
<1>2. tx[t].pc \in {"op", "insert"} /\ tx[t].pc \in Running BY <1>1 DEF IsOp, At, Running
<1>3. ItemsOK(t, tx[t].items) /\ AllFull(tx[t].items) /\ tx[t] \in TxRec /\ ProgOK(tx[t])
  BY <1>2, RunFacts, TxFacts
<1>4. HasOp(t) /\ (Op(t).op = "insert" \/ Op(t).op = "put")
  BY <1>1, <1>2, <1>3 DEF IsOp, At, ProgOK, HasOp, Op
<1>5. u \in 0..nrec BY <1>4, OpFacts, TreeFacts
<1>6. r.pc = "found" /\ r.items = tx[t].items BY <1>3 DEF GoTo, TxRec
<1>7. Becomes(t, r) BY <1>1, <1>4
<1> HIDE DEF u
<1>8. FullOK(r)
  <2> HIDE DEF r
  <2> QED BY <1>3, <1>6 DEF FullOK, AllFull
<1>9. "found" \in Running \ {"op", "scan"} BY DEF Running
<1> QED BY <1>1, <1>2, <1>3, <1>4, <1>5, <1>7, <1>8, <1>9, GoToStep

LEMMA DeleteStep ==
  ASSUME Lead, NEW t \in Txns, Delete(t)
  PROVE  Lead'
<1> DEFINE u == tx[t].e
           items == WithItem(tx[t].items, u)
           i == find_item(items, u)
           it == items[i]
           rd == IF it.ins \/ it.rd # NoVersion THEN it.rd ELSE Vers(u)
           gone == [it EXCEPT !.wr = TRUE, !.del = TRUE, !.rd = rd]
           new == [items EXCEPT ![i] = gone]
<1>1. /\ tx[t].pc = "delete" /\ UNCHANGED shared
      /\ Becomes(t, IF ~ validityCheck(it, u) THEN Aborting(t)
                    ELSE IF it.del THEN NextOp(t, items)
                    ELSE IF rec[u].lock # 0 THEN Aborting(t)
                    ELSE NextOp(t, new))
  BY DEF Delete, At, shared, treeVars, logVars
<1>2. u \in Recs /\ u <= nrec /\ u \in 0..nrec /\ u # 0 /\ HasOp(t) /\ tx[t].pc \in Running
  BY <1>1, HandFacts
<1>3. ItemsOK(t, tx[t].items) /\ AllFull(tx[t].items) /\ tx[t] \in TxRec /\ Types
  BY <1>1, <1>2, RunFacts, TxFacts
<1>4. Touched(tx[t].items, items, i, u)
  <2>1. tx[t].items \in Seq(ItemRec) BY <1>3 DEF ItemsOK
  <2> QED BY <1>2, <1>3, <2>1, WithItemFacts
<1> HIDE DEF items, i, u
<1>5. /\ ItemsOK(t, items) /\ i \in DOMAIN items /\ it.rec = u /\ it \in ItemRec /\ Static(t, it)
      /\ \A j \in DOMAIN items : Full(items[j]) \/ (j = i /\ i = Len(items) /\ it = NewItem(u))
      /\ SoundItem(t, it)
  BY <1>2, <1>3, <1>4, TouchedFacts
<1>6. CASE ~ validityCheck(it, u)
  <2>1. Becomes(t, Aborting(t)) BY <1>1, <1>6
  <2> QED BY <1>1, <1>2, <2>1, AbortingStep
<1>7. CASE validityCheck(it, u) /\ it.del
  <2>1. it # NewItem(u) BY <1>2, <1>3, <1>7, NewItemFacts
  <2>2. AllFull(items) BY <1>5, <2>1 DEF AllFull
  <2>3. Becomes(t, NextOp(t, items)) BY <1>1, <1>7
  <2> QED BY <1>1, <1>2, <1>5, <2>2, <2>3, NextOpStep
<1>8. CASE validityCheck(it, u) /\ ~it.del /\ rec[u].lock # 0
  <2>1. Becomes(t, Aborting(t)) BY <1>1, <1>8
  <2> QED BY <1>1, <1>2, <2>1, AbortingStep
<1>9. CASE validityCheck(it, u) /\ ~it.del /\ rec[u].lock = 0
  <2>1. Becomes(t, NextOp(t, new)) BY <1>1, <1>9
  <2>2. Vers(u) \in Version /\ Vers(u).valid = rec[u].valid /\ Vers(u) # NoVersion BY <1>2, <1>3, VersFacts
  <2>3. rd \in Version BY <1>5, <2>2, ItemFields
  <2>3b. /\ it.ins => rd = it.rd
         /\ it.rd # NoVersion => rd = it.rd
         /\ ~it.ins /\ it.rd = NoVersion => rd = Vers(u)
    OBVIOUS
  <2> HIDE DEF rd, it
  <2>4. gone \in ItemRec BY <1>5, <2>3 DEF ItemRec
  <2>5. /\ gone.rec = u /\ gone.wr /\ gone.del /\ gone.rd = rd /\ gone.ins = it.ins /\ gone.seen = it.seen
    BY <1>5 DEF ItemRec
  <2> HIDE DEF gone
  <2>6. Static(t, gone) BY <1>2, <1>5, <2>2, <2>3b, <2>5 DEF Static
  <2>7. Full(gone) BY <2>2, <2>3b, <2>5 DEF Full
  <2>8. SoundItem(t, gone)
    <3>1. CASE it.ins \/ it.rd # NoVersion
      <4>1. Good(t, it) => Good(t, gone) BY <2>5 DEF Good
      <4> QED BY <1>5, <2>3b, <2>5, <3>1, <4>1 DEF SoundItem, ReadItem
    <3>2. CASE ~it.ins /\ it.rd = NoVersion
      <4>1. gone.seen = None BY <1>5, <2>5, <3>2 DEF Static
      <4>2. Good(t, gone) BY <4>1, ValueFacts DEF Good
      <4> QED BY <2>2, <2>3b, <2>5, <3>2, <4>2 DEF SoundItem, ReadItem
    <3> QED BY <3>1, <3>2
  <2>9. \/ gone.rd = it.rd
        \/ i = Len(items) /\ gone.rd.valid = rec[gone.rec].valid
    <3>1. CASE it.ins \/ it.rd # NoVersion BY <2>3b, <2>5, <3>1
    <3>2. CASE ~it.ins /\ it.rd = NoVersion
      <4>1. ~Full(it) BY <3>2 DEF Full
      <4>2. i = Len(items) BY <1>5, <4>1 DEF it
      <4> QED BY <2>2, <2>3b, <2>5, <3>2, <4>2
    <3> QED BY <3>1, <3>2
  <2>10. ItemsOK(t, new) /\ AllFull(new)
    BY <1>5, <2>4, <2>5, <2>6, <2>7, <2>8, <2>9, ReplaceItem DEF it
  <2> HIDE DEF new
  <2> QED BY <1>1, <1>2, <2>1, <2>10, NextOpStep
<1> QED BY <1>6, <1>7, <1>8, <1>9

\* An operation that changes a record of the transaction's own.
LEMMA OwnStep ==
  ASSUME Lead, NEW t \in Txns, tx[t].pc \in Running, HasOp(t), NEW items \in Seq(ItemRec), AllFull(items),
         Becomes(t, NextOp(t, items)), Frame(t), Types', TreeInv', RecInv', eff' = eff, clock' = clock,
         \A u \in Recs : rec'[u].lock = rec[u].lock,
         \A i \in DOMAIN items : Static(t, items[i])', Sound(t, items)'
  PROVE  Lead'
<1>0. PICK r : r = NextOp(t, items) OBVIOUS
<1>1. tx[t] \in TxRec /\ ProgOK(tx[t]) /\ tx[t].cid = 0 /\ tx[t].pc \notin Past /\ LockOK(t, tx[t]) /\ Types
  BY TxFacts, RunFacts
<1>2. tx[t].ip \in Nat /\ tx[t].todo \in Seq(Recs) BY <1>1, TxFields
<1>3. /\ r.pc = "op" /\ r.ip = tx[t].ip + 1 /\ r.items = items /\ r.cid = 0
      /\ r.locked = tx[t].locked /\ r.prog = tx[t].prog /\ r.todo = tx[t].todo
  BY <1>0, <1>1 DEF NextOp, TxRec
<1>4. tx'[t] = r BY <1>0, <1>1 DEF Becomes, Types
<1> HIDE <1>0
<1>5. ProgOK(r)'
  <2>1. Len(tx[t].prog) \in 1..MaxOps /\ tx[t].ip \in 1..Len(tx[t].prog)
    BY <1>1, <1>2 DEF ProgOK, HasOp, MaxOps
  <2>2. tx[t].ip + 1 \in 1..(Len(tx[t].prog) + 1) BY <2>1 DEF MaxOps
  <2>3. ASSUME NEW i \in DOMAIN tx[t].todo PROVE tx[t].todo[i] <= nrec'
    <3>1. tx[t].todo[i] \in Nat BY <1>2, Numbers
    <3>2. tx[t].todo[i] <= nrec /\ nrec <= nrec' BY <1>1 DEF ProgOK, Frame
    <3>3. nrec \in Nat /\ nrec' \in Nat BY <1>1, Numbers DEF Types
    <3> QED BY ONLY <3>1, <3>2, <3>3
  <2> QED BY <1>3, <2>1, <2>2, <2>3 DEF ProgOK, Running
<1>6. FullOK(r)' BY <1>3 DEF FullOK, AllFull, Full
<1>7. CidOK(r)'
  <2>1. clock \in Nat BY <1>1 DEF Types
  <2> QED BY <1>3, <2>1 DEF CidOK
<1>8. LockOK(t, r)' BY <1>1, <1>3 DEF LockOK
<1>9. TxOK(t, r)'
  BY <1>3, <1>5, <1>6, <1>7, <1>8 DEF TxOK, Past, LockPhase, CheckPhase, InstallPhase
<1>10. EffInv' /\ PairInv' BY <1>1, EffFrame
<1> QED BY <1>4, <1>9, <1>10, OneStep

LEMMA WrittenItem ==
  ASSUME Lead, NEW t \in Txns, HasOp(t), NEW it \in ItemRec, Static(t, it), SoundItem(t, it), Full(it),
         it.rec # 0
  PROVE  /\ Written(t, it) \in ItemRec /\ Static(t, Written(t, it)) /\ SoundItem(t, Written(t, it))
         /\ Full(Written(t, it)) /\ Written(t, it).rec = it.rec /\ Written(t, it).ins = it.ins
         /\ Written(t, it).rd = it.rd
<1> DEFINE w == Written(t, it)
           v == ValueOf(t)
<1>1. v \in Int /\ v \in ValuesOf(t) BY OpFacts
<1>2. w = [it EXCEPT !.wr = TRUE, !.del = FALSE, !.val = v] BY DEF Written
<1> HIDE DEF v, w
<1>3. w \in ItemRec BY <1>1, <1>2 DEF ItemRec
<1>4. w.wr /\ ~w.del /\ w.val = v /\ w.rec = it.rec /\ w.ins = it.ins /\ w.rd = it.rd /\ w.seen = it.seen
  BY <1>2 DEF ItemRec
<1>5. Static(t, w) BY <1>1, <1>4 DEF Static
<1>6. Good(t, it) => Good(t, w) BY <1>4 DEF Good
<1>7. SoundItem(t, w) BY <1>4, <1>6 DEF SoundItem, ReadItem
<1>8. Full(w) BY <1>4 DEF Full
<1> QED BY <1>3, <1>4, <1>5, <1>7, <1>8 DEF w

LEMMA PutStep ==
  ASSUME Lead, NEW t \in Txns, tx[t].pc \in Running, HasOp(t), NEW items, ItemsOK(t, items), AllFull(items),
         NEW u \in Recs, u <= nrec, NEW i \in DOMAIN items, items[i].rec = u,
         reallyHandlePutFound(t, items, i, u), UNCHANGED <<tree, leaf, nrec, clock, eff>>
  PROVE  Lead'
<1> DEFINE w == Written(t, items[i])
           v == ValueOf(t)
<1>n. PICK new : new = [items EXCEPT ![i] = w] OBVIOUS
<1>0. /\ Types /\ TreeInv /\ RecInv /\ tx[t] \in TxRec /\ tx[t].cid = 0 BY TxFacts, RunFacts DEF Lead
<1>1. /\ Becomes(t, NextOp(t, new))
      /\ rec' = IF items[i].ins THEN [rec EXCEPT ![u] = [rec[u] EXCEPT !.val = v]] ELSE rec
  BY <1>n DEF reallyHandlePutFound
<1>2. items[i] \in ItemRec /\ Static(t, items[i]) /\ SoundItem(t, items[i]) /\ Full(items[i]) /\ items[i].rec # 0
  BY SeqFacts, Numbers DEF ItemsOK, Sound, AllFull
<1>3. w \in ItemRec /\ Static(t, w) /\ SoundItem(t, w) /\ Full(w) /\ w.rec = u /\ w.ins = items[i].ins /\ w.rd = items[i].rd
  BY <1>2, WrittenItem
<1> HIDE DEF w
<1>4. ItemsOK(t, new) /\ AllFull(new)
  <2>1. \A j \in DOMAIN items : Full(items[j]) BY DEF AllFull
  <2> QED BY <1>n, <1>3, <2>1, ReplaceItem
<1> HIDE <1>n
<1>5. CASE ~items[i].ins
  <2>1. UNCHANGED shared BY <1>1, <1>5 DEF shared
  <2> QED BY <1>1, <1>4, <2>1, NextOpStep
<1>6. CASE items[i].ins
  <2>1. Pending(t, u) BY <1>2, <1>6 DEF SoundItem
  <2>2. v \in Int /\ v \in ValuesOf(t) BY OpFacts
  <2> HIDE DEF v
  <2>3. rec[u] \in Record BY <1>0, RecFields
  <2> DEFINE q == [rec[u] EXCEPT !.val = v]
  <2>4. /\ q \in Record /\ q.val = v /\ q.key = rec[u].key /\ q.valid = rec[u].valid
        /\ q.lock = rec[u].lock
    BY <2>2, <2>3 DEF Record
  <2>5. rec' = [rec EXCEPT ![u] = q] BY <1>1, <1>6
  <2> HIDE DEF q
  <2>6. /\ rec' \in [Recs -> Record] /\ rec'[u] = q /\ \A x \in Recs : x # u => rec'[x] = rec[x]
    BY <1>0, <2>4, <2>5 DEF Types
  <2>7. \A x \in Recs : rec'[x].key = rec[x].key /\ rec'[x].valid = rec[x].valid /\ rec'[x].lock = rec[x].lock
    BY <2>4, <2>6
  <2>8. \A x \in Recs : (Linked(x)' <=> Linked(x)) /\ (Dead(x)' <=> Dead(x)) BY <2>7 DEF Linked, Dead
  <2>9. ASSUME NEW s \in Txns, NEW x \in Recs, Pending(s, x) PROVE Pending(s, x)'
    <3>1. CASE x # u BY <2>6, <2>7, <2>8, <2>9, <3>1 DEF Pending
    <3>2. CASE x = u
      <4>1. s = t BY <2>1, <2>9, <3>2, ValueFacts DEF Pending
      <4> QED BY <2>2, <2>4, <2>6, <2>7, <2>8, <2>9, <3>2, <4>1 DEF Pending
    <3> QED BY <3>1, <3>2
  <2>10. NextOp(t, new) \in TxRec /\ NextOp(t, new).cid = 0
    <3>1. tx[t].ip \in Nat /\ tx[t].ip + 1 \in Nat /\ 0 \in 0..MaxRecs /\ "op" \in Pcs
      BY <1>0, TxFields, Numbers DEF Pcs, Active, Running
    <3> QED BY <1>0, <1>4, <3>1 DEF NextOp, TxRec, ItemsOK
  <2>11. tx' \in [Txns -> TxRec] /\ (\A s \in Txns \ {t} : tx'[s] = tx[s]) /\ tx'[t] = NextOp(t, new)
    BY <1>0, <1>1, <2>10 DEF Types, Becomes
  <2>12. Types' BY <1>0, <2>6, <2>11 DEF Types
  <2>13. TreeInv'
    <3>1. ASSUME NEW k \in Keys, tree[k] # 0 PROVE tree[k] \in 1..nrec /\ rec'[tree[k]].key = k
      <4>1. tree[k] \in 0..MaxRecs /\ tree[k] \in 1..nrec /\ rec[tree[k]].key = k
        BY <1>0, <3>1 DEF TreeInv, Types
      <4>2. tree[k] \in Recs BY <3>1, <4>1, Numbers
      <4> QED BY <2>7, <4>1, <4>2
    <3>2. ASSUME NEW x \in Recs, x <= nrec PROVE rec'[x].key \in Keys /\ (rec'[x].valid => Linked(x)')
      <4>1. rec[x].key \in Keys /\ (rec[x].valid => Linked(x)) BY <1>0, <3>2 DEF TreeInv
      <4> QED BY <2>7, <2>8, <4>1
    <3>3. ASSUME NEW x \in Recs, x > nrec PROVE ~rec'[x].valid /\ rec'[x].lock = 0
      <4>1. ~rec[x].valid /\ rec[x].lock = 0 BY <1>0, <3>3 DEF TreeInv
      <4> QED BY <2>7, <4>1
    <3> QED BY <3>1, <3>2, <3>3 DEF TreeInv
  <2>14. \A s \in Txns : tx'[s].cid = tx[s].cid BY <1>0, <2>10, <2>11
  <2>15. RecInv'
    <3>1. ASSUME NEW x \in Recs, NEW d \in Txns, rec'[x].valid, rec'[x].val \in ValuesOf(d)
          PROVE  WriterOf(x, d)'
      <4>1. x # u BY <2>1, <2>7, <3>1 DEF Pending
      <4>2. WriterOf(x, d) BY <1>0, <2>6, <3>1, <4>1 DEF RecInv
      <4>3. CASE d = t BY <1>0, <2>14, <4>2, <4>3 DEF WriterOf, Stamped, Running
      <4>4. CASE d # t BY <2>7, <2>11, <4>2, <4>4 DEF WriterOf, Stamped
      <4> QED BY <4>3, <4>4
    <3> QED BY <3>1 DEF RecInv
  <2>16. Frame(t)
    <3>1. \A d, s \in Txns : Precedes(d, s)' <=> Precedes(d, s) BY <2>14 DEF Precedes, Stamped
    <3>2. nrec <= nrec' /\ clock <= clock' BY <1>0, Numbers DEF Types
    <3> QED BY <2>7, <2>8, <2>9, <2>11, <3>1, <3>2 DEF Frame
  <2>17. (\A j \in DOMAIN new : Static(t, new[j])) /\ new \in Seq(ItemRec) /\ Sound(t, new) BY <1>4 DEF ItemsOK
  <2>18. \A j \in DOMAIN new : Static(t, new[j])' BY <1>0, <2>12, <2>16, <2>17, FrameItem, SeqFacts
  <2>19. Sound(t, new)' BY <1>0, <2>9, <2>12, <2>16, <2>17, FrameSound
  <2> QED BY <1>1, <1>4, <2>7, <2>12, <2>13, <2>15, <2>16, <2>17, <2>18, <2>19, OwnStep
<1> QED BY <1>5, <1>6

\* transInsert() leaves a record that is there alone.
LEMMA SetOrKeepStep ==
  ASSUME Lead, NEW t \in Txns, tx[t].pc \in Running, HasOp(t), NEW items, ItemsOK(t, items), AllFull(items),
         NEW u \in Recs, u <= nrec, NEW i \in DOMAIN items, items[i].rec = u,
         SetOrKeep(t, items, i, u), UNCHANGED <<tree, leaf, nrec, clock, eff>>
  PROVE  Lead'
<1>1. CASE Op(t).op = "insert"
  <2>1. Becomes(t, NextOp(t, items)) /\ UNCHANGED rec BY <1>1 DEF SetOrKeep
  <2>2. UNCHANGED shared BY <2>1 DEF shared
  <2> QED BY <2>1, <2>2, NextOpStep
<1>2. CASE Op(t).op # "insert"
  <2>1. reallyHandlePutFound(t, items, i, u) BY <1>2 DEF SetOrKeep
  <2> QED BY <2>1, PutStep
<1> QED BY <1>1, <1>2

LEMMA handlePutFoundStep ==
  ASSUME Lead, NEW t \in Txns, handlePutFound(t)
  PROVE  Lead'
<1> DEFINE u == tx[t].e
           items == WithItem(tx[t].items, u)
           i == find_item(items, u)
           it == items[i]
<1>1. /\ tx[t].pc = "found" /\ UNCHANGED <<tree, leaf, nrec, clock, eff>>
      /\ IF ~ validityCheck(it, u) THEN Becomes(t, Aborting(t)) /\ UNCHANGED rec
         ELSE IF it.del THEN reallyHandlePutFound(t, items, i, u)
         ELSE IF it.rd # NoVersion \/ it.ins THEN SetOrKeep(t, items, i, u)
         ELSE Becomes(t, GoTo(t, "observe", items, u)) /\ UNCHANGED rec
  BY DEF handlePutFound, At, treeVars, logVars
<1>2. u \in Recs /\ u <= nrec /\ u \in 0..nrec /\ u # 0 /\ HasOp(t) /\ tx[t].pc \in Running
  BY <1>1, HandFacts
<1>3. ItemsOK(t, tx[t].items) /\ AllFull(tx[t].items) /\ tx[t] \in TxRec /\ Types
  BY <1>1, <1>2, RunFacts, TxFacts
<1>4. Touched(tx[t].items, items, i, u)
  <2>1. tx[t].items \in Seq(ItemRec) BY <1>3 DEF ItemsOK
  <2> QED BY <1>2, <1>3, <2>1, WithItemFacts
<1>4b. i = find_item(items, u) OBVIOUS
<1> HIDE DEF items, i, u
<1>5. /\ ItemsOK(t, items) /\ i \in DOMAIN items /\ it.rec = u /\ it \in ItemRec
      /\ \A j \in DOMAIN items : Full(items[j]) \/ (j = i /\ i = Len(items) /\ it = NewItem(u))
      /\ Full(it) => AllFull(items)
  BY <1>2, <1>3, <1>4, TouchedFacts
<1>6. CASE ~ validityCheck(it, u)
  <2>1. Becomes(t, Aborting(t)) /\ UNCHANGED shared BY <1>1, <1>6 DEF shared
  <2> QED BY <1>2, <2>1, AbortingStep
<1>7. CASE validityCheck(it, u) /\ it.del
  <2>1. it # NewItem(u) BY <1>2, <1>3, <1>7, NewItemFacts
  <2>2. AllFull(items) BY <1>5, <2>1 DEF AllFull
  <2>3. reallyHandlePutFound(t, items, i, u) BY <1>1, <1>7
  <2> QED BY <1>1, <1>2, <1>5, <2>2, <2>3, PutStep
<1>8. CASE validityCheck(it, u) /\ ~it.del /\ Full(it)
  <2>1. SetOrKeep(t, items, i, u) BY <1>1, <1>8 DEF Full
  <2> QED BY <1>1, <1>2, <1>5, <1>8, <2>1, SetOrKeepStep
<1>9. CASE validityCheck(it, u) /\ ~it.del /\ ~Full(it)
  <2> DEFINE r == GoTo(t, "observe", items, u)
  <2>1. Becomes(t, r) /\ UNCHANGED shared BY <1>1, <1>9 DEF Full, shared
  <2>2. r.pc = "observe" /\ r.items = items /\ r.e = u BY <1>3 DEF GoTo, TxRec
  <2> HIDE DEF r
  <2>3. it = NewItem(u) /\ i = Len(items) BY <1>5, <1>9
  <2>4. ~it.wr BY <1>2, <1>3, <2>3, NewItemFacts
  <2>5. AtLast(r, i) BY <1>5, <2>2, <2>4 DEF AtLast
  <2>6. find_item(r.items, r.e) = i BY <1>4b, <2>2
  <2>7. FullOK(r) BY <2>2, <2>3, <2>5, <2>6 DEF FullOK
  <2>8. "observe" \in Running \ {"op", "scan"} BY DEF Running
  <2> QED BY <1>1, <1>2, <1>5, <2>1, <2>7, <2>8, GoToStep DEF r
<1> QED BY <1>6, <1>7, <1>8, <1>9

LEMMA PutObserveStep ==
  ASSUME Lead, NEW t \in Txns, PutObserve(t)
  PROVE  Lead'
<1> DEFINE u == tx[t].e
           items == tx[t].items
           i == find_item(items, u)
           it == observe(items[i], Vers(u))
           new == [items EXCEPT ![i] = it]
<1>1. /\ tx[t].pc = "observe" /\ UNCHANGED <<tree, leaf, nrec, clock, eff>>
      /\ IF rec[u].lock # 0 THEN Becomes(t, Aborting(t)) /\ UNCHANGED rec
         ELSE SetOrKeep(t, new, i, u)
  BY DEF PutObserve, At, treeVars, logVars
<1>2. u \in Recs /\ u <= nrec /\ u # 0 /\ HasOp(t) /\ tx[t].pc \in Running
  BY <1>1, HandFacts
<1>3. ItemsOK(t, items) /\ Types BY <1>2, RunFacts, TxFacts
<1>4. AtLast(tx[t], i) /\ i = Len(items) BY <1>1, TxFacts DEF TxOK, FullOK
<1>5. /\ i \in DOMAIN items /\ items[i].rec = u /\ ~items[i].wr
      /\ \A j \in DOMAIN items : Full(items[j]) \/ j = i
      /\ items[i] \in ItemRec /\ Static(t, items[i]) /\ SoundItem(t, items[i])
  BY <1>3, <1>4, SeqFacts DEF AtLast, ItemsOK, Sound
<1>6. Vers(u) \in Version /\ Vers(u).valid = rec[u].valid /\ Vers(u) # NoVersion BY <1>2, <1>3, VersFacts
<1> HIDE DEF i, u, items
<1>7. /\ it \in ItemRec /\ it.rec = u /\ it.wr = items[i].wr /\ it.ins = items[i].ins
      /\ it.del = items[i].del /\ it.seen = items[i].seen
      /\ items[i].rd # NoVersion => it.rd = items[i].rd
      /\ items[i].rd = NoVersion => it.rd = Vers(u)
  BY <1>5, <1>6, ObserveFacts
<1> HIDE DEF it
<1>8. Static(t, it) /\ Full(it) /\ ~it.ins BY <1>2, <1>5, <1>6, <1>7 DEF Static, Full
<1>9. SoundItem(t, it)
  <2>1. CASE items[i].rd # NoVersion
    <3>1. Good(t, items[i]) => Good(t, it) BY <1>7 DEF Good
    <3> QED BY <1>5, <1>7, <1>8, <2>1, <3>1 DEF SoundItem, ReadItem
  <2>2. CASE items[i].rd = NoVersion
    <3>1. it.seen = None BY <1>5, <1>7, <2>2 DEF Static
    <3>2. Good(t, it) BY <3>1, ValueFacts DEF Good
    <3> QED BY <1>6, <1>7, <1>8, <2>2, <3>2 DEF SoundItem, ReadItem
  <2> QED BY <2>1, <2>2
<1>10. it.rd = items[i].rd \/ (i = Len(items) /\ it.rd.valid = rec[it.rec].valid) BY <1>4, <1>6, <1>7
<1>11. ItemsOK(t, new) /\ AllFull(new)
  <2>1. \A j \in DOMAIN items : j # i => Full(items[j]) BY <1>5
  <2> QED BY <1>3, <1>5, <1>7, <1>8, <1>9, <1>10, <2>1, ReplaceItem
<1>12. i \in DOMAIN new /\ new[i].rec = u BY <1>5, <1>7
<1> HIDE DEF new
<1>13. CASE rec[u].lock # 0
  <2>1. Becomes(t, Aborting(t)) /\ UNCHANGED shared BY <1>1, <1>13 DEF shared
  <2> QED BY <1>2, <2>1, AbortingStep
<1>14. CASE rec[u].lock = 0
  <2>1. SetOrKeep(t, new, i, u) BY <1>1, <1>14
  <2> QED BY <1>1, <1>2, <1>11, <1>12, <2>1, SetOrKeepStep
<1> QED BY <1>13, <1>14

\* AppendItem, of the state after a step: a lemma holds there as well.
AppendRule ==
  \A t, s : \A it \in ItemRec :
    /\ ItemsOK(t, s) /\ Static(t, it) /\ SoundItem(t, it)
    /\ \A j \in DOMAIN s : Pair(s[j], it)
    => ItemsOK(t, Append(s, it))
LEMMA AppendNow == AppendRule
BY AppendItem DEF AppendRule
LEMMA AppendThen == AppendRule'
BY AppendNow, PTL

\* A transaction that remembers the leaf follows its own insertion.
LEMMA NotedItems ==
  ASSUME Types, NEW t \in Txns, NEW s, ItemsOK(t, s), AllFull(s), NEW l \in LeafRec,
         NEW i \in DOMAIN s, s[i].rec = 0
  PROVE  LET new == [s EXCEPT ![i] = [s[i] EXCEPT !.rd = LeafVers(l)]] IN ItemsOK(t, new) /\ AllFull(new)
<1> DEFINE it == s[i]
           w == [it EXCEPT !.rd = LeafVers(l)]
<1>1. it \in ItemRec /\ Static(t, it) /\ it.rec = 0 BY SeqFacts DEF ItemsOK
<1>2. LeafVers(l) \in Version /\ LeafVers(l) # NoVersion BY LeafFacts
<1>3. it.rec = s[i].rec /\ it.ins = s[i].ins OBVIOUS
<1> HIDE DEF it
<1>4. w \in ItemRec BY <1>1, <1>2 DEF ItemRec
<1>5. w.rd = LeafVers(l) /\ w.rec = 0 /\ w.ins = it.ins /\ w.wr = it.wr /\ w.del = it.del /\ w.seen = it.seen
  BY <1>1 DEF ItemRec
<1> HIDE DEF w
<1>6. Static(t, w) /\ ~w.ins BY <1>1, <1>2, <1>5 DEF Static
<1>7. SoundItem(t, w) BY <1>5, <1>6 DEF SoundItem, ReadItem
<1>8. Full(w) BY <1>2, <1>5 DEF Full
<1>9. \A j \in DOMAIN s : Full(s[j]) BY DEF AllFull
<1>10. ItemsOK(t, [s EXCEPT ![i] = w]) /\ AllFull([s EXCEPT ![i] = w])
  BY <1>1, <1>3, <1>4, <1>5, <1>6, <1>7, <1>8, <1>9, ReplaceItem
<1> QED BY <1>10 DEF w, it

LEMMA InsertStep ==
  ASSUME Lead, NEW t \in Txns, Insert(t)
  PROVE  Lead'
<1> DEFINE k == Op(t).key
           v == ValueOf(t)
           s == tx[t].items
           i == find_item(s, 0)
           q == [key |-> k, val |-> v, n |-> 0, valid |-> FALSE, lock |-> 0]
<1>u. PICK u : u = nrec + 1 OBVIOUS
<1>n. PICK noted : noted = IF i # 0 /\ s[i].rd = LeafVers(leaf)
               THEN [s EXCEPT ![i] = [s[i] EXCEPT !.rd = LeafVers(find_insert(leaf))]]
               ELSE s
  OBVIOUS
<1>w. PICK w : w = [NewItem(u) EXCEPT !.wr = TRUE, !.ins = TRUE, !.val = v] OBVIOUS
<1>1. /\ IsOp(t, {"insert"}) \/ At(t, "insert")
      /\ tree[k] = 0 /\ nrec < MaxRecs /\ nrec' = u
      /\ rec' = [rec EXCEPT ![u] = q] /\ tree' = [tree EXCEPT ![k] = u]
      /\ leaf' = find_insert(leaf) /\ clock' = clock /\ eff' = eff
      /\ Becomes(t, NextOp(t, Append(noted, w)))
  BY <1>u, <1>n, <1>w DEF Insert, logVars
<1>2. tx[t].pc \in {"op", "insert"} /\ tx[t].pc \in Running BY <1>1 DEF IsOp, At, Running
<1>3. /\ ItemsOK(t, s) /\ AllFull(s) /\ tx[t] \in TxRec /\ ProgOK(tx[t]) /\ tx[t].cid = 0
      /\ Types /\ TreeInv /\ RecInv
  BY <1>2, RunFacts, TxFacts DEF Lead
<1>4. HasOp(t) /\ (Op(t).op = "insert" \/ Op(t).op = "put")
  BY <1>1, <1>2, <1>3 DEF IsOp, At, ProgOK, HasOp, Op
<1>5. k \in Keys /\ v \in ValuesOf(t) /\ v \in Int BY <1>4, OpFacts
<1>6. /\ u \in Recs /\ u # 0 /\ u > nrec /\ nrec < u /\ nrec <= u /\ u \in 0..MaxRecs
      /\ \A x \in Recs : (x <= nrec => x # u) /\ (x > nrec /\ x # u => x > u) /\ (x > nrec \/ x <= nrec)
                         /\ (x <= u => x <= nrec \/ x = u)
  <2>1. nrec \in 0..MaxRecs /\ MaxRecs \in Nat BY <1>3, Numbers DEF Types
  <2> QED BY <1>1, <1>u, <2>1 DEF Recs
<1>7. leaf' \in LeafRec BY <1>1, <1>3 DEF Types, find_insert, LeafRec
<1>8. ItemsOK(t, noted) /\ AllFull(noted)
  <2>1. CASE i # 0 /\ s[i].rd = LeafVers(leaf)
    <3>1. i \in DOMAIN s /\ s[i].rec = 0 BY <1>3, <2>1, FindFacts DEF ItemsOK
    <3> QED BY <1>n, <1>1, <1>3, <1>7, <2>1, <3>1, NotedItems
  <2>2. CASE ~(i # 0 /\ s[i].rd = LeafVers(leaf)) BY <1>n, <1>3, <2>2
  <2> QED BY <2>1, <2>2
<1>9. q \in Record /\ q.key = k /\ q.val = v /\ ~q.valid /\ q.lock = 0
  BY <1>5 DEF Record
<1>10. /\ w \in ItemRec /\ w.rec = u /\ w.wr /\ w.ins /\ w.rd = NoVersion /\ ~w.del /\ w.val = v
       /\ w.seen = None
  <2>1. None \in Int /\ 0 \in Int BY DEF None
  <2>2. w = [rec |-> u, rd |-> NoVersion, wr |-> TRUE, ins |-> TRUE, del |-> FALSE, val |-> v, seen |-> None]
    BY <1>w DEF NewItem
  <2>3. w \in ItemRec BY <1>5, <1>6, <2>1, <2>2, NoVersionFacts DEF ItemRec
  <2> QED BY <2>2, <2>3
<1> HIDE <1>u, <1>n, <1>w
<1> HIDE DEF k, v, s, i, q
<1>11. /\ rec' \in [Recs -> Record] /\ rec'[u] = q /\ \A x \in Recs : x # u => rec'[x] = rec[x]
  BY <1>1, <1>3, <1>6, <1>9 DEF Types
<1>12. /\ tree' \in [Keys -> 0..MaxRecs] /\ tree'[k] = u /\ \A x \in Keys : x # k => tree'[x] = tree[x]
  BY <1>1, <1>3, <1>5, <1>6 DEF Types
<1>13. ASSUME NEW x \in Recs, x <= nrec
       PROVE  /\ rec'[x] = rec[x] /\ (Linked(x)' <=> Linked(x)) /\ (Dead(x)' <=> Dead(x))
              /\ rec[x].key \in Keys
  <2>1. rec'[x] = rec[x] /\ x # u BY <1>6, <1>11, <1>13
  <2>2. rec[x].key \in Keys BY <1>3, <1>13 DEF TreeInv
  <2>3. x # 0 BY Numbers
  <2>4. Linked(x)' <=> Linked(x) BY <1>1, <1>12, <2>1, <2>2, <2>3 DEF Linked
  <2> QED BY <2>1, <2>2, <2>4 DEF Dead
<1>14. \A x \in Recs, d \in Txns : x <= nrec /\ Pending(d, x) => Pending(d, x)' BY <1>13 DEF Pending
<1>15. rec[u].lock = 0 /\ ~rec[u].valid BY <1>3, <1>6 DEF TreeInv
<1>16. Pending(t, u)' BY <1>5, <1>9, <1>11, <1>12 DEF Pending, Linked
<1>17. Append(noted, w) \in Seq(ItemRec) BY <1>8, <1>10 DEF ItemsOK
<1>18. NextOp(t, Append(noted, w)) \in TxRec /\ NextOp(t, Append(noted, w)).cid = 0
  <2>1. tx[t].ip \in Nat /\ tx[t].ip + 1 \in Nat /\ 0 \in 0..MaxRecs /\ "op" \in Pcs
    BY <1>3, TxFields, Numbers DEF Pcs, Active, Running
  <2> QED BY <1>3, <1>17, <2>1 DEF NextOp, TxRec
<1>19. /\ tx' \in [Txns -> TxRec] /\ (\A d \in Txns \ {t} : tx'[d] = tx[d])
       /\ tx'[t] = NextOp(t, Append(noted, w))
  BY <1>1, <1>3, <1>18 DEF Types, Becomes
<1>20. Types' BY <1>1, <1>3, <1>6, <1>7, <1>11, <1>12, <1>19 DEF Types
<1>21. TreeInv'
  <2>1. ASSUME NEW x \in Keys, tree'[x] # 0 PROVE tree'[x] \in 1..nrec' /\ rec'[tree'[x]].key = x
    <3>1. CASE x = k
      <4>1. u \in 1..u BY <1>6, Numbers
      <4> QED BY <1>1, <1>9, <1>11, <1>12, <3>1, <4>1
    <3>2. CASE x # k
      <4>1. tree'[x] = tree[x] /\ tree[x] \in 1..nrec /\ rec[tree[x]].key = x
        BY <1>3, <1>12, <2>1, <3>2 DEF TreeInv
      <4>2. tree[x] \in 0..MaxRecs /\ nrec \in Nat /\ u \in Nat BY <1>3, <1>6, Numbers DEF Types
      <4>3. tree[x] \in Recs /\ tree[x] <= nrec /\ tree[x] \in 1..u
        BY <1>6, <2>1, <4>1, <4>2, Numbers
      <4>4. rec'[tree[x]] = rec[tree[x]] BY <1>13, <4>3
      <4> QED BY <1>1, <4>1, <4>3, <4>4
    <3> QED BY <3>1, <3>2
  <2>2. ASSUME NEW x \in Recs, x <= u PROVE rec'[x].key \in Keys /\ (rec'[x].valid => Linked(x)')
    <3>1. CASE x = u BY <1>5, <1>9, <1>11, <3>1
    <3>2. CASE x <= nrec BY <1>3, <1>13, <3>2 DEF TreeInv
    <3> QED BY <1>6, <2>2, <3>1, <3>2
  <2>3. ASSUME NEW x \in Recs, x > u PROVE ~rec'[x].valid /\ rec'[x].lock = 0
    <3>1. x > nrec /\ x # u
      <4>1. x \in Nat /\ u \in Nat /\ nrec \in Nat BY <1>3, <1>6, Numbers DEF Types
      <4> QED BY ONLY <1>6, <2>3, <4>1
    <3> QED BY <1>3, <1>11, <3>1 DEF TreeInv
  <2> QED BY <1>1, <2>1, <2>2, <2>3 DEF TreeInv
<1>22. \A d \in Txns : tx'[d].cid = tx[d].cid BY <1>3, <1>18, <1>19
<1>23. RecInv'
  <2>1. ASSUME NEW x \in Recs, NEW d \in Txns, rec'[x].valid, rec'[x].val \in ValuesOf(d)
        PROVE  WriterOf(x, d)'
    <3>1. x # u BY <1>9, <1>11, <2>1
    <3>2. WriterOf(x, d) /\ rec'[x] = rec[x] BY <1>3, <1>11, <2>1, <3>1 DEF RecInv
    <3>3. CASE d = t BY <1>2, <1>22, <3>2, <3>3 DEF WriterOf, Stamped
    <3>4. CASE d # t BY <1>19, <3>2, <3>4 DEF WriterOf, Stamped
    <3> QED BY <3>3, <3>4
  <2> QED BY <2>1 DEF RecInv
<1>24. \A x \in Recs : rec'[x].lock = rec[x].lock BY <1>9, <1>11, <1>15
<1>25. Frame(t)
  <2>1. \A d, e \in Txns : Precedes(d, e)' <=> Precedes(d, e) BY <1>22 DEF Precedes, Stamped
  <2>2. nrec <= nrec' /\ clock <= clock' BY <1>1, <1>3, <1>6 DEF Types
  <2>3. \A x \in Recs : rec[x].valid => rec'[x].valid BY <1>11, <1>15
  <2> QED BY <1>13, <1>14, <1>19, <1>24, <2>1, <2>2, <2>3 DEF Frame
<1>26. noted \in Seq(ItemRec) /\ Sound(t, noted)
       /\ \A j \in DOMAIN noted : noted[j] \in ItemRec /\ Static(t, noted[j])
  BY <1>8, SeqFacts DEF ItemsOK
<1>27. \A j \in DOMAIN noted : Static(t, noted[j])' BY <1>3, <1>20, <1>25, <1>26, FrameItem
<1>28. Sound(t, noted)' BY <1>3, <1>14, <1>20, <1>25, <1>26, FrameSound
<1>29. ItemsOK(t, noted)' BY <1>26, <1>27, <1>28 DEF ItemsOK
<1>30. Static(t, w)'
  <2>1. w.rec <= nrec' /\ w.rec # 0 BY <1>1, <1>6, <1>10, Numbers
  <2> QED BY <1>5, <1>10, <2>1 DEF Static
<1>31. SoundItem(t, w)' BY <1>10, <1>16, NoVersionFacts DEF SoundItem, ReadItem
<1>32. ASSUME NEW j \in DOMAIN noted PROVE Pair(noted[j], w)'
  <2>1. noted[j].rec # u
    <3>1. noted[j].rec <= nrec /\ noted[j].rec \in 0..MaxRecs BY <1>26, ItemFields DEF Static
    <3>2. noted[j].rec \in Nat /\ nrec \in Nat /\ u \in Nat BY <1>3, <1>6, <3>1, Numbers DEF Types
    <3> QED BY <1>6, <3>1, <3>2
  <2> QED BY <1>10, <2>1 DEF Pair
<1>33. ItemsOK(t, Append(noted, w))' BY <1>10, <1>29, <1>30, <1>31, <1>32, AppendThen DEF AppendRule
<1>34. AllFull(Append(noted, w))
  <2>1. Full(w) BY <1>10 DEF Full
  <2>2. /\ DOMAIN Append(noted, w) = DOMAIN noted \union {Len(noted) + 1}
        /\ \A j \in DOMAIN noted : Append(noted, w)[j] = noted[j]
        /\ Append(noted, w)[Len(noted) + 1] = w
    BY <1>10, <1>26, AppendFacts
  <2> QED BY <1>8, <2>1, <2>2 DEF AllFull
<1>35. PICK items : items = Append(noted, w) OBVIOUS
<1>36. /\ items \in Seq(ItemRec) /\ AllFull(items) /\ Becomes(t, NextOp(t, items)) /\ ItemsOK(t, items)'
  BY <1>1, <1>17, <1>33, <1>34, <1>35
<1>37. (\A j \in DOMAIN items : Static(t, items[j])') /\ Sound(t, items)' BY <1>36 DEF ItemsOK
<1> QED BY <1>1, <1>2, <1>4, <1>20, <1>21, <1>23, <1>24, <1>25, <1>36, <1>37, OwnStep

-----------------------------------------------------------------------------
(* try_commit(): locks, checks, and the way to the installs.               *)

LEMMA PhaseFacts ==
  ASSUME NEW r \in TxRec, NEW pc \in Pcs, NEW left, left \subseteq Nat
  PROVE  /\ Phase(r, pc, left) \in TxRec
         /\ Phase(r, pc, left).pc = pc /\ Phase(r, pc, left).left = left
         /\ Phase(r, pc, left).items = r.items /\ Phase(r, pc, left).cid = r.cid
         /\ Phase(r, pc, left).prog = r.prog /\ Phase(r, pc, left).ip = r.ip
         /\ Phase(r, pc, left).todo = r.todo /\ Phase(r, pc, left).locked = r.locked
         /\ WriteSet(Phase(r, pc, left)) = WriteSet(r) /\ ReadSet(Phase(r, pc, left)) = ReadSet(r)
<1> DEFINE p == Phase(r, pc, left)
<1>1. p \in TxRec BY DEF Phase, TxRec
<1>2. /\ p.pc = pc /\ p.left = left /\ p.items = r.items /\ p.cid = r.cid
      /\ p.prog = r.prog /\ p.ip = r.ip /\ p.todo = r.todo /\ p.locked = r.locked
  BY DEF Phase, TxRec
<1> HIDE DEF p
<1>3. WriteSet(p) = WriteSet(r) /\ ReadSet(p) = ReadSet(r) BY <1>2 DEF WriteSet, ReadSet
<1> QED BY <1>1, <1>2, <1>3 DEF p

\* What does not depend on the phase.
Core(t, r) ==
  ProgOK(r) /\ LockOK(t, r) /\ r.cid = 0 /\ \A i \in DOMAIN r.items : Static(t, r.items[i])

LEMMA PhaseCore ==
  ASSUME Types, NEW t \in Txns, NEW r \in TxRec, Core(t, r),
         NEW p \in TxRec, p.pc \notin Running, p.pc # "stop",
         p.items = r.items, p.cid = r.cid, p.prog = r.prog, p.ip = r.ip, p.todo = r.todo, p.locked = r.locked
  PROVE  /\ ProgOK(p) /\ CidOK(p) /\ LockOK(t, p) /\ \A i \in DOMAIN p.items : Static(t, p.items[i])
<1>1. ProgOK(p) BY DEF Core, ProgOK, Running
<1>2. CidOK(p)
  <2>1. clock \in Nat BY DEF Types
  <2> QED BY <2>1 DEF Core, CidOK
<1>3. LockOK(t, p) BY DEF Core, LockOK
<1> QED BY <1>1, <1>2, <1>3 DEF Core

\* The checks are over.
CanInstall(t, r) ==
  /\ Core(t, r) /\ Owned(t, r.items, WriteSet(r))
  /\ \A i \in DOMAIN r.items : Good(t, r.items[i])
  /\ \A i \in WriteSet(r) : Ready(t, r.items[i])

LEMMA ToInstallOK ==
  ASSUME Types, NEW t \in Txns, NEW r \in TxRec, CanInstall(t, r)
  PROVE  ToInstall(r) \in TxRec /\ TxOK(t, ToInstall(r)) /\ ToInstall(r).cid = 0
<1>1. Core(t, r) BY DEF CanInstall
<1>2. "committed" \in Pcs /\ "install" \in Pcs /\ WriteSet(r) \subseteq Nat /\ {} \subseteq Nat
  BY <1>1, WriteFacts DEF Core, Pcs, Past
<1>3. CASE WriteSet(r) = {}
  <2> DEFINE p == Phase(r, "committed", {})
  <2>1. /\ p \in TxRec /\ p.pc = "committed" /\ p.items = r.items /\ p.cid = r.cid
        /\ p.prog = r.prog /\ p.ip = r.ip /\ p.todo = r.todo /\ p.locked = r.locked
    BY <1>2, PhaseFacts
  <2>2. ToInstall(r) = p BY <1>3 DEF ToInstall
  <2> HIDE DEF p
  <2>3. p.pc \notin Running /\ p.pc # "stop" BY <2>1 DEF Running
  <2>4. ProgOK(p) /\ CidOK(p) /\ LockOK(t, p) /\ \A i \in DOMAIN p.items : Static(t, p.items[i])
    BY <1>1, <2>1, <2>3, PhaseCore
  <2>5. FullOK(p) BY <2>1 DEF FullOK, Active, Running
  <2>6. TxOK(t, p)
    BY <2>1, <2>4, <2>5 DEF TxOK, CanInstall, Active, Running, Failing, LockPhase, CheckPhase, InstallPhase
  <2> QED BY <1>1, <2>1, <2>2, <2>6 DEF Core
<1>4. CASE WriteSet(r) # {}
  <2> DEFINE p == Phase(r, "install", WriteSet(r))
  <2>1. /\ p \in TxRec /\ p.pc = "install" /\ p.items = r.items /\ p.cid = r.cid /\ p.left = WriteSet(r)
        /\ p.prog = r.prog /\ p.ip = r.ip /\ p.todo = r.todo /\ p.locked = r.locked
        /\ WriteSet(p) = WriteSet(r)
    BY <1>2, PhaseFacts
  <2>2. ToInstall(r) = p BY <1>4 DEF ToInstall
  <2> HIDE DEF p
  <2>3. p.pc \notin Running /\ p.pc # "stop" BY <2>1 DEF Running
  <2>4. ProgOK(p) /\ CidOK(p) /\ LockOK(t, p) /\ \A i \in DOMAIN p.items : Static(t, p.items[i])
    BY <1>1, <2>1, <2>3, PhaseCore
  <2>5. FullOK(p) BY <2>1 DEF FullOK, Active, Running
  <2>6. InstallPhase(t, p) BY <1>4, <2>1 DEF InstallPhase, CanInstall
  <2>7. TxOK(t, p)
    BY <2>1, <2>4, <2>5, <2>6 DEF TxOK, CanInstall, Active, Running, Failing, LockPhase, CheckPhase
  <2> QED BY <1>1, <2>1, <2>2, <2>7 DEF Core
<1> QED BY <1>3, <1>4

\* The locks are taken.
CanCheck(t, r) ==
  Core(t, r) /\ Owned(t, r.items, WriteSet(r)) /\ AllFull(r.items) /\ Sound(t, r.items)

LEMMA ToCheckOK ==
  ASSUME Types, NEW t \in Txns, NEW r \in TxRec, CanCheck(t, r)
  PROVE  ToCheck(r) \in TxRec /\ TxOK(t, ToCheck(r)) /\ ToCheck(r).cid = 0
<1>1. Core(t, r) BY DEF CanCheck
<1>2. "check" \in Pcs /\ ReadSet(r) \subseteq Nat BY <1>1, WriteFacts DEF Core, Pcs, Active
<1>3. CASE ReadSet(r) = {}
  <2>1. ASSUME NEW i \in DOMAIN r.items PROVE Good(t, r.items[i])
    <3>1. r.items[i].rd = NoVersion BY <1>3 DEF ReadSet
    <3>2. r.items[i].seen = None BY <1>1, <3>1 DEF Core, Static
    <3> QED BY <3>2, ValueFacts DEF Good
  <2>2. ASSUME NEW i \in WriteSet(r) PROVE Ready(t, r.items[i])
    <3>1. i \in DOMAIN r.items BY DEF WriteSet
    <3>2. r.items[i].ins BY <1>3, <3>1 DEF ReadSet, CanCheck, AllFull, Full
    <3> QED BY <3>1, <3>2 DEF Ready, CanCheck, Sound, SoundItem
  <2>3. CanInstall(t, r) BY <1>1, <2>1, <2>2 DEF CanInstall, CanCheck
  <2> QED BY <1>3, <2>3, ToInstallOK DEF ToCheck
<1>4. CASE ReadSet(r) # {}
  <2> DEFINE p == Phase(r, "check", ReadSet(r))
  <2>1. /\ p \in TxRec /\ p.pc = "check" /\ p.items = r.items /\ p.cid = r.cid /\ p.left = ReadSet(r)
        /\ p.prog = r.prog /\ p.ip = r.ip /\ p.todo = r.todo /\ p.locked = r.locked
        /\ WriteSet(p) = WriteSet(r) /\ ReadSet(p) = ReadSet(r)
    BY <1>2, PhaseFacts
  <2>2. ToCheck(r) = p BY <1>4 DEF ToCheck
  <2> HIDE DEF p
  <2>3. p.pc \notin Running /\ p.pc # "stop" BY <2>1 DEF Running
  <2>4. ProgOK(p) /\ CidOK(p) /\ LockOK(t, p) /\ \A i \in DOMAIN p.items : Static(t, p.items[i])
    BY <1>1, <2>1, <2>3, PhaseCore
  <2>5. FullOK(p) BY <2>1 DEF FullOK, CanCheck, AllFull
  <2>6. CheckPhase(t, p) BY <1>4, <2>1 DEF CheckPhase, CanCheck
  <2>7. TxOK(t, p)
    BY <2>1, <2>4, <2>5, <2>6 DEF TxOK, CanCheck, Past, LockPhase, InstallPhase
  <2> QED BY <1>1, <2>1, <2>2, <2>7 DEF Core
<1> QED BY <1>3, <1>4

ToCheckRule ==
  \A t \in Txns, r \in TxRec :
    Types /\ CanCheck(t, r) => ToCheck(r) \in TxRec /\ TxOK(t, ToCheck(r)) /\ ToCheck(r).cid = 0
LEMMA ToCheckNow == ToCheckRule
BY ToCheckOK DEF ToCheckRule
LEMMA ToCheckThen == ToCheckRule'
BY ToCheckNow, PTL

LEMMA CommitBeginStep ==
  ASSUME Lead, NEW t \in Txns, CommitBegin(t)
  PROVE  Lead'
<1>1. /\ tx[t].pc = "op" /\ UNCHANGED shared
      /\ Becomes(t, IF WriteSet(tx[t]) = {} THEN ToCheck(tx[t])
                    ELSE Phase(tx[t], "lock", WriteSet(tx[t])))
  BY DEF CommitBegin, At, shared, treeVars, logVars
<1>2. tx[t].pc \in Running BY <1>1 DEF Running
<1>3. /\ ItemsOK(t, tx[t].items) /\ AllFull(tx[t].items) /\ tx[t] \in TxRec /\ Types
      /\ ProgOK(tx[t]) /\ tx[t].cid = 0 /\ tx[t].pc \notin Past /\ LockOK(t, tx[t])
  BY <1>1, <1>2, RunFacts, TxFacts
<1>4. Core(t, tx[t]) BY <1>3 DEF Core, ItemsOK
<1>5. CASE WriteSet(tx[t]) = {}
  <2>1. Owned(t, tx[t].items, WriteSet(tx[t])) BY <1>5 DEF Owned
  <2>2. CanCheck(t, tx[t]) BY <1>3, <1>4, <2>1 DEF CanCheck, ItemsOK
  <2>3. ToCheck(tx[t]) \in TxRec /\ TxOK(t, ToCheck(tx[t])) /\ ToCheck(tx[t]).cid = 0
    BY <1>3, <2>2, ToCheckOK
  <2>4. Becomes(t, ToCheck(tx[t])) BY <1>1, <1>5
  <2> QED BY <1>1, <1>3, <2>3, <2>4, QuietStep DEF shared
<1>6. CASE WriteSet(tx[t]) # {}
  <2> DEFINE p == Phase(tx[t], "lock", WriteSet(tx[t]))
  <2>1. "lock" \in Pcs /\ WriteSet(tx[t]) \subseteq Nat BY <1>3, <1>4, WriteFacts DEF Core, Pcs, Active
  <2>2. /\ p \in TxRec /\ p.pc = "lock" /\ p.items = tx[t].items /\ p.cid = tx[t].cid
        /\ p.left = WriteSet(tx[t])
        /\ p.prog = tx[t].prog /\ p.ip = tx[t].ip /\ p.todo = tx[t].todo /\ p.locked = tx[t].locked
        /\ WriteSet(p) = WriteSet(tx[t])
    BY <1>3, <2>1, PhaseFacts
  <2>3. Becomes(t, p) BY <1>1, <1>6
  <2> HIDE DEF p
  <2>4. p.pc \notin Running /\ p.pc # "stop" BY <2>2 DEF Running
  <2>5. ProgOK(p) /\ CidOK(p) /\ LockOK(t, p) /\ \A i \in DOMAIN p.items : Static(t, p.items[i])
    BY <1>3, <1>4, <2>2, <2>4, PhaseCore
  <2>6. FullOK(p) BY <1>3, <2>2 DEF FullOK, AllFull
  <2>7. LockPhase(t, p) BY <1>6, <2>2 DEF LockPhase, Owned
  <2>8. TxOK(t, p)
    BY <1>3, <2>2, <2>5, <2>6, <2>7 DEF TxOK, ItemsOK, Past, CheckPhase, InstallPhase
  <2> QED BY <1>1, <1>3, <2>2, <2>3, <2>8, QuietStep DEF shared
<1> QED BY <1>5, <1>6

\* The commit fails.
LEMMA FailStep ==
  ASSUME Lead, NEW t \in Txns, tx[t].pc \in {"lock", "check"},
         Becomes(t, [tx[t] EXCEPT !.pc = "fail"]), UNCHANGED shared
  PROVE  Lead'
<1> DEFINE p == [tx[t] EXCEPT !.pc = "fail"]
<1>1. tx[t] \in TxRec /\ Types /\ TxOK(t, tx[t]) BY TxFacts
<1>2. /\ p \in TxRec /\ p.pc = "fail" /\ p.items = tx[t].items /\ p.cid = tx[t].cid
      /\ p.prog = tx[t].prog /\ p.ip = tx[t].ip /\ p.todo = tx[t].todo /\ p.locked = tx[t].locked
  <2>1. "fail" \in Pcs BY DEF Pcs, Failing
  <2>2. p \in TxRec BY <1>1, <2>1 DEF TxRec
  <2> QED BY <1>1, <2>2 DEF TxRec
<1>3. Becomes(t, p) OBVIOUS
<1> HIDE DEF p
<1>4. tx[t].cid = 0 BY <1>1 DEF TxOK, CidOK
<1>5. Core(t, tx[t]) BY <1>1, <1>4 DEF Core, TxOK
<1>6. p.pc \notin Running /\ p.pc # "stop" BY <1>2 DEF Running
<1>7. ProgOK(p) /\ CidOK(p) /\ LockOK(t, p) /\ \A i \in DOMAIN p.items : Static(t, p.items[i])
  BY <1>1, <1>2, <1>5, <1>6, PhaseCore
<1>8. FullOK(p) BY <1>2 DEF FullOK, Active, Running
<1>9. Sound(t, p.items) BY <1>1, <1>2 DEF TxOK, Active
<1>10. TxOK(t, p) BY <1>2, <1>7, <1>8, <1>9 DEF TxOK, Past, LockPhase, CheckPhase, InstallPhase
<1>11. tx[t].pc \notin Past BY DEF Past
<1> QED BY <1>2, <1>3, <1>10, <1>11, QuietStep DEF shared

\* A read that passes check(), or that repeats one that has, is good, and so are
\* all the reads of its record.
LEMMA CheckedRead ==
  ASSUME Lead, NEW t \in Txns, tx[t].pc = "check", NEW i, i = Min(tx[t].left), tx[t].items[i].rec # 0,
         check(t, tx[t].items[i]) \/ preceding_duplicate_read(t, i)
  PROVE  Checked(t, tx[t].items, tx[t].items[i].rec)
<1> DEFINE r == tx[t]
           s == tx[t].items
           u == tx[t].items[i].rec
<1>1. r \in TxRec /\ TxOK(t, r) /\ s \in Seq(ItemRec) /\ Types BY TxFacts
<1>2. \A j \in DOMAIN s : s[j] \in ItemRec /\ Static(t, s[j]) BY TxFacts
<1>3. Sound(t, s) /\ CheckPhase(t, r) BY <1>1 DEF TxOK, Active
<1>4. /\ r.left \subseteq ReadSet(r) /\ r.left # {}
      /\ \A j \in ReadSet(r) \ r.left : s[j].rec # 0 => Checked(t, s, s[j].rec)
  BY <1>3 DEF CheckPhase
<1>5. r.left \subseteq Nat BY <1>1, TxFields
<1>6. i \in r.left /\ i \in Nat /\ \A y \in r.left : y # i => i < y BY <1>4, <1>5, LeftFacts
<1>7. i \in DOMAIN s /\ s[i].rd # NoVersion BY <1>4, <1>6 DEF ReadSet
<1>8. DOMAIN s = 1..Len(s) /\ Len(s) \in Nat BY <1>1, SeqFacts
<1>9. u # 0 /\ u \in Recs BY <1>2, <1>7, ItemFields, Numbers
<1> HIDE DEF r, s, u
<1>10. ASSUME NEW j \in DOMAIN s, j < i, s[j].rec = u, s[j].rd # NoVersion
       PROVE  Checked(t, s, u)
  <2>1. j \in ReadSet(r) BY <1>10 DEF ReadSet, r, s
  <2>2. j \notin r.left
    <3>1. j \in Nat BY <1>8
    <3> QED BY <1>6, <1>10, <3>1
  <2> QED BY <1>4, <1>9, <1>10, <2>1, <2>2
<1>11. CASE preceding_duplicate_read(t, i)
  <2>1. PICK j \in 1..(i - 1) : s[j].rec = u /\ s[j].rd # NoVersion
    BY <1>11 DEF preceding_duplicate_read, s, u
  <2>2. j \in DOMAIN s /\ j < i BY <1>6, <1>7, <1>8, <2>1
  <2> QED BY <1>10, <2>1, <2>2 DEF s, u
<1>12. CASE check(t, s[i]) /\ \A j \in DOMAIN s : j < i /\ s[j].rec = u => s[j].rd = NoVersion
  <2>1. s[i].rec = u /\ ~s[i].ins BY <1>2, <1>7 DEF Static, s, u
  <2>2. rec[u].valid /\ Vers(u) = s[i].rd BY <1>9, <1>12, <2>1 DEF check, validityCheck
  <2>3. s[i].rd.valid BY <1>1, <1>9, <2>2, VersFacts
  <2>4. ~Dead(u) BY <2>2 DEF Dead
  <2>5. ASSUME NEW j \in DOMAIN s, s[j].rec = u PROVE Good(t, s[j])
    <3>1. CASE s[j].seen = None BY <3>1, ValueFacts DEF Good
    <3>2. CASE s[j].seen # None
      <4>1. s[j].rd # NoVersion BY <1>2, <3>2 DEF Static
      <4>2. j = i \/ i < j
        <5>1. j \in Nat BY <1>8
        <5>2. ~(j < i) BY <1>12, <2>5, <4>1
        <5> QED BY ONLY <1>6, <5>1, <5>2
      <4>3. s[j].rd.valid
        <5>1. CASE j = i BY <2>3, <5>1
        <5>2. CASE i < j
          <6>1. Pair(s[i], s[j]) BY <1>3, <1>7, <5>2 DEF Sound
          <6> QED BY <1>9, <2>1, <2>3, <2>4, <2>5, <4>1, <6>1 DEF Pair
        <5> QED BY <4>2, <5>1, <5>2
      <4>4. ReadItem(t, s[j]) BY <1>3 DEF Sound, SoundItem
      <4> QED BY <1>9, <2>4, <2>5, <4>3, <4>4 DEF ReadItem
    <3> QED BY <3>1, <3>2
  <2>6. Checked(t, s, u) BY <2>2, <2>5 DEF Checked
  <2> QED BY <2>6 DEF s, u
<1>13. CASE \E j \in DOMAIN s : j < i /\ s[j].rec = u /\ s[j].rd # NoVersion BY <1>10, <1>13 DEF s, u
<1> QED BY <1>11, <1>12, <1>13 DEF s

LEMMA CheckReadStep ==
  ASSUME Lead, NEW t \in Txns, CheckRead(t)
  PROVE  Lead'
<1> DEFINE r == tx[t]
           s == tx[t].items
           i == Min(tx[t].left)
<1>1. /\ tx[t].pc = "check" /\ UNCHANGED shared
      /\ Becomes(t, IF check(t, s[i]) \/ preceding_duplicate_read(t, i)
                    THEN Then(r, ToInstall(r)) ELSE [tx[t] EXCEPT !.pc = "fail"])
  BY DEF CheckRead, At, shared, treeVars, logVars
<1>2. r \in TxRec /\ TxOK(t, r) /\ s \in Seq(ItemRec) /\ Types BY TxFacts
<1>3. \A j \in DOMAIN s : s[j] \in ItemRec /\ Static(t, s[j]) BY TxFacts
<1>4. /\ Sound(t, s) /\ CheckPhase(t, r) /\ AllFull(s) /\ r.cid = 0
  BY <1>1, <1>2 DEF TxOK, Active, FullOK, AllFull, CidOK
<1>5. CASE ~(check(t, s[i]) \/ preceding_duplicate_read(t, i))
  <2>1. Becomes(t, [tx[t] EXCEPT !.pc = "fail"]) BY <1>1, <1>5
  <2> QED BY <1>1, <2>1, FailStep
<1>6. CASE check(t, s[i]) \/ preceding_duplicate_read(t, i)
  <2>1. s[i].rec # 0 => Checked(t, s, s[i].rec) BY <1>1, <1>6, CheckedRead
  <2>2. /\ r.left \subseteq ReadSet(r) /\ r.left # {} /\ Owned(t, s, WriteSet(r))
        /\ \A a \in r.left, b \in ReadSet(r) \ r.left : b < a
        /\ \A j \in ReadSet(r) \ r.left : s[j].rec # 0 => Checked(t, s, s[j].rec)
    BY <1>1, <1>4 DEF CheckPhase
  <2>3. r.left \subseteq Nat BY <1>2, TxFields
  <2>4. i \in r.left /\ i \in Nat /\ \A y \in r.left : y # i => i < y BY <2>2, <2>3, LeftFacts
  <2>5. Core(t, r) BY <1>2, <1>4 DEF Core, TxOK
  <2>6. Becomes(t, Then(r, ToInstall(r))) /\ Rest(r) = r.left \ {i} BY <1>1, <1>6 DEF Rest
  <2>7. \A j \in ReadSet(r) \ Rest(r) : s[j].rec # 0 => Checked(t, s, s[j].rec) BY <2>1, <2>2, <2>6
  <2>8. tx[t].pc \notin Past BY <1>1 DEF Past
  <2> HIDE DEF r, i
  <2>9. CASE Rest(r) = {}
    <3>1. ASSUME NEW j \in DOMAIN s PROVE Good(t, s[j])
      <4>1. CASE s[j].seen = None BY <4>1, ValueFacts DEF Good
      <4>2. CASE s[j].seen # None
        <5>1. s[j].rd # NoVersion /\ s[j].rec # 0 BY <1>3, <4>2 DEF Static
        <5>2. j \in ReadSet(r) BY <5>1 DEF ReadSet, r
        <5> QED BY <2>7, <2>9, <5>1, <5>2 DEF Checked
      <4> QED BY <4>1, <4>2
    <3>2. ASSUME NEW j \in WriteSet(r) PROVE Ready(t, s[j])
      <4>1. j \in DOMAIN s /\ s[j].wr BY DEF WriteSet, r
      <4>2. CASE s[j].ins BY <1>4, <4>1, <4>2 DEF Ready, Sound, SoundItem
      <4>3. CASE ~s[j].ins
        <5>1. s[j].rd # NoVersion /\ s[j].rec # 0 BY <1>3, <1>4, <4>1, <4>3 DEF Static, AllFull, Full
        <5>2. j \in ReadSet(r) BY <4>1, <5>1 DEF ReadSet, r
        <5>3. Checked(t, s, s[j].rec) BY <2>7, <2>9, <5>1, <5>2
        <5>4. rec[s[j].rec].lock = t BY <2>2 DEF Owned
        <5> QED BY <4>3, <5>3, <5>4 DEF Ready, Checked
      <4> QED BY <4>2, <4>3
    <3>3. CanInstall(t, r) BY <2>2, <2>5, <3>1, <3>2 DEF CanInstall, r
    <3>4. ToInstall(r) \in TxRec /\ TxOK(t, ToInstall(r)) /\ ToInstall(r).cid = 0 BY <1>2, <3>3, ToInstallOK
    <3>5. Becomes(t, ToInstall(r)) BY <2>6, <2>9 DEF Then
    <3> QED BY <1>1, <1>4, <2>8, <3>4, <3>5, QuietStep DEF shared, r
  <2>10. CASE Rest(r) # {}
    <3> DEFINE p == Phase(r, "check", Rest(r))
    <3>1. "check" \in Pcs /\ Rest(r) \subseteq Nat BY <2>3, <2>6 DEF Pcs, Active
    <3>2. /\ p \in TxRec /\ p.pc = "check" /\ p.items = s /\ p.cid = r.cid /\ p.left = Rest(r)
          /\ p.prog = r.prog /\ p.ip = r.ip /\ p.todo = r.todo /\ p.locked = r.locked
          /\ WriteSet(p) = WriteSet(r) /\ ReadSet(p) = ReadSet(r)
      BY <1>2, <3>1, PhaseFacts DEF r
    <3>3. Becomes(t, p) BY <1>1, <2>6, <2>10 DEF Then, r
    <3> HIDE DEF p
    <3>4. p.pc \notin Running /\ p.pc # "stop" BY <3>2 DEF Running
    <3>5. ProgOK(p) /\ CidOK(p) /\ LockOK(t, p) /\ \A j \in DOMAIN p.items : Static(t, p.items[j])
      BY <1>2, <2>5, <3>2, <3>4, PhaseCore DEF r
    <3>6. FullOK(p) BY <1>4, <3>2 DEF FullOK, AllFull
    <3>7. \A a \in Rest(r), b \in ReadSet(r) \ Rest(r) : b < a BY <2>2, <2>4, <2>6
    <3>8. CheckPhase(t, p) BY <2>2, <2>6, <2>7, <2>10, <3>2, <3>7 DEF CheckPhase
    <3>9. TxOK(t, p) BY <1>4, <3>2, <3>5, <3>6, <3>8 DEF TxOK, Past, LockPhase, InstallPhase
    <3> QED BY <1>1, <1>4, <2>8, <3>2, <3>3, <3>9, QuietStep DEF shared, r
  <2> QED BY <2>9, <2>10
<1> QED BY <1>5, <1>6

\* The index stays as it is while locks come and go.
LEMMA TreeFrame ==
  ASSUME Types, TreeInv, tree' = tree, nrec' = nrec,
         \A x \in Recs : rec'[x].key = rec[x].key /\ rec'[x].valid = rec[x].valid,
         \A x \in Recs : x > nrec => rec'[x].lock = rec[x].lock
  PROVE  TreeInv' /\ \A x \in Recs : (Linked(x)' <=> Linked(x)) /\ (Dead(x)' <=> Dead(x))
<1>0. \A x \in Recs : (Linked(x)' <=> Linked(x)) /\ (Dead(x)' <=> Dead(x)) BY DEF Linked, Dead
<1>1. ASSUME NEW k \in Keys, tree[k] # 0 PROVE tree[k] \in 1..nrec /\ rec'[tree[k]].key = k
  <2>1. tree[k] \in 0..MaxRecs /\ tree[k] \in 1..nrec /\ rec[tree[k]].key = k
    BY <1>1 DEF TreeInv, Types
  <2>2. tree[k] \in Recs BY <1>1, <2>1, Numbers
  <2> QED BY <2>1, <2>2
<1>2. ASSUME NEW x \in Recs, x <= nrec PROVE rec'[x].key \in Keys /\ (rec'[x].valid => Linked(x)')
  <2>1. rec[x].key \in Keys /\ (rec[x].valid => Linked(x)) BY <1>2 DEF TreeInv
  <2> QED BY <1>0, <2>1
<1>3. ASSUME NEW x \in Recs, x > nrec PROVE ~rec'[x].valid /\ rec'[x].lock = 0
  <2>1. ~rec[x].valid /\ rec[x].lock = 0 BY <1>3 DEF TreeInv
  <2> QED BY <1>3, <2>1
<1>4. TreeInv' BY <1>1, <1>2, <1>3 DEF TreeInv
<1> QED BY <1>0, <1>4

\* Locks are taken or given back: nothing else changes.
LEMMA LockFrame ==
  ASSUME Lead, NEW t \in Txns, NEW r \in TxRec, Becomes(t, r), r.cid = tx[t].cid,
         UNCHANGED <<tree, leaf, nrec, clock, eff>>, tx[t].pc \notin {"install", "log"},
         rec' \in [Recs -> Record],
         \A x \in Recs : rec'[x].key = rec[x].key /\ rec'[x].valid = rec[x].valid /\ rec'[x].val = rec[x].val,
         \A x \in Recs, d \in Txns \ {t} : rec'[x].lock = d <=> rec[x].lock = d,
         \A x \in Recs : x > nrec => rec'[x].lock = rec[x].lock
  PROVE  /\ Types' /\ TreeInv' /\ RecInv' /\ Frame(t) /\ tx'[t] = r
         /\ \A x \in Recs : Pending(t, x) => Pending(t, x)'
<1>1. Types /\ TreeInv /\ RecInv BY DEF Lead
<1>2. tx' \in [Txns -> TxRec] /\ tx'[t] = r /\ \A d \in Txns \ {t} : tx'[d] = tx[d]
  BY <1>1 DEF Types, Becomes
<1>3. Types' BY <1>1, <1>2 DEF Types
<1>4. TreeInv' /\ \A x \in Recs : (Linked(x)' <=> Linked(x)) /\ (Dead(x)' <=> Dead(x)) BY <1>1, TreeFrame
<1>5. \A d \in Txns : tx'[d].cid = tx[d].cid BY <1>2
<1>6. \A x \in Recs, d \in Txns : Pending(d, x) => Pending(d, x)' BY <1>4 DEF Pending
<1>7. RecInv'
  <2>1. ASSUME NEW x \in Recs, NEW d \in Txns, rec'[x].valid, rec'[x].val \in ValuesOf(d)
        PROVE  WriterOf(x, d)'
    <3>1. WriterOf(x, d) BY <1>1, <2>1 DEF RecInv
    <3>2. CASE d = t BY <1>5, <3>1, <3>2 DEF WriterOf, Stamped
    <3>3. CASE d # t BY <1>2, <3>1, <3>3 DEF WriterOf, Stamped
    <3> QED BY <3>2, <3>3
  <2> QED BY <2>1 DEF RecInv
<1>8. Frame(t)
  <2>1. \A d, e \in Txns : Precedes(d, e)' <=> Precedes(d, e) BY <1>5 DEF Precedes, Stamped
  <2>2. nrec <= nrec' /\ clock <= clock' BY <1>1, Numbers DEF Types
  <2> QED BY <1>2, <1>4, <1>6, <2>1, <2>2 DEF Frame
<1> QED BY <1>2, <1>3, <1>4, <1>6, <1>7, <1>8

LEMMA LockStep ==
  ASSUME Lead, NEW t \in Txns, Lock(t)
  PROVE  Lead'
<1>i. PICK i : i = Min(tx[t].left) OBVIOUS
<1>s. PICK s : s = tx[t].items OBVIOUS
<1>u. PICK u : u = s[i].rec OBVIOUS
<1>L. PICK L : L = Locking(t, u) OBVIOUS
<1>1. /\ tx[t].pc = "lock" /\ UNCHANGED <<tree, leaf, nrec, clock, eff>>
      /\ IF rec[u].lock = 0
         THEN /\ rec' = [rec EXCEPT ![u] = [rec[u] EXCEPT !.lock = t]]
              /\ Becomes(t, Then(L, ToCheck(L)))
         ELSE Becomes(t, [tx[t] EXCEPT !.pc = "fail"]) /\ UNCHANGED rec
  BY <1>i, <1>s, <1>u, <1>L DEF Lock, Item, At, treeVars, logVars
<1>2. tx[t] \in TxRec /\ TxOK(t, tx[t]) /\ s \in Seq(ItemRec) /\ Types BY <1>s, TxFacts
<1>3. \A j \in DOMAIN s : s[j] \in ItemRec /\ Static(t, s[j]) BY <1>s, TxFacts
<1>4. /\ Sound(t, s) /\ LockPhase(t, tx[t]) /\ AllFull(s) /\ tx[t].cid = 0 /\ ProgOK(tx[t]) /\ LockOK(t, tx[t])
  BY <1>s, <1>1, <1>2 DEF TxOK, Active, FullOK, AllFull, CidOK
<1>W. PICK W : W = WriteSet(tx[t]) OBVIOUS
<1>5. /\ tx[t].left \subseteq W /\ tx[t].left # {} /\ Owned(t, s, W \ tx[t].left)
  BY <1>s, <1>W, <1>1, <1>4 DEF LockPhase
<1>6. \A j \in W : j \in DOMAIN s /\ s[j].rec \in Recs /\ s[j].rec <= nrec
  BY <1>s, <1>W, <1>2, <1>3, WriteFacts
<1>7. i \in tx[t].left /\ i \in W
  <2>1. tx[t].left \subseteq Nat BY <1>2, TxFields
  <2> QED BY <1>i, <1>5, <2>1, LeftFacts
<1>8. u \in Recs /\ u <= nrec BY <1>u, <1>6, <1>7
<1>9. CASE rec[u].lock # 0
  <2>1. Becomes(t, [tx[t] EXCEPT !.pc = "fail"]) /\ UNCHANGED shared BY <1>1, <1>9 DEF shared
  <2> QED BY <1>1, <2>1, FailStep
<1>10. CASE rec[u].lock = 0
  <2>1. rec[u] \in Record /\ t # 0 BY <1>2, <1>8, RecFields, Numbers
  <2> DEFINE q == [rec[u] EXCEPT !.lock = t]
  <2>2. /\ q \in Record /\ q.val = rec[u].val /\ q.key = rec[u].key /\ q.valid = rec[u].valid /\ q.lock = t
    BY <2>1 DEF Record
  <2>3. rec' = [rec EXCEPT ![u] = q] /\ Becomes(t, Then(L, ToCheck(L))) BY <1>1, <1>10
  <2> HIDE DEF q
  <2>4. /\ rec' \in [Recs -> Record] /\ rec'[u] = q /\ \A x \in Recs : x # u => rec'[x] = rec[x]
    BY <1>2, <1>8, <2>2, <2>3 DEF Types
  <2>5. \A x \in Recs : rec'[x].key = rec[x].key /\ rec'[x].valid = rec[x].valid /\ rec'[x].val = rec[x].val
    BY <2>2, <2>4
  <2>6. \A x \in Recs, d \in Txns \ {t} : rec'[x].lock = d <=> rec[x].lock = d
    BY <1>10, <2>2, <2>4, Numbers
  <2>7. \A x \in Recs : x > nrec => rec'[x].lock = rec[x].lock
    <3>1. u \in Nat /\ nrec \in Nat BY <1>2, <1>8, Numbers DEF Types
    <3>2. ~(u > nrec) BY <1>8, <3>1
    <3> QED BY <2>4, <3>2
  <2>8. /\ L \in TxRec /\ L.pc = "lock" /\ L.items = s /\ L.cid = 0 /\ L.left = tx[t].left
        /\ L.prog = tx[t].prog /\ L.ip = tx[t].ip /\ L.todo = tx[t].todo /\ L.locked = tx[t].locked \union {u}
    <3>1. tx[t].locked \union {u} \subseteq Recs BY <1>2, <1>8, TxFields
    <3>2. L \in TxRec BY <1>L, <1>2, <3>1 DEF Locking, TxRec
    <3> QED BY <1>L, <1>s, <1>1, <1>2, <1>4, <3>2 DEF Locking, TxRec
  <2>9. WriteSet(L) = W /\ Rest(L) = tx[t].left \ {i} /\ Rest(L) \subseteq Nat
    <3>1. tx[t].left \subseteq Nat BY <1>2, TxFields
    <3> QED BY <1>i, <1>s, <1>W, <2>8, <3>1 DEF WriteSet, Rest
  <2> HIDE <1>i, <1>s, <1>L, <1>W
  <2>10. LockOK(t, L)' BY <1>4, <1>10, <2>1, <2>2, <2>4, <2>8 DEF LockOK
  <2>11. Owned(t, s, W \ Rest(L))'
    <3>1. W \ Rest(L) = (W \ tx[t].left) \union {i} BY <1>7, <2>9
    <3>2. \A j \in W \ tx[t].left : rec[s[j].rec].lock = t /\ s[j].rec # u /\ s[j].rec \in Recs
      BY <1>5, <1>6, <1>10, <2>1 DEF Owned
    <3>3. \A j \in W \ Rest(L) : rec'[s[j].rec].lock = t BY <1>u, <2>2, <2>4, <3>1, <3>2
    <3>4. \A j, k \in W \ Rest(L) : j # k => s[j].rec # s[k].rec
      BY <1>u, <1>5, <3>1, <3>2 DEF Owned
    <3> QED BY <3>3, <3>4 DEF Owned
  <2>12. PICK r : r = Then(L, ToCheck(L)) OBVIOUS
  <2>13. Becomes(t, r) /\ tx[t].pc \notin {"install", "log"} /\ tx[t].pc \notin Past BY <1>1, <2>3, <2>12 DEF Past
  <2>14. ASSUME r \in TxRec, r.cid = 0
         PROVE  /\ Types' /\ TreeInv' /\ RecInv' /\ Frame(t) /\ tx'[t] = r /\ EffInv' /\ PairInv'
                /\ (\A j \in DOMAIN s : Static(t, s[j])') /\ Sound(t, s)'
    <3>1. /\ Types' /\ TreeInv' /\ RecInv' /\ Frame(t) /\ tx'[t] = r
          /\ \A x \in Recs : Pending(t, x) => Pending(t, x)'
      BY <1>1, <1>4, <2>4, <2>5, <2>6, <2>7, <2>13, <2>14, LockFrame
    <3>2. EffInv' /\ PairInv' BY <1>1, <2>13, <3>1, EffFrame
    <3>3. \A j \in DOMAIN s : Static(t, s[j])' BY <1>2, <1>3, <3>1, FrameItem
    <3>4. Sound(t, s)' BY <1>2, <1>3, <1>4, <3>1, FrameSound
    <3> QED BY <3>1, <3>2, <3>3, <3>4
  <2>15. CASE Rest(L) = {}
    <3>1. r = ToCheck(L) BY <2>12, <2>15 DEF Then
    <3>2. r \in TxRec /\ r.cid = 0
      <4>1. "committed" \in Pcs /\ "install" \in Pcs /\ "check" \in Pcs BY DEF Pcs, Active, Past
      <4>2. WriteSet(L) \subseteq Nat /\ ReadSet(L) \subseteq Nat /\ {} \subseteq Nat
        <5>1. \A j \in DOMAIN L.items : Static(t, L.items[j]) BY <1>3, <2>8
        <5> QED BY <2>8, <5>1, WriteFacts
      <4> QED BY <2>8, <3>1, <4>1, <4>2, PhaseFacts DEF ToCheck, ToInstall
    <3>3. /\ Types' /\ TreeInv' /\ RecInv' /\ Frame(t) /\ tx'[t] = r /\ EffInv' /\ PairInv'
          /\ (\A j \in DOMAIN s : Static(t, s[j])') /\ Sound(t, s)'
      BY <2>14, <3>2
    <3>4. ProgOK(L)' BY <1>1, <1>4, <2>8 DEF ProgOK, Running
    <3>5. Core(t, L)' BY <2>8, <2>10, <3>3, <3>4 DEF Core
    <3>6. Owned(t, s, WriteSet(L))' BY <2>9, <2>11, <2>15 DEF Owned, WriteSet
    <3>7. AllFull(L.items)' BY <1>4, <2>8 DEF AllFull, Full
    <3>8. CanCheck(t, L)' BY <2>8, <3>3, <3>5, <3>6, <3>7 DEF CanCheck
    <3>9. TxOK(t, ToCheck(L))' BY <2>8, <3>3, <3>8, ToCheckThen DEF ToCheckRule
    <3>10. TxOK(t, tx[t])' BY <3>1, <3>3, <3>9
    <3> QED BY <3>3, <3>10, OneStep
  <2>16. CASE Rest(L) # {}
    <3>1. r = Phase(L, "lock", Rest(L)) /\ "lock" \in Pcs BY <2>8, <2>12, <2>16 DEF Then, Pcs, Active
    <3>2. /\ r \in TxRec /\ r.pc = "lock" /\ r.items = s /\ r.cid = 0 /\ r.left = Rest(L)
          /\ r.prog = tx[t].prog /\ r.ip = tx[t].ip /\ r.todo = tx[t].todo /\ r.locked = L.locked
          /\ WriteSet(r) = W
      BY <2>8, <2>9, <3>1, PhaseFacts
    <3>3. /\ Types' /\ TreeInv' /\ RecInv' /\ Frame(t) /\ tx'[t] = r /\ EffInv' /\ PairInv'
          /\ (\A j \in DOMAIN s : Static(t, s[j])') /\ Sound(t, s)'
      BY <2>14, <3>2
    <3>4. ProgOK(r)' BY <1>1, <1>4, <3>2 DEF ProgOK, Running
    <3>5. CidOK(r)'
      <4>1. clock \in Nat BY <1>2 DEF Types
      <4> QED BY <1>1, <3>2, <4>1 DEF CidOK
    <3>6. LockOK(t, r)' BY <2>10, <3>2 DEF LockOK
    <3>7. FullOK(r)' BY <1>4, <3>2 DEF FullOK, AllFull, Full
    <3>8. Owned(t, r.items, WriteSet(r) \ r.left)' BY <2>11, <3>2 DEF Owned, WriteSet
    <3>9. Rest(L) \subseteq W BY <1>5, <2>9
    <3>10. LockPhase(t, r)' BY <2>16, <3>2, <3>8, <3>9 DEF LockPhase, WriteSet
    <3>11. TxOK(t, r)'
      BY <3>2, <3>3, <3>4, <3>5, <3>6, <3>7, <3>10 DEF TxOK, Past, CheckPhase, InstallPhase
    <3>12. TxOK(t, tx[t])' BY <3>3, <3>11
    <3> QED BY <3>3, <3>12, OneStep
  <2> QED BY <2>15, <2>16
<1> QED BY <1>9, <1>10

\* The locks of t are given back.
LEMMA UnlockedFacts ==
  ASSUME Lead, NEW t \in Txns, rec' = Unlocked(tx[t].locked)
  PROVE  /\ rec' \in [Recs -> Record]
         /\ \A x \in Recs : rec'[x].key = rec[x].key /\ rec'[x].valid = rec[x].valid /\ rec'[x].val = rec[x].val
         /\ \A x \in Recs, d \in Txns \ {t} : rec'[x].lock = d <=> rec[x].lock = d
         /\ \A x \in Recs : x > nrec => rec'[x].lock = rec[x].lock
         /\ \A x \in Recs : rec'[x].lock # t
<1>1. Types /\ LockOK(t, tx[t]) /\ TreeInv BY TxFacts DEF TxOK, Lead
<1>2. ASSUME NEW x \in Recs
      PROVE  /\ rec'[x] \in Record
             /\ rec'[x].key = rec[x].key /\ rec'[x].valid = rec[x].valid /\ rec'[x].val = rec[x].val
             /\ rec[x].lock = t => rec'[x].lock = 0
             /\ rec[x].lock # t => rec'[x].lock = rec[x].lock
  <2>1. rec[x] \in Record BY <1>1, RecFields
  <2>2. CASE x \in tx[t].locked
    <3>1. rec'[x] = [rec[x] EXCEPT !.lock = 0] BY <2>2 DEF Unlocked
    <3>2. rec[x].lock = t BY <1>1, <2>2 DEF LockOK
    <3> QED BY <2>1, <3>1, <3>2 DEF Record
  <2>3. CASE x \notin tx[t].locked
    <3>1. rec'[x] = rec[x] BY <2>3 DEF Unlocked
    <3>2. rec[x].lock # t BY <1>1, <2>3 DEF LockOK
    <3> QED BY <2>1, <3>1, <3>2
  <2> QED BY <2>2, <2>3
<1>3. rec' \in [Recs -> Record] BY <1>2 DEF Unlocked
<1>4. t # 0 /\ \A d \in Txns : d # 0 BY Numbers
<1>5. \A x \in Recs : x > nrec => rec[x].lock = 0 BY <1>1 DEF TreeInv
<1> QED BY <1>2, <1>3, <1>4, <1>5

LEMMA StopCommittedStep ==
  ASSUME Lead, NEW t \in Txns, StopCommitted(t)
  PROVE  Lead'
<1>s. PICK s : s = tx[t].items OBVIOUS
<1>r. PICK r : r = [tx[t] EXCEPT !.pc = "committed", !.locked = {}] OBVIOUS
<1>1. /\ tx[t].pc = "stop" /\ UNCHANGED <<tree, leaf, nrec, clock, eff>>
      /\ rec' = Unlocked(tx[t].locked) /\ Becomes(t, r)
  BY <1>r DEF StopCommitted, At, treeVars, logVars
<1>2. tx[t] \in TxRec /\ TxOK(t, tx[t]) /\ s \in Seq(ItemRec) /\ Types BY <1>s, TxFacts
<1>3. \A j \in DOMAIN s : s[j] \in ItemRec /\ Static(t, s[j]) BY <1>s, TxFacts
<1>4. /\ tx[t].cid # 0 /\ (\A j \in DOMAIN s : Good(t, s[j])) /\ ProgOK(tx[t]) /\ CidOK(tx[t])
  BY <1>s, <1>1, <1>2 DEF TxOK, Past, CidOK
<1>5. /\ r \in TxRec /\ r.pc = "committed" /\ r.items = s /\ r.cid = tx[t].cid /\ r.prog = tx[t].prog
      /\ r.ip = tx[t].ip /\ r.todo = tx[t].todo /\ r.locked = {}
  <2>1. "committed" \in Pcs BY DEF Pcs, Past
  <2>2. r \in TxRec BY <1>r, <1>2, <2>1 DEF TxRec
  <2> QED BY <1>r, <1>s, <1>2, <2>2 DEF TxRec
<1>6. /\ rec' \in [Recs -> Record]
      /\ \A x \in Recs : rec'[x].key = rec[x].key /\ rec'[x].valid = rec[x].valid /\ rec'[x].val = rec[x].val
      /\ \A x \in Recs, d \in Txns \ {t} : rec'[x].lock = d <=> rec[x].lock = d
      /\ \A x \in Recs : x > nrec => rec'[x].lock = rec[x].lock
      /\ \A x \in Recs : rec'[x].lock # t
  BY <1>1, UnlockedFacts
<1>7. Types' /\ TreeInv' /\ RecInv' /\ Frame(t) /\ tx'[t] = r BY <1>1, <1>5, <1>6, LockFrame
<1>8. EffInv' /\ PairInv'
  <2>1. tx'[t].pc \in Past /\ tx'[t].items = tx[t].items /\ Stamped(t)'
    BY <1>s, <1>4, <1>5, <1>7 DEF Stamped, Past
  <2> QED BY <1>1, <1>7, <2>1, EffFrame
<1> HIDE <1>r, <1>s
<1>9. \A j \in DOMAIN s : Static(t, s[j])' /\ Good(t, s[j])' BY <1>2, <1>3, <1>4, <1>7, FrameItem
<1>10. ProgOK(r)' BY <1>1, <1>4, <1>5 DEF ProgOK, Running
<1>11. CidOK(r)' BY <1>1, <1>4, <1>5 DEF CidOK
<1>12. LockOK(t, r)' BY <1>5, <1>6 DEF LockOK
<1>13. FullOK(r)' BY <1>5 DEF FullOK, Active, Running
<1>14. TxOK(t, r)'
  BY <1>5, <1>9, <1>10, <1>11, <1>12, <1>13
     DEF TxOK, Active, Running, Failing, LockPhase, CheckPhase, InstallPhase
<1>15. TxOK(t, tx[t])' BY <1>7, <1>14
<1> QED BY <1>7, <1>8, <1>15, OneStep

LEMMA StopAbortedStep ==
  ASSUME Lead, NEW t \in Txns, StopAborted(t)
  PROVE  Lead'
<1>s. PICK s : s = tx[t].items OBVIOUS
<1>r. PICK r : r = [tx[t] EXCEPT !.locked = {}] OBVIOUS
<1>1. /\ tx[t].pc \in Failing /\ UNCHANGED <<tree, leaf, nrec, clock, eff>>
      /\ rec' = Unlocked(tx[t].locked) /\ Becomes(t, r)
  BY <1>r DEF StopAborted, At, Failing, treeVars, logVars
<1>2. tx[t] \in TxRec /\ TxOK(t, tx[t]) /\ s \in Seq(ItemRec) /\ Types BY <1>s, TxFacts
<1>3. \A j \in DOMAIN s : s[j] \in ItemRec /\ Static(t, s[j]) BY <1>s, TxFacts
<1>4. Sound(t, s) /\ ProgOK(tx[t]) /\ CidOK(tx[t]) BY <1>s, <1>1, <1>2 DEF TxOK
<1>5. /\ r \in TxRec /\ r.pc = tx[t].pc /\ r.items = s /\ r.cid = tx[t].cid /\ r.prog = tx[t].prog
      /\ r.ip = tx[t].ip /\ r.todo = tx[t].todo /\ r.locked = {}
  <2>1. r \in TxRec BY <1>r, <1>2 DEF TxRec
  <2> QED BY <1>r, <1>s, <1>2, <2>1 DEF TxRec
<1>6. /\ rec' \in [Recs -> Record]
      /\ \A x \in Recs : rec'[x].key = rec[x].key /\ rec'[x].valid = rec[x].valid /\ rec'[x].val = rec[x].val
      /\ \A x \in Recs, d \in Txns \ {t} : rec'[x].lock = d <=> rec[x].lock = d
      /\ \A x \in Recs : x > nrec => rec'[x].lock = rec[x].lock
      /\ \A x \in Recs : rec'[x].lock # t
  BY <1>1, UnlockedFacts
<1>7. tx[t].pc \notin {"install", "log"} /\ tx[t].pc \notin Past /\ tx[t].pc \notin Running
      /\ tx[t].pc \notin Active /\ tx[t].pc \notin {"lock", "check", "install"}
  BY <1>1 DEF Failing, Past, Active, Running
<1>8. /\ Types' /\ TreeInv' /\ RecInv' /\ Frame(t) /\ tx'[t] = r
      /\ \A x \in Recs : Pending(t, x) => Pending(t, x)'
  BY <1>1, <1>5, <1>6, <1>7, LockFrame
<1>9. EffInv' /\ PairInv' BY <1>1, <1>7, <1>8, EffFrame
<1> HIDE <1>r, <1>s
<1>10. \A j \in DOMAIN s : Static(t, s[j])' BY <1>2, <1>3, <1>8, FrameItem
<1>11. Sound(t, s)' BY <1>2, <1>3, <1>4, <1>8, FrameSound
<1>12. ProgOK(r)' BY <1>1, <1>4, <1>5, <1>7 DEF ProgOK, Running
<1>13. CidOK(r)' BY <1>1, <1>4, <1>5 DEF CidOK
<1>14. LockOK(t, r)' BY <1>5, <1>6 DEF LockOK
<1>15. FullOK(r)' BY <1>5, <1>7 DEF FullOK, Active, Running
<1>16. TxOK(t, r)'
  BY <1>5, <1>7, <1>10, <1>11, <1>12, <1>13, <1>14, <1>15
     DEF TxOK, LockPhase, CheckPhase, InstallPhase
<1>17. TxOK(t, tx[t])' BY <1>8, <1>16
<1> QED BY <1>8, <1>9, <1>17, OneStep

\* A leader replays nothing.
LEMMA LeaderFacts ==
  ASSUME Lead, NEW t \in Txns
  PROVE  ~IsReplay(t) /\ tx[t].prog[1] \in Operation
<1>1. tx[t].prog \in Seq(Operation) /\ ProgOK(tx[t]) BY TxFacts, TxFields DEF TxOK
<1>2. Len(tx[t].prog) \in 1..9 BY <1>1 DEF ProgOK, MaxOps
<1>3. tx[t].prog[1] \in Operation BY <1>1, <1>2
<1>4. ASSUME NEW o \in Operation PROVE o.op # "mbta" BY DEF Operation
<1> QED BY <1>3, <1>4 DEF IsReplay

LEMMA AbortEndStep ==
  ASSUME Lead, NEW t \in Txns, AbortEnd(t)
  PROVE  Lead'
<1> DEFINE p == [tx[t] EXCEPT !.pc = "aborted"]
<1>1. /\ tx[t].pc \in Failing /\ UNCHANGED shared
      /\ Becomes(t, IF IsReplay(t) /\ tx[t].pc = "abort" THEN NewTxn(tx[t].prog) ELSE p)
  BY DEF AbortEnd, At, Failing, shared, treeVars, logVars
<1>2. Becomes(t, p) BY <1>1, LeaderFacts
<1>3. tx[t] \in TxRec /\ TxOK(t, tx[t]) /\ Types BY TxFacts
<1>4. /\ p \in TxRec /\ p.pc = "aborted" /\ p.items = tx[t].items /\ p.cid = tx[t].cid /\ p.prog = tx[t].prog
      /\ p.ip = tx[t].ip /\ p.todo = tx[t].todo /\ p.locked = tx[t].locked
  <2>1. "aborted" \in Pcs BY DEF Pcs
  <2>2. p \in TxRec BY <1>3, <2>1 DEF TxRec
  <2> QED BY <1>3, <2>2 DEF TxRec
<1> HIDE DEF p
<1>5. tx[t].cid = 0 /\ tx[t].pc \notin Past BY <1>1, <1>3 DEF TxOK, CidOK, Failing, Past
<1>6. Core(t, tx[t]) BY <1>3, <1>5 DEF Core, TxOK
<1>7. p.pc \notin Running /\ p.pc # "stop" BY <1>4 DEF Running
<1>8. ProgOK(p) /\ CidOK(p) /\ LockOK(t, p) /\ \A j \in DOMAIN p.items : Static(t, p.items[j])
  BY <1>3, <1>4, <1>6, <1>7, PhaseCore
<1>9. TxOK(t, p)
  BY <1>4, <1>8 DEF TxOK, FullOK, Active, Running, Failing, Past, LockPhase, CheckPhase, InstallPhase
<1> QED BY <1>1, <1>2, <1>4, <1>5, <1>9, QuietStep DEF shared

\* The stamp is greater than all the others.
LEMMA serialize_utilStep ==
  ASSUME Lead, NEW t \in Txns, serialize_util(t)
  PROVE  Lead'
<1>s. PICK s : s = tx[t].items OBVIOUS
<1>r. PICK r : r = [tx[t] EXCEPT !.cid = clock + 1, !.pc = "stop"] OBVIOUS
<1>1. tx[t].pc = "log" /\ UNCHANGED <<tree, leaf, rec, nrec, eff>> /\ clock' = clock + 1 /\ Becomes(t, r)
  BY <1>r DEF serialize_util, tid_unique, At, treeVars
<1>2. tx[t] \in TxRec /\ TxOK(t, tx[t]) /\ s \in Seq(ItemRec) /\ Types /\ TreeInv /\ RecInv
  BY <1>s, TxFacts DEF Lead
<1>3. \A j \in DOMAIN s : s[j] \in ItemRec /\ Static(t, s[j]) BY <1>s, TxFacts
<1>4. /\ tx[t].cid = 0 /\ (\A j \in DOMAIN s : Good(t, s[j])) /\ ProgOK(tx[t]) /\ LockOK(t, tx[t])
  BY <1>s, <1>1, <1>2 DEF TxOK, Past, CidOK
<1>5. clock \in Nat /\ clock + 1 \in Nat /\ clock + 1 # 0 BY <1>2 DEF Types
<1>6. /\ r \in TxRec /\ r.pc = "stop" /\ r.items = s /\ r.cid = clock + 1 /\ r.prog = tx[t].prog
      /\ r.ip = tx[t].ip /\ r.todo = tx[t].todo /\ r.locked = tx[t].locked
  <2>1. "stop" \in Pcs BY DEF Pcs, Past
  <2>2. r \in TxRec BY <1>r, <1>2, <1>5, <2>1 DEF TxRec
  <2> QED BY <1>r, <1>s, <1>2, <2>2 DEF TxRec
<1>7. tx' \in [Txns -> TxRec] /\ tx'[t] = r /\ \A d \in Txns \ {t} : tx'[d] = tx[d]
  BY <1>1, <1>2, <1>6 DEF Types, Becomes
<1>8. Types' BY <1>1, <1>2, <1>5, <1>7 DEF Types
<1>9. TreeInv' /\ \A x : (Dead(x)' <=> Dead(x)) BY <1>1, <1>2 DEF TreeInv, Linked, Dead
<1>10. \A d \in Txns : Stamped(d) => d # t /\ Stamped(d)' /\ tx[d].cid <= clock /\ tx[d].cid \in Nat
  <2>1. ASSUME NEW d \in Txns PROVE tx[d].cid <= clock /\ tx[d].cid \in Nat BY TxFacts, TxFields DEF TxOK, CidOK
  <2> QED BY <1>4, <1>7, <2>1 DEF Stamped
<1>11. RecInv'
  <2>1. ASSUME NEW x \in Recs, NEW d \in Txns, rec'[x].valid, rec'[x].val \in ValuesOf(d)
        PROVE  WriterOf(x, d)'
    <3>1. WriterOf(x, d) BY <1>1, <1>2, <2>1 DEF RecInv
    <3>2. CASE d = t BY <1>5, <1>6, <1>7, <3>2 DEF WriterOf, Stamped
    <3>3. CASE d # t BY <1>1, <1>7, <3>1, <3>3 DEF WriterOf, Stamped
    <3> QED BY <3>2, <3>3
  <2> QED BY <2>1 DEF RecInv
<1>12. ASSUME NEW d \in Txns, NEW e \in Txns, Precedes(d, e) PROVE Precedes(d, e)'
  <2>1. Stamped(d) /\ d # t /\ Stamped(d)' /\ tx'[d] = tx[d] BY <1>7, <1>10, <1>12 DEF Precedes
  <2>2. CASE e = t
    <3>1. tx[d].cid < clock + 1
      <4>1. tx[d].cid \in Nat /\ tx[d].cid <= clock BY <1>10, <2>1
      <4> QED BY ONLY <1>5, <4>1
    <3> QED BY <1>6, <1>7, <2>1, <2>2, <3>1 DEF Precedes
  <2>3. CASE e # t BY <1>7, <1>12, <2>1, <2>3 DEF Precedes, Stamped
  <2> QED BY <2>2, <2>3
<1>13. Frame(t)
  <2>1. \A x, d : Pending(d, x)' <=> Pending(d, x) BY <1>1 DEF Pending, Linked
  <2>2. nrec <= nrec' /\ clock <= clock' BY <1>1, <1>2, <1>5, Numbers DEF Types
  <2> QED BY <1>1, <1>7, <1>9, <1>12, <2>1, <2>2 DEF Frame
<1>14. EffInv' /\ PairInv'
  <2>1. tx'[t].pc \in Past /\ tx'[t].items = tx[t].items /\ Stamped(t)'
    BY <1>s, <1>5, <1>6, <1>7 DEF Stamped, Past
  <2> QED BY <1>1, <1>13, <2>1, EffFrame
<1> HIDE <1>r, <1>s
<1>15. \A j \in DOMAIN s : Static(t, s[j])' /\ Good(t, s[j])' BY <1>2, <1>3, <1>4, <1>8, <1>13, FrameItem
<1>16. ProgOK(r)' BY <1>1, <1>4, <1>6 DEF ProgOK, Running
<1>17. CidOK(r)' BY <1>1, <1>5, <1>6 DEF CidOK
<1>18. LockOK(t, r)' BY <1>1, <1>4, <1>6 DEF LockOK
<1>19. FullOK(r)' BY <1>6 DEF FullOK, Active, Running
<1>20. TxOK(t, r)'
  BY <1>6, <1>15, <1>16, <1>17, <1>18, <1>19
     DEF TxOK, Active, Running, Failing, LockPhase, CheckPhase, InstallPhase
<1>21. TxOK(t, tx[t])' BY <1>7, <1>20
<1> QED BY <1>8, <1>9, <1>11, <1>13, <1>14, <1>21, OneStep

LEMMA RemovedLeaf ==
  ASSUME NEW l \in LeafRec
  PROVE  finish_remove(l) \in LeafRec
BY DEF finish_remove, LeafRec

\* Record u leaves the index.
LEMMA UnlinkFacts ==
  ASSUME Types, TreeInv, NEW u \in Recs, u <= nrec, Linked(u), NEW k, k = rec[u].key,
         tree' = [tree EXCEPT ![k] = 0], \A x \in Recs : rec'[x].key = rec[x].key
  PROVE  /\ k \in Keys /\ tree' \in [Keys -> 0..MaxRecs] /\ ~Linked(u)'
         /\ \A x \in Recs : x # u /\ x <= nrec => (Linked(x)' <=> Linked(x))
         /\ \A y \in Keys : tree'[y] # 0 => y # k /\ tree'[y] = tree[y]
<1>1. k \in Keys BY DEF TreeInv
<1>2. 0 \in 0..MaxRecs /\ u # 0 BY Numbers
<1>3. /\ tree' \in [Keys -> 0..MaxRecs] /\ tree'[k] = 0 /\ \A y \in Keys : y # k => tree'[y] = tree[y]
  BY <1>1, <1>2 DEF Types
<1>4. ~Linked(u)' BY <1>2, <1>3 DEF Linked
<1>5. ASSUME NEW x \in Recs, x # u, x <= nrec PROVE Linked(x)' <=> Linked(x)
  <2>1. rec[x].key \in Keys /\ x # 0 BY <1>5, Numbers DEF TreeInv
  <2> QED BY <1>3, <1>5, <2>1 DEF Linked
<1> QED BY <1>1, <1>3, <1>4, <1>5

LEMMA cleanupStep ==
  ASSUME Lead, NEW t \in Txns, cleanup(t)
  PROVE  Lead'
<1>i. PICK i : i = Max(Inserts(t)) OBVIOUS
<1>s. PICK s : s = tx[t].items OBVIOUS
<1>u. PICK u : u = s[i].rec OBVIOUS
<1>k. PICK k : k = rec[u].key OBVIOUS
<1>w. PICK w : w = [s[i] EXCEPT !.ins = FALSE] OBVIOUS
<1>n. PICK new : new = [s EXCEPT ![i] = w] OBVIOUS
<1>r. PICK r : r = [tx[t] EXCEPT !.items = new] OBVIOUS
<1>1. /\ tx[t].pc \in Failing /\ UNCHANGED <<rec, nrec, clock, eff>> /\ Inserts(t) # {}
      /\ tree' = [tree EXCEPT ![k] = 0] /\ leaf' = finish_remove(leaf) /\ Becomes(t, r)
  BY <1>i, <1>s, <1>u, <1>k, <1>w, <1>n, <1>r DEF cleanup, At, Failing, logVars
<1>2. tx[t] \in TxRec /\ TxOK(t, tx[t]) /\ s \in Seq(ItemRec) /\ Types /\ TreeInv /\ RecInv
  BY <1>s, TxFacts DEF Lead
<1>3. \A j \in DOMAIN s : s[j] \in ItemRec /\ Static(t, s[j]) /\ j \in Nat /\ j <= Len(s) /\ Len(s) \in Nat
  BY <1>2, <1>s, TxFacts, SeqFacts
<1>4. Sound(t, s) /\ ProgOK(tx[t]) /\ CidOK(tx[t]) /\ LockOK(t, tx[t]) BY <1>s, <1>1, <1>2 DEF TxOK
<1>5. i \in DOMAIN s /\ s[i].ins
  <2>1. Inserts(t) \subseteq Nat /\ \A j \in Inserts(t) : j <= Len(s) BY <1>s, <1>3 DEF Inserts
  <2>2. Len(s) \in Nat BY <1>2
  <2>3. i \in Inserts(t) BY <1>i, <1>1, <2>1, <2>2, GreatestNat
  <2> QED BY <1>s, <2>3 DEF Inserts
<1>6. Pending(t, u) /\ u \in Recs /\ u <= nrec /\ s[i].rd = NoVersion
  BY <1>u, <1>3, <1>4, <1>5, ItemFields, Numbers DEF Sound, SoundItem, Static
<1>7. /\ w \in ItemRec /\ w.rec = u /\ w.rd = NoVersion /\ ~w.ins /\ w.wr = s[i].wr /\ w.del = s[i].del
      /\ w.val = s[i].val /\ w.seen = s[i].seen
  <2>1. s[i] \in ItemRec BY <1>3, <1>5
  <2>2. w \in ItemRec BY <1>w, <2>1 DEF ItemRec
  <2> QED BY <1>u, <1>w, <1>6, <2>1 DEF ItemRec
<1>8. new \in Seq(ItemRec) /\ DOMAIN new = DOMAIN s /\ new[i] = w /\ \A j \in DOMAIN s : j # i => new[j] = s[j]
  BY <1>n, <1>2, <1>5, <1>7
<1>9. /\ r \in TxRec /\ r.pc = tx[t].pc /\ r.items = new /\ r.cid = tx[t].cid /\ r.prog = tx[t].prog
      /\ r.ip = tx[t].ip /\ r.todo = tx[t].todo /\ r.locked = tx[t].locked
  <2>1. r \in TxRec BY <1>r, <1>2, <1>8 DEF TxRec
  <2> QED BY <1>r, <1>2, <2>1 DEF TxRec
<1>10. tx[t].pc \notin {"install", "log"} /\ tx[t].pc \notin Past /\ tx[t].pc \notin Running
      /\ tx[t].pc \notin Active /\ tx[t].pc \notin {"lock", "check", "install"}
  BY <1>1 DEF Failing, Past, Active, Running
<1>11. tx' \in [Txns -> TxRec] /\ tx'[t] = r /\ \A d \in Txns \ {t} : tx'[d] = tx[d]
  BY <1>1, <1>2, <1>9 DEF Types, Becomes
<1>12. /\ k \in Keys /\ tree' \in [Keys -> 0..MaxRecs] /\ ~Linked(u)'
       /\ \A x \in Recs : x # u /\ x <= nrec => (Linked(x)' <=> Linked(x))
       /\ \A y \in Keys : tree'[y] # 0 => y # k /\ tree'[y] = tree[y]
  <2>1. Linked(u) BY <1>6 DEF Pending
  <2>2. \A x \in Recs : rec'[x].key = rec[x].key BY <1>1
  <2> QED BY <1>k, <1>1, <1>2, <1>6, <2>1, <2>2, UnlinkFacts
<1> HIDE <1>i, <1>s, <1>k, <1>w, <1>n, <1>r
<1>13. Types'
  <2>1. leaf' \in LeafRec BY <1>1, <1>2, RemovedLeaf DEF Types
  <2> QED BY <1>1, <1>2, <1>11, <1>12, <2>1 DEF Types
<1>14. ~rec[u].valid /\ rec[u].val \in ValuesOf(t) BY <1>6 DEF Pending
<1>15. TreeInv'
  <2>1. \A y \in Keys : tree'[y] # 0 => tree'[y] \in 1..nrec' /\ rec'[tree'[y]].key = y
    BY <1>1, <1>2, <1>12 DEF TreeInv
  <2>2. \A x \in Recs : x <= nrec' => rec'[x].key \in Keys /\ (rec'[x].valid => Linked(x)')
    BY <1>1, <1>2, <1>12, <1>14 DEF TreeInv
  <2>3. \A x \in Recs : x > nrec' => ~rec'[x].valid /\ rec'[x].lock = 0 BY <1>1, <1>2 DEF TreeInv
  <2> QED BY <2>1, <2>2, <2>3 DEF TreeInv
<1>16. \A d \in Txns : tx'[d].cid = tx[d].cid BY <1>9, <1>11
<1>17. RecInv'
  <2>1. ASSUME NEW x \in Recs, NEW d \in Txns, rec'[x].valid, rec'[x].val \in ValuesOf(d)
        PROVE  WriterOf(x, d)'
    <3>1. WriterOf(x, d) BY <1>1, <1>2, <2>1 DEF RecInv
    <3>2. CASE d = t BY <1>10, <1>16, <3>1, <3>2 DEF WriterOf, Stamped
    <3>3. CASE d # t BY <1>1, <1>11, <3>1, <3>3 DEF WriterOf, Stamped
    <3> QED BY <3>2, <3>3
  <2> QED BY <2>1 DEF RecInv
<1>18. \A x \in Recs, d \in Txns : x <= nrec /\ x # u /\ Pending(d, x) => Pending(d, x)'
  BY <1>1, <1>12 DEF Pending
<1>19. Frame(t)
  <2>1. \A d, e \in Txns : Precedes(d, e)' <=> Precedes(d, e) BY <1>16 DEF Precedes, Stamped
  <2>2. nrec <= nrec' /\ clock <= clock' BY <1>1, <1>2, Numbers DEF Types
  <2>3. \A d \in Txns \ {t} : ~Pending(d, u) BY <1>14, ValueFacts DEF Pending
  <2>4. \A x \in Recs : x <= nrec /\ Dead(x) => Dead(x)' BY <1>1, <1>12 DEF Dead
  <2>5. \A x \in Recs, d \in Txns \ {t} : x <= nrec /\ Pending(d, x) => Pending(d, x)' BY <1>18, <2>3
  <2> QED BY <1>1, <1>11, <2>1, <2>2, <2>4, <2>5 DEF Frame
<1>20. EffInv' /\ PairInv' BY <1>1, <1>10, <1>19, EffFrame
<1>21. Static(t, w) BY <1>u, <1>3, <1>5, <1>6, <1>7 DEF Static
<1>22. \A j \in DOMAIN new : new[j] \in ItemRec /\ Static(t, new[j]) BY <1>3, <1>7, <1>8, <1>21
<1>23. \A j \in DOMAIN new : Static(t, new[j])' BY <1>2, <1>13, <1>19, <1>22, FrameItem
<1>24. ASSUME NEW j \in DOMAIN new PROVE SoundItem(t, new[j])'
  <2>1. CASE j = i BY <1>7, <1>8, <2>1, NoVersionFacts DEF SoundItem, ReadItem
  <2>2. CASE j # i
    <3>1. new[j] = s[j] /\ SoundItem(t, s[j]) BY <1>4, <1>8, <2>2 DEF Sound
    <3>2. ReadItem(t, s[j])' BY <1>2, <1>3, <1>8, <1>13, <1>19, <3>1, FrameItem DEF SoundItem
    <3>3. ASSUME s[j].ins PROVE Pending(t, s[j].rec)'
      <4>1. s[j].rec # u
        <5>1. j < i \/ i < j BY <1>3, <1>5, <1>8, <2>2
        <5>2. (j < i => Pair(s[j], s[i])) /\ (i < j => Pair(s[i], s[j])) BY <1>4, <1>5, <1>8 DEF Sound
        <5> QED BY <1>u, <1>5, <3>3, <5>1, <5>2 DEF Pair
      <4>2. s[j].rec \in Recs /\ s[j].rec <= nrec BY <1>3, <1>8, <3>3, ItemFields, Numbers DEF Static
      <4> QED BY <1>18, <3>1, <3>3, <4>1, <4>2 DEF SoundItem
    <3> QED BY <3>1, <3>2, <3>3 DEF SoundItem
  <2> QED BY <2>1, <2>2
<1>25. ASSUME NEW j \in DOMAIN new, NEW m \in DOMAIN new, j < m PROVE Pair(new[j], new[m])'
  <2>1. Pair(s[j], s[m]) BY <1>4, <1>8, <1>25 DEF Sound
  <2>2. Pair(new[j], new[m]) BY <1>u, <1>6, <1>7, <1>8, <2>1 DEF Pair
  <2>3. new[m].rec <= nrec BY <1>22 DEF Static
  <2> QED BY <1>2, <1>19, <1>22, <2>2, <2>3, FramePair
<1>26. Sound(t, new)' BY <1>24, <1>25 DEF Sound
<1>27. ProgOK(r)' BY <1>1, <1>4, <1>9, <1>10 DEF ProgOK, Running
<1>28. CidOK(r)' BY <1>1, <1>4, <1>9 DEF CidOK
<1>29. LockOK(t, r)' BY <1>1, <1>4, <1>9 DEF LockOK
<1>30. FullOK(r)' BY <1>9, <1>10 DEF FullOK, Active, Running
<1>31. TxOK(t, r)'
  BY <1>9, <1>10, <1>23, <1>26, <1>27, <1>28, <1>29, <1>30
     DEF TxOK, LockPhase, CheckPhase, InstallPhase
<1>32. TxOK(t, tx[t])' BY <1>11, <1>31
<1> QED BY <1>13, <1>15, <1>17, <1>19, <1>20, <1>32, OneStep

\* What installing an item does to its record u, of key k: a delete takes it out
\* of the index, any other leaves a valid record with the transaction's value.
Installs(t, it, u, k, q) ==
  /\ q \in Record /\ q.key = k /\ q.lock = t
  /\ rec' = [rec EXCEPT ![u] = q] /\ leaf' \in LeafRec
  /\ \/ it.del /\ ~q.valid /\ tree' = [tree EXCEPT ![k] = 0]
     \/ ~it.del /\ q.valid /\ q.val \in ValuesOf(t) /\ tree' = tree

\* The item in hand, at index i, its record u and its key k.
InHand(t, i, it, u, k) ==
  /\ i = Min(tx[t].left) /\ it = tx[t].items[i] /\ u = it.rec /\ k = rec[u].key
  /\ i \in WriteSet(tx[t]) /\ i \in tx[t].left /\ i \in DOMAIN tx[t].items
  /\ it \in ItemRec /\ it.wr /\ u \in Recs /\ u <= nrec /\ k \in Keys /\ Linked(u) /\ rec[u].lock = t
  /\ Ready(t, it)

LEMMA InstallFacts ==
  ASSUME Lead, NEW t \in Txns, Install(t)
  PROVE  /\ tx[t].pc = "install" /\ Owned(t, tx[t].items, WriteSet(tx[t]))
         /\ tx[t].left \subseteq WriteSet(tx[t]) /\ tx[t].left \subseteq Nat
         /\ nrec' = nrec /\ clock' = clock /\ Becomes(t, Then(tx[t], ToLog(t)))
         /\ \E i, it, u, k, q :
              /\ InHand(t, i, it, u, k) /\ Installs(t, it, u, k, q)
              /\ eff' = [eff EXCEPT ![k] = Append(eff[k], t)]
<1>0. PICK i, it, u, k : i = Min(tx[t].left) /\ it = tx[t].items[i] /\ u = it.rec /\ k = rec[u].key
  OBVIOUS
<1>1. /\ tx[t].pc = "install" /\ nrec' = nrec /\ clock' = clock
      /\ eff' = [eff EXCEPT ![k] = Append(eff[k], t)] /\ Becomes(t, Then(tx[t], ToLog(t)))
  BY <1>0 DEF Install, Item, At, logVars
<1>2. \/ /\ it.del
         /\ rec' = [rec EXCEPT ![u] = [rec[u] EXCEPT !.valid = FALSE]]
         /\ tree' = [tree EXCEPT ![k] = 0]
         /\ leaf' = finish_remove(leaf)
      \/ /\ ~ it.del
         /\ it.ins
         /\ rec' = [rec EXCEPT ![u] = [rec[u] EXCEPT !.valid = TRUE]]
         /\ UNCHANGED <<tree, leaf>>
      \/ /\ ~ it.del
         /\ ~ it.ins
         /\ rec' = [rec EXCEPT ![u] = [rec[u] EXCEPT !.val = it.val, !.n = rec[u].n + 1]]
         /\ UNCHANGED <<tree, leaf>>
  BY <1>0 DEF Install, Item, treeVars
<1>3. /\ tx[t] \in TxRec /\ TxOK(t, tx[t]) /\ Types /\ TreeInv
      /\ \A j \in DOMAIN tx[t].items : tx[t].items[j] \in ItemRec /\ Static(t, tx[t].items[j])
  BY TxFacts DEF Lead
<1>4. InstallPhase(t, tx[t]) BY <1>3 DEF TxOK
<1>5. /\ tx[t].left \subseteq WriteSet(tx[t]) /\ tx[t].left # {}
      /\ Owned(t, tx[t].items, WriteSet(tx[t])) /\ \A j \in tx[t].left : Ready(t, tx[t].items[j])
  BY <1>1, <1>4 DEF InstallPhase
<1>6. tx[t].left \subseteq Nat BY <1>3, TxFields
<1>7. i \in tx[t].left BY <1>0, <1>5, <1>6, LeftFacts
<1>8. /\ i \in WriteSet(tx[t]) /\ i \in DOMAIN tx[t].items /\ it \in ItemRec /\ it.wr /\ u \in Recs /\ u <= nrec
  BY <1>0, <1>3, <1>5, <1>7, WriteFacts
<1>9. Ready(t, it) /\ rec[u].lock = t BY <1>0, <1>5, <1>7, <1>8 DEF Owned
<1>10. k \in Keys BY <1>0, <1>3, <1>8 DEF TreeInv
<1>11. Linked(u) BY <1>0, <1>3, <1>8, <1>9 DEF Ready, Pending, TreeInv
<1>12. /\ rec[u] \in Record /\ rec[u].n + 1 \in Nat /\ it.val \in Int /\ leaf \in LeafRec
  BY <1>3, <1>8, RecFields, ItemFields DEF Types
<1>13. ~it.del => it.val \in ValuesOf(t) BY <1>0, <1>3, <1>8 DEF Static
<1>14. \E q : Installs(t, it, u, k, q)
  <2>1. CASE it.del
    <3> DEFINE q == [rec[u] EXCEPT !.valid = FALSE]
    <3>1. q \in Record BY <1>12 DEF Record
    <3>2. q.key = k /\ q.lock = t /\ ~q.valid BY <1>0, <1>9, <1>12 DEF Record
    <3>3. rec' = [rec EXCEPT ![u] = q] /\ tree' = [tree EXCEPT ![k] = 0] /\ leaf' = finish_remove(leaf)
      BY <1>2, <2>1
    <3> HIDE DEF q
    <3>4. leaf' \in LeafRec BY <1>12, <3>3, RemovedLeaf
    <3>5. Installs(t, it, u, k, q) BY <2>1, <3>1, <3>2, <3>3, <3>4 DEF Installs
    <3> QED BY <3>5
  <2>2. CASE ~it.del /\ it.ins
    <3> DEFINE q == [rec[u] EXCEPT !.valid = TRUE]
    <3>1. q \in Record BY <1>12 DEF Record
    <3>2. q.key = k /\ q.lock = t /\ q.valid /\ q.val = rec[u].val BY <1>0, <1>9, <1>12 DEF Record
    <3>3. rec' = [rec EXCEPT ![u] = q] /\ tree' = tree /\ leaf' \in LeafRec BY <1>2, <1>12, <2>2
    <3> HIDE DEF q
    <3>4. q.val \in ValuesOf(t) BY <1>0, <1>9, <2>2, <3>2 DEF Ready, Pending
    <3>5. Installs(t, it, u, k, q) BY <2>2, <3>1, <3>2, <3>3, <3>4 DEF Installs
    <3> QED BY <3>5
  <2>3. CASE ~it.del /\ ~it.ins
    <3> DEFINE q == [rec[u] EXCEPT !.val = it.val, !.n = rec[u].n + 1]
    <3>1. q \in Record BY <1>12 DEF Record
    <3>2. q.key = k /\ q.lock = t /\ q.valid = rec[u].valid /\ q.val = it.val BY <1>0, <1>9, <1>12 DEF Record
    <3>3. rec' = [rec EXCEPT ![u] = q] /\ tree' = tree /\ leaf' \in LeafRec BY <1>2, <1>12, <2>3
    <3> HIDE DEF q
    <3>4. q.valid /\ q.val \in ValuesOf(t) BY <1>0, <1>9, <1>13, <2>3, <3>2 DEF Ready
    <3>5. Installs(t, it, u, k, q) BY <2>3, <3>1, <3>2, <3>3, <3>4 DEF Installs
    <3> QED BY <3>5
  <2> QED BY <2>1, <2>2, <2>3
<1>15. InHand(t, i, it, u, k) BY <1>0, <1>7, <1>8, <1>9, <1>10, <1>11 DEF InHand
<1> QED BY <1>1, <1>5, <1>6, <1>14, <1>15

\* Nobody else holds a key whose record t has locked.
LEMMA NobodyElse ==
  ASSUME Lead, NEW t \in Txns, NEW u \in Recs, Linked(u), rec[u].lock = t,
         NEW d \in Txns \ {t}
  PROVE  ~Holds(d, rec[u].key)
<1>1. SUFFICES ASSUME Holds(d, rec[u].key) PROVE FALSE OBVIOUS
<1>2. PICK j \in WriteSet(tx[d]) :
        LET it == tx[d].items[j] IN
        rec[it.rec].key = rec[u].key /\ rec[it.rec].valid /\ rec[it.rec].lock = d
  BY <1>1 DEF Holds
<1>3. tx[d].items[j].rec \in Recs /\ tx[d].items[j].rec <= nrec BY TxFacts, WriteFacts
<1>4. Linked(tx[d].items[j].rec) BY <1>2, <1>3 DEF Lead, TreeInv
<1>5. tx[d].items[j].rec = u BY <1>2, <1>4 DEF Linked
<1> QED BY <1>2, <1>5

LEMMA InstallStep ==
  ASSUME Lead, NEW t \in Txns, Install(t)
  PROVE  Lead'
<1>s. PICK s : s = tx[t].items OBVIOUS
<1>W. PICK W : W = WriteSet(tx[t]) OBVIOUS
<1>r. PICK r : r = Then(tx[t], ToLog(t)) OBVIOUS
<1>0. /\ tx[t].pc = "install" /\ Owned(t, s, W) /\ tx[t].left \subseteq W /\ tx[t].left \subseteq Nat
      /\ nrec' = nrec /\ clock' = clock /\ Becomes(t, r)
  BY <1>s, <1>W, <1>r, InstallFacts
<1>q. PICK i, it, u, k, q :
        /\ InHand(t, i, it, u, k) /\ Installs(t, it, u, k, q)
        /\ eff' = [eff EXCEPT ![k] = Append(eff[k], t)]
  BY InstallFacts
<1>e. i = Min(tx[t].left) /\ it = s[i] /\ u = it.rec /\ k = rec[u].key BY <1>s, <1>q DEF InHand
<1>1. /\ tx[t].pc = "install" /\ i \in W /\ i \in tx[t].left /\ i \in DOMAIN s
      /\ it \in ItemRec /\ it.wr /\ u \in Recs /\ u <= nrec /\ k \in Keys /\ Linked(u) /\ rec[u].lock = t
      /\ Ready(t, it) /\ Owned(t, s, W)
      /\ tx[t].left \subseteq W /\ tx[t].left \subseteq Nat
      /\ eff' = [eff EXCEPT ![k] = Append(eff[k], t)] /\ nrec' = nrec /\ clock' = clock
      /\ Becomes(t, r)
  BY <1>s, <1>W, <1>0, <1>q DEF InHand
<1>2. tx[t] \in TxRec /\ TxOK(t, tx[t]) /\ s \in Seq(ItemRec) /\ Types /\ TreeInv /\ RecInv
  BY <1>s, TxFacts DEF Lead
<1>3. /\ \A j \in DOMAIN s : s[j] \in ItemRec /\ Static(t, s[j])
      /\ \A j \in W : j \in DOMAIN s /\ s[j].rec \in Recs /\ s[j].rec <= nrec /\ s[j].wr
  BY <1>s, <1>W, <1>2, TxFacts, WriteFacts
<1>4. /\ (\A j \in DOMAIN s : Good(t, s[j])) /\ InstallPhase(t, tx[t]) /\ tx[t].cid = 0
      /\ ProgOK(tx[t]) /\ LockOK(t, tx[t])
  BY <1>s, <1>1, <1>2 DEF TxOK, Past, CidOK
<1>5. \A j \in tx[t].left : Ready(t, s[j]) BY <1>s, <1>1, <1>4 DEF InstallPhase
<1>6. r = IF Rest(tx[t]) = {} THEN Phase(tx[t], "log", {}) ELSE Phase(tx[t], "install", Rest(tx[t]))
  BY <1>r, <1>1, LeaderFacts DEF Then, ToLog
<1>7. /\ r \in TxRec /\ r.items = s /\ r.cid = 0 /\ r.prog = tx[t].prog /\ r.ip = tx[t].ip
      /\ r.todo = tx[t].todo /\ r.locked = tx[t].locked /\ WriteSet(r) = W
      /\ \/ r.pc = "log"
         \/ r.pc = "install" /\ r.left = tx[t].left \ {i} /\ r.left # {}
  <2>1. "log" \in Pcs /\ "install" \in Pcs /\ {} \subseteq Nat BY DEF Pcs, Past
  <2>2. Rest(tx[t]) = tx[t].left \ {i} /\ Rest(tx[t]) \subseteq Nat BY <1>e, <1>1 DEF Rest
  <2>3. CASE Rest(tx[t]) = {}
    <3>1. r = Phase(tx[t], "log", {}) BY <1>6, <2>3
    <3> QED BY <1>s, <1>W, <1>2, <1>4, <2>1, <3>1, PhaseFacts
  <2>4. CASE Rest(tx[t]) # {}
    <3>1. r = Phase(tx[t], "install", Rest(tx[t])) BY <1>6, <2>4
    <3>2. /\ r \in TxRec /\ r.pc = "install" /\ r.left = Rest(tx[t]) /\ r.items = tx[t].items
          /\ r.cid = tx[t].cid /\ r.prog = tx[t].prog /\ r.ip = tx[t].ip
          /\ r.todo = tx[t].todo /\ r.locked = tx[t].locked /\ WriteSet(r) = WriteSet(tx[t])
      BY <1>2, <2>1, <2>2, <3>1, PhaseFacts
    <3> QED BY <1>s, <1>W, <1>4, <2>2, <2>4, <3>2
  <2> QED BY <2>3, <2>4
<1> HIDE <1>s, <1>W, <1>r, <1>6
<1>8. tx' \in [Txns -> TxRec] /\ tx'[t] = r /\ \A d \in Txns \ {t} : tx'[d] = tx[d]
  BY <1>1, <1>2, <1>7 DEF Types, Becomes
<1>9. /\ q \in Record /\ q.key = k /\ q.lock = t /\ rec' = [rec EXCEPT ![u] = q] /\ leaf' \in LeafRec
      /\ \/ it.del /\ ~q.valid /\ tree' = [tree EXCEPT ![k] = 0]
         \/ ~it.del /\ q.valid /\ q.val \in ValuesOf(t) /\ tree' = tree
  BY <1>q DEF Installs
<1>10. rec' \in [Recs -> Record] /\ rec'[u] = q /\ \A x \in Recs : x # u => rec'[x] = rec[x]
  BY <1>1, <1>2, <1>9 DEF Types
<1>11. \A x \in Recs : rec'[x].key = rec[x].key /\ rec'[x].lock = rec[x].lock BY <1>e, <1>1, <1>9, <1>10
<1>12. /\ tree' \in [Keys -> 0..MaxRecs]
       /\ it.del => ~Linked(u)'
       /\ ~it.del => Linked(u)'
       /\ \A x \in Recs : x # u /\ x <= nrec => (Linked(x)' <=> Linked(x))
       /\ \A y \in Keys : tree'[y] # 0 => tree'[y] = tree[y]
  <2>1. CASE it.del
    <3>1. tree' = [tree EXCEPT ![k] = 0] BY <1>9, <2>1
    <3>2. /\ tree' \in [Keys -> 0..MaxRecs] /\ ~Linked(u)'
          /\ \A x \in Recs : x # u /\ x <= nrec => (Linked(x)' <=> Linked(x))
          /\ \A y \in Keys : tree'[y] # 0 => tree'[y] = tree[y]
      <4>1. k = rec[u].key /\ u \in Recs /\ u <= nrec /\ Linked(u) /\ Types /\ TreeInv BY <1>e, <1>1, <1>2
      <4>2. \A x \in Recs : rec'[x].key = rec[x].key BY <1>11
      <4> QED BY <3>1, <4>1, <4>2, UnlinkFacts
    <3> QED BY <2>1, <3>2
  <2>2. CASE ~it.del
    <3>1. tree' = tree BY <1>9, <2>2
    <3> QED BY <1>1, <1>2, <1>11, <2>2, <3>1 DEF Types, Linked
  <2> QED BY <2>1, <2>2
<1>13. eff' \in [Keys -> Seq(Txns)] BY <1>1, <1>2 DEF Types
<1>14. Types' BY <1>1, <1>2, <1>8, <1>9, <1>10, <1>12, <1>13 DEF Types
<1>15. TreeInv'
  <2>1. ASSUME NEW y \in Keys, tree'[y] # 0 PROVE tree'[y] \in 1..nrec /\ rec'[tree'[y]].key = y
    <3>1. tree'[y] = tree[y] /\ tree[y] \in 1..nrec /\ rec[tree[y]].key = y /\ tree[y] \in 0..MaxRecs
      BY <1>2, <1>12, <2>1 DEF TreeInv, Types
    <3>2. tree[y] \in Recs BY <2>1, <3>1, Numbers
    <3> QED BY <1>11, <3>1, <3>2
  <2>2. ASSUME NEW x \in Recs, x <= nrec PROVE rec'[x].key \in Keys /\ (rec'[x].valid => Linked(x)')
    <3>1. rec[x].key \in Keys /\ (rec[x].valid => Linked(x)) BY <1>2, <2>2 DEF TreeInv
    <3>2. CASE x = u BY <1>9, <1>10, <1>11, <1>12, <3>1, <3>2
    <3>3. CASE x # u BY <1>10, <1>12, <2>2, <3>1, <3>3
    <3> QED BY <3>2, <3>3
  <2>3. ASSUME NEW x \in Recs, x > nrec PROVE ~rec'[x].valid /\ rec'[x].lock = 0
    <3>1. x # u
      <4>1. u \in Nat /\ nrec \in Nat BY <1>1, <1>2, Numbers DEF Types
      <4> QED BY <1>1, <2>3, <4>1
    <3> QED BY <1>2, <1>10, <2>3, <3>1 DEF TreeInv
  <2> QED BY <1>1, <2>1, <2>2, <2>3 DEF TreeInv
<1>16. \A d \in Txns : tx'[d].cid = tx[d].cid BY <1>4, <1>7, <1>8
<1>17. RecInv'
  <2>1. ASSUME NEW x \in Recs, NEW d \in Txns, rec'[x].valid, rec'[x].val \in ValuesOf(d)
        PROVE  WriterOf(x, d)'
    <3>1. CASE x = u
      <4>1. q.val \in ValuesOf(t) BY <1>9, <1>10, <2>1, <3>1
      <4>2. d = t BY <1>10, <2>1, <3>1, <4>1, ValueFacts
      <4> QED BY <1>7, <1>8, <1>9, <1>10, <3>1, <4>2 DEF WriterOf
    <3>2. CASE x # u
      <4>1. WriterOf(x, d) /\ rec'[x] = rec[x] BY <1>2, <1>10, <2>1, <3>2 DEF RecInv
      <4>2. CASE d = t BY <1>7, <1>8, <1>16, <4>1, <4>2 DEF WriterOf, Stamped
      <4>3. CASE d # t BY <1>8, <4>1, <4>3 DEF WriterOf, Stamped
      <4> QED BY <4>2, <4>3
    <3> QED BY <3>1, <3>2
  <2> QED BY <2>1 DEF RecInv
<1>18. \A x \in Recs, d \in Txns : x <= nrec /\ x # u /\ Pending(d, x) => Pending(d, x)'
  BY <1>10, <1>12 DEF Pending
<1>19. Frame(t)
  <2>1. \A d, e \in Txns : Precedes(d, e)' <=> Precedes(d, e) BY <1>16 DEF Precedes, Stamped
  <2>2. nrec <= nrec' /\ clock <= clock' BY <1>1, <1>2, Numbers DEF Types
  <2>3. \A d \in Txns \ {t} : ~Pending(d, u)
    <3>1. CASE it.ins BY <1>e, <1>1, <3>1, ValueFacts DEF Ready, Pending
    <3>2. CASE ~it.ins BY <1>e, <1>1, <3>2 DEF Ready, Pending
    <3> QED BY <3>1, <3>2
  <2>4. ASSUME NEW x \in Recs, x <= nrec, Dead(x) PROVE Dead(x)'
    <3>1. x # u BY <1>1, <2>4 DEF Dead
    <3> QED BY <1>10, <1>12, <2>4, <3>1 DEF Dead
  <2>5. ASSUME NEW x \in Recs, x <= nrec, rec[x].valid PROVE rec'[x].valid \/ Dead(x)'
    <3>1. CASE x = u BY <1>9, <1>10, <1>12, <3>1 DEF Dead
    <3>2. CASE x # u BY <1>10, <2>5, <3>2
    <3> QED BY <3>1, <3>2
  <2>6. \A x \in Recs, d \in Txns \ {t} : rec[x].lock = d /\ rec[x].valid => rec'[x].valid
    BY <1>1, <1>10
  <2>7. \A x \in Recs, d \in Txns \ {t} : x <= nrec /\ Pending(d, x) => Pending(d, x)' BY <1>18, <2>3
  <2> QED BY <1>8, <1>11, <2>1, <2>2, <2>4, <2>5, <2>6, <2>7 DEF Frame
<1>20. /\ Writes(t)' = Writes(t) /\ Deletes(t)' = Deletes(t) /\ WriteSet(tx[t])' = WriteSet(tx[t])
  <2>1. tx'[t].items = tx[t].items BY <1>s, <1>7, <1>8
  <2> QED BY <1>11, <2>1, SameKeys
<1>21. ASSUME NEW y, EffOK(t, y) PROVE EffOK(t, y)'
  <2>1. tx'[t].pc \in Past BY <1>7, <1>8 DEF Past
  <2>2. ASSUME Holds(t, y) PROVE Holds(t, y)'
    <3>1. PICK j \in W : ~s[j].del /\ rec[s[j].rec].key = y /\ rec[s[j].rec].valid /\ rec[s[j].rec].lock = t
      BY <1>s, <1>W, <2>2 DEF Holds
    <3>2. s[j].rec \in Recs BY <1>3
    <3>3. rec'[s[j].rec].valid
      <4>1. CASE s[j].rec # u BY <1>10, <3>1, <3>2, <4>1
      <4>2. CASE s[j].rec = u
        <5>1. j = i BY <1>e, <1>1, <4>2 DEF Owned
        <5> QED BY <1>e, <1>9, <1>10, <3>1, <4>2, <5>1
      <4> QED BY <4>1, <4>2
    <3>4. ~s[j].del /\ rec'[s[j].rec].key = y /\ rec'[s[j].rec].valid /\ rec'[s[j].rec].lock = t
      BY <1>11, <3>1, <3>2, <3>3
    <3>5. tx'[t].items = s /\ WriteSet(tx[t])' = W BY <1>W, <1>7, <1>8, <1>20
    <3> QED BY <3>4, <3>5 DEF Holds
  <2> QED BY <1>16, <1>20, <1>21, <2>1, <2>2 DEF EffOK, Stamped
<1>22. ASSUME NEW y \in Keys, NEW j \in DOMAIN eff[y], NEW d, d = eff[y][j]
       PROVE  d \in Txns /\ EffOK(d, y) /\ EffOK(d, y)' /\ Deletes(d)' = Deletes(d)
  <2>1. d \in Txns /\ EffOK(d, y) BY <1>22, EffFacts
  <2>2. CASE d = t BY <1>20, <1>21, <2>1, <2>2
  <2>3. CASE d # t BY <1>19, <2>1, <2>3, EffKeeps
  <2> QED BY <2>1, <2>2, <2>3
<1>23. EffOK(t, k)'
  <2>1. tx'[t].pc \in Past /\ tx'[t].items = s /\ i \in WriteSet(tx[t])'
    BY <1>W, <1>1, <1>7, <1>8, <1>20 DEF Past
  <2>2. rec'[s[i].rec].key = k /\ rec'[s[i].rec].lock = t BY <1>e, <1>9, <1>10
  <2>3. k \in Writes(t)' BY <1>e, <1>1, <2>1, <2>2 DEF Writes
  <2>4. CASE it.del
    <3>1. k \in Deletes(t)' BY <1>e, <1>1, <2>1, <2>2, <2>4 DEF Deletes
    <3> QED BY <2>1, <2>3, <3>1 DEF EffOK
  <2>5. CASE ~it.del
    <3>1. rec'[s[i].rec].valid /\ ~s[i].del BY <1>e, <1>9, <1>10, <2>5
    <3>2. Holds(t, k)' BY <2>1, <2>2, <3>1 DEF Holds
    <3> QED BY <2>1, <2>3, <3>2 DEF EffOK
  <2> QED BY <2>4, <2>5
<1>24. /\ \A y \in Keys : y # k => eff'[y] = eff[y]
       /\ DOMAIN eff'[k] = DOMAIN eff[k] \union {Len(eff[k]) + 1} /\ Len(eff[k]) \in Nat
       /\ \A j \in DOMAIN eff[k] : eff'[k][j] = eff[k][j] /\ j \in Nat /\ j <= Len(eff[k])
       /\ eff'[k][Len(eff[k]) + 1] = t
  <2>1. eff \in [Keys -> Seq(Txns)] /\ eff[k] \in Seq(Txns) BY <1>1, <1>2 DEF Types
  <2>2. eff'[k] = Append(eff[k], t) /\ \A y \in Keys : y # k => eff'[y] = eff[y] BY <1>1, <2>1
  <2> QED BY <2>1, <2>2, AppendFacts
<1>25. EffInv'
  <2>1. ASSUME NEW y \in Keys, NEW j \in DOMAIN eff'[y], NEW d, d = eff'[y][j] PROVE EffOK(d, y)'
    <3>1. CASE y # k BY <1>22, <1>24, <2>1, <3>1
    <3>2. CASE y = k /\ j \in DOMAIN eff[k] BY <1>22, <1>24, <2>1, <3>2
    <3>3. CASE y = k /\ j = Len(eff[k]) + 1
      <4>1. d = t BY <1>24, <2>1, <3>3
      <4> QED BY <1>23, <3>3, <4>1
    <3> QED BY <1>24, <2>1, <3>1, <3>2, <3>3
  <2> QED BY <2>1 DEF EffInv, EffOK
<1>26. PairInv'
  <2>1. ASSUME NEW y \in Keys, NEW j \in DOMAIN eff[y], NEW m \in DOMAIN eff[y], j < m,
               NEW a, NEW b, a = eff[y][j], b = eff[y][m], a # b, y \notin Deletes(a)'
        PROVE  Precedes(a, b)'
    <3>1. y \notin Deletes(a) /\ a \in Txns /\ b \in Txns BY <1>22, <2>1
    <3>2. Precedes(a, b) BY <2>1, <3>1 DEF Lead, PairInv
    <3> QED BY <1>19, <3>1, <3>2 DEF Frame
  <2>2. ASSUME NEW j \in DOMAIN eff[k], NEW a, a = eff[k][j], a # t, k \notin Deletes(a)'
        PROVE  Precedes(a, t)'
    <3>1. a \in Txns /\ EffOK(a, k) /\ k \notin Deletes(a) BY <1>1, <1>22, <2>2
    <3>2. ~Holds(a, k) BY <1>e, <1>1, <2>2, <3>1, NobodyElse
    <3>3. Stamped(a) /\ ~Stamped(t) BY <1>4, <3>1, <3>2 DEF EffOK, Stamped
    <3> QED BY <1>16, <3>1, <3>3 DEF Precedes, Stamped
  <2>3. ASSUME NEW y \in Keys, NEW j \in DOMAIN eff'[y], NEW m \in DOMAIN eff'[y], j < m,
               NEW a, NEW b, a = eff'[y][j], b = eff'[y][m], a # b, y \notin Deletes(a)'
        PROVE  Precedes(a, b)'
    <3>1. CASE y # k
      <4>1. eff'[y] = eff[y] BY <1>24, <3>1
      <4> QED BY <2>1, <2>3, <4>1
    <3>2. CASE y = k /\ j \in DOMAIN eff[k] /\ m \in DOMAIN eff[k]
      <4>1. a = eff[k][j] /\ b = eff[k][m] BY <1>24, <2>3, <3>2
      <4> QED BY <2>1, <2>3, <3>2, <4>1
    <3>3. CASE y = k /\ j \in DOMAIN eff[k] /\ m = Len(eff[k]) + 1
      <4>1. a = eff[k][j] /\ b = t BY <1>24, <2>3, <3>3
      <4> QED BY <2>2, <2>3, <3>3, <4>1
    <3>4. CASE y = k /\ j = Len(eff[k]) + 1 /\ m \in DOMAIN eff[k]
      <4>1. m \in Nat /\ m <= Len(eff[k]) /\ Len(eff[k]) \in Nat BY <1>24, <3>4
      <4> QED BY <2>3, <3>4, <4>1
    <3>5. CASE y = k /\ j = Len(eff[k]) + 1 /\ m = Len(eff[k]) + 1 BY <2>3, <3>5
    <3> QED BY <1>24, <2>3, <3>1, <3>2, <3>3, <3>4, <3>5
  <2> QED BY <2>3 DEF PairInv
<1>27. \A j \in DOMAIN s : Static(t, s[j])' /\ Good(t, s[j])' BY <1>2, <1>3, <1>4, <1>14, <1>19, FrameItem
<1>28. ProgOK(r)' BY <1>1, <1>4, <1>7 DEF ProgOK, Running
<1>29. CidOK(r)'
  <2>1. clock \in Nat BY <1>2 DEF Types
  <2> QED BY <1>1, <1>7, <2>1 DEF CidOK
<1>30. LockOK(t, r)' BY <1>4, <1>7, <1>11 DEF LockOK
<1>31. FullOK(r)' BY <1>7 DEF FullOK, Active, Running
<1>32. InstallPhase(t, r)'
  <2>1. CASE r.pc = "log" BY <2>1 DEF InstallPhase
  <2>2. CASE r.pc = "install"
    <3>1. r.left = tx[t].left \ {i} /\ r.left # {} /\ r.left \subseteq W BY <1>1, <1>7, <2>2
    <3>2. Owned(t, s, W)' BY <1>1, <1>3, <1>11 DEF Owned
    <3>3. ASSUME NEW j \in r.left PROVE Ready(t, s[j])'
      <4>1. s[j].rec # u /\ s[j].rec \in Recs /\ s[j].rec <= nrec
        BY <1>e, <1>1, <1>3, <3>1 DEF Owned
      <4>2. Ready(t, s[j]) BY <1>5, <3>1
      <4> QED BY <1>10, <1>18, <4>1, <4>2 DEF Ready
    <3> QED BY <1>7, <3>1, <3>2, <3>3 DEF InstallPhase, Owned, WriteSet
  <2> QED BY <1>7, <2>1, <2>2
<1>33. TxOK(t, r)'
  BY <1>7, <1>27, <1>28, <1>29, <1>30, <1>31, <1>32
     DEF TxOK, Active, Running, Failing, LockPhase, CheckPhase
<1>34. TxOK(t, tx[t])' BY <1>8, <1>33
<1> QED BY <1>14, <1>15, <1>17, <1>19, <1>25, <1>26, <1>34, OneStep

-----------------------------------------------------------------------------
(* The initial states.                                                     *)

LEMMA InitShared ==
  ASSUME Init
  PROVE  /\ tree \in [Keys -> 0..MaxRecs] /\ leaf \in LeafRec /\ rec \in [Recs -> Record]
         /\ nrec \in 0..MaxRecs /\ clock \in Nat /\ eff \in [Keys -> Seq(Txns)]
         /\ TreeInv /\ EffInv /\ PairInv
         /\ \A u \in Recs : rec[u].lock = 0 /\ rec[u].val = 0
<1> DEFINE n == Cardinality(InitKeys)
           f == InitSeq
           At0(k) == CHOOSE i \in DOMAIN f : f[i] = k
<1>0. IsFiniteSet(InitKeys) BY StoAssumption, FS_Subset
<1>1. /\ n \in Nat /\ n \in 0..MaxRecs /\ InitKeys \subseteq Keys
      /\ f \in [1..n -> InitKeys] /\ DOMAIN f = 1..n
      /\ \A i, j \in 1..n : f[i] = f[j] => i = j
      /\ \A k \in InitKeys : \E i \in 1..n : f[i] = k
  BY <1>0, Listing, StoAssumption DEF InitSeq
<1>2. /\ nrec = n /\ clock = 0 /\ eff = [k \in Keys |-> << >>]
      /\ tree = [k \in Keys |-> IF k \in InitKeys THEN At0(k) ELSE 0]
      /\ leaf = [v |-> 0, size |-> n, mod |-> "insert"]
      /\ rec = [u \in Recs |-> [key |-> IF u <= n THEN f[u] ELSE 0, val |-> 0,
                                n |-> 0, valid |-> u <= n, lock |-> 0]]
  BY DEF Init
<1> HIDE DEF f, n
<1>3. ASSUME NEW k \in InitKeys PROVE At0(k) \in 1..n /\ f[At0(k)] = k BY <1>1
<1> HIDE DEF At0
<1>4. \A k \in Keys : tree[k] = IF k \in InitKeys THEN At0(k) ELSE 0 BY <1>2
<1>5. tree \in [Keys -> 0..MaxRecs]
  <2>1. \A k \in Keys : (IF k \in InitKeys THEN At0(k) ELSE 0) \in 0..MaxRecs BY <1>1, <1>3, Numbers
  <2> QED BY <1>2, <2>1
<1>6. ASSUME NEW u \in Recs
      PROVE  /\ rec[u] \in Record /\ rec[u].lock = 0 /\ rec[u].val = 0 /\ rec[u].valid = (u <= n)
             /\ u <= n => u \in 1..n /\ rec[u].key = f[u] /\ f[u] \in InitKeys
  <2> DEFINE key == IF u <= n THEN f[u] ELSE 0
  <2>1. rec[u] = [key |-> key, val |-> 0, n |-> 0, valid |-> u <= n, lock |-> 0] BY <1>2
  <2>2. u <= n => u \in 1..n /\ f[u] \in InitKeys BY <1>1, Numbers DEF Recs
  <2>3. key \in Keys \union {0} /\ (u <= n) \in BOOLEAN /\ (u <= n => key = f[u]) BY <1>1, <2>2
  <2> HIDE DEF key
  <2>4. rec[u] \in Record BY <2>1, <2>3 DEF Record
  <2> QED BY <2>1, <2>2, <2>3, <2>4
<1>7. rec \in [Recs -> Record] BY <1>2, <1>6
<1>8. TreeInv
  <2>1. ASSUME NEW k \in Keys, tree[k] # 0 PROVE tree[k] \in 1..nrec /\ rec[tree[k]].key = k
    <3>1. tree[k] = At0(k) /\ At0(k) \in 1..n /\ f[At0(k)] = k BY <1>3, <1>4, <2>1
    <3>2. At0(k) \in Recs /\ At0(k) <= n BY <1>1, <3>1, Numbers DEF Recs
    <3> QED BY <1>2, <1>6, <3>1, <3>2
  <2>2. ASSUME NEW u \in Recs, u <= nrec PROVE rec[u].key \in Keys /\ (rec[u].valid => Linked(u))
    <3>1. u \in 1..n /\ rec[u].key = f[u] /\ f[u] \in InitKeys BY <1>2, <1>6, <2>2
    <3>2. tree[f[u]] = At0(f[u]) /\ At0(f[u]) \in 1..n /\ f[At0(f[u])] = f[u] BY <1>1, <1>3, <1>4, <3>1
    <3>3. At0(f[u]) = u BY <1>1, <3>1, <3>2
    <3> QED BY <1>1, <3>1, <3>2, <3>3 DEF Linked
  <2>3. ASSUME NEW u \in Recs, u > nrec PROVE ~rec[u].valid /\ rec[u].lock = 0
    <3>1. ~(u <= n) BY <1>1, <1>2, <2>3, Numbers
    <3> QED BY <1>6, <3>1
  <2> QED BY <2>1, <2>2, <2>3 DEF TreeInv
<1>9. leaf \in LeafRec BY <1>1, <1>2 DEF LeafRec
<1>10. \A k \in Keys : eff[k] = << >> BY <1>2
<1>11. eff \in [Keys -> Seq(Txns)] BY <1>2
<1>12. EffInv /\ PairInv BY <1>10 DEF EffInv, PairInv
<1> QED BY <1>1, <1>2, <1>5, <1>6, <1>7, <1>8, <1>9, <1>11, <1>12

LEMMA InitLead ==
  ASSUME Init, NEW ps, tx = [t \in Txns |-> NewTxn(ps[t])],
         \A t \in Txns : ps[t] \in Seq(Operation) /\ Len(ps[t]) \in 1..MaxOps
  PROVE  Lead
<1>1. /\ tree \in [Keys -> 0..MaxRecs] /\ leaf \in LeafRec /\ rec \in [Recs -> Record]
      /\ nrec \in 0..MaxRecs /\ clock \in Nat /\ eff \in [Keys -> Seq(Txns)]
      /\ TreeInv /\ EffInv /\ PairInv
      /\ \A u \in Recs : rec[u].lock = 0 /\ rec[u].val = 0
  BY InitShared
<1>2. ASSUME NEW t \in Txns
      PROVE  /\ tx[t] \in TxRec /\ tx[t].pc = "op" /\ tx[t].prog = ps[t] /\ tx[t].ip = 1
             /\ tx[t].items = << >> /\ tx[t].todo = << >> /\ tx[t].locked = {} /\ tx[t].cid = 0
  <2>1. tx[t] = NewTxn(ps[t]) OBVIOUS
  <2>2. /\ "op" \in Pcs /\ 1 \in Nat /\ 0 \in Nat /\ 0 \in 0..MaxRecs /\ ps[t] \in Seq(Operation)
        /\ << >> \in Seq(ItemRec) /\ << >> \in Seq(Recs) /\ {} \in SUBSET Nat /\ {} \in SUBSET Recs
    BY Numbers DEF Pcs, Active, Running
  <2>3. tx[t] \in TxRec BY <2>1, <2>2 DEF NewTxn, TxRec
  <2> QED BY <2>1, <2>3 DEF NewTxn
<1>3. Types BY <1>1, <1>2 DEF Types
<1>4. RecInv BY <1>1, ValueFacts DEF RecInv
<1>5. ASSUME NEW t \in Txns PROVE TxOK(t, tx[t])
  <2>1. ProgOK(tx[t])
    <3>1. Len(ps[t]) \in 1..MaxOps /\ 1 \in 1..(Len(ps[t]) + 1) BY DEF MaxOps
    <3> QED BY <1>2, <3>1 DEF ProgOK, Running
  <2>2. CidOK(tx[t]) BY <1>1, <1>2 DEF CidOK
  <2>3. LockOK(t, tx[t]) BY <1>1, <1>2, Numbers DEF LockOK
  <2>4. FullOK(tx[t]) BY <1>2 DEF FullOK
  <2>5. Sound(t, tx[t].items) BY <1>2 DEF Sound
  <2> QED BY <1>2, <2>1, <2>2, <2>3, <2>4, <2>5 DEF TxOK, Past, LockPhase, CheckPhase, InstallPhase
<1> QED BY <1>1, <1>3, <1>4, <1>5 DEF Lead

LEMMA InitFollow ==
  ASSUME NEW ps, tx = [t \in Txns |-> NewTxn(ps[t])],
         \A t \in Txns : ps[t] \in Seq(VersionedPut) /\ Len(ps[t]) = 1
  PROVE  Follow
<1>1. ASSUME NEW t \in Txns PROVE FollowTx(tx[t])
  <2>1. tx[t] = NewTxn(ps[t]) OBVIOUS
  <2>2. {"pc", "prog", "cid"} \subseteq DOMAIN tx[t] BY <2>1 DEF NewTxn
  <2>3. tx[t].cid = 0 /\ tx[t].pc = "op" /\ tx[t].prog = ps[t] BY <2>1 DEF NewTxn
  <2>4. ps[t][1] \in VersionedPut OBVIOUS
  <2>5. ps[t][1].op = "mbta" BY <2>4 DEF VersionedPut
  <2> QED BY <2>2, <2>3, <2>5 DEF FollowTx
<1> QED BY <1>1 DEF Follow

LEMMA InitHolds ==
  ASSUME Init
  PROVE  Inv
<1>1. PICK ps \in Programs : tx = [t \in Txns |-> NewTxn(ps[t])] BY DEF Init
<1>2. CASE \A t \in Txns : ps[t] \in Seq(Operation) /\ Len(ps[t]) \in 1..MaxOps
  BY <1>1, <1>2, InitLead DEF Inv
<1>3. CASE \A t \in Txns : ps[t] \in Seq(VersionedPut) /\ Len(ps[t]) = 1
  BY <1>1, <1>3, InitFollow DEF Inv
<1> QED BY <1>1, <1>2, <1>3, ProgramAssumption

-----------------------------------------------------------------------------
(* A leader's steps.                                                       *)

LEMMA LeadStep ==
  ASSUME Lead, NEW t \in Txns, Step(t)
  PROVE  Lead'
<1>1. ~Compare(t)
  <2>1. tx[t].pc \in Pcs BY TxFacts, TxFields
  <2> QED BY <2>1 DEF Compare, At, Pcs, Active, Running, Failing, Past
<1> QED
  BY <1>1, SearchStep, GetStep, atomicReadStep, ScanStep, ScanValueStep, ScanDoneStep, InsertStep,
     InsertFoundStep, handlePutFoundStep, PutObserveStep, DeleteStep, CommitBeginStep, LockStep,
     CheckReadStep, InstallStep, serialize_utilStep, StopCommittedStep, StopAbortedStep, cleanupStep,
     AbortEndStep
     DEF Step

LEMMA LeadStutters ==
  ASSUME Lead, UNCHANGED vars
  PROVE  Lead'
<1>1. UNCHANGED <<tree, leaf, rec, nrec, tx, clock, eff>> BY DEF vars
<1>2. Types' BY <1>1 DEF Lead, Types
<1>3. TreeInv' BY <1>1 DEF Lead, TreeInv, Linked
<1>4. RecInv' BY <1>1 DEF Lead, RecInv, WriterOf, Stamped
<1>5. EffInv'
  <2>1. \A d : Writes(d)' = Writes(d) /\ Deletes(d)' = Deletes(d) BY <1>1 DEF Writes, Deletes
  <2>2. \A d, k : Holds(d, k)' <=> Holds(d, k) BY <1>1 DEF Holds, WriteSet
  <2> QED BY <1>1, <2>1, <2>2 DEF Lead, EffInv, Stamped
<1>6. PairInv'
  <2>1. \A d : Deletes(d)' = Deletes(d) BY <1>1 DEF Deletes
  <2>2. \A d, e : Precedes(d, e)' <=> Precedes(d, e) BY <1>1 DEF Precedes, Stamped
  <2> QED BY <1>1, <2>1, <2>2 DEF Lead, PairInv
<1>7. ASSUME NEW t \in Txns PROVE TxOK(t, tx[t])'
  <2>1. PICK r : r = tx[t] OBVIOUS
  <2>2. TxOK(t, r) /\ tx'[t] = r BY <1>1, <2>1 DEF Lead
  <2>3. TxOK(t, r)' BY <1>1, <2>2, SameTx
  <2> QED BY <2>2, <2>3
<1> QED BY <1>2, <1>3, <1>4, <1>5, <1>6, <1>7 DEF Lead

-----------------------------------------------------------------------------
(* What a step does to the stamps.                                         *)

Fields(r) == {"pc", "prog", "cid"} \subseteq DOMAIN r

\* r becomes q without a stamp; a replay that is retried has none either.
Keeps(r, q) ==
  /\ Fields(q) /\ q.prog = r.prog
  /\ q.cid = r.cid \/ (r.prog[1].op = "mbta" /\ q.cid = 0)
  /\ q.pc = "log" => r.prog[1].op # "mbta"

LEMMA PhaseKeeps ==
  ASSUME NEW r, NEW p, Keeps(r, p), NEW pc, NEW left, pc # "log"
  PROVE  Keeps(r, Phase(p, pc, left))
<1>1. Fields(Phase(p, pc, left)) BY DEF Keeps, Fields, Phase
<1>2. /\ Phase(p, pc, left).pc = pc /\ Phase(p, pc, left).prog = p.prog /\ Phase(p, pc, left).cid = p.cid
  BY DEF Keeps, Fields, Phase
<1> QED BY <1>1, <1>2 DEF Keeps

LEMMA ToKeeps ==
  ASSUME NEW r, NEW p, Keeps(r, p)
  PROVE  Keeps(r, ToInstall(p)) /\ Keeps(r, ToCheck(p))
<1>1. Keeps(r, ToInstall(p)) BY PhaseKeeps DEF ToInstall
<1> QED BY <1>1, PhaseKeeps DEF ToCheck

LEMMA ThenKeeps ==
  ASSUME NEW r, NEW p, Keeps(r, p), p.pc # "log", NEW q, Keeps(r, q)
  PROVE  Keeps(r, Then(p, q))
BY PhaseKeeps DEF Then

\* What the operations make of a transaction.
LEMMA OpKeeps ==
  ASSUME NEW t \in Txns, Fields(tx[t])
  PROVE  /\ \A items : Keeps(tx[t], NextOp(t, items))
         /\ \A pc, items, e : pc # "log" => Keeps(tx[t], GoTo(t, pc, items, e))
         /\ Keeps(tx[t], Aborting(t))
         /\ \A pc : pc # "log" => Keeps(tx[t], [tx[t] EXCEPT !.pc = pc])
<1>r. PICK r : r = tx[t] OBVIOUS
<1>1. Fields(r) BY <1>r
<1>2. ASSUME NEW pc, pc # "log" PROVE Keeps(r, [r EXCEPT !.pc = pc]) BY <1>1, <1>2 DEF Fields, Keeps
<1>3. Keeps(r, [r EXCEPT !.pc = "abort"]) BY <1>1 DEF Fields, Keeps
<1>4. ASSUME NEW pc, NEW items, NEW e, pc # "log"
      PROVE  Keeps(r, [r EXCEPT !.pc = pc, !.items = items, !.e = e])
  BY <1>1, <1>4 DEF Fields, Keeps
<1>5. ASSUME NEW items
      PROVE  Keeps(r, [r EXCEPT !.pc = "op", !.ip = r.ip + 1, !.e = 0, !.items = items])
  BY <1>1 DEF Fields, Keeps
<1> QED BY <1>r, <1>2, <1>3, <1>4, <1>5 DEF NextOp, GoTo, Aborting

\* A step other than the stamp's.
Quiet(t) == /\ \E r : Becomes(t, r) /\ Keeps(tx[t], r)
            /\ UNCHANGED logVars

LEMMA SearchKeeps ==
  ASSUME NEW t \in Txns, Fields(tx[t]), Search(t)
  PROVE  Quiet(t)
<1>f. PICK f : /\ f # "log"
               /\ f = CASE Op(t).op = "get" -> "get"
                        [] Op(t).op = "remove" -> "delete"
                        [] Op(t).op = "put" -> "found"
                        [] OTHER -> "compare"
  OBVIOUS
<1>1. /\ \E r : /\ Becomes(t, r)
                /\ r \in {GoTo(t, f, tx[t].items, tree[Op(t).key]), GoTo(t, "insert", tx[t].items, 0),
                          NextOp(t, ensureNotFound(tx[t].items))}
      /\ UNCHANGED logVars
  BY <1>f DEF Search
<1>2. /\ Keeps(tx[t], GoTo(t, f, tx[t].items, tree[Op(t).key]))
      /\ Keeps(tx[t], GoTo(t, "insert", tx[t].items, 0))
      /\ Keeps(tx[t], NextOp(t, ensureNotFound(tx[t].items)))
  BY <1>f, OpKeeps
<1> QED BY <1>1, <1>2 DEF Quiet

LEMMA ScanKeeps ==
  ASSUME NEW t \in Txns, Fields(tx[t]), Scan(t) \/ ScanValue(t) \/ ScanDone(t)
  PROVE  Quiet(t)
<1>r. PICK r : r = tx[t] OBVIOUS
<1>1. ASSUME NEW q, Keeps(r, q), NEW x PROVE Keeps(r, [q EXCEPT !.todo = x]) BY <1>1 DEF Keeps, Fields
<1>2. CASE Scan(t)
  <2>1. PICK here : Becomes(t, [GoTo(t, "scan", ensureNotFound(r.items), 0) EXCEPT !.todo = here])
    BY <1>r, <1>2 DEF Scan
  <2>2. Keeps(r, GoTo(t, "scan", ensureNotFound(r.items), 0)) BY <1>r, OpKeeps
  <2>3. Keeps(r, [GoTo(t, "scan", ensureNotFound(r.items), 0) EXCEPT !.todo = here]) BY <1>1, <2>2
  <2> QED BY <1>r, <1>2, <2>1, <2>3 DEF Quiet, Scan
<1>3. CASE ScanValue(t)
  <2>0. r.pc = "scan" BY <1>r, <1>3 DEF ScanValue, At
  <2>1. ASSUME NEW new PROVE Keeps(r, [r EXCEPT !.todo = Tail(r.todo), !.items = new])
    BY <1>r, <2>0 DEF Keeps, Fields
  <2>2. \E q : /\ Becomes(t, q)
               /\ q = Aborting(t) \/ \E new : q = [r EXCEPT !.todo = Tail(r.todo), !.items = new]
    <3> DEFINE u == Head(tx[t].todo)
               items == ReadItems(tx[t].items, u)
               i == ReadIndex(items, u)
               After(new) == [tx[t] EXCEPT !.todo = Tail(tx[t].todo), !.items = new]
               seen == [items EXCEPT ![i] = Observed(items[i], u)]
               q == IF items[i].del \/ items[i].wr THEN After(items)
                    ELSE IF rec[u].lock # 0 THEN Aborting(t) ELSE After(seen)
    <3>1. Becomes(t, q) BY <1>3 DEF ScanValue
    <3>2. q = Aborting(t) \/ q = After(items) \/ q = After(seen) OBVIOUS
    <3> HIDE DEF q, items, seen
    <3> QED BY <1>r, <3>1, <3>2
  <2> QED BY <1>r, <1>3, <2>1, <2>2, OpKeeps DEF Quiet, ScanValue
<1>4. CASE ScanDone(t)
  <2>1. Keeps(tx[t], NextOp(t, tx[t].items)) BY OpKeeps
  <2> QED BY <1>4, <2>1 DEF Quiet, ScanDone
<1> QED BY <1>2, <1>3, <1>4

LEMMA ReadKeeps ==
  ASSUME NEW t \in Txns, Fields(tx[t]), Get(t) \/ atomicRead(t) \/ Delete(t) \/ Compare(t) \/ InsertFound(t)
  PROVE  Quiet(t)
<1>0. /\ Keeps(tx[t], Aborting(t)) /\ \A items : Keeps(tx[t], NextOp(t, items))
      /\ \A items, e : /\ Keeps(tx[t], GoTo(t, "read", items, e))
                       /\ Keeps(tx[t], GoTo(t, "found", items, e))
  BY OpKeeps
<1>1. CASE Get(t)
  <2> DEFINE u == tx[t].e
             items == ReadItems(tx[t].items, u)
             it == items[ReadIndex(items, u)]
             q == IF ~validityCheck(it, u) THEN Aborting(t)
                  ELSE IF it.del \/ it.wr THEN NextOp(t, items) ELSE GoTo(t, "read", items, u)
  <2>1. Becomes(t, q) /\ UNCHANGED logVars BY <1>1 DEF Get
  <2> HIDE DEF items, it
  <2>2. Keeps(tx[t], q) BY <1>0
  <2> HIDE DEF q
  <2> QED BY <2>1, <2>2 DEF Quiet
<1>2. CASE atomicRead(t)
  <2> DEFINE u == tx[t].e
             items == tx[t].items
             new == [items EXCEPT ![ReadIndex(items, u)] = Observed(items[ReadIndex(items, u)], u)]
             q == IF rec[u].lock # 0 THEN Aborting(t) ELSE NextOp(t, new)
  <2>1. Becomes(t, q) /\ UNCHANGED logVars BY <1>2 DEF atomicRead
  <2> HIDE DEF new
  <2>2. Keeps(tx[t], q) BY <1>0
  <2> HIDE DEF q
  <2> QED BY <2>1, <2>2 DEF Quiet
<1>3. CASE Delete(t)
  <2> DEFINE u == tx[t].e
             items == WithItem(tx[t].items, u)
             i == find_item(items, u)
             it == items[i]
             gone == [it EXCEPT !.wr = TRUE, !.del = TRUE,
                                !.rd = IF it.ins \/ it.rd # NoVersion THEN it.rd ELSE Vers(u)]
             new == [items EXCEPT ![i] = gone]
             q == IF ~validityCheck(it, u) THEN Aborting(t)
                  ELSE IF it.del THEN NextOp(t, items)
                  ELSE IF rec[u].lock # 0 THEN Aborting(t) ELSE NextOp(t, new)
  <2>1. Becomes(t, q) /\ UNCHANGED logVars BY <1>3 DEF Delete
  <2> HIDE DEF items, new, it
  <2>2. Keeps(tx[t], q) BY <1>0
  <2> HIDE DEF q
  <2> QED BY <2>1, <2>2 DEF Quiet
<1>4. CASE Compare(t)
  <2> DEFINE q == IF Newer(t, tx[t].e) THEN GoTo(t, "found", tx[t].items, tx[t].e)
                  ELSE NextOp(t, tx[t].items)
  <2>1. Becomes(t, q) /\ UNCHANGED logVars BY <1>4 DEF Compare
  <2>2. Keeps(tx[t], q) BY <1>0
  <2> HIDE DEF q
  <2> QED BY <2>1, <2>2 DEF Quiet
<1>5. CASE InsertFound(t)
  <2> DEFINE u == tree[Op(t).key]
             q == IF Op(t).op = "mbta" /\ ~Newer(t, u) THEN NextOp(t, tx[t].items)
                  ELSE GoTo(t, "found", tx[t].items, u)
  <2>1. Becomes(t, q) /\ UNCHANGED logVars BY <1>5 DEF InsertFound
  <2>2. Keeps(tx[t], q) BY <1>0
  <2> HIDE DEF q
  <2> QED BY <2>1, <2>2 DEF Quiet
<1> QED BY <1>1, <1>2, <1>3, <1>4, <1>5

LEMMA PutKeeps ==
  ASSUME NEW t \in Txns, Fields(tx[t]), Insert(t) \/ handlePutFound(t) \/ PutObserve(t)
  PROVE  Quiet(t)
<1>0. /\ Keeps(tx[t], Aborting(t)) /\ \A items : Keeps(tx[t], NextOp(t, items))
      /\ \A items, e : Keeps(tx[t], GoTo(t, "observe", items, e))
  BY OpKeeps
<1>1. CASE Insert(t)
  <2>1. \E items : Becomes(t, NextOp(t, items)) BY <1>1 DEF Insert
  <2> QED BY <1>0, <1>1, <2>1 DEF Quiet, Insert
<1>2. ASSUME NEW items, NEW i, NEW u, reallyHandlePutFound(t, items, i, u)
      PROVE  \E r : Becomes(t, r) /\ Keeps(tx[t], r)
  BY <1>0, <1>2 DEF reallyHandlePutFound
<1>3. ASSUME NEW items, NEW i, NEW u, SetOrKeep(t, items, i, u)
      PROVE  \E r : Becomes(t, r) /\ Keeps(tx[t], r)
  BY <1>0, <1>2, <1>3 DEF SetOrKeep
<1>4. CASE handlePutFound(t)
  <2>1. \/ Becomes(t, Aborting(t))
        \/ \E items, i, u : \/ reallyHandlePutFound(t, items, i, u)
                            \/ SetOrKeep(t, items, i, u)
                            \/ Becomes(t, GoTo(t, "observe", items, u))
    BY <1>4 DEF handlePutFound
  <2> QED BY <1>0, <1>2, <1>3, <1>4, <2>1 DEF Quiet, handlePutFound
<1>5. CASE PutObserve(t)
  <2>1. Becomes(t, Aborting(t)) \/ \E items, i, u : SetOrKeep(t, items, i, u) BY <1>5 DEF PutObserve
  <2> QED BY <1>0, <1>3, <1>5, <2>1 DEF Quiet, PutObserve
<1> QED BY <1>1, <1>4, <1>5

LEMMA CommitKeeps ==
  ASSUME NEW t \in Txns, Fields(tx[t]), CommitBegin(t) \/ Lock(t) \/ CheckRead(t) \/ Install(t)
  PROVE  Quiet(t)
<1>r. PICK r : r = tx[t] OBVIOUS
<1>0. Fields(r) /\ \A pc : pc # "log" => Keeps(r, [r EXCEPT !.pc = pc]) BY <1>r, OpKeeps
<1>1. CASE CommitBegin(t)
  <2>1. Keeps(r, r) BY <1>r, <1>0, <1>1 DEF CommitBegin, At, Keeps
  <2> DEFINE q == IF WriteSet(r) = {} THEN ToCheck(r) ELSE Phase(r, "lock", WriteSet(r))
  <2>2. Becomes(t, q) /\ UNCHANGED logVars BY <1>r, <1>1 DEF CommitBegin
  <2>3. Keeps(r, q) BY <2>1, PhaseKeeps, ToKeeps
  <2> HIDE DEF q
  <2> QED BY <1>r, <2>2, <2>3 DEF Quiet
<1>2. CASE Lock(t)
  <2>0. r.pc = "lock" BY <1>r, <1>2 DEF Lock, At
  <2>1. ASSUME NEW x PROVE Keeps(r, [r EXCEPT !.locked = x]) /\ [r EXCEPT !.locked = x].pc = "lock"
    BY <1>0, <2>0 DEF Keeps, Fields
  <2>2. ASSUME NEW u PROVE Keeps(r, Locking(t, u)) /\ Locking(t, u).pc = "lock" BY <1>r, <2>1 DEF Locking
  <2>3. ASSUME NEW u PROVE Keeps(r, Then(Locking(t, u), ToCheck(Locking(t, u)))) BY <2>2, ToKeeps, ThenKeeps
  <2>4. /\ \/ \E u : Becomes(t, Then(Locking(t, u), ToCheck(Locking(t, u))))
           \/ Becomes(t, [tx[t] EXCEPT !.pc = "fail"])
        /\ UNCHANGED logVars
    BY <1>2 DEF Lock
  <2> QED BY <1>r, <1>0, <2>3, <2>4 DEF Quiet
<1>3. CASE CheckRead(t)
  <2>0. r.pc = "check" BY <1>r, <1>3 DEF CheckRead, At
  <2>1. Keeps(r, r) BY <1>0, <2>0 DEF Keeps
  <2>2. Keeps(r, Then(r, ToInstall(r))) BY <2>0, <2>1, ToKeeps, ThenKeeps
  <2>3. Becomes(t, Then(r, ToInstall(r))) \/ Becomes(t, [r EXCEPT !.pc = "fail"]) BY <1>r, <1>3 DEF CheckRead
  <2>4. UNCHANGED logVars BY <1>3 DEF CheckRead
  <2> QED BY <1>r, <1>0, <2>2, <2>3, <2>4 DEF Quiet
<1>4. CASE Install(t)
  <2>0. r.pc = "install" BY <1>r, <1>4 DEF Install, At
  <2>1. Keeps(r, r) BY <1>0, <2>0 DEF Keeps
  <2>2. Keeps(r, ToLog(t))
    <3>1. CASE r.prog[1].op = "mbta" BY <1>r, <2>1, <3>1, PhaseKeeps DEF ToLog, IsReplay
    <3>2. CASE r.prog[1].op # "mbta"
      <4>1. ToLog(t) = [r EXCEPT !.pc = "log", !.left = {}] BY <1>r, <3>2 DEF ToLog, IsReplay, Phase
      <4> QED BY <1>0, <3>2, <4>1 DEF Keeps, Fields
    <3> QED BY <3>1, <3>2
  <2>3. Keeps(r, Then(r, ToLog(t))) BY <2>0, <2>1, <2>2, ThenKeeps
  <2>4. Becomes(t, Then(r, ToLog(t))) /\ UNCHANGED logVars BY <1>r, <1>4 DEF Install
  <2> QED BY <1>r, <2>3, <2>4 DEF Quiet
<1> QED BY <1>1, <1>2, <1>3, <1>4

LEMMA StopKeeps ==
  ASSUME NEW t \in Txns, Fields(tx[t]), StopCommitted(t) \/ StopAborted(t) \/ cleanup(t) \/ AbortEnd(t)
  PROVE  Quiet(t)
<1>r. PICK r : r = tx[t] OBVIOUS
<1>0. Fields(r) /\ \A pc : pc # "log" => Keeps(r, [r EXCEPT !.pc = pc]) BY <1>r, OpKeeps
<1>1. CASE StopCommitted(t)
  <2>1. Keeps(r, [r EXCEPT !.pc = "committed", !.locked = {}]) BY <1>0 DEF Keeps, Fields
  <2> QED BY <1>r, <1>1, <2>1 DEF StopCommitted, Quiet
<1>2. CASE StopAborted(t)
  <2>0. r.pc # "log" BY <1>r, <1>2 DEF StopAborted, At
  <2>1. Keeps(r, [r EXCEPT !.locked = {}]) BY <1>0, <2>0 DEF Keeps, Fields
  <2> QED BY <1>r, <1>2, <2>1 DEF StopAborted, Quiet
<1>3. CASE cleanup(t)
  <2>0. r.pc # "log" BY <1>r, <1>3 DEF cleanup, At
  <2>1. ASSUME NEW x PROVE Keeps(r, [r EXCEPT !.items = x]) BY <1>0, <2>0 DEF Keeps, Fields
  <2>2. \E x : Becomes(t, [r EXCEPT !.items = x]) BY <1>r, <1>3 DEF cleanup
  <2> QED BY <1>r, <1>3, <2>1, <2>2 DEF cleanup, Quiet
<1>4. CASE AbortEnd(t)
  <2>1. CASE IsReplay(t) /\ r.pc = "abort"
    <3>1. Keeps(r, NewTxn(r.prog)) BY <1>r, <2>1 DEF Keeps, Fields, NewTxn, IsReplay
    <3>2. Becomes(t, NewTxn(r.prog)) BY <1>r, <1>4, <2>1 DEF AbortEnd
    <3> QED BY <1>r, <1>4, <3>1, <3>2 DEF Quiet, AbortEnd
  <2>2. CASE ~(IsReplay(t) /\ r.pc = "abort")
    <3>1. Becomes(t, [r EXCEPT !.pc = "aborted"]) BY <1>r, <1>4, <2>2 DEF AbortEnd
    <3> QED BY <1>r, <1>0, <1>4, <3>1 DEF Quiet, AbortEnd
  <2> QED BY <2>1, <2>2
<1> QED BY <1>1, <1>2, <1>3, <1>4

\* Only serialize_util() stamps and logs.
LEMMA StepKeeps ==
  ASSUME NEW t \in Txns, Fields(tx[t]), Step(t)
  PROVE  Quiet(t) \/ serialize_util(t)
BY SearchKeeps, ScanKeeps, ReadKeeps, PutKeeps, CommitKeeps, StopKeeps DEF Step

-----------------------------------------------------------------------------
(* A follower's steps.                                                     *)

LEMMA FollowStep ==
  ASSUME Follow, NEW t \in Txns, Step(t)
  PROVE  Follow'
<1>1. /\ tx \in [Txns -> {tx[s] : s \in Txns}] /\ (\A s \in Txns : FollowTx(tx[s])) /\ Fields(tx[t])
  BY DEF Follow, FollowTx, Fields
<1>2. ~serialize_util(t) BY <1>1 DEF serialize_util, At, FollowTx
<1>3. Quiet(t) BY <1>1, <1>2, StepKeeps
<1>4. PICK r : Becomes(t, r) /\ Keeps(tx[t], r) BY <1>3 DEF Quiet
<1>5. /\ tx'[t] = r /\ (\A s \in Txns \ {t} : tx'[s] = tx[s]) /\ DOMAIN tx' = Txns
      /\ tx' = [s \in Txns |-> tx'[s]]
  BY <1>1, <1>4 DEF Becomes
<1>6. FollowTx(r) BY <1>1, <1>4 DEF FollowTx, Keeps, Fields
<1>7. \A s \in Txns : FollowTx(tx'[s]) BY <1>1, <1>5, <1>6
<1>8. tx' \in [Txns -> {tx'[s] : s \in Txns}] BY <1>5
<1>9. Follow' <=> tx' \in [Txns -> {tx'[s] : s \in Txns}] /\ \A s \in Txns : FollowTx(tx'[s])
  BY DEF Follow, FollowTx
<1> QED BY <1>7, <1>8, <1>9

LEMMA InvStep ==
  ASSUME Inv, [Next]_vars
  PROVE  Inv'
<1>1. ASSUME NEW t \in Txns, Step(t) PROVE Inv'
  BY <1>1, LeadStep, FollowStep DEF Inv
<1>2. CASE UNCHANGED vars
  <2>1. CASE Lead BY <1>2, <2>1, LeadStutters DEF Inv
  <2>2. CASE Follow
    <3>1. tx' = tx BY <1>2 DEF vars
    <3> QED BY <2>2, <3>1 DEF Inv, Follow, FollowTx
  <2> QED BY <2>1, <2>2 DEF Inv
<1> QED BY <1>1, <1>2 DEF Next

-----------------------------------------------------------------------------
(* The theorems.                                                           *)

\* The invariant of the transactions: of a leader's, from the first lookup to
\* the unlock (types, the index, the records' locks and writers, what an item
\* knows, and the phases of try_commit()), or of a follower's replays.
THEOREM StoInvariant == Spec => []Inv
<1>1. Init => Inv BY InitHolds
<1>2. Inv /\ [Next]_vars => Inv' BY InvStep
<1> QED BY <1>1, <1>2, PTL DEF Spec

\* What a transaction wrote last into a key, and did not delete, names it.
LEMMA LastWriteNames ==
  ASSUME Lead, NEW d \in Txns, NEW k, k \in Writes(d), k \notin Deletes(d)
  PROVE  LastWrite(d, k) \in ValuesOf(d)
<1>s. PICK s : s = tx[d].items OBVIOUS
<1> DEFINE W == {j \in DOMAIN s : s[j].wr /\ rec[s[j].rec].key = k}
<1>1. s \in Seq(ItemRec) /\ \A j \in DOMAIN s : Static(d, s[j]) BY <1>s, TxFacts DEF TxOK
<1>2. W \subseteq Nat /\ Len(s) \in Nat /\ \A x \in W : x <= Len(s) BY <1>1
<1>3. W # {} BY <1>s DEF Writes
<1>4. Max(W) \in W
  <2> HIDE DEF W
  <2> QED BY <1>2, <1>3, GreatestNat
<1>5. ~s[Max(W)].del BY <1>s, <1>4 DEF Deletes
<1>6. LastWrite(d, k) = s[Max(W)].val BY <1>s, <1>5 DEF LastWrite
<1> QED BY <1>1, <1>4, <1>5, <1>6 DEF Static

LEMMA LeadStamps ==
  ASSUME Lead, NEW t \in Txns, tx[t].cid # 0, NEW d \in DependsOn(t)
  PROVE  Precedes(d, t)
<1>0. PICK k \in Keys : \E i \in DOMAIN eff[k] :
        /\ eff[k][i] = d /\ k \notin Deletes(d)
        /\ \/ \E j \in DOMAIN eff[k] : j > i /\ eff[k][j] = t
           \/ [key |-> k, val |-> LastWrite(d, k)] \in Reads(t)
  BY DEF DependsOn
<1>1. PICK i \in DOMAIN eff[k] :
        /\ eff[k][i] = d /\ k \notin Deletes(d)
        /\ \/ \E j \in DOMAIN eff[k] : j > i /\ eff[k][j] = t
           \/ [key |-> k, val |-> LastWrite(d, k)] \in Reads(t)
  BY <1>0
<1>2. d \in Txns \ {t} BY DEF DependsOn
<1>3. CASE \E j \in DOMAIN eff[k] : j > i /\ eff[k][j] = t
  <2>1. PICK j \in DOMAIN eff[k] : j > i /\ eff[k][j] = t BY <1>3
  <2>2. i < j
    <3>1. eff[k] \in Seq(Txns) BY DEF Lead, Types
    <3>2. i \in Nat /\ j \in Nat BY <3>1
    <3> QED BY <2>1, <3>2
  <2> QED BY <1>1, <1>2, <2>1, <2>2 DEF Lead, PairInv
<1>4. CASE [key |-> k, val |-> LastWrite(d, k)] \in Reads(t)
  <2>1. PICK m \in DOMAIN tx[t].items : tx[t].items[m].seen = LastWrite(d, k)
    BY <1>4 DEF Reads
  <2>2. k \in Writes(d) BY <1>1 DEF Lead, EffInv
  <2>3. LastWrite(d, k) \in ValuesOf(d) BY <1>1, <1>2, <2>2, LastWriteNames
  <2>4. TxOK(t, tx[t]) BY DEF Lead
  <2>5. tx[t].pc \in Past BY <2>4 DEF TxOK, CidOK, Past
  <2>6. Good(t, tx[t].items[m]) BY <2>4, <2>5 DEF TxOK
  <2> QED BY <1>2, <2>1, <2>3, <2>6 DEF Good
<1> QED BY <1>1, <1>3, <1>4

LEMMA InvStamps ==
  ASSUME Inv
  PROVE  StampsFollowConflicts
<1>1. CASE Lead
  <2>1. ASSUME NEW t \in Txns, tx[t].cid # 0, NEW d \in DependsOn(t)
        PROVE  tx[d].cid # 0 /\ tx[d].cid < tx[t].cid
    BY <1>1, <2>1, LeadStamps DEF Precedes, Stamped
  <2> QED BY <2>1 DEF StampsFollowConflicts
<1>2. CASE Follow BY <1>2 DEF Follow, FollowTx, StampsFollowConflicts
<1> QED BY <1>1, <1>2 DEF Inv

\* Whatever the transactions do and in whichever order their steps come: a
\* commit id drawn by serialize_util() is greater than those of the
\* transactions whose values its owner read or overwrote, and they have one.
THEOREM StampsAlwaysFollowConflicts == Spec => []StampsFollowConflicts
<1>1. Inv => StampsFollowConflicts BY InvStamps
<1> QED BY <1>1, StoInvariant, PTL

-----------------------------------------------------------------------------
(* The streams.  A batch has the transactions stamped since the one before *)
(* it, and every stamped transaction is in a batch or in its buffer.       *)

Batch == [txns : Seq(Txns), last : Nat]

LogTypes ==
  /\ buf \in [Workers -> Seq(Txns)]
  /\ stream \in [Workers -> Seq(Batch)]
  /\ clock \in Nat
  /\ \A t \in Txns : tx[t].cid \in Nat /\ tx[t].cid <= clock

\* Transaction t has a stamp above the batches of stream w before the i-th.
Above(t, w, i) == Stamped(t) /\ \A j \in DOMAIN stream[w] : j < i => stream[w][j].last < tx[t].cid

BatchInv ==
  \A w \in Workers : \A i \in DOMAIN stream[w] :
    /\ stream[w][i].last <= clock
    /\ \A t \in ToSet(stream[w][i].txns) : tx[t].cid <= stream[w][i].last /\ Above(t, w, i)

BufInv == \A w \in Workers : \A t \in ToSet(buf[w]) : Above(t, w, Len(stream[w]) + 1)

Logged(t) ==
  \/ t \in ToSet(buf[Worker[t]])
  \/ \E i \in DOMAIN stream[Worker[t]] : t \in ToSet(stream[Worker[t]][i].txns)
Placed == \A t \in Txns : Stamped(t) => Logged(t)

\* Batches of one transaction.
Single ==
  BatchSize = 1 =>
    \A w \in Workers : /\ buf[w] = << >>
                       /\ \A i \in DOMAIN stream[w] : \E t \in Txns :
                            stream[w][i].txns = <<t>> /\ stream[w][i].last = tx[t].cid

LogInv == LogTypes /\ BatchInv /\ BufInv /\ Placed /\ Single

\* Whatever the follower has got: it has got what the transactions it replays
\* depend on.
ReplayedIsBacked ==
  \A n \in Deliveries : \A t \in Replayed(n) : DependsOn(t) \subseteq TxnsOf(Got(n))

LEMMA SetOfSeq ==
  ASSUME NEW S, NEW s \in Seq(S)
  PROVE  /\ ToSet(s) \subseteq S
         /\ \A x \in S : ToSet(Append(s, x)) = ToSet(s) \union {x}
<1>1. ToSet(s) \subseteq S BY DEF ToSet
<1>2. ASSUME NEW x \in S PROVE ToSet(Append(s, x)) = ToSet(s) \union {x}
  BY AppendFacts DEF ToSet
<1> QED BY <1>1, <1>2

LEMMA LogMembers ==
  ASSUME LogTypes, NEW w \in Workers
  PROVE  /\ buf[w] \in Seq(Txns) /\ stream[w] \in Seq(Batch) /\ Len(stream[w]) \in Nat
         /\ ToSet(buf[w]) \subseteq Txns
         /\ \A i \in DOMAIN stream[w] :
              /\ i \in Nat /\ i <= Len(stream[w])
              /\ stream[w][i] \in Batch /\ stream[w][i].last \in Nat
              /\ stream[w][i].txns \in Seq(Txns) /\ ToSet(stream[w][i].txns) \subseteq Txns
<1>1. buf[w] \in Seq(Txns) /\ stream[w] \in Seq(Batch) /\ Len(stream[w]) \in Nat BY DEF LogTypes
<1>2. ASSUME NEW i \in DOMAIN stream[w]
      PROVE  i \in Nat /\ i <= Len(stream[w]) /\ stream[w][i] \in Batch
  BY <1>1
<1>3. ASSUME NEW b \in Batch PROVE b.last \in Nat /\ b.txns \in Seq(Txns) BY DEF Batch
<1> QED BY <1>1, <1>2, <1>3, SetOfSeq

LEMMA WorkerFacts ==
  ASSUME NEW t \in Txns
  PROVE  Worker[t] \in Workers
BY StoAssumption DEF Txns

LEMMA LogInit ==
  ASSUME Init
  PROVE  LogInv
<1>1. /\ buf = [w \in Workers |-> << >>] /\ stream = [w \in Workers |-> << >>] /\ clock = 0
      /\ \A t \in Txns : tx[t].cid = 0
  BY DEF Init, NewTxn
<1>2. LogTypes BY <1>1 DEF LogTypes
<1>3. \A w \in Workers : buf[w] = << >> /\ stream[w] = << >> BY <1>1
<1>4. BatchInv /\ BufInv /\ Single BY <1>3 DEF BatchInv, BufInv, Single, ToSet
<1>5. Placed BY <1>1 DEF Placed, Stamped
<1> QED BY <1>2, <1>4, <1>5 DEF LogInv

\* The log and the stamps stay as they are.
SameLog == /\ buf' = buf /\ stream' = stream /\ clock' = clock
           /\ \A s \in Txns : tx'[s].cid = tx[s].cid

LEMMA LogKeeps ==
  ASSUME LogInv, SameLog
  PROVE  LogInv'
<1>1. buf' = buf /\ stream' = stream /\ clock' = clock /\ \A s \in Txns : tx'[s].cid = tx[s].cid
  BY DEF SameLog
<1>2. LogTypes' BY <1>1 DEF LogInv, LogTypes
<1>3. \A s \in Txns : \A w, i : Above(s, w, i)' <=> Above(s, w, i) BY <1>1 DEF Above, Stamped
<1>4. BatchInv' BY <1>1, <1>3, LogMembers DEF LogInv, BatchInv
<1>5. BufInv' BY <1>1, <1>3, LogMembers DEF LogInv, BufInv
<1>6. Placed' BY <1>1 DEF LogInv, Placed, Stamped, Logged
<1>7. Single' BY <1>1 DEF LogInv, Single
<1> QED BY <1>2, <1>4, <1>5, <1>6, <1>7 DEF LogInv

LEMMA QuietLog ==
  ASSUME Inv, NEW t \in Txns, Step(t), ~serialize_util(t)
  PROVE  SameLog
<1>1. /\ DOMAIN tx = Txns /\ Fields(tx[t])
      /\ \/ tx[t].prog[1].op # "mbta"
         \/ tx[t].cid = 0
  <2>1. CASE Lead
    <3>1. tx \in [Txns -> TxRec] /\ tx[t] \in TxRec BY <2>1, TxFacts DEF Types
    <3>2. Fields(tx[t]) BY <3>1 DEF TxRec, Fields
    <3> QED BY <2>1, <3>1, <3>2, LeaderFacts DEF IsReplay
  <2>2. CASE Follow BY <2>2 DEF Follow, FollowTx, Fields
  <2> QED BY <2>1, <2>2 DEF Inv
<1>2. Quiet(t) BY <1>1, StepKeeps
<1>3. PICK r : Becomes(t, r) /\ Keeps(tx[t], r) BY <1>2 DEF Quiet
<1>4. tx'[t] = r /\ \A s \in Txns \ {t} : tx'[s] = tx[s] BY <1>1, <1>3 DEF Becomes
<1>5. r.cid = tx[t].cid BY <1>1, <1>3 DEF Keeps
<1>6. \A s \in Txns : tx'[s].cid = tx[s].cid BY <1>4, <1>5
<1> QED BY <1>2, <1>6 DEF Quiet, logVars, SameLog

\* The stamp of t is above all others and above all batches.
LEMMA StampFacts ==
  ASSUME Lead, LogInv, NEW t \in Txns, serialize_util(t), NEW w, w = Worker[t]
  PROVE  /\ w \in Workers /\ ~Stamped(t)
         /\ clock' = clock + 1 /\ clock + 1 \in Nat /\ tx'[t].cid = clock + 1
         /\ \A s \in Txns \ {t} : tx'[s].cid = tx[s].cid
         /\ \/ /\ Len(buf[w]) + 1 < BatchSize
               /\ buf' = [buf EXCEPT ![w] = Append(buf[w], t)] /\ stream' = stream
            \/ /\ buf' = [buf EXCEPT ![w] = << >>]
               /\ stream' = [stream EXCEPT ![w] =
                               Append(stream[w], [txns |-> Append(buf[w], t), last |-> clock + 1])]
<1>1. /\ tx[t].pc = "log" /\ clock' = clock + 1 /\ Push(w, t, clock + 1)
      /\ Becomes(t, [tx[t] EXCEPT !.cid = clock + 1, !.pc = "stop"])
  BY DEF serialize_util, tid_unique, At
<1>2. tx \in [Txns -> TxRec] /\ tx[t] \in TxRec /\ TxOK(t, tx[t]) BY TxFacts DEF Types
<1>3. ~Stamped(t) BY <1>1, <1>2 DEF TxOK, CidOK, Stamped
<1>4. clock + 1 \in Nat BY DEF LogInv, LogTypes
<1>5. tx'[t] = [tx[t] EXCEPT !.cid = clock + 1, !.pc = "stop"] /\ \A s \in Txns \ {t} : tx'[s] = tx[s]
  BY <1>1, <1>2 DEF Becomes
<1>6. tx'[t].cid = clock + 1 BY <1>2, <1>5 DEF TxRec
<1>7. w \in Workers BY WorkerFacts
<1>8. buf[w] \in Seq(Txns) /\ BatchSize \in Nat BY <1>7, StoAssumption DEF LogInv, LogTypes
<1>9. Len(Append(buf[w], t)) = Len(buf[w]) + 1 /\ Len(buf[w]) \in Nat BY <1>8, AppendFacts
<1>10. CASE Len(buf[w]) + 1 >= BatchSize BY <1>1, <1>3, <1>4, <1>5, <1>6, <1>7, <1>9, <1>10 DEF Push
<1>11. CASE ~(Len(buf[w]) + 1 >= BatchSize)
  <2>1. Len(buf[w]) + 1 < BatchSize BY <1>8, <1>9, <1>11
  <2> QED BY <1>1, <1>3, <1>4, <1>5, <1>6, <1>7, <1>9, <1>11, <2>1 DEF Push
<1> QED BY <1>10, <1>11

LEMMA LogStamp ==
  ASSUME Lead, LogInv, NEW t \in Txns, serialize_util(t)
  PROVE  LogInv'
<1>w. PICK w : w = Worker[t] OBVIOUS
<1>c. PICK c : c = clock + 1 OBVIOUS
<1>0. clock \in Nat BY DEF LogInv, LogTypes
<1>1. /\ w \in Workers /\ ~Stamped(t) /\ clock' = c /\ c \in Nat /\ tx'[t].cid = c /\ c # 0
      /\ \A s \in Txns \ {t} : tx'[s].cid = tx[s].cid
      /\ clock \in Nat
  <2>1. c # 0 BY <1>c, <1>0
  <2> QED BY <1>w, <1>c, <1>0, <2>1, StampFacts
<1>2. \/ /\ Len(buf[w]) + 1 < BatchSize
         /\ buf' = [buf EXCEPT ![w] = Append(buf[w], t)] /\ stream' = stream
      \/ /\ buf' = [buf EXCEPT ![w] = << >>]
         /\ stream' = [stream EXCEPT ![w] = Append(stream[w], [txns |-> Append(buf[w], t), last |-> c])]
  BY <1>w, <1>c, StampFacts
<1>3. LogTypes /\ BatchInv /\ BufInv /\ Placed /\ Single BY DEF LogInv
<1>4. \A s \in Txns : tx'[s].cid \in Nat /\ tx'[s].cid <= c /\ tx[s].cid \in Nat /\ tx[s].cid <= clock /\ tx[s].cid < c
  <2>1. ASSUME NEW s \in Txns PROVE tx[s].cid \in Nat /\ tx[s].cid <= clock BY <1>3 DEF LogTypes
  <2>2. ASSUME NEW s \in Txns PROVE tx[s].cid < c BY <1>c, <1>0, <2>1
  <2>3. c <= c /\ \A s \in Txns : tx[s].cid <= c BY <1>1, <2>1, <2>2
  <2> QED BY <1>1, <2>1, <2>2, <2>3
<1>5. \A s \in Txns : Stamped(s) => s # t /\ Stamped(s)' /\ tx'[s].cid = tx[s].cid BY <1>1 DEF Stamped
<1>6. ASSUME NEW v \in Workers, NEW i \in DOMAIN stream[v]
      PROVE  /\ stream[v][i].last \in Nat /\ stream[v][i].last <= clock /\ stream[v][i].last < c
             /\ stream[v][i] \in Batch /\ i \in Nat /\ i <= Len(stream[v])
             /\ \A s \in ToSet(stream[v][i].txns) :
                  /\ s \in Txns /\ Stamped(s) /\ tx[s].cid <= stream[v][i].last
                  /\ \A j \in DOMAIN stream[v] : j < i => stream[v][j].last < tx[s].cid
  <2>1. stream[v][i].last \in Nat /\ stream[v][i].last <= clock BY <1>3, LogMembers DEF BatchInv
  <2>2. stream[v][i].last < c BY <1>c, <1>1, <2>1
  <2> QED BY <1>3, <2>1, <2>2, LogMembers DEF BatchInv, Above
<1>7. ASSUME NEW v \in Workers, NEW s \in ToSet(buf[v])
      PROVE  s \in Txns /\ Stamped(s) /\ \A j \in DOMAIN stream[v] : stream[v][j].last < tx[s].cid
  <2>1. s \in Txns /\ Above(s, v, Len(stream[v]) + 1) /\ Len(stream[v]) \in Nat
    BY <1>3, LogMembers DEF BufInv
  <2>2. \A j \in DOMAIN stream[v] : j < Len(stream[v]) + 1 BY <1>6, <2>1
  <2> QED BY <2>1, <2>2 DEF Above
<1>8. \A v \in Workers : /\ buf[v] \in Seq(Txns) /\ stream[v] \in Seq(Batch) /\ Len(stream[v]) \in Nat
                         /\ Len(buf[v]) \in Nat
  BY <1>3, LogMembers
<1>9. ToSet(Append(buf[w], t)) = ToSet(buf[w]) \union {t} /\ Append(buf[w], t) \in Seq(Txns)
  BY <1>1, <1>8, SetOfSeq, AppendFacts
<1>10. CASE /\ Len(buf[w]) + 1 < BatchSize
            /\ buf' = [buf EXCEPT ![w] = Append(buf[w], t)] /\ stream' = stream
  <2>1. /\ \A v \in Workers : v # w => buf'[v] = buf[v]
        /\ buf'[w] = Append(buf[w], t) /\ buf' \in [Workers -> Seq(Txns)]
    BY <1>1, <1>3, <1>9, <1>10 DEF LogTypes
  <2>2. LogTypes' BY <1>1, <1>3, <1>4, <1>10, <2>1 DEF LogTypes
  <2>3. BatchInv'
    <3>1. ASSUME NEW v \in Workers, NEW i \in DOMAIN stream[v]
          PROVE  /\ stream[v][i].last <= clock'
                 /\ \A s \in ToSet(stream[v][i].txns) :
                      tx'[s].cid <= stream[v][i].last /\ Stamped(s)'
                      /\ \A j \in DOMAIN stream[v] : j < i => stream[v][j].last < tx'[s].cid
      <4>1. stream[v][i].last <= clock' BY <1>1, <1>6
      <4> QED BY <1>5, <1>6, <4>1
    <3> QED BY <1>10, <3>1 DEF BatchInv, Above
  <2>4. BufInv'
    <3>1. ASSUME NEW v \in Workers, NEW s \in ToSet(buf'[v])
          PROVE  Stamped(s)' /\ \A j \in DOMAIN stream[v] : stream[v][j].last < tx'[s].cid
      <4>1. CASE s = t BY <1>1, <1>6, <4>1 DEF Stamped
      <4>2. CASE s # t
        <5>1. s \in ToSet(buf[v]) BY <1>9, <2>1, <3>1, <4>2
        <5> QED BY <1>5, <1>7, <5>1
      <4> QED BY <4>1, <4>2
    <3> QED BY <1>10, <3>1 DEF BufInv, Above
  <2>5. Placed'
    <3>1. ASSUME NEW s \in Txns, Stamped(s)' PROVE Logged(s)'
      <4>1. CASE s = t BY <1>w, <1>9, <2>1, <4>1 DEF Logged
      <4>2. CASE s # t
        <5>1. Stamped(s) BY <1>1, <3>1, <4>2 DEF Stamped
        <5>2. Logged(s) /\ Worker[s] \in Workers BY <1>3, <5>1, WorkerFacts DEF Placed
        <5>3. ToSet(buf[Worker[s]]) \subseteq ToSet(buf'[Worker[s]]) BY <1>9, <2>1, <5>2
        <5> QED BY <1>10, <5>2, <5>3 DEF Logged
      <4> QED BY <4>1, <4>2
    <3> QED BY <3>1 DEF Placed
  <2>6. Single'
    <3>1. BatchSize # 1 BY <1>1, <1>8, <1>10, StoAssumption
    <3> QED BY <3>1 DEF Single
  <2> QED BY <2>2, <2>3, <2>4, <2>5, <2>6 DEF LogInv
<1>11. ASSUME buf' = [buf EXCEPT ![w] = << >>],
              stream' = [stream EXCEPT ![w] = Append(stream[w], [txns |-> Append(buf[w], t), last |-> c])]
       PROVE  LogInv'
  <2>b. PICK b : b = [txns |-> Append(buf[w], t), last |-> c] OBVIOUS
  <2>1. b \in Batch /\ b.txns = Append(buf[w], t) /\ b.last = c /\ ToSet(b.txns) = ToSet(buf[w]) \union {t}
    BY <1>1, <1>9, <2>b DEF Batch
  <2>2. PICK n : n = Len(stream[w]) + 1 OBVIOUS
  <2>3. /\ \A v \in Workers : v # w => stream'[v] = stream[v] /\ buf'[v] = buf[v]
        /\ stream'[w] = Append(stream[w], b) /\ buf'[w] = << >>
        /\ stream' \in [Workers -> Seq(Batch)] /\ buf' \in [Workers -> Seq(Txns)]
    <3>1. Append(stream[w], b) \in Seq(Batch) /\ << >> \in Seq(Txns) BY <1>1, <1>8, <2>1, AppendFacts
    <3> QED BY <1>1, <1>3, <1>11, <2>b, <3>1 DEF LogTypes
  <2>4. /\ DOMAIN stream'[w] = DOMAIN stream[w] \union {n} /\ stream'[w][n] = b /\ n \in Nat
        /\ \A i \in DOMAIN stream[w] : stream'[w][i] = stream[w][i] /\ i \in Nat /\ i < n
    <3>1. /\ DOMAIN stream'[w] = DOMAIN stream[w] \union {n} /\ stream'[w][n] = b /\ n \in Nat
          /\ \A i \in DOMAIN stream[w] : stream'[w][i] = stream[w][i]
      BY <1>1, <1>8, <2>1, <2>2, <2>3, AppendFacts
    <3>2. \A i \in DOMAIN stream[w] : i \in Nat /\ i < n BY <1>1, <1>6, <1>8, <2>2
    <3> QED BY <3>1, <3>2
  <2> HIDE <2>b, <2>2, <1>11
  <2>5. LogTypes' BY <1>1, <1>4, <2>3 DEF LogTypes
  <2>6. ASSUME NEW v \in Workers, NEW i \in DOMAIN stream[v]
        PROVE  i \in DOMAIN stream'[v] /\ stream'[v][i] = stream[v][i]
    BY <2>3, <2>4
  <2>7. ASSUME NEW v \in Workers, NEW i \in DOMAIN stream[v], NEW j \in DOMAIN stream'[v], j < i
        PROVE  j \in DOMAIN stream[v]
    <3>1. CASE v = w BY <2>4, <2>7, <3>1
    <3>2. CASE v # w BY <2>3, <2>7, <3>2
    <3> QED BY <3>1, <3>2
  <2>8. BatchInv'
    <3>1. ASSUME NEW v \in Workers, NEW i \in DOMAIN stream[v]
          PROVE  /\ stream'[v][i].last <= clock'
                 /\ \A s \in ToSet(stream'[v][i].txns) :
                      tx'[s].cid <= stream'[v][i].last /\ Above(s, v, i)'
      <4>1. stream'[v][i] = stream[v][i] /\ stream[v][i].last <= clock' BY <1>1, <1>6, <2>6
      <4>2. ASSUME NEW s \in ToSet(stream[v][i].txns)
            PROVE  tx'[s].cid <= stream[v][i].last /\ Above(s, v, i)'
        <5>1. /\ tx'[s].cid = tx[s].cid /\ Stamped(s)' /\ tx[s].cid <= stream[v][i].last
              /\ \A j \in DOMAIN stream[v] : j < i => stream[v][j].last < tx[s].cid
          BY <1>5, <1>6
        <5>2. \A j \in DOMAIN stream'[v] : j < i => stream'[v][j].last < tx'[s].cid BY <2>6, <2>7, <5>1
        <5> QED BY <5>1, <5>2 DEF Above
      <4> QED BY <4>1, <4>2
    <3>2. ASSUME NEW s \in ToSet(b.txns) PROVE tx'[s].cid <= c /\ Above(s, w, n)'
      <4>1. s \in Txns BY <1>1, <1>7, <2>1
      <4>2. \A j \in DOMAIN stream'[w] : j < n => j \in DOMAIN stream[w] /\ stream'[w][j] = stream[w][j]
        BY <2>4
      <4>3. CASE s = t
        <5>1. \A j \in DOMAIN stream[w] : stream[w][j].last < c BY <1>1, <1>6
        <5> QED BY <1>1, <1>4, <4>1, <4>2, <4>3, <5>1 DEF Above, Stamped
      <4>4. CASE s # t
        <5>1. Stamped(s) /\ \A j \in DOMAIN stream[w] : stream[w][j].last < tx[s].cid
          BY <1>1, <1>7, <2>1, <4>4
        <5>2. Stamped(s)' /\ tx'[s].cid = tx[s].cid BY <1>5, <4>1, <5>1
        <5> QED BY <1>4, <4>1, <4>2, <5>1, <5>2 DEF Above
      <4> QED BY <4>3, <4>4
    <3>3. ASSUME NEW v \in Workers, NEW i \in DOMAIN stream'[v]
          PROVE  /\ stream'[v][i].last <= clock'
                 /\ \A s \in ToSet(stream'[v][i].txns) :
                      tx'[s].cid <= stream'[v][i].last /\ Above(s, v, i)'
      <4>1. CASE i \in DOMAIN stream[v] BY <3>1, <4>1
      <4>2. CASE i \notin DOMAIN stream[v]
        <5>1. v = w /\ i = n BY <2>3, <2>4, <3>3, <4>2
        <5>2. stream'[v][i] = b /\ b.last = c /\ c <= clock' BY <1>1, <2>1, <2>4, <5>1
        <5> QED BY <3>2, <5>1, <5>2
      <4> QED BY <4>1, <4>2
    <3> QED BY <3>3 DEF BatchInv
  <2>9. BufInv'
    <3>1. ASSUME NEW v \in Workers, NEW s \in ToSet(buf'[v]) PROVE Above(s, v, Len(stream[v]) + 1)'
      <4>1. v # w BY <2>3, <3>1 DEF ToSet
      <4>2. s \in Txns /\ Stamped(s) /\ \A j \in DOMAIN stream[v] : stream[v][j].last < tx[s].cid
        BY <1>7, <2>3, <3>1, <4>1
      <4> QED BY <1>5, <2>3, <4>1, <4>2 DEF Above
    <3> QED BY <3>1 DEF BufInv
  <2>10. Placed'
    <3>1. ASSUME NEW s \in Txns, Stamped(s)' PROVE Logged(s)'
      <4>1. CASE s = t BY <1>w, <2>1, <2>4, <4>1 DEF Logged
      <4>2. CASE s # t
        <5>1. Stamped(s) BY <1>1, <3>1, <4>2 DEF Stamped
        <5>2. Logged(s) /\ Worker[s] \in Workers BY <1>3, <5>1, WorkerFacts DEF Placed
        <5>3. CASE s \in ToSet(buf[Worker[s]])
          <6>1. CASE Worker[s] = w BY <2>1, <2>4, <5>3, <6>1 DEF Logged
          <6>2. CASE Worker[s] # w BY <2>3, <5>2, <5>3, <6>2 DEF Logged
          <6> QED BY <6>1, <6>2
        <5>4. CASE \E i \in DOMAIN stream[Worker[s]] : s \in ToSet(stream[Worker[s]][i].txns)
          BY <2>6, <5>2, <5>4 DEF Logged
        <5> QED BY <5>2, <5>3, <5>4 DEF Logged
      <4> QED BY <4>1, <4>2
    <3> QED BY <3>1 DEF Placed
  <2>11. Single'
    <3>1. ASSUME BatchSize = 1, NEW v \in Workers
          PROVE  /\ buf'[v] = << >>
                 /\ \A i \in DOMAIN stream'[v] : \E s \in Txns :
                      stream'[v][i].txns = <<s>> /\ stream'[v][i].last = tx'[s].cid
      <4>1. buf[v] = << >> /\ \A i \in DOMAIN stream[v] : \E s \in Txns :
                      stream[v][i].txns = <<s>> /\ stream[v][i].last = tx[s].cid
        BY <1>3, <3>1 DEF Single
      <4>2. buf'[v] = << >> BY <2>3, <4>1
      <4>3. ASSUME NEW i \in DOMAIN stream'[v]
            PROVE  \E s \in Txns : stream'[v][i].txns = <<s>> /\ stream'[v][i].last = tx'[s].cid
        <5>1. CASE i \in DOMAIN stream[v]
          <6>1. PICK s \in Txns : stream[v][i].txns = <<s>> /\ stream[v][i].last = tx[s].cid BY <4>1, <5>1
          <6>2. s \in ToSet(<<s>>) BY DEF ToSet
          <6>3. Stamped(s) BY <1>6, <5>1, <6>1, <6>2
          <6> QED BY <1>5, <2>6, <5>1, <6>1, <6>3
        <5>2. CASE i \notin DOMAIN stream[v]
          <6>1. v = w /\ i = n BY <2>3, <2>4, <4>3, <5>2
          <6>2. b.txns = <<t>>
            <7>1. b.txns = Append(<< >>, t) BY <2>1, <4>1, <6>1
            <7> QED BY <7>1
          <6> QED BY <1>1, <2>1, <2>4, <6>1, <6>2
        <5> QED BY <5>1, <5>2
      <4> QED BY <4>2, <4>3
    <3> QED BY <3>1 DEF Single
  <2> QED BY <2>5, <2>8, <2>9, <2>10, <2>11 DEF LogInv
<1> QED BY <1>2, <1>10, <1>11

LEMMA LogStep ==
  ASSUME Inv, LogInv, [Next]_vars
  PROVE  LogInv'
<1>1. ASSUME NEW t \in Txns, Step(t), serialize_util(t) PROVE LogInv'
  <2>1. ~Follow BY <1>1 DEF Follow, FollowTx, serialize_util, At
  <2> QED BY <1>1, <2>1, LogStamp DEF Inv
<1>2. ASSUME NEW t \in Txns, Step(t), ~serialize_util(t) PROVE LogInv'
  BY <1>2, QuietLog, LogKeeps
<1>3. CASE UNCHANGED vars
  <2>1. SameLog BY <1>3 DEF vars, SameLog
  <2> QED BY <2>1, LogKeeps
<1> QED BY <1>1, <1>2, <1>3 DEF Next

\* The batches serialize_util() gives to a stream: they hold the stamped
\* transactions of the worker in the order of their stamps, and the last commit
\* id of a batch separates it from everything logged after it.
THEOREM LogInvariant == Spec => []LogInv
<1>1. Init => LogInv BY LogInit
<1>2. Inv /\ LogInv /\ [Next]_vars => LogInv' BY LogStep
<1> QED BY <1>1, <1>2, StoInvariant, PTL DEF Spec

LEMMA WatermarkFacts ==
  ASSUME LogInv, NEW n \in Deliveries, NEW w \in Workers
  PROVE  /\ n[w] \in DOMAIN stream[w] /\ n[w] \in Nat
         /\ Watermark(n) \in Nat /\ Watermark(n) <= stream[w][n[w]].last
<1>1. ASSUME NEW v \in Workers PROVE n[v] \in DOMAIN stream[v] /\ n[v] \in Nat /\ stream[v][n[v]].last \in Nat
  <2>1. stream[v] \in Seq(Batch) /\ Len(stream[v]) \in Nat BY LogMembers DEF LogInv
  <2>2. n[v] \in 1..Cardinality(Txns) /\ n[v] <= Len(stream[v]) BY DEF Deliveries
  <2>3. n[v] \in Nat /\ n[v] >= 1 BY <2>2
  <2>4. n[v] \in DOMAIN stream[v] BY <2>1, <2>2, <2>3
  <2> QED BY <2>3, <2>4, LogMembers DEF LogInv
<1> DEFINE S == {stream[v][n[v]].last : v \in Workers}
<1>2. S \subseteq Nat /\ stream[w][n[w]].last \in S BY <1>1
<1> HIDE DEF S
<1>3. Min(S) \in S /\ \A y \in S : Min(S) <= y BY <1>2, LeastNat
<1>4. Watermark(n) = Min(S) BY DEF Watermark, S
<1> QED BY <1>1, <1>2, <1>3, <1>4

\* What a replayed transaction depends on has arrived and has a lower stamp
\* than the watermark.
LEMMA Backed ==
  ASSUME Inv, LogInv, NEW n \in Deliveries, NEW t \in Replayed(n), NEW d \in DependsOn(t)
  PROVE  \E v \in Workers : \E i \in 1..n[v] :
           /\ i \in DOMAIN stream[v] /\ d \in ToSet(stream[v][i].txns)
           /\ d \in Txns /\ tx[d].cid \in Nat /\ tx[d].cid < Watermark(n)
<1>0. LogTypes /\ BatchInv /\ BufInv /\ Placed BY DEF LogInv
<1>1. PICK b \in Got(n) : b.last <= Watermark(n) /\ t \in ToSet(b.txns) BY DEF Replayed, TxnsOf
<1>2. PICK w \in Workers : \E i \in 1..n[w] : b = stream[w][i] BY DEF Got
<1>3. PICK i \in 1..n[w] : b = stream[w][i] BY <1>2
<1>4. i \in DOMAIN stream[w]
  <2>1. n[w] \in DOMAIN stream[w] /\ stream[w] \in Seq(Batch) BY <1>0, WatermarkFacts, LogMembers
  <2> QED BY <2>1
<1>5. t \in Txns /\ Stamped(t) /\ tx[t].cid <= b.last /\ b.last \in Nat
  BY <1>0, <1>1, <1>3, <1>4, LogMembers DEF BatchInv, Above
<1>6. d \in Txns /\ tx[d].cid # 0 /\ tx[d].cid < tx[t].cid
  BY <1>5, InvStamps DEF StampsFollowConflicts, DependsOn, Stamped
<1>7. Watermark(n) \in Nat /\ tx[t].cid \in Nat /\ tx[d].cid \in Nat
  BY <1>0, <1>2, <1>5, <1>6, WatermarkFacts DEF LogTypes
<1>8. tx[d].cid < Watermark(n) BY <1>1, <1>5, <1>6, <1>7
<1>v. PICK v : v = Worker[d] OBVIOUS
<1>9. v \in Workers BY <1>v, <1>6, WorkerFacts
<1>10. /\ n[v] \in DOMAIN stream[v] /\ n[v] \in Nat /\ Watermark(n) <= stream[v][n[v]].last
       /\ stream[v][n[v]].last \in Nat /\ Len(stream[v]) \in Nat
  BY <1>0, <1>9, WatermarkFacts, LogMembers
<1>11. ~(stream[v][n[v]].last < tx[d].cid) BY <1>7, <1>8, <1>10
<1>12. d \notin ToSet(buf[v])
  <2>1. n[v] < Len(stream[v]) + 1
    <3>1. n[v] <= Len(stream[v]) BY <1>0, <1>9, <1>10, LogMembers
    <3> QED BY <1>10, <3>1
  <2> QED BY <1>0, <1>9, <1>10, <1>11, <2>1 DEF BufInv, Above
<1>13. PICK j \in DOMAIN stream[v] : d \in ToSet(stream[v][j].txns)
  BY <1>v, <1>0, <1>6, <1>12 DEF Placed, Stamped, Logged
<1>14. ~(n[v] < j) BY <1>0, <1>9, <1>10, <1>11, <1>13 DEF BatchInv, Above
<1>15. j \in 1..n[v]
  <2>1. stream[v] \in Seq(Batch) BY <1>0, <1>9, LogMembers
  <2>2. j \in Nat /\ j >= 1 BY <2>1
  <2> QED BY <1>10, <1>14, <2>2
<1> QED BY <1>6, <1>7, <1>8, <1>9, <1>13, <1>15

\* Whatever the sizes of the batches: a follower has received everything the
\* transactions it replays depend on.  With batches of several transactions it
\* may still hold some of it back, in a batch that ends above the watermark.
THEOREM ReplayedAlwaysBacked == Spec => []ReplayedIsBacked
<1>1. ASSUME Inv, LogInv PROVE ReplayedIsBacked
  <2>1. ASSUME NEW n \in Deliveries, NEW t \in Replayed(n), NEW d \in DependsOn(t)
        PROVE  d \in TxnsOf(Got(n))
    <3>1. PICK v \in Workers : \E i \in 1..n[v] : d \in ToSet(stream[v][i].txns) BY <1>1, Backed
    <3>2. PICK i \in 1..n[v] : d \in ToSet(stream[v][i].txns) BY <3>1
    <3>3. stream[v][i] \in Got(n) BY DEF Got
    <3> QED BY <3>2, <3>3 DEF TxnsOf
  <2> QED BY <2>1 DEF ReplayedIsBacked
<1> QED BY <1>1, StoInvariant, LogInvariant, PTL

LEMMA BackedSingle ==
  ASSUME BatchSize = 1, Inv, LogInv
  PROVE  ReplayedIsClosed
<1>1. ASSUME NEW n \in Deliveries, NEW t \in Replayed(n), NEW d \in DependsOn(t)
      PROVE  d \in Replayed(n)
  <2>1. PICK v \in Workers : \E i \in 1..n[v] :
           /\ i \in DOMAIN stream[v] /\ d \in ToSet(stream[v][i].txns)
           /\ d \in Txns /\ tx[d].cid \in Nat /\ tx[d].cid < Watermark(n)
    BY Backed
  <2>2. PICK i \in 1..n[v] :
           /\ i \in DOMAIN stream[v] /\ d \in ToSet(stream[v][i].txns)
           /\ d \in Txns /\ tx[d].cid \in Nat /\ tx[d].cid < Watermark(n)
    BY <2>1
  <2>3. PICK s \in Txns : stream[v][i].txns = <<s>> /\ stream[v][i].last = tx[s].cid
    BY <2>2 DEF LogInv, Single
  <2>4. ToSet(<<s>>) = {s} BY DEF ToSet
  <2>5. d = s BY <2>2, <2>3, <2>4
  <2>6. stream[v][i].last <= Watermark(n)
    <3>1. Watermark(n) \in Nat BY WatermarkFacts
    <3> QED BY <2>2, <2>3, <2>5, <3>1
  <2>7. stream[v][i] \in Got(n) BY DEF Got
  <2> QED BY <2>2, <2>6, <2>7 DEF Replayed, TxnsOf
<1> QED BY <1>1 DEF ReplayedIsClosed

\* When a batch is one transaction, as in the run that checks this, a follower
\* that cuts the streams at the watermark replays no transaction without those
\* it depends on.
THEOREM ReplayedAlwaysClosed == (BatchSize = 1) /\ Spec => []ReplayedIsClosed
<1>1. BatchSize = 1 /\ Inv /\ LogInv => ReplayedIsClosed BY BackedSingle
<1>2. CASE BatchSize = 1
  <2>1. Inv /\ LogInv => ReplayedIsClosed BY <1>1, <1>2
  <2> QED BY <2>1, StoInvariant, LogInvariant, PTL
<1>3. CASE BatchSize # 1 BY <1>3
<1> QED BY <1>2, <1>3
=============================================================================
