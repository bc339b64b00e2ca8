-------------------------- MODULE SiloCommitProofs --------------------------
(***************************************************************************)
(* Proofs about SiloCommit: the latest tuple of a key is the one that the  *)
(* index has (LatestIsLinked), and the versions of a tuple grow            *)
(* (VersionsGrow), for any transactions, keys, programs and bounds.        *)
(*                                                                         *)
(* The argument.  Neither is inductive: that an abort unlinks a latest     *)
(* tuple, and that a write only meets older versions, depends on what the  *)
(* transaction did in the phases before.  Inv therefore follows a          *)
(* transaction through its phases: its locks are the tuples it owns        *)
(* (LockInv), its inserts are tentative until it commits (InsertInv), a    *)
(* locked write tuple stays the latest (CommitInv), and what is not yet    *)
(* written is older than the TID (WriteInv).  The TID exceeds what was     *)
(* seen because numbers never leave their field: a transaction draws one   *)
(* number, the next after one in use (TidInv, lemma Generated).  A step    *)
(* frames the other transactions: it changes no tuple that they have       *)
(* locked (Frame), and their part of Inv says nothing else about tuples    *)
(* that can change.                                                        *)
(***************************************************************************)
EXTENDS SiloCommit, FiniteSetTheorems, NaturalsInduction, TLAPS

-----------------------------------------------------------------------------
(* Types.                                                                  *)

TupleRec ==
  [key : Keys \union {0}, version : Nat, val : Int, owner : 0..NTxns, latest : BOOLEAN]
Found == [key : Keys, tup : Tuples]
ReadRec == [tup : Tuples, tid : Nat, key : Keys, val : Int]
OwnRec == [ip : Nat, key : Keys, val : Int]
WriteRec == [tup : Tuples, key : Keys, val : Int, ins : BOOLEAN]

\* Still to validate, still to write, and at the end.
Running == {"op", "read", "find", "insert", "lock", "validate"}
Pcs == Running \union {"write", "abort", "committed", "aborted"}

TxRec ==
  [pc : Pcs, prog : Seq(Operation), ip : Nat \ {0}, todo : Seq(Found), rset : Seq(ReadRec),
   absent : SUBSET Keys, aset : Int, own : Seq(OwnRec), wset : Seq(WriteRec),
   lockq : SUBSET Tuples, locked : SUBSET Tuples, tid : Nat,
   i : Nat \ {0}]

Types ==
  /\ tick \in 1..MaxTick
  /\ ntup \in 0..MaxTuples
  /\ tree \in [Keys -> 0..MaxTuples]
  /\ leaf \in [v : Nat, size : Int, mod : {"insert", "remove"}]
  /\ tup \in [Tuples -> TupleRec]
  /\ tx \in [Txns -> TxRec]

-----------------------------------------------------------------------------
(* The invariant.                                                          *)

\* The index: the tuple of a key is the latest of that key, a tuple that is
\* not allocated yet is nobody's, and the leaf counts its keys.
Linked == {k \in Keys : tree[k] # 0}

IndexInv ==
  /\ \A k \in Linked : tree[k] \in 1..ntup /\ tup[tree[k]].key = k /\ tup[tree[k]].latest
  /\ \A u \in Tuples : u > ntup => ~tup[u].latest /\ tup[u].owner = 0
  /\ \A u \in Tuples : u <= ntup => tup[u].key \in Keys /\ (tup[u].latest => tree[tup[u].key] = u)
  /\ leaf.size = Cardinality(Linked)

\* A TID of an epoch up to e and a number up to n.
TidUpTo(v, e, n) ==
  \E epoch \in 0..e, num \in 0..n, core \in 0..NTxns : v = MakeTid(core, num, epoch)

\* A transaction draws one TID, so the numbers are bounded by the number of
\* transactions that have drawn theirs.
Numbered == {t \in Txns : tx[t].tid # MIN_TID}
Drawn == 1 + Cardinality(Numbered)
IsTid(v) == TidUpTo(v, tick, Drawn)

TidInv ==
  /\ \A u \in Tuples : tup[u].version = MAX_TID \/ IsTid(tup[u].version)
  /\ \A t \in Txns : IsTid(tx[t].tid)
  /\ \A t \in Txns : \A i \in DOMAIN tx[t].rset : IsTid(tx[t].rset[i].tid)
  /\ \A t \in Txns : tx[t].pc \in Running \ {"validate"} => tx[t].tid = MIN_TID

\* The write set: the tuple of an entry is one of its key, and an inserted
\* tuple was new when its entry was added.
EntryInv(t) ==
  LET w == tx[t].wset IN
  /\ \A j \in DOMAIN w : w[j].tup <= ntup /\ tup[w[j].tup].key = w[j].key
  /\ \A j, k \in DOMAIN w : k < j /\ w[j].ins => w[k].tup # w[j].tup

\* The locks a transaction has are the ones it knows of.
LockInv(t) == \A u \in Tuples : u \in tx[t].locked <=> tup[u].owner = t

\* A search that goes on belongs to an operation on one key.
SearchInv(t) == tx[t].pc \in {"find", "insert"} => HasOp(t) /\ Op(t).key \in Keys

\* A tentative insert is locked, in the index and has no version yet, until
\* the transaction commits or has taken it out of the index again.
Tentative(t, u) == tup[u].latest /\ tup[u].version = MAX_TID

InsertInv(t) ==
  /\ tx[t].pc \in Running => Inserted(t) \subseteq tx[t].locked
  /\ tx[t].pc \in Running \union {"abort"} =>
       \A u \in Inserted(t) : u \in tx[t].locked => Tentative(t, u)

\* A write tuple is locked and the latest of its key once it has been locked,
\* and from then on until it is written.
Ready(t, u) == u \in tx[t].locked /\ tup[u].latest

CommitInv(t) ==
  /\ tx[t].pc = "lock" =>
       /\ tx[t].lockq \subseteq WriteTuples(t)
       /\ \A u \in WriteTuples(t) \ tx[t].lockq :
            Ready(t, u) /\ (u \in Inserted(t) \/ tup[u].version # MAX_TID)
  /\ tx[t].pc = "validate" => \A u \in WriteTuples(t) :
       Ready(t, u) /\ (u \in Inserted(t) \/ tup[u].version < tx[t].tid)

\* The entries from i on are still to be written, and an inserted tuple whose
\* entry has been written has the transaction's TID.
WriteInv(t) ==
  LET w == tx[t].wset IN
  tx[t].pc = "write" => \A j \in DOMAIN w :
    /\ w[j].tup \in tx[t].locked
    /\ tx[t].i <= j => /\ tup[w[j].tup].latest
                       /\ w[j].tup \in Inserted(t) \/ tup[w[j].tup].version < tx[t].tid
    /\ w[j].ins => tup[w[j].tup].version = IF j < tx[t].i THEN tx[t].tid ELSE MAX_TID

TxInv(t) ==
  EntryInv(t) /\ LockInv(t) /\ SearchInv(t) /\ InsertInv(t) /\ CommitInv(t) /\ WriteInv(t)

Inv == Types /\ IndexInv /\ TidInv /\ \A t \in Txns : TxInv(t)

-----------------------------------------------------------------------------
(* Arithmetic of the TIDs.                                                 *)

\* What SiloAssumption says about the numbers.
LEMMA Numbers ==
  /\ NTxns \in Nat /\ NumIds \in Nat /\ MaxTuples \in Nat /\ MaxTick \in Nat /\ 1 <= MaxTick
  /\ NTxns + 1 < NumIds
BY SiloAssumption

\* Products grow with a factor.
LEMMA TimesGrows ==
  ASSUME NEW a \in Nat, NEW b \in Nat, NEW d \in Nat, a < b
  PROVE  a * d + d <= b * d /\ a * d \in Nat /\ b * d \in Nat
<1>1. PICK k \in Nat : b = (a + 1) + k
  <2>1. b - (a + 1) \in Nat /\ b = (a + 1) + (b - (a + 1)) OBVIOUS
  <2> QED BY <2>1
<1>2. k * d \in Nat /\ a * d \in Nat OBVIOUS
<1>3. b * d = (a * d + d) + k * d BY <1>1
<1> QED BY <1>2, <1>3

\* A quotient with a remainder below the divisor is the quotient.
LEMMA Quotient ==
  ASSUME NEW a \in Nat, NEW d \in Nat, NEW c \in Nat, c < d
  PROVE  (a * d + c) \div d = a /\ (a * d + c) % d = c
<1> DEFINE x == a * d + c
           q == x \div d
           r == x % d
<1>1. x \in Nat /\ d > 0 /\ a * d \in Nat OBVIOUS
<1>2. q \in Nat /\ r \in 0..(d - 1) /\ x = q * d + r
  BY <1>1
<1>3. x = a * d + c OBVIOUS
<1> HIDE DEF q, r, x
<1>4. ~(q < a)
  <2>1. ASSUME q < a PROVE FALSE
    <3>1. q * d + d <= a * d /\ q * d \in Nat BY <1>2, <2>1, TimesGrows
    <3> QED BY <1>1, <1>2, <1>3, <3>1
  <2> QED BY <2>1
<1>5. ~(a < q)
  <2>1. ASSUME a < q PROVE FALSE
    <3>1. a * d + d <= q * d /\ q * d \in Nat BY <1>2, <2>1, TimesGrows
    <3> QED BY <1>1, <1>2, <1>3, <3>1
  <2> QED BY <2>1
<1>6. q = a BY <1>2, <1>4, <1>5
<1>7. r = c BY <1>1, <1>2, <1>3, <1>6
<1> QED BY <1>6, <1>7 DEF q, r, x

LEMMA TidType ==
  ASSUME NEW c \in Nat, NEW m \in Nat, NEW e \in Nat
  PROVE  MakeTid(c, m, e) \in Nat
<1>1. NumIds \in Nat /\ NTxns + 1 \in Nat BY Numbers
<1>2. e * NumIds \in Nat BY <1>1
<1>3. e * NumIds + m \in Nat BY <1>2
<1> DEFINE a == e * NumIds + m
<1> HIDE DEF a
<1>4. a \in Nat BY <1>3 DEF a
<1>5. a * (NTxns + 1) \in Nat BY <1>1, <1>4
<1>6. a * (NTxns + 1) + c \in Nat BY <1>5
<1> QED BY <1>6 DEF MakeTid, a

\* TIDs are ordered by epoch and number first.
LEMMA TidOrder ==
  ASSUME NEW c \in 0..NTxns, NEW m \in Nat, NEW e \in Nat,
         NEW d \in Nat, NEW n \in Nat, NEW f \in Nat,
         e * NumIds + m < f * NumIds + n
  PROVE  MakeTid(c, m, e) < MakeTid(d, n, f)
<1> DEFINE a == e * NumIds + m
           b == f * NumIds + n
           s == NTxns + 1
<1>1. NumIds \in Nat /\ s \in Nat /\ c \in Nat /\ c < s BY Numbers
<1>2. e * NumIds \in Nat /\ f * NumIds \in Nat BY <1>1
<1>3. a \in Nat /\ b \in Nat /\ a < b BY <1>2
<1>4. MakeTid(c, m, e) = a * s + c /\ MakeTid(d, n, f) = b * s + d BY DEF MakeTid
<1> HIDE DEF a, b, s
<1>5. a * s + s <= b * s /\ a * s \in Nat /\ b * s \in Nat BY <1>1, <1>3, TimesGrows
<1> QED BY <1>1, <1>4, <1>5

\* An earlier epoch is less whatever the number.
LEMMA EpochOrder ==
  ASSUME NEW c \in 0..NTxns, NEW m \in Nat, m < NumIds, NEW e \in Nat,
         NEW d \in Nat, NEW n \in Nat, NEW f \in Nat, e < f
  PROVE  MakeTid(c, m, e) < MakeTid(d, n, f)
<1>1. NumIds \in Nat BY Numbers
<1>2. e * NumIds + NumIds <= f * NumIds /\ e * NumIds \in Nat /\ f * NumIds \in Nat
  BY <1>1, TimesGrows
<1>3. e * NumIds + m < f * NumIds + n BY <1>1, <1>2
<1> QED BY <1>3, TidOrder

\* Within an epoch the number decides.
LEMMA NumberOrder ==
  ASSUME NEW c \in 0..NTxns, NEW m \in Nat, NEW e \in Nat, NEW d \in Nat, NEW n \in Nat, m < n
  PROVE  MakeTid(c, m, e) < MakeTid(d, n, e)
<1>1. e * NumIds \in Nat BY Numbers
<1>2. e * NumIds + m < e * NumIds + n BY <1>1
<1> QED BY <1>2, TidOrder

\* The number of a TID, if the field is wide enough.
LEMMA TidNumber ==
  ASSUME NEW c \in 0..NTxns, NEW m \in Nat, m < NumIds, NEW e \in Nat
  PROVE  NumId(MakeTid(c, m, e)) = m
<1> DEFINE a == e * NumIds + m
           s == NTxns + 1
<1>1. NumIds \in Nat /\ s \in Nat /\ c \in Nat /\ c < s BY Numbers
<1>2. e * NumIds \in Nat BY <1>1
<1>3. a \in Nat BY <1>2
<1>4. MakeTid(c, m, e) = a * s + c BY DEF MakeTid
<1>5. a % NumIds = m BY <1>1, Quotient
<1>6. NumId(MakeTid(c, m, e)) = (MakeTid(c, m, e) \div s) % NumIds BY DEF NumId
<1> HIDE DEF a, s
<1>7. (a * s + c) \div s = a BY <1>1, <1>3, Quotient
<1> QED BY <1>4, <1>5, <1>6, <1>7

-----------------------------------------------------------------------------
(* The TIDs in use.                                                        *)

\* They are below MAX_TID.
LEMMA TidBound ==
  ASSUME NEW e \in 0..MaxTick, NEW n \in Nat, n < NumIds, NEW v, TidUpTo(v, e, n)
  PROVE  v \in Nat /\ v < MAX_TID
<1>1. PICK f \in 0..e, m \in 0..n, c \in 0..NTxns : v = MakeTid(c, m, f) BY DEF TidUpTo
<1>2. f \in Nat /\ m \in Nat /\ c \in Nat /\ m < NumIds /\ MaxTick + 1 \in Nat /\ f < MaxTick + 1
  BY <1>1, Numbers
<1>3. v \in Nat BY <1>1, <1>2, TidType
<1>4. v < MakeTid(0, 0, MaxTick + 1) BY <1>1, <1>2, EpochOrder
<1> QED BY <1>3, <1>4 DEF MAX_TID

\* They stay so as the epoch and the numbers go on.
LEMMA TidLater ==
  ASSUME NEW e \in Nat, NEW n \in Nat, NEW f \in Nat, NEW m \in Nat, e <= f, n <= m,
         NEW v, TidUpTo(v, e, n)
  PROVE  TidUpTo(v, f, m)
<1>1. PICK ep \in 0..e, num \in 0..n, core \in 0..NTxns : v = MakeTid(core, num, ep) BY DEF TidUpTo
<1>2. ep \in 0..f /\ num \in 0..m OBVIOUS
<1> QED BY <1>1, <1>2 DEF TidUpTo

\* A set of numbers that is not empty and has a bound has a greatest element.
LEMMA LeastNat ==
  ASSUME NEW S, S \subseteq Nat, S # {}
  PROVE  Min(S) \in S /\ \A y \in S : Min(S) <= y
<1> DEFINE R == OpToRel(<, Nat)
<1>1. IsWellFoundedOn(R, Nat) BY NatLessThanWellFounded
<1>2. ASSUME NEW x \in Nat, NEW y \in Nat, ~(<<y, x>> \in R) PROVE ~(y < x)
  BY <1>2, Zenon DEF OpToRel
<1> HIDE DEF R
<1>3. PICK x \in S : \A y \in S : ~(<<y, x>> \in R) BY <1>1, WFMin, Zenon
<1>4. ASSUME NEW y \in S PROVE x <= y
  <2>1. x \in Nat /\ y \in Nat OBVIOUS
  <2>2. ~(y < x) BY <2>1, <1>2, <1>3
  <2> QED BY <2>1, <2>2
<1>5. \E z \in S : \A y \in S : z <= y BY <1>4
<1> QED BY <1>5 DEF Min

LEMMA GreatestNat ==
  ASSUME NEW S, S \subseteq Nat, S # {}, NEW b \in Nat, \A x \in S : x <= b
  PROVE  Max(S) \in S /\ \A y \in S : y <= Max(S)
<1> DEFINE D == {b - x : x \in S}
<1>0. ASSUME NEW x \in S PROVE b - x \in Nat
  <2>1. x \in Nat /\ x <= b OBVIOUS
  <2> QED BY <2>1
<1>1. D \subseteq Nat /\ D # {} BY <1>0
<1> HIDE DEF D
<1>2. Min(D) \in D /\ \A y \in D : Min(D) <= y BY <1>1, LeastNat
<1>3. PICK z \in S : Min(D) = b - z BY <1>2 DEF D
<1>4. ASSUME NEW y \in S PROVE z >= y
  <2>1. b - y \in D BY DEF D
  <2>2. b - z <= b - y BY <1>2, <1>3, <2>1
  <2>3. y \in Nat /\ z \in Nat OBVIOUS
  <2> QED BY <2>2, <2>3
<1>5. \E m \in S : \A y \in S : m >= y BY <1>4
<1>6. Max(S) \in S /\ \A y \in S : Max(S) >= y BY <1>5 DEF Max
<1>7. ASSUME NEW y \in S PROVE y <= Max(S)
  <2>1. Max(S) >= y /\ Max(S) \in Nat /\ y \in Nat BY <1>6
  <2> QED BY <2>1
<1> QED BY <1>6, <1>7

\* gen_commit_tid() returns a TID of this epoch that is greater than those it
\* has seen, and takes the next number at most.
LEMMA Generated ==
  ASSUME NEW e \in 1..MaxTick, NEW n \in Nat, n + 1 < NumIds, NEW t \in Txns,
         NEW S, \A v \in S : TidUpTo(v, e, n)
  PROVE  LET base == Max(S \union {MakeTid(0, 0, e)})
             tid == MakeTid(t, NumId(base) + 1, e)
         IN  /\ TidUpTo(tid, e, n + 1)
             /\ tid # MIN_TID
             /\ \A v \in S : v < tid
<1> DEFINE T == S \union {MakeTid(0, 0, e)}
           base == Max(T)
           tid == MakeTid(t, NumId(base) + 1, e)
<1>0. /\ NTxns \in Nat /\ NumIds \in Nat /\ MaxTick \in Nat /\ e \in Nat /\ e \in 0..MaxTick
      /\ t \in 0..NTxns /\ t \in Nat /\ 1 <= t /\ n < NumIds
  BY Numbers DEF Txns
<1>1. ASSUME NEW v \in T PROVE TidUpTo(v, e, n)
  <2>1. TidUpTo(MakeTid(0, 0, e), e, n)
    <3>1. e \in 0..e /\ 0 \in 0..n /\ 0 \in 0..NTxns BY <1>0
    <3> QED BY <3>1 DEF TidUpTo
  <2> QED BY <2>1
<1>2. ASSUME NEW v \in T PROVE v \in Nat /\ v < MAX_TID BY <1>0, <1>1, TidBound
<1>3. MAX_TID \in Nat
  <2>1. MaxTick + 1 \in Nat BY <1>0
  <2> QED BY <2>1, TidType DEF MAX_TID
<1>4. base \in T /\ \A v \in T : v <= base
  <2>1. T \subseteq Nat /\ T # {} BY <1>2
  <2>2. \A v \in T : v <= MAX_TID BY <1>2, <1>3
  <2> HIDE DEF T
  <2> QED BY <2>1, <2>2, <1>3, GreatestNat
<1>5. PICK f \in 0..e, m \in 0..n, c \in 0..NTxns : base = MakeTid(c, m, f)
  BY <1>1, <1>4 DEF TidUpTo
<1>6. f \in Nat /\ m \in Nat /\ c \in Nat /\ m < NumIds /\ m + 1 \in Nat /\ m < m + 1 /\ m + 1 \in 0..(n + 1)
  BY <1>0, <1>5
<1> HIDE DEF base
<1>7. f = e
  <2>1. ASSUME f < e PROVE FALSE
    <3>1. base < MakeTid(0, 0, e) BY <1>0, <1>5, <1>6, <2>1, EpochOrder
    <3>2. MakeTid(0, 0, e) <= base BY <1>4
    <3>3. base \in Nat /\ MakeTid(0, 0, e) \in Nat BY <1>2, <1>4
    <3> QED BY <3>1, <3>2, <3>3
  <2> QED BY <1>0, <1>5, <2>1
<1>8. NumId(base) = m BY <1>5, <1>6, TidNumber
<1>9. tid = MakeTid(t, m + 1, e) BY <1>8
<1>10. base < tid /\ tid \in Nat BY <1>0, <1>5, <1>6, <1>7, <1>9, NumberOrder, TidType
<1> HIDE DEF tid, T
<1>11. TidUpTo(tid, e, n + 1)
  <2>1. e \in 0..e BY <1>0
  <2> QED BY <1>0, <1>6, <1>9, <2>1 DEF TidUpTo
<1>12. base \in Nat BY <1>2, <1>4
<1>13. tid # MIN_TID BY <1>10, <1>12 DEF MIN_TID
<1>14. ASSUME NEW v \in S PROVE v < tid
  <2>1. v \in T BY DEF T
  <2>2. v \in Nat /\ v <= base BY <1>2, <1>4, <2>1
  <2> QED BY <1>10, <1>12, <2>2
<1> QED BY <1>11, <1>13, <1>14 DEF tid, base, T

-----------------------------------------------------------------------------
(* The initial states.                                                     *)

\* SetToSeq() lists every element of a finite set once.
LEMMA Listing ==
  ASSUME NEW S, IsFiniteSet(S)
  PROVE  /\ Cardinality(S) \in Nat
         /\ SetToSeq(S) \in [1..Cardinality(S) -> S]
         /\ \A i, j \in 1..Cardinality(S) : SetToSeq(S)[i] = SetToSeq(S)[j] => i = j
         /\ \A x \in S : \E i \in 1..Cardinality(S) : SetToSeq(S)[i] = x
<1> DEFINE n == Cardinality(S)
           f == SetToSeq(S)
<1>1. n \in Nat /\ ExistsBijection(1..n, S) BY FS_CardinalityType
<1>2. \E g \in [1..n -> S] : IsInjective(g)
  BY <1>1 DEF ExistsBijection, Bijection, Injection
<1>3. f \in [1..n -> S] /\ IsInjective(f) BY <1>2 DEF SetToSeq
<1> HIDE DEF f
<1>4. f \in Injection(1..n, S) BY <1>3 DEF Injection
<1>5. Cardinality(1..n) = n
  <2>1. 1 \in Int /\ n \in Int BY <1>1
  <2>2. Cardinality(1..n) = IF 1 > n THEN 0 ELSE n - 1 + 1 BY <2>1, FS_Interval
  <2> QED BY <1>1, <2>2
<1>6. f \in Surjection(1..n, S) BY <1>4, <1>5, FS_Injection
<1>7. \A i, j \in 1..n : f[i] = f[j] => i = j BY <1>3 DEF IsInjective
<1>8. \A x \in S : \E i \in 1..n : f[i] = x BY <1>6 DEF Surjection
<1> QED BY <1>1, <1>3, <1>7, <1>8 DEF f

LEMMA FiniteKeys ==
  /\ IsFiniteSet(InitKeys) /\ Cardinality(InitKeys) \in 0..MaxTuples
  /\ \A S \in SUBSET Keys : IsFiniteSet(S) /\ Cardinality(S) \in Nat
<1>1. \A S \in SUBSET Keys : IsFiniteSet(S) BY SiloAssumption, FS_Subset
<1>2. InitKeys \in SUBSET Keys BY SiloAssumption
<1>3. \A S \in SUBSET Keys : IsFiniteSet(S) /\ Cardinality(S) \in Nat
  BY <1>1, FS_CardinalityType
<1>4. Cardinality(InitKeys) \in 0..MaxTuples
  <2>1. Cardinality(InitKeys) \in Nat BY <1>2, <1>3
  <2> QED BY <2>1, SiloAssumption
<1> QED BY <1>2, <1>3, <1>4

\* Nobody has drawn a TID.
LEMMA NoTid ==
  ASSUME \A t \in Txns : tx[t].tid = MIN_TID
  PROVE  Numbered = {} /\ Drawn = 1
<1>1. Numbered = {} BY DEF Numbered
<1> QED BY <1>1, FS_EmptySet DEF Drawn

LEMMA InitTypes ==
  ASSUME Init
  PROVE  /\ Types /\ IndexInv
         /\ \A u \in Tuples : tup[u].owner = 0 /\ tup[u].version \in {MIN_TID, MakeTid(0, 1, 1)}
         /\ \E prog \in [Txns -> Seq(Operation)] : tx = [t \in Txns |-> NewTxn(prog[t])]
<1> DEFINE n == Cardinality(InitKeys)
           f == InitSeq
           At0(k) == CHOOSE i \in DOMAIN f : f[i] = k
<1>1. /\ n \in Nat /\ n \in 0..MaxTuples /\ InitKeys \subseteq Keys
      /\ f \in [1..n -> InitKeys] /\ DOMAIN f = 1..n
      /\ \A i, j \in 1..n : f[i] = f[j] => i = j
      /\ \A k \in InitKeys : \E i \in 1..n : f[i] = k
  BY FiniteKeys, Listing, SiloAssumption DEF InitSeq
<1>2. /\ tick = 1 /\ ntup = n
      /\ tree = [k \in Keys |-> IF k \in InitKeys THEN At0(k) ELSE 0]
      /\ leaf = [v |-> 0, size |-> n, mod |-> "insert"]
      /\ tup = [u \in Tuples |->
                  IF u <= n THEN NewTuple(f[u], MakeTid(0, 1, 1), 0, 0)
                            ELSE [NewTuple(0, MIN_TID, Empty, 0) EXCEPT !.latest = FALSE]]
  BY DEF Init
<1> HIDE DEF f, n
<1>3. ASSUME NEW k \in InitKeys PROVE At0(k) \in 1..n /\ f[At0(k)] = k
  BY <1>1
<1> HIDE DEF At0
<1>4. \A k \in Keys : tree[k] = IF k \in InitKeys THEN At0(k) ELSE 0
  BY <1>2
<1>5. tree \in [Keys -> 0..MaxTuples]
  <2>1. \A k \in Keys : (IF k \in InitKeys THEN At0(k) ELSE 0) \in 0..MaxTuples
    BY <1>1, <1>3, Numbers
  <2> QED BY <1>2, <2>1
<1>6. ASSUME NEW u \in Tuples
      PROVE  /\ u <= n => tup[u] = NewTuple(f[u], MakeTid(0, 1, 1), 0, 0) /\ f[u] \in InitKeys
             /\ u > n => tup[u] = [key |-> 0, version |-> MIN_TID, val |-> Empty,
                                   owner |-> 0, latest |-> FALSE]
             /\ u <= n \/ u > n
  <2>1. u \in Nat /\ 1 <= u BY Numbers DEF Tuples
  <2>2. CASE u <= n
    <3>1. u \in 1..n BY <1>1, <2>1, <2>2
    <3>2. f[u] \in InitKeys BY <1>1, <3>1
    <3> QED BY <1>1, <1>2, <2>1, <2>2, <3>2
  <2>3. CASE ~(u <= n)
    <3>1. tup[u] = [NewTuple(0, MIN_TID, Empty, 0) EXCEPT !.latest = FALSE]
      BY <1>2, <2>3
    <3>2. tup[u] = [key |-> 0, version |-> MIN_TID, val |-> Empty, owner |-> 0, latest |-> FALSE]
      BY <3>1 DEF NewTuple
    <3> QED BY <1>1, <2>1, <2>3, <3>2
  <2> QED BY <2>2, <2>3
<1>7. MakeTid(0, 1, 1) \in Nat /\ MIN_TID \in Nat /\ Empty \in Int /\ 0 \in 0..NTxns
  BY TidType, Numbers DEF MIN_TID, Empty
<1>8. ASSUME NEW u \in Tuples
      PROVE  /\ tup[u] \in TupleRec /\ tup[u].owner = 0
             /\ tup[u].version \in {MIN_TID, MakeTid(0, 1, 1)}
  <2>0. 0 \in Keys \union {0} /\ TRUE \in BOOLEAN /\ FALSE \in BOOLEAN /\ 0 \in Int OBVIOUS
  <2>1. CASE u <= n
    <3>1. tup[u] = [key |-> f[u], version |-> MakeTid(0, 1, 1), val |-> 0, owner |-> 0, latest |-> TRUE]
      BY <1>6, <2>1 DEF NewTuple
    <3>2. f[u] \in Keys \union {0} BY <1>1, <1>6, <2>1
    <3>3. tup[u] \in TupleRec BY ONLY <1>7, <2>0, <3>1, <3>2 DEF TupleRec
    <3>4. tup[u].owner = 0 /\ tup[u].version = MakeTid(0, 1, 1) BY ONLY <3>1
    <3> QED BY <3>3, <3>4
  <2>2. CASE u > n
    <3>1. tup[u] = [key |-> 0, version |-> MIN_TID, val |-> Empty, owner |-> 0, latest |-> FALSE]
      BY <1>6, <2>2
    <3>2. tup[u] \in TupleRec BY ONLY <1>7, <2>0, <3>1 DEF TupleRec
    <3>3. tup[u].owner = 0 /\ tup[u].version = MIN_TID BY ONLY <3>1
    <3> QED BY <3>2, <3>3
  <2> QED BY <1>6, <2>1, <2>2
<1>9. tup \in [Tuples -> TupleRec] BY <1>2, <1>8
<1>10. \E prog \in [Txns -> Seq(Operation)] : tx = [t \in Txns |-> NewTxn(prog[t])]
  <2>1. PICK prog \in [Txns -> UNION {Programs[t] : t \in Txns}] :
          /\ \A t \in Txns : prog[t] \in Programs[t]
          /\ tx = [t \in Txns |-> NewTxn(prog[t])]
    BY DEF Init
  <2>2. prog \in [Txns -> Seq(Operation)] BY <2>1, ProgramAssumption
  <2> QED BY <2>1, <2>2
<1>11. tx \in [Txns -> TxRec]
  <2>1. PICK prog \in [Txns -> Seq(Operation)] : tx = [t \in Txns |-> NewTxn(prog[t])] BY <1>10
  <2>2. ASSUME NEW p \in Seq(Operation) PROVE NewTxn(p) \in TxRec
    <3>1. /\ "op" \in Pcs /\ 1 \in Nat \ {0} /\ None \in Int /\ MIN_TID \in Nat
          /\ {} \in SUBSET Keys /\ {} \in SUBSET Tuples
          /\ << >> \in Seq(Found) /\ << >> \in Seq(ReadRec) /\ << >> \in Seq(OwnRec)
          /\ << >> \in Seq(WriteRec)
      BY <1>7 DEF Pcs, Running, None
    <3> QED BY <3>1 DEF NewTxn, TxRec
  <2> QED BY <2>1, <2>2
<1>12. Types
  <2>1. leaf \in [v : Nat, size : Int, mod : {"insert", "remove"}] BY <1>1, <1>2
  <2>2. tick \in 1..MaxTick BY <1>2, Numbers
  <2> QED BY <1>1, <1>2, <1>5, <1>9, <1>11, <2>1, <2>2 DEF Types
<1>13. Linked = InitKeys
  <2>1. ASSUME NEW k \in InitKeys PROVE k \in Linked
    <3>1. At0(k) # 0 BY <1>1, <1>3
    <3> QED BY <1>1, <1>4, <3>1 DEF Linked
  <2>2. ASSUME NEW k \in Linked PROVE k \in InitKeys BY <1>4 DEF Linked
  <2> QED BY <2>1, <2>2
<1>14. leaf.size = Cardinality(Linked) BY <1>2, <1>13 DEF n
<1>15. ASSUME NEW k \in Linked
       PROVE  tree[k] \in 1..ntup /\ tup[tree[k]].key = k /\ tup[tree[k]].latest
  <2>1. tree[k] = At0(k) /\ At0(k) \in 1..n /\ f[At0(k)] = k
    BY <1>1, <1>3, <1>4, <1>13
  <2>2. At0(k) \in Tuples /\ At0(k) <= n BY <1>1, <2>1, Numbers DEF Tuples
  <2>3. tup[At0(k)] = NewTuple(f[At0(k)], MakeTid(0, 1, 1), 0, 0) BY <1>6, <2>2
  <2> QED BY <1>2, <2>1, <2>3 DEF NewTuple
<1>16. ASSUME NEW u \in Tuples, u > ntup PROVE ~tup[u].latest /\ tup[u].owner = 0
  BY <1>2, <1>6, <1>16
<1>17. ASSUME NEW u \in Tuples, u <= ntup
       PROVE  tup[u].key \in Keys /\ (tup[u].latest => tree[tup[u].key] = u)
  <2>1. tup[u].key = f[u] /\ f[u] \in InitKeys BY <1>2, <1>6, <1>17 DEF NewTuple
  <2>2. tree[f[u]] = At0(f[u]) /\ At0(f[u]) \in 1..n /\ f[At0(f[u])] = f[u]
    BY <1>1, <1>3, <1>4, <2>1
  <2>3. u \in 1..n BY <1>1, <1>2, <1>17, Numbers DEF Tuples
  <2> QED BY <1>1, <2>1, <2>2, <2>3
<1>18. IndexInv BY <1>14, <1>15, <1>16, <1>17 DEF IndexInv
<1> QED BY <1>8, <1>10, <1>12, <1>18

LEMMA InitHolds ==
  ASSUME Init
  PROVE  Inv
<1>1. /\ Types /\ IndexInv
      /\ \A u \in Tuples : tup[u].owner = 0 /\ tup[u].version \in {MIN_TID, MakeTid(0, 1, 1)}
  BY InitTypes
<1>2. PICK prog \in [Txns -> Seq(Operation)] : tx = [t \in Txns |-> NewTxn(prog[t])] BY InitTypes
<1>3. ASSUME NEW t \in Txns
      PROVE  /\ tx[t].pc = "op" /\ tx[t].tid = MIN_TID /\ tx[t].locked = {}
             /\ tx[t].wset = << >> /\ tx[t].rset = << >>
  BY <1>2 DEF NewTxn
<1>4. Drawn = 1 BY <1>3, NoTid
<1>5. tick = 1 BY DEF Init
<1>6. IsTid(MIN_TID) /\ IsTid(MakeTid(0, 1, 1))
  <2>1. 0 \in 0..1 /\ 1 \in 0..1 /\ 0 \in 0..NTxns BY Numbers
  <2>2. MIN_TID = MakeTid(0, 0, 0) BY Numbers DEF MIN_TID, MakeTid
  <2> QED BY <1>4, <1>5, <2>1, <2>2 DEF IsTid, TidUpTo
<1>7. TidInv BY <1>1, <1>3, <1>6 DEF TidInv
<1>8. ASSUME NEW t \in Txns PROVE TxInv(t)
  <2>1. EntryInv(t) BY <1>3 DEF EntryInv
  <2>2. LockInv(t)
    <3>1. t # 0 BY Numbers DEF Txns
    <3> QED BY <1>1, <1>3, <3>1 DEF LockInv
  <2>3. SearchInv(t) BY <1>3 DEF SearchInv
  <2>4. Inserted(t) = {} BY <1>3 DEF Inserted
  <2>5. InsertInv(t) BY <2>4 DEF InsertInv
  <2>6. CommitInv(t) BY <1>3 DEF CommitInv
  <2>7. WriteInv(t) BY <1>3 DEF WriteInv
  <2> QED BY <2>1, <2>2, <2>3, <2>5, <2>6, <2>7 DEF TxInv
<1> QED BY <1>1, <1>7, <1>8 DEF Inv

-----------------------------------------------------------------------------
(* What a step of some transactions leaves alone.                          *)

\* The transactions outside T, the tuples they have locked, and the keys of
\* the tuples.
Frame(T) ==
  /\ \A s \in Txns \ T : tx'[s] = tx[s]
  /\ ntup <= ntup'
  /\ \A u \in Tuples : u <= ntup => tup'[u].key = tup[u].key
  /\ \A u \in Tuples : \A s \in Txns \ T :
       tup[u].owner = s \/ tup'[u].owner = s => tup'[u] = tup[u]

\* The fields of a transaction.
LEMMA TxFacts ==
  ASSUME Types, NEW t \in Txns
  PROVE  /\ tx[t] \in TxRec /\ tx[t].pc \in Pcs /\ tx[t].prog \in Seq(Operation)
         /\ tx[t].ip \in Nat \ {0} /\ tx[t].i \in Nat \ {0} /\ tx[t].tid \in Nat
         /\ tx[t].rset \in Seq(ReadRec) /\ tx[t].wset \in Seq(WriteRec) /\ tx[t].todo \in Seq(Found)
         /\ tx[t].own \in Seq(OwnRec)
         /\ tx[t].lockq \subseteq Tuples /\ tx[t].locked \subseteq Tuples
         /\ tx[t].absent \subseteq Keys /\ tx[t].aset \in Int
<1>1. tx[t] \in TxRec BY DEF Types
<1> QED BY <1>1 DEF TxRec

\* The entries of the write set, and the tuples of it.
LEMMA EntryFacts ==
  ASSUME Types, NEW t \in Txns
  PROVE  /\ \A j \in DOMAIN tx[t].wset :
              /\ j \in Nat /\ 1 <= j /\ tx[t].wset[j] \in WriteRec /\ tx[t].wset[j].tup \in Tuples
              /\ tx[t].wset[j].key \in Keys /\ tx[t].wset[j].ins \in BOOLEAN
              /\ tx[t].wset[j].tup \in WriteTuples(t)
              /\ tx[t].wset[j].ins => tx[t].wset[j].tup \in Inserted(t)
         /\ WriteTuples(t) \subseteq Tuples /\ Inserted(t) \subseteq WriteTuples(t)
<1>1. tx[t].wset \in Seq(WriteRec) BY TxFacts
<1>2. ASSUME NEW j \in DOMAIN tx[t].wset
      PROVE  /\ j \in Nat /\ 1 <= j /\ tx[t].wset[j] \in WriteRec /\ tx[t].wset[j].tup \in Tuples
             /\ tx[t].wset[j].key \in Keys /\ tx[t].wset[j].ins \in BOOLEAN
  <2>1. j \in Nat /\ 1 <= j BY <1>1
  <2>2. tx[t].wset[j] \in WriteRec BY <1>1
  <2> QED BY <2>1, <2>2 DEF WriteRec
<1> QED BY <1>2 DEF WriteTuples, Inserted

LEMMA FrameTx ==
  ASSUME Inv, Types', NEW T, Frame(T), NEW s \in Txns \ T
  PROVE  TxInv(s)'
<1>0. Types /\ TxInv(s) /\ s \in Txns BY DEF Inv
<1>1. tx'[s] = tx[s] BY DEF Frame
<1>2. Inserted(s)' = Inserted(s) /\ WriteTuples(s)' = WriteTuples(s) /\ HasOp(s)' = HasOp(s) /\ Op(s)' = Op(s)
  BY <1>1 DEF Inserted, WriteTuples, HasOp, Op
<1>3. ASSUME NEW u \in Tuples, u \in tx[s].locked PROVE tup'[u] = tup[u]
  BY <1>0, <1>3 DEF Frame, TxInv, LockInv
<1>4. EntryInv(s)'
  <2>1. ntup \in Nat /\ ntup' \in Nat /\ ntup <= ntup' /\ Tuples \subseteq Nat
    BY <1>0, Numbers DEF Types, Frame, Tuples
  <2>2. ASSUME NEW j \in DOMAIN tx[s].wset
        PROVE  tx[s].wset[j].tup <= ntup' /\ tup'[tx[s].wset[j].tup].key = tx[s].wset[j].key
    <3>1. tx[s].wset[j].tup \in Tuples BY <1>0, EntryFacts
    <3>2. tx[s].wset[j].tup <= ntup /\ tup[tx[s].wset[j].tup].key = tx[s].wset[j].key
      BY <1>0 DEF TxInv, EntryInv
    <3>3. tx[s].wset[j].tup <= ntup'
      <4>1. ASSUME NEW a \in Nat, a <= ntup PROVE a <= ntup' BY ONLY <2>1, <4>1
      <4> QED BY <2>1, <3>1, <3>2, <4>1, Zenon
    <3> QED BY <3>1, <3>2, <3>3 DEF Frame
  <2> QED BY <1>0, <1>1, <2>2 DEF TxInv, EntryInv
<1>5. LockInv(s)'
  <2>1. ASSUME NEW u \in Tuples PROVE u \in tx[s].locked <=> tup'[u].owner = s
    BY <1>0 DEF Frame, TxInv, LockInv
  <2> QED BY <1>1, <2>1 DEF LockInv
<1>6. SearchInv(s)' BY <1>0, <1>1, <1>2 DEF TxInv, SearchInv
<1>7. Inserted(s) \subseteq Tuples /\ WriteTuples(s) \subseteq Tuples BY <1>0, EntryFacts
<1>8. InsertInv(s)'
  <2>1. ASSUME NEW u \in Inserted(s), u \in tx[s].locked, Tentative(s, u) PROVE Tentative(s, u)'
    BY <1>3, <1>7, <2>1 DEF Tentative
  <2> QED BY <1>0, <1>1, <1>2, <2>1 DEF TxInv, InsertInv
<1>9. CommitInv(s)'
  <2>1. ASSUME NEW u \in WriteTuples(s), Ready(s, u) PROVE Ready(s, u)' /\ tup'[u] = tup[u]
    BY <1>1, <1>3, <1>7, <2>1 DEF Ready
  <2> QED BY <1>0, <1>1, <1>2, <2>1 DEF TxInv, CommitInv
<1>10. WriteInv(s)'
  <2>1. ASSUME tx[s].pc = "write", NEW j \in DOMAIN tx[s].wset
        PROVE  tup'[tx[s].wset[j].tup] = tup[tx[s].wset[j].tup]
    <3>1. tx[s].wset[j].tup \in Tuples BY <1>0, EntryFacts
    <3>2. tx[s].wset[j].tup \in tx[s].locked BY <1>0, <2>1 DEF TxInv, WriteInv
    <3> QED BY <1>3, <3>1, <3>2
  <2> QED BY <1>0, <1>1, <1>2, <2>1 DEF TxInv, WriteInv
<1> QED BY <1>4, <1>5, <1>6, <1>8, <1>9, <1>10 DEF TxInv

\* The numbers of the TIDs fit their field.
LEMMA DrawnFacts ==
  ASSUME tx \in [Txns -> TxRec]
  PROVE  /\ IsFiniteSet(Numbered) /\ Cardinality(Numbered) \in Nat
         /\ Drawn \in Nat /\ Drawn < NumIds
<1>1. IsFiniteSet(Txns) /\ Cardinality(Txns) = NTxns
  <2>1. NTxns \in Nat /\ 1 \in Int /\ NTxns \in Int BY Numbers
  <2>2. /\ IsFiniteSet(1..NTxns)
        /\ Cardinality(1..NTxns) = IF 1 > NTxns THEN 0 ELSE NTxns - 1 + 1
    BY <2>1, FS_Interval
  <2> QED BY <2>1, <2>2 DEF Txns
<1>2. Numbered \in SUBSET Txns BY DEF Numbered
<1>3. IsFiniteSet(Numbered) /\ Cardinality(Numbered) <= NTxns BY <1>1, <1>2, FS_Subset
<1>4. Cardinality(Numbered) \in Nat BY <1>3, FS_CardinalityType
<1> QED BY <1>3, <1>4, Numbers DEF Drawn

LEMMA SameTids ==
  ASSUME \A t \in Txns : tx'[t].tid = tx[t].tid
  PROVE  Numbered' = Numbered /\ Drawn' = Drawn
<1>1. Numbered' = Numbered BY DEF Numbered
<1> QED BY <1>1 DEF Drawn

\* A step after which all TIDs are among those in use before it.
LEMMA TidStep ==
  ASSUME Inv, Types', \A t \in Txns : tx'[t].tid = tx[t].tid, tick <= tick',
         \A u \in Tuples : tup'[u].version = MAX_TID \/ IsTid(tup'[u].version),
         \A t \in Txns : \A i \in DOMAIN tx'[t].rset : IsTid(tx'[t].rset[i].tid),
         \A t \in Txns : tx'[t].pc \in Running \ {"validate"} => tx'[t].tid = MIN_TID
  PROVE  TidInv'
<1>1. Drawn' = Drawn BY SameTids
<1>2. Drawn \in Nat /\ tick \in Nat /\ tick' \in Nat
  BY DrawnFacts, Numbers DEF Inv, Types
<1>3. ASSUME NEW v, IsTid(v) PROVE TidUpTo(v, tick', Drawn')
  <2>1. TidUpTo(v, tick, Drawn) BY <1>3 DEF IsTid
  <2>2. Drawn <= Drawn BY <1>2
  <2>3. TidUpTo(v, tick', Drawn) BY <1>2, <2>1, <2>2, TidLater
  <2> QED BY <1>1, <2>3
<1>4. \A t \in Txns : IsTid(tx[t].tid) BY DEF Inv, TidInv
<1>5. \A t \in Txns : TidUpTo(tx'[t].tid, tick', Drawn') BY <1>3, <1>4
<1>6. \A u \in Tuples : tup'[u].version = MAX_TID \/ TidUpTo(tup'[u].version, tick', Drawn') BY <1>3
<1>7. \A t \in Txns : \A i \in DOMAIN tx'[t].rset : TidUpTo(tx'[t].rset[i].tid, tick', Drawn') BY <1>3
<1> QED BY <1>5, <1>6, <1>7 DEF TidInv, IsTid

\* A step of transaction t alone.
LEMMA OneStep ==
  ASSUME Inv, NEW t \in Txns, Types', IndexInv', TidInv', Frame({t}), TxInv(t)'
  PROVE  Inv'
<1>1. ASSUME NEW s \in Txns PROVE TxInv(s)'
  <2>1. CASE s = t BY <2>1
  <2>2. CASE s # t BY <2>2, FrameTx
  <2> QED BY <2>1, <2>2
<1> QED BY <1>1 DEF Inv

\* A step of transaction t on its own record that changes neither its write
\* set nor its locks.
LEMMA QuietStep ==
  ASSUME Inv, NEW t \in Txns, NEW r \in TxRec, tx' = [tx EXCEPT ![t] = r], UNCHANGED dbVars,
         r.wset = tx[t].wset, r.locked = tx[t].locked, r.tid = tx[t].tid,
         \A i \in DOMAIN r.rset : IsTid(r.rset[i].tid),
         r.pc \in Running => tx[t].pc \in Running,
         r.pc = "abort" => tx[t].pc \in Running \union {"abort"},
         r.pc \in Running \ {"validate"} => tx[t].pc \in Running \ {"validate"},
         SearchInv(t)', CommitInv(t)', WriteInv(t)'
  PROVE  Inv'
<1>0. Types /\ IndexInv /\ TidInv /\ TxInv(t) BY DEF Inv
<1>1. tx' \in [Txns -> TxRec] /\ tx'[t] = r /\ \A s \in Txns \ {t} : tx'[s] = tx[s]
  BY <1>0 DEF Types
<1>2. Types' BY <1>0, <1>1 DEF Types, dbVars
<1>3. IndexInv' BY <1>0 DEF IndexInv, Linked, dbVars
<1>4. Frame({t})
  <2>1. ntup <= ntup BY <1>0, Numbers DEF Types
  <2> QED BY <1>1, <2>1 DEF Frame, dbVars
<1>5. TidInv'
  <2>1. \A s \in Txns : tx'[s].tid = tx[s].tid BY <1>1
  <2>2. tick <= tick' BY <1>0, Numbers DEF Types, dbVars
  <2>3. \A u \in Tuples : tup'[u].version = MAX_TID \/ IsTid(tup'[u].version)
    BY <1>0 DEF TidInv, dbVars
  <2>4. \A s \in Txns : \A i \in DOMAIN tx'[s].rset : IsTid(tx'[s].rset[i].tid)
    BY <1>0, <1>1 DEF TidInv
  <2>5. \A s \in Txns : tx'[s].pc \in Running \ {"validate"} => tx'[s].tid = MIN_TID
    BY <1>0, <1>1, <2>1 DEF TidInv
  <2> QED BY <1>2, <2>1, <2>2, <2>3, <2>4, <2>5, TidStep
<1>6. TxInv(t)'
  <2>1. Inserted(t)' = Inserted(t) /\ WriteTuples(t)' = WriteTuples(t)
    BY <1>1 DEF Inserted, WriteTuples
  <2>2. EntryInv(t)' BY <1>0, <1>1 DEF TxInv, EntryInv, dbVars
  <2>3. LockInv(t)' BY <1>0, <1>1 DEF TxInv, LockInv, dbVars
  <2>4. InsertInv(t)'
    <3>1. \A u : Tentative(t, u)' <=> Tentative(t, u) BY DEF Tentative, dbVars
    <3>2. ASSUME r.pc \in Running PROVE Inserted(t) \subseteq tx[t].locked
      BY <1>0, <3>2 DEF TxInv, InsertInv
    <3>3. ASSUME r.pc \in Running \union {"abort"}, NEW u \in Inserted(t), u \in tx[t].locked
          PROVE  Tentative(t, u)
      BY <1>0, <3>3 DEF TxInv, InsertInv
    <3> QED BY <1>1, <2>1, <3>1, <3>2, <3>3 DEF InsertInv
  <2> QED BY <2>2, <2>3, <2>4 DEF TxInv
<1> QED BY <1>2, <1>3, <1>4, <1>5, <1>6, OneStep

\* The same, if it stays before or leaves the commit.
LEMMA QuietOp ==
  ASSUME Inv, NEW t \in Txns, NEW r \in TxRec, tx' = [tx EXCEPT ![t] = r], UNCHANGED dbVars,
         r.wset = tx[t].wset, r.locked = tx[t].locked, r.tid = tx[t].tid,
         r.prog = tx[t].prog,
         \A i \in DOMAIN r.rset : IsTid(r.rset[i].tid),
         \/ r.pc \in {"op", "read", "find", "insert"} /\ tx[t].pc \in {"op", "read", "find", "insert"}
         \/ r.pc = "abort" /\ tx[t].pc \in Running \union {"abort"}
         \/ r.pc = "aborted",
         r.pc \in {"find", "insert"} =>
           r.ip = tx[t].ip /\ HasOp(t) /\ Op(t).key \in Keys
  PROVE  Inv'
<1>1. tx'[t] = r BY DEF Inv, Types
<1>2. SearchInv(t)' BY <1>1 DEF SearchInv, HasOp, Op
<1>3. CommitInv(t)' /\ WriteInv(t)' BY <1>1 DEF CommitInv, WriteInv
<1>4. r.pc \in Running => tx[t].pc \in Running BY DEF Running
<1>5. r.pc = "abort" => tx[t].pc \in Running \union {"abort"} OBVIOUS
<1>6. r.pc \in Running \ {"validate"} => tx[t].pc \in Running \ {"validate"} BY DEF Running
<1> QED BY <1>2, <1>3, <1>4, <1>5, <1>6, QuietStep

-----------------------------------------------------------------------------
(* The operations of a transaction.                                        *)

LEMMA OpFacts ==
  ASSUME Types, NEW t \in Txns, NEW ops, IsOp(t, ops), "scan" \notin ops
  PROVE  HasOp(t) /\ Op(t).key \in Keys /\ tx[t].pc = "op"
<1>1. HasOp(t) /\ Op(t).op \in ops /\ tx[t].pc = "op" BY DEF IsOp, At
<1>2. tx[t].prog \in Seq(Operation) /\ tx[t].ip \in Nat \ {0} BY TxFacts
<1>3. tx[t].ip \in 1..Len(tx[t].prog) BY <1>1, <1>2 DEF HasOp
<1>4. Op(t) \in Operation BY <1>2, <1>3 DEF Op
<1>5. Op(t).op # "scan" BY <1>1
<1> QED BY <1>1, <1>4, <1>5 DEF Operation

\* The TIDs a transaction has read.
LEMMA ReadTids ==
  ASSUME Inv, NEW t \in Txns
  PROVE  \A i \in DOMAIN tx[t].rset : IsTid(tx[t].rset[i].tid)
BY DEF Inv, TidInv

\* The version of the leaf.
LEMMA LeafVersion ==
  ASSUME Types
  PROVE  full_version_value(leaf) \in Int
<1>1. leaf.v \in Nat /\ leaf.size \in Int BY DEF Types
<1> QED BY <1>1 DEF full_version_value

\* What the next operation, or another step of the same one, finds.
LEMMA NextOpRec ==
  ASSUME NEW q \in TxRec
  PROVE  /\ NextOp(q) \in TxRec
         /\ NextOp(q).pc = "op" /\ NextOp(q).wset = q.wset /\ NextOp(q).locked = q.locked
         /\ NextOp(q).tid = q.tid /\ NextOp(q).prog = q.prog /\ NextOp(q).rset = q.rset
<1>1. q.ip \in Nat \ {0} BY DEF TxRec
<1> DEFINE ip == q.ip + 1
<1>2. ip \in Nat \ {0} BY <1>1
<1>3. NextOp(q) = [q EXCEPT !.pc = "op", !.ip = ip] BY DEF NextOp
<1> HIDE DEF ip
<1>4. "op" \in Pcs BY DEF Pcs, Running
<1>5. NextOp(q) \in TxRec BY <1>2, <1>3, <1>4 DEF TxRec
<1> QED BY <1>3, <1>5 DEF TxRec

LEMMA MoveRec ==
  ASSUME NEW q \in TxRec, NEW pc \in Pcs
  PROVE  /\ [q EXCEPT !.pc = pc] \in TxRec
         /\ [q EXCEPT !.pc = pc].pc = pc /\ [q EXCEPT !.pc = pc].wset = q.wset
         /\ [q EXCEPT !.pc = pc].locked = q.locked /\ [q EXCEPT !.pc = pc].tid = q.tid
         /\ [q EXCEPT !.pc = pc].prog = q.prog /\ [q EXCEPT !.pc = pc].rset = q.rset
         /\ [q EXCEPT !.pc = pc].ip = q.ip /\ [q EXCEPT !.pc = pc].i = q.i
         /\ [q EXCEPT !.pc = pc].lockq = q.lockq
BY DEF TxRec

LEMMA SearchStep ==
  ASSUME Inv, NEW t \in Txns, do_search(t)
  PROVE  Inv'
<1> DEFINE k == Op(t).key
           v == full_version_value(leaf)
           q == tx[t]
           d == <<[key |-> k, tup |-> tree[k]]>>
           r == IF tree[k] # 0 THEN [q EXCEPT !.pc = "read", !.todo = d]
                ELSE IF SameNode(t, v) THEN NextOp([q EXCEPT !.aset = v, !.absent = @ \union {k}])
                ELSE [q EXCEPT !.pc = "abort"]
<1>1. tx' = [tx EXCEPT ![t] = r] /\ UNCHANGED dbVars BY Zenon DEF do_search, Becomes
<1>2. IsOp(t, {"get"}) BY DEF do_search
<1>3. Types BY DEF Inv
<1>4. HasOp(t) /\ k \in Keys /\ q.pc = "op" BY <1>2, <1>3, OpFacts
<1>5. v \in Int /\ q \in TxRec /\ tree[k] \in 0..MaxTuples BY <1>3, <1>4, LeafVersion, TxFacts DEF Types
<1>6. CASE tree[k] # 0
  <2>1. tree[k] \in Tuples BY <1>5, <1>6, Numbers DEF Tuples
  <2>2. [key |-> k, tup |-> tree[k]] \in Found BY <1>4, <2>1 DEF Found
  <2>3. d \in Seq(Found) BY <2>2
  <2> HIDE DEF d
  <2>4. r = [q EXCEPT !.pc = "read", !.todo = d] BY <1>6
  <2> HIDE DEF r
  <2>4a. "read" \in Pcs BY DEF Pcs, Running
  <2>5. r \in TxRec BY <1>5, <2>3, <2>4, <2>4a DEF TxRec
  <2>6. /\ r.pc = "read" /\ r.wset = q.wset /\ r.locked = q.locked /\ r.tid = q.tid
        /\ r.prog = q.prog /\ r.rset = q.rset
    BY <1>5, <2>4 DEF TxRec
  <2> QED BY <1>1, <1>4, <2>5, <2>6, ReadTids, QuietOp
<1>7. CASE tree[k] = 0 /\ SameNode(t, v)
  <2> DEFINE q1 == [q EXCEPT !.aset = v, !.absent = @ \union {k}]
  <2>1. r = NextOp(q1) BY <1>7
  <2>2. q1 \in TxRec BY <1>4, <1>5 DEF TxRec
  <2>3. /\ q1.wset = q.wset /\ q1.locked = q.locked /\ q1.tid = q.tid /\ q1.pc = q.pc
        /\ q1.prog = q.prog /\ q1.rset = q.rset
    BY <1>5 DEF TxRec
  <2> HIDE DEF q1
  <2> HIDE DEF r
  <2>4. /\ r \in TxRec /\ r.pc = "op" /\ r.wset = q1.wset /\ r.locked = q1.locked
        /\ r.tid = q1.tid /\ r.prog = q1.prog /\ r.rset = q1.rset
    BY <2>1, <2>2, NextOpRec
  <2> QED BY <1>1, <1>4, <2>3, <2>4, ReadTids, QuietOp
<1>8. CASE tree[k] = 0 /\ ~SameNode(t, v)
  <2>1. r = [q EXCEPT !.pc = "abort"] BY <1>8
  <2>2. "abort" \in Pcs /\ q.pc \in Running BY <1>4 DEF Pcs, Running
  <2> HIDE DEF r
  <2>3. /\ r \in TxRec /\ r.pc = "abort" /\ r.wset = q.wset /\ r.locked = q.locked /\ r.tid = q.tid
        /\ r.prog = q.prog /\ r.rset = q.rset
    BY <1>5, <2>1, <2>2, MoveRec
  <2> QED BY <1>1, <2>2, <2>3, ReadTids, QuietOp
<1> QED BY <1>6, <1>7, <1>8

LEMMA ScanStep ==
  ASSUME Inv, NEW t \in Txns, do_search_range(t)
  PROVE  Inv'
<1> DEFINE v == full_version_value(leaf)
           here == SetToSeq({k \in Keys : tree[k] # 0})
           q == tx[t]
           a == q.absent \union {k \in Keys : tree[k] = 0}
           d == [i \in DOMAIN here |-> [key |-> here[i], tup |-> tree[here[i]]]]
           r == IF SameNode(t, v)
                THEN [q EXCEPT !.pc = "read", !.aset = v, !.absent = a, !.todo = d]
                ELSE [q EXCEPT !.pc = "abort"]
<1>1. tx' = [tx EXCEPT ![t] = r] /\ UNCHANGED dbVars BY Zenon DEF do_search_range, Becomes
<1>2. q.pc = "op" BY DEF do_search_range, IsOp, At
<1>3. Types BY DEF Inv
<1>4. v \in Int /\ q \in TxRec /\ a \subseteq Keys BY <1>3, LeafVersion, TxFacts
<1>5. CASE SameNode(t, v)
  <2>1. d \in Seq(Found)
    <3> DEFINE L == {k \in Keys : tree[k] # 0}
               n == Cardinality(L)
    <3>1. L \in SUBSET Keys OBVIOUS
    <3>2. IsFiniteSet(L) BY <3>1, FiniteKeys
    <3>3. here \in [1..n -> L] /\ n \in Nat BY <3>2, Listing, Zenon
    <3> HIDE DEF here, n
    <3>4. ASSUME NEW i \in 1..n PROVE [key |-> here[i], tup |-> tree[here[i]]] \in Found
      <4>1. here[i] \in Keys /\ tree[here[i]] # 0 BY <3>3
      <4>2. tree[here[i]] \in 0..MaxTuples BY <1>3, <4>1 DEF Types
      <4>3. tree[here[i]] \in Tuples BY <4>1, <4>2, Numbers DEF Tuples
      <4> QED BY <4>1, <4>3 DEF Found
    <3>5. d \in [1..n -> Found] BY <3>3, <3>4
    <3> QED BY <3>3, <3>5
  <2> HIDE DEF d, a
  <2>2. r = [q EXCEPT !.pc = "read", !.aset = v, !.absent = a, !.todo = d] BY <1>5
  <2>3. "read" \in Pcs BY DEF Pcs, Running
  <2> HIDE DEF r, v
  <2>4. r \in TxRec BY <1>4, <2>1, <2>2, <2>3 DEF TxRec
  <2>5. /\ r.pc = "read" /\ r.wset = q.wset /\ r.locked = q.locked /\ r.tid = q.tid
        /\ r.prog = q.prog /\ r.rset = q.rset
    BY <1>4, <2>2 DEF TxRec
  <2> QED BY <1>1, <1>2, <2>4, <2>5, ReadTids, QuietOp
<1>6. CASE ~SameNode(t, v)
  <2>1. r = [q EXCEPT !.pc = "abort"] BY <1>6
  <2>2. "abort" \in Pcs /\ q.pc \in Running BY <1>2 DEF Pcs, Running
  <2> HIDE DEF r
  <2>3. /\ r \in TxRec /\ r.pc = "abort" /\ r.wset = q.wset /\ r.locked = q.locked /\ r.tid = q.tid
        /\ r.prog = q.prog /\ r.rset = q.rset
    BY <1>4, <2>1, <2>2, MoveRec
  <2> QED BY <1>1, <2>2, <2>3, ReadTids, QuietOp
<1> QED BY <1>5, <1>6

\* The versions of the tuples that are not tentative are TIDs.
LEMMA VersionIsTid ==
  ASSUME Inv, NEW u \in Tuples, tup[u].version # MAX_TID
  PROVE  IsTid(tup[u].version)
BY DEF Inv, TidInv

LEMMA MinIsTid ==
  ASSUME Inv
  PROVE  IsTid(MIN_TID)
<1>1. Drawn \in Nat BY DrawnFacts DEF Inv, Types
<1>2. 0 \in 0..tick /\ 0 \in 0..Drawn /\ 0 \in 0..NTxns BY <1>1, Numbers DEF Inv, Types
<1>3. MIN_TID = MakeTid(0, 0, 0) BY Numbers DEF MIN_TID, MakeTid
<1> QED BY <1>2, <1>3 DEF IsTid, TidUpTo

LEMMA ReadStep ==
  ASSUME Inv, NEW t \in Txns, do_tuple_read(t)
  PROVE  Inv'
<1> DEFINE q == tx[t]
           d == Head(q.todo)
           u == tup[d.tup]
           w == find_write_set(t, d.tup)
           rest == [q EXCEPT !.todo = Tail(@)]
           o == [ip |-> q.ip, key |-> d.key, val |-> q.wset[w].val]
           e0 == [tup |-> d.tup, tid |-> MIN_TID, key |-> d.key, val |-> Empty]
           e1 == [tup |-> d.tup, tid |-> u.version, key |-> d.key, val |-> u.val]
<1>1. UNCHANGED dbVars /\ q.pc = "read" /\ q.todo # << >> BY DEF do_tuple_read, At
<1>2. Types BY DEF Inv
<1>3. /\ q \in TxRec /\ q.todo \in Seq(Found) /\ q.own \in Seq(OwnRec) /\ q.rset \in Seq(ReadRec)
      /\ q.wset \in Seq(WriteRec) /\ q.ip \in Nat
  BY <1>2, TxFacts
<1>4. d \in Found /\ Tail(q.todo) \in Seq(Found) BY <1>1, <1>3
<1>5. d.tup \in Tuples /\ d.key \in Keys BY <1>4 DEF Found
<1>6. rest \in TxRec
  <2> DEFINE td == Tail(q.todo)
  <2>1. rest = [q EXCEPT !.todo = td] OBVIOUS
  <2> HIDE DEF td
  <2>2. td \in Seq(Found) BY <1>4 DEF td
  <2> QED BY <1>3, <2>1, <2>2 DEF TxRec
<1>7. /\ rest.wset = q.wset /\ rest.locked = q.locked /\ rest.tid = q.tid /\ rest.pc = "read"
      /\ rest.prog = q.prog /\ rest.rset = q.rset /\ rest.own = q.own
  BY <1>1, <1>3 DEF TxRec
<1>8. u \in TupleRec BY <1>2, <1>5 DEF Types
<1>9. \/ w # 0 /\ tx' = [tx EXCEPT ![t] = [rest EXCEPT !.own = Append(@, o)]]
      \/ w = 0 /\ u.version = MAX_TID /\ tx' = [tx EXCEPT ![t] = [rest EXCEPT !.rset = Append(@, e0)]]
      \/ w = 0 /\ u.version # MAX_TID /\ tx' = [tx EXCEPT ![t] = [rest EXCEPT !.rset = Append(@, e1)]]
  BY DEF do_tuple_read, Becomes
<1> HIDE DEF rest
<1>10. CASE w # 0 /\ tx' = [tx EXCEPT ![t] = [rest EXCEPT !.own = Append(@, o)]]
  <2>1. w \in DOMAIN q.wset
    <3> DEFINE hits == {i \in DOMAIN q.wset : q.wset[i].tup = d.tup}
    <3>1. w = IF hits = {} THEN 0 ELSE Min(hits) BY DEF find_write_set
    <3>2. hits \subseteq Nat /\ hits \subseteq DOMAIN q.wset BY <1>3
    <3> HIDE DEF hits
    <3>3. hits # {} /\ w = Min(hits) BY <1>10, <3>1
    <3>4. Min(hits) \in hits BY <3>2, <3>3, LeastNat
    <3> QED BY <3>2, <3>3, <3>4
  <2>2. q.wset[w].val \in Int
    <3>1. q.wset[w] \in WriteRec BY <1>3, <2>1
    <3> QED BY <3>1 DEF WriteRec
  <2>3. o \in OwnRec BY <1>3, <1>5, <2>2 DEF OwnRec
  <2> HIDE DEF o, w
  <2> DEFINE own == Append(rest.own, o)
             r == [rest EXCEPT !.own = own]
  <2>4. own \in Seq(OwnRec) BY <1>3, <1>7, <2>3
  <2>5. tx' = [tx EXCEPT ![t] = r] BY <1>10
  <2> HIDE DEF own
  <2>6. r \in TxRec BY <1>6, <2>4 DEF TxRec
  <2>7. /\ r.wset = q.wset /\ r.locked = q.locked /\ r.tid = q.tid /\ r.pc = "read"
        /\ r.prog = q.prog /\ r.rset = q.rset
    BY <1>6, <1>7 DEF TxRec
  <2> HIDE DEF r
  <2> QED BY <1>1, <2>5, <2>6, <2>7, ReadTids, QuietOp
<1>11. ASSUME NEW e \in ReadRec, IsTid(e.tid), tx' = [tx EXCEPT ![t] = [rest EXCEPT !.rset = Append(@, e)]]
       PROVE  Inv'
  <2> DEFINE rset == Append(rest.rset, e)
             r == [rest EXCEPT !.rset = rset]
  <2>1. rset \in Seq(ReadRec) BY <1>3, <1>7
  <2>2. ASSUME NEW i \in DOMAIN rset PROVE IsTid(rset[i].tid)
    <3>1. DOMAIN rset = 1..(Len(q.rset) + 1) /\ Len(q.rset) \in Nat BY <1>3, <1>7
    <3>2. CASE i = Len(q.rset) + 1
      <4>1. rset[i] = e BY <1>3, <1>7, <3>2
      <4> QED BY <1>11, <4>1
    <3>3. CASE i # Len(q.rset) + 1
      <4>1. i \in DOMAIN q.rset /\ rset[i] = q.rset[i] BY <1>3, <1>7, <3>1, <3>3
      <4> QED BY <4>1, ReadTids
    <3> QED BY <3>2, <3>3
  <2>3. tx' = [tx EXCEPT ![t] = r] BY <1>11
  <2> HIDE DEF rset
  <2>4. r \in TxRec BY <1>6, <2>1 DEF TxRec
  <2>5. /\ r.wset = q.wset /\ r.locked = q.locked /\ r.tid = q.tid /\ r.pc = "read"
        /\ r.prog = q.prog /\ r.rset = rset
    BY <1>6, <1>7 DEF TxRec
  <2> HIDE DEF r
  <2> QED BY <1>1, <2>2, <2>3, <2>4, <2>5, QuietOp
<1>12. CASE u.version = MAX_TID /\ tx' = [tx EXCEPT ![t] = [rest EXCEPT !.rset = Append(@, e0)]]
  <2>1. e0 \in ReadRec BY <1>5 DEF ReadRec, MIN_TID, Empty
  <2>2. IsTid(e0.tid) BY MinIsTid
  <2> QED BY <1>11, <1>12, <2>1, <2>2
<1>13. CASE u.version # MAX_TID /\ tx' = [tx EXCEPT ![t] = [rest EXCEPT !.rset = Append(@, e1)]]
  <2>1. u.version \in Nat /\ u.val \in Int BY <1>8 DEF TupleRec
  <2>2. e1 \in ReadRec BY <1>5, <2>1 DEF ReadRec
  <2>3. IsTid(e1.tid) BY <1>5, <1>13, VersionIsTid
  <2> QED BY <1>11, <1>13, <2>2, <2>3
<1> QED BY <1>9, <1>10, <1>12, <1>13

LEMMA ReadDoneStep ==
  ASSUME Inv, NEW t \in Txns, ReadDone(t)
  PROVE  Inv'
<1>1. tx' = [tx EXCEPT ![t] = NextOp(tx[t])] /\ UNCHANGED dbVars /\ tx[t].pc = "read"
  BY DEF ReadDone, Becomes, At
<1>2. tx[t] \in TxRec BY TxFacts DEF Inv
<1> DEFINE r == NextOp(tx[t])
<1>3. /\ r \in TxRec /\ r.pc = "op" /\ r.wset = tx[t].wset /\ r.locked = tx[t].locked
      /\ r.tid = tx[t].tid /\ r.prog = tx[t].prog /\ r.rset = tx[t].rset
  BY <1>2, NextOpRec
<1> HIDE DEF r
<1>4. tx' = [tx EXCEPT ![t] = r] BY <1>1 DEF r
<1> QED BY <1>1, <1>3, <1>4, ReadTids, QuietOp

LEMMA AbortEndStep ==
  ASSUME Inv, NEW t \in Txns, AbortEnd(t)
  PROVE  Inv'
<1> DEFINE r == [tx[t] EXCEPT !.pc = "aborted"]
<1>1. tx' = [tx EXCEPT ![t] = r] /\ UNCHANGED dbVars BY DEF AbortEnd, Becomes
<1>2. tx[t] \in TxRec /\ "aborted" \in Pcs BY TxFacts DEF Inv, Pcs
<1>3. /\ r \in TxRec /\ r.pc = "aborted" /\ r.wset = tx[t].wset /\ r.locked = tx[t].locked
      /\ r.tid = tx[t].tid /\ r.prog = tx[t].prog /\ r.rset = tx[t].rset
  BY <1>2, MoveRec
<1> HIDE DEF r
<1> QED BY <1>1, <1>3, ReadTids, QuietOp

\* A put or a remove that searches, or an insert.
LEMMA PutFacts ==
  ASSUME Inv, NEW t \in Txns, NEW ops, "scan" \notin ops,
         NEW pc \in {"find", "insert"}, IsOp(t, ops) \/ At(t, pc)
  PROVE  /\ HasOp(t) /\ Op(t).key \in Keys /\ tx[t].pc \in {"op", "find", "insert"}
<1>1. CASE IsOp(t, ops) BY <1>1, OpFacts DEF Inv
<1>2. CASE At(t, pc) BY <1>2 DEF Inv, TxInv, SearchInv, At
<1> QED BY <1>1, <1>2

LEMMA InsertFailedStep ==
  ASSUME Inv, NEW t \in Txns, InsertFailed(t)
  PROVE  Inv'
<1> DEFINE r == [tx[t] EXCEPT !.pc = "find"]
<1>1. tx' = [tx EXCEPT ![t] = r] /\ UNCHANGED dbVars BY DEF InsertFailed, Becomes
<1>2. tx[t] \in TxRec /\ "find" \in Pcs BY TxFacts DEF Inv, Pcs, Running
<1>3. /\ r \in TxRec /\ r.pc = "find" /\ r.wset = tx[t].wset /\ r.locked = tx[t].locked
      /\ r.tid = tx[t].tid /\ r.prog = tx[t].prog /\ r.rset = tx[t].rset /\ r.ip = tx[t].ip
  BY <1>2, MoveRec
<1>4. IsOp(t, {"insert"}) \/ At(t, "insert") BY DEF InsertFailed
<1>5. HasOp(t) /\ Op(t).key \in Keys /\ tx[t].pc \in {"op", "find", "insert"}
  BY <1>4, PutFacts
<1> HIDE DEF r
<1> QED BY <1>1, <1>3, <1>5, ReadTids, QuietOp

-----------------------------------------------------------------------------
(* The index.                                                              *)

LEMMA TupleFacts ==
  ASSUME Types, NEW u \in Tuples
  PROVE  /\ u \in Nat /\ 1 <= u /\ u <= MaxTuples /\ ntup \in Nat /\ (u <= ntup \/ u > ntup)
         /\ tup[u] \in TupleRec /\ tup[u].version \in Nat /\ tup[u].owner \in Nat
         /\ tup[u].latest \in BOOLEAN /\ tup[u].key \in Keys \union {0} /\ tup[u].val \in Int
<1>1. u \in Nat /\ 1 <= u /\ u <= MaxTuples BY Numbers DEF Tuples
<1>2. ntup \in Nat BY Numbers DEF Types
<1>3. tup[u] \in TupleRec BY DEF Types
<1>4. u <= ntup \/ u > ntup BY <1>1, <1>2
<1> QED BY <1>1, <1>2, <1>3, <1>4, Numbers DEF TupleRec

\* Nothing that the index depends on changes.
LEMMA IndexSame ==
  ASSUME Types, IndexInv, UNCHANGED <<tree, ntup, leaf>>,
         \A u \in Tuples : /\ tup'[u].latest = tup[u].latest /\ tup'[u].key = tup[u].key
                           /\ u > ntup => tup'[u].owner = 0
  PROVE  IndexInv'
<1>1. Linked' = Linked BY DEF Linked
<1>2. ASSUME NEW k \in Linked PROVE tree[k] \in Tuples
  <2>1. tree[k] \in 1..ntup BY DEF IndexInv
  <2> QED BY <2>1, Numbers DEF Types, Tuples
<1>3. \A k \in Linked : tree[k] \in 1..ntup /\ tup'[tree[k]].key = k /\ tup'[tree[k]].latest
  BY <1>2 DEF IndexInv
<1>4. \A u \in Tuples : u > ntup => ~tup'[u].latest /\ tup'[u].owner = 0 BY DEF IndexInv
<1>5. \A u \in Tuples : u <= ntup => tup'[u].key \in Keys /\ (tup'[u].latest => tree[tup'[u].key] = u)
  BY DEF IndexInv
<1>6. leaf.size = Cardinality(Linked) BY DEF IndexInv
<1> QED BY <1>1, <1>3, <1>4, <1>5, <1>6 DEF IndexInv

\* A new tuple for a key that the index does not have.
LEMMA IndexInsert ==
  ASSUME Types, IndexInv, NEW k \in Keys, tree[k] = 0, ntup < MaxTuples, ntup' = ntup + 1,
         tree' = [tree EXCEPT ![k] = ntup + 1], NEW n, n.key = k, n.latest = TRUE,
         tup' = [tup EXCEPT ![ntup + 1] = n], leaf'.size = leaf.size + 1
  PROVE  IndexInv'
<1>1. ntup \in Nat /\ ntup + 1 \in Tuples /\ ntup + 1 # 0 BY Numbers DEF Types, Tuples
<1>2. /\ tup'[ntup + 1] = n /\ \A u \in Tuples : u # ntup + 1 => tup'[u] = tup[u]
      /\ tree'[k] = ntup + 1 /\ \A l \in Keys : l # k => tree'[l] = tree[l]
  BY <1>1 DEF Types
<1>3. Linked' = Linked \union {k} /\ k \notin Linked BY <1>1, <1>2 DEF Linked
<1>4. leaf'.size = Cardinality(Linked')
  <2>1. Linked \in SUBSET Keys BY DEF Linked
  <2>2. IsFiniteSet(Linked) BY <2>1, FiniteKeys
  <2>3. Cardinality(Linked \union {k}) = Cardinality(Linked) + 1 BY <1>3, <2>2, FS_AddElement
  <2> QED BY <1>3, <2>3 DEF IndexInv
<1>5. ASSUME NEW l \in Linked'
      PROVE  tree'[l] \in 1..ntup' /\ tup'[tree'[l]].key = l /\ tup'[tree'[l]].latest
  <2>1. CASE l = k BY <1>1, <1>2, <2>1
  <2>2. CASE l # k
    <3>1. l \in Linked /\ l \in Keys BY <1>3, <2>2 DEF Linked
    <3>2. tree[l] \in 1..ntup /\ tup[tree[l]].key = l /\ tup[tree[l]].latest BY <3>1 DEF IndexInv
    <3>3. tree[l] \in Tuples /\ tree[l] # ntup + 1 /\ tree[l] \in 1..(ntup + 1)
      BY <1>1, <3>2, Numbers DEF Types, Tuples
    <3> QED BY <1>2, <2>2, <3>1, <3>2, <3>3
  <2> QED BY <2>1, <2>2
<1>6. ASSUME NEW u \in Tuples, u > ntup' PROVE ~tup'[u].latest /\ tup'[u].owner = 0
  <2>1. u \in Nat BY TupleFacts
  <2>2. u > ntup /\ u # ntup + 1 BY <1>1, <1>6, <2>1
  <2> QED BY <1>2, <2>2 DEF IndexInv
<1>7. ASSUME NEW u \in Tuples, u <= ntup'
      PROVE  tup'[u].key \in Keys /\ (tup'[u].latest => tree'[tup'[u].key] = u)
  <2>1. CASE u = ntup + 1 BY <1>2, <2>1
  <2>2. CASE u # ntup + 1
    <3>1. u \in Nat BY TupleFacts
    <3>2. u <= ntup BY <1>1, <1>7, <2>2, <3>1
    <3>3. tup[u].key \in Keys /\ (tup[u].latest => tree[tup[u].key] = u) BY <3>2 DEF IndexInv
    <3>4. tup'[u] = tup[u] BY <1>2, <2>2
    <3>5. ASSUME tup[u].latest PROVE tup[u].key # k
      <4>1. u # 0 BY TupleFacts
      <4> QED BY <3>3, <3>5, <4>1
    <3> QED BY <1>2, <3>3, <3>4, <3>5
  <2> QED BY <2>1, <2>2
<1> QED BY <1>4, <1>5, <1>6, <1>7 DEF IndexInv

\* The tuple of a key leaves the index.
LEMMA IndexRemove ==
  ASSUME Types, IndexInv, NEW u \in Tuples, tup[u].latest, UNCHANGED ntup,
         tree' = [tree EXCEPT ![tup[u].key] = 0], leaf'.size = leaf.size - 1,
         tup'[u].key = tup[u].key, tup'[u].latest = FALSE,
         \A v \in Tuples : v # u => tup'[v] = tup[v]
  PROVE  IndexInv'
<1> DEFINE k == tup[u].key
<1>1. /\ u <= ntup /\ k \in Keys /\ tree[k] = u /\ u \in Nat /\ u # 0 /\ ntup \in Nat
  <2>1. u \in Nat /\ 1 <= u /\ ntup \in Nat BY TupleFacts
  <2>2. u <= ntup BY <2>1 DEF IndexInv
  <2> QED BY <2>1, <2>2 DEF IndexInv
<1> HIDE DEF k
<1>2. tree'[k] = 0 /\ \A l \in Keys : l # k => tree'[l] = tree[l] BY <1>1 DEF Types, k
<1>3. Linked' = Linked \ {k} /\ k \in Linked BY <1>1, <1>2 DEF Linked
<1>4. leaf'.size = Cardinality(Linked')
  <2>1. Linked \in SUBSET Keys BY DEF Linked
  <2>2. IsFiniteSet(Linked) BY <2>1, FiniteKeys
  <2>3. Cardinality(Linked \ {k}) = Cardinality(Linked) - 1 BY <1>3, <2>2, FS_RemoveElement
  <2> QED BY <1>3, <2>3 DEF IndexInv
<1>5. ASSUME NEW l \in Linked'
      PROVE  tree'[l] \in 1..ntup' /\ tup'[tree'[l]].key = l /\ tup'[tree'[l]].latest
  <2>1. l \in Linked /\ l # k /\ l \in Keys BY <1>3 DEF Linked
  <2>2. tree[l] \in 1..ntup /\ tup[tree[l]].key = l /\ tup[tree[l]].latest BY <2>1 DEF IndexInv
  <2>3. tree[l] \in Tuples BY <2>2, Numbers DEF Types, Tuples
  <2>4. tree[l] # u BY <2>1, <2>2 DEF k
  <2> QED BY <1>2, <2>1, <2>2, <2>3, <2>4
<1>6. ASSUME NEW v \in Tuples, v > ntup PROVE ~tup'[v].latest /\ tup'[v].owner = 0
  <2>1. v # u
    <3>1. v \in Nat BY TupleFacts
    <3> QED BY <1>1, <1>6, <3>1
  <2> QED BY <1>6, <2>1 DEF IndexInv
<1>7. ASSUME NEW v \in Tuples, v <= ntup
      PROVE  tup'[v].key \in Keys /\ (tup'[v].latest => tree'[tup'[v].key] = v)
  <2>1. CASE v = u BY <1>1, <2>1 DEF k
  <2>2. CASE v # u
    <3>1. tup[v].key \in Keys /\ (tup[v].latest => tree[tup[v].key] = v) BY <1>7 DEF IndexInv
    <3>2. ASSUME tup[v].latest PROVE tup[v].key # k BY <1>1, <2>2, <3>1, <3>2
    <3> QED BY <1>2, <2>2, <3>1, <3>2
  <2> QED BY <2>1, <2>2
<1> QED BY <1>4, <1>5, <1>6, <1>7 DEF IndexInv

\* A new tuple takes the place of the latest one of its key.
LEMMA IndexReplace ==
  ASSUME Types, IndexInv, NEW u \in Tuples, tup[u].latest, ntup < MaxTuples, ntup' = ntup + 1,
         tree' = [tree EXCEPT ![tup[u].key] = ntup + 1], UNCHANGED leaf,
         NEW n, n.key = tup[u].key, n.latest = TRUE, tup'[ntup + 1] = n,
         tup'[u].key = tup[u].key, tup'[u].latest = FALSE,
         \A v \in Tuples : v # u /\ v # ntup + 1 => tup'[v] = tup[v]
  PROVE  IndexInv'
<1> DEFINE k == tup[u].key
<1>1. /\ u <= ntup /\ k \in Keys /\ tree[k] = u /\ u \in Nat /\ u # 0 /\ ntup \in Nat
      /\ ntup + 1 \in Tuples /\ ntup + 1 # 0 /\ u # ntup + 1
  <2>1. u \in Nat /\ 1 <= u /\ ntup \in Nat BY TupleFacts
  <2>2. u <= ntup BY <2>1 DEF IndexInv
  <2>3. ntup + 1 \in Tuples BY <2>1, Numbers DEF Tuples
  <2> QED BY <2>1, <2>2, <2>3 DEF IndexInv
<1> HIDE DEF k
<1>2. tree'[k] = ntup + 1 /\ \A l \in Keys : l # k => tree'[l] = tree[l] BY <1>1 DEF Types, k
<1>3. Linked' = Linked /\ k \in Linked BY <1>1, <1>2 DEF Linked
<1>4. leaf'.size = Cardinality(Linked') BY <1>3 DEF IndexInv
<1>5. ASSUME NEW l \in Linked'
      PROVE  tree'[l] \in 1..ntup' /\ tup'[tree'[l]].key = l /\ tup'[tree'[l]].latest
  <2>1. CASE l = k BY <1>1, <1>2, <2>1 DEF k
  <2>2. CASE l # k
    <3>1. l \in Linked /\ l \in Keys BY <1>3 DEF Linked
    <3>2. tree[l] \in 1..ntup /\ tup[tree[l]].key = l /\ tup[tree[l]].latest BY <3>1 DEF IndexInv
    <3>3. tree[l] \in Tuples /\ tree[l] # ntup + 1 /\ tree[l] \in 1..(ntup + 1)
      BY <1>1, <3>2, Numbers DEF Types, Tuples
    <3>4. tree[l] # u BY <2>2, <3>2 DEF k
    <3> QED BY <1>2, <2>2, <3>1, <3>2, <3>3, <3>4
  <2> QED BY <2>1, <2>2
<1>6. ASSUME NEW v \in Tuples, v > ntup' PROVE ~tup'[v].latest /\ tup'[v].owner = 0
  <2>1. v \in Nat BY TupleFacts
  <2>2. v > ntup /\ v # ntup + 1 /\ v # u BY <1>1, <1>6, <2>1
  <2> QED BY <2>2 DEF IndexInv
<1>7. ASSUME NEW v \in Tuples, v <= ntup'
      PROVE  tup'[v].key \in Keys /\ (tup'[v].latest => tree'[tup'[v].key] = v)
  <2>1. CASE v = u BY <1>1, <2>1 DEF k
  <2>2. CASE v = ntup + 1 BY <1>1, <1>2, <2>2 DEF k
  <2>3. CASE v # u /\ v # ntup + 1
    <3>1. v \in Nat BY TupleFacts
    <3>2. v <= ntup BY <1>1, <1>7, <2>3, <3>1
    <3>3. tup[v].key \in Keys /\ (tup[v].latest => tree[tup[v].key] = v) BY <3>2 DEF IndexInv
    <3>4. ASSUME tup[v].latest PROVE tup[v].key # k BY <1>1, <2>3, <3>3, <3>4
    <3> QED BY <1>2, <2>3, <3>3, <3>4
  <2> QED BY <2>1, <2>2, <2>3
<1> QED BY <1>4, <1>5, <1>6, <1>7 DEF IndexInv

-----------------------------------------------------------------------------
(* The steps that add to the write set.                                    *)

\* One more entry, for a tuple of its key; an inserted tuple is new.
LEMMA AppendEntry ==
  ASSUME Inv, NEW t \in Txns, NEW e \in WriteRec, tx'[t].wset = Append(tx[t].wset, e),
         ntup <= ntup', ntup' \in Nat, e.tup <= ntup', tup'[e.tup].key = e.key,
         \A u \in Tuples : u <= ntup => tup'[u].key = tup[u].key,
         e.ins => e.tup > ntup
  PROVE  /\ EntryInv(t)'
         /\ Inserted(t)' = Inserted(t) \union (IF e.ins THEN {e.tup} ELSE {})
         /\ WriteTuples(t)' = WriteTuples(t) \union {e.tup}
<1> DEFINE w == tx[t].wset
           x == Append(w, e)
           n == Len(w) + 1
<1>0. Types /\ EntryInv(t) BY DEF Inv, TxInv
<1>1. w \in Seq(WriteRec) /\ Len(w) \in Nat BY <1>0, TxFacts
<1>2. DOMAIN x = 1..n /\ DOMAIN w = 1..Len(w) /\ n \in DOMAIN x /\ x[n] = e BY <1>1
<1>3. \A j \in DOMAIN w : j \in DOMAIN x /\ x[j] = w[j] /\ j < n BY <1>1
<1>4. \A j \in DOMAIN x : j = n \/ j \in DOMAIN w BY <1>1, <1>2
<1>5. tx'[t].wset = x OBVIOUS
<1>6. ntup \in Nat BY <1>0, Numbers DEF Types
<1> HIDE DEF x, n
<1>7. ASSUME NEW j \in DOMAIN x PROVE x[j].tup <= ntup' /\ tup'[x[j].tup].key = x[j].key
  <2>1. CASE j = n BY <1>2, <2>1
  <2>2. CASE j \in DOMAIN w
    <3>1. w[j].tup \in Tuples /\ w[j].tup <= ntup /\ tup[w[j].tup].key = w[j].key
      BY <1>0, <2>2, EntryFacts DEF EntryInv
    <3>2. w[j].tup \in Nat BY <1>0, <3>1, TupleFacts
    <3>3. ASSUME NEW a \in Nat, a <= ntup PROVE a <= ntup' BY <1>6, <3>3
    <3>4. w[j].tup <= ntup' BY <3>1, <3>2, <3>3, Zenon
    <3> QED BY <1>3, <2>2, <3>1, <3>4
  <2> QED BY <1>4, <2>1, <2>2
<1>8. ASSUME NEW j \in DOMAIN x, NEW k \in DOMAIN x, k < j, x[j].ins PROVE x[k].tup # x[j].tup
  <2>0. j \in Nat /\ k \in Nat /\ n \in Nat BY <1>1, <1>2 DEF n
  <2>1. CASE j = n
    <3>1. k \in DOMAIN w BY <1>4, <1>8, <2>0, <2>1
    <3>2. w[k].tup \in Tuples /\ w[k].tup <= ntup BY <1>0, <3>1, EntryFacts DEF EntryInv
    <3>3. w[k].tup \in Nat BY <1>0, <3>2, TupleFacts
    <3>4. e.ins /\ e.tup > ntup BY <1>2, <1>8, <2>1
    <3>5. ASSUME NEW a \in Nat, a <= ntup PROVE ~(a > ntup) BY <1>6, <3>5
    <3>6. w[k].tup # e.tup BY <3>2, <3>3, <3>4, <3>5, Zenon
    <3> QED BY <1>2, <1>3, <2>1, <3>1, <3>6
  <2>2. CASE j \in DOMAIN w
    <3>1. k \in DOMAIN w BY <1>3, <1>4, <1>8, <2>0, <2>2
    <3>2. w[k].tup # w[j].tup BY <1>0, <1>3, <1>8, <2>2, <3>1 DEF EntryInv
    <3> QED BY <1>3, <2>2, <3>1, <3>2
  <2> QED BY <1>4, <2>1, <2>2
<1>9. EntryInv(t)' BY <1>5, <1>7, <1>8 DEF EntryInv
<1>10. Inserted(t)' = Inserted(t) \union (IF e.ins THEN {e.tup} ELSE {})
  <2>1. Inserted(t)' = {x[i].tup : i \in {j \in DOMAIN x : x[j].ins}} BY <1>5 DEF Inserted
  <2>2. Inserted(t) = {w[i].tup : i \in {j \in DOMAIN w : w[j].ins}} BY DEF Inserted
  <2> QED BY <1>2, <1>3, <1>4, <2>1, <2>2
<1>11. WriteTuples(t)' = WriteTuples(t) \union {e.tup}
  <2>1. WriteTuples(t)' = {x[i].tup : i \in DOMAIN x} BY <1>5 DEF WriteTuples
  <2>2. WriteTuples(t) = {w[i].tup : i \in DOMAIN w} BY DEF WriteTuples
  <2> QED BY <1>2, <1>3, <1>4, <2>1, <2>2
<1> QED BY <1>9, <1>10, <1>11

LEMMA WriteEntryFacts ==
  ASSUME Inv, NEW t \in Txns, NEW u \in Tuples, NEW ins \in BOOLEAN, Op(t).key \in Keys
  PROVE  /\ WriteEntry(t, u, ins) \in WriteRec
         /\ WriteEntry(t, u, ins).tup = u /\ WriteEntry(t, u, ins).key = Op(t).key
         /\ WriteEntry(t, u, ins).ins = ins /\ WriteVal(t) \in Int
<1>1. tx[t].ip \in Nat /\ t \in Nat BY TxFacts, Numbers DEF Inv, Txns
<1>2. WriteVal(t) \in Int BY <1>1 DEF WriteVal, ValueOf, Empty
<1> QED BY <1>2 DEF WriteEntry, WriteRec

LEMMA PutStep ==
  ASSUME Inv, NEW t \in Txns, PutSearch(t)
  PROVE  Inv'
<1> DEFINE q == tx[t]
           k == Op(t).key
           u == tree[k]
           e == WriteEntry(t, u, FALSE)
           q1 == [q EXCEPT !.wset = Append(@, e)]
<1>0. Types /\ TidInv /\ IndexInv /\ TxInv(t) BY DEF Inv
<1>1. /\ u # 0 => tx' = [tx EXCEPT ![t] = NextOp(q1)]
      /\ u = 0 => tx' = [tx EXCEPT ![t] = [q EXCEPT !.pc = "insert"]]
      /\ UNCHANGED dbVars
  BY DEF PutSearch, Becomes
<1>2. IsOp(t, {"put", "remove"}) \/ At(t, "find") BY DEF PutSearch
<1>3. HasOp(t) /\ k \in Keys /\ q.pc \in {"op", "find", "insert"} BY <1>2, PutFacts
<1>4. q \in TxRec /\ q.locked \in SUBSET Tuples BY <1>0, TxFacts
<1>5. CASE u = 0
  <2> DEFINE r == [q EXCEPT !.pc = "insert"]
  <2>1. "insert" \in Pcs BY DEF Pcs, Running
  <2>2. /\ r \in TxRec /\ r.pc = "insert" /\ r.wset = q.wset /\ r.locked = q.locked
        /\ r.tid = q.tid /\ r.prog = q.prog /\ r.rset = q.rset /\ r.ip = q.ip
    BY <1>4, <2>1, MoveRec
  <2>3. tx' = [tx EXCEPT ![t] = r] BY <1>1, <1>5
  <2> HIDE DEF r
  <2> QED BY <1>1, <1>3, <2>2, <2>3, ReadTids, QuietOp
<1>6. CASE u # 0
  <2>1. u \in 1..ntup /\ tup[u].key = k /\ u \in Tuples
    <3>1. k \in Linked BY <1>3, <1>6 DEF Linked
    <3>2. u \in 1..ntup /\ tup[u].key = k BY <1>0, <3>1 DEF IndexInv
    <3> QED BY <1>0, <3>2, Numbers DEF Types, Tuples
  <2>2. e \in WriteRec /\ e.tup = u /\ e.key = k /\ e.ins = FALSE
    BY <1>3, <2>1, WriteEntryFacts
  <2> HIDE DEF e
  <2> DEFINE w == Append(q.wset, e)
  <2>3. q1 = [q EXCEPT !.wset = w, !.locked = q.locked] BY <1>4 DEF TxRec
  <2>3a. w \in Seq(WriteRec) BY <1>0, <2>2, TxFacts
  <2> HIDE DEF q1, w
  <2>4. /\ q1 \in TxRec /\ q1.wset = Append(q.wset, e) /\ q1.locked = q.locked
        /\ q1.tid = q.tid /\ q1.prog = q.prog /\ q1.rset = q.rset
    <3>1. q1 \in TxRec BY <1>4, <2>3, <2>3a DEF TxRec
    <3>2. /\ q1.wset = w /\ q1.locked = q.locked
          /\ q1.tid = q.tid /\ q1.prog = q.prog /\ q1.rset = q.rset
      BY <1>4, <2>3 DEF TxRec
    <3> QED BY <3>1, <3>2 DEF w
  <2> DEFINE r == NextOp(q1)
  <2>5. /\ r \in TxRec /\ r.pc = "op" /\ r.wset = Append(q.wset, e) /\ r.locked = q.locked
        /\ r.tid = q.tid /\ r.prog = q.prog /\ r.rset = q.rset
    BY <2>4, NextOpRec
  <2>6. tx' = [tx EXCEPT ![t] = r] BY <1>1, <1>6
  <2> HIDE DEF r
  <2>7. tx' \in [Txns -> TxRec] /\ tx'[t] = r /\ \A s \in Txns \ {t} : tx'[s] = tx[s]
    BY <1>0, <2>5, <2>6 DEF Types
  <2>8. Types' BY <1>0, <1>1, <2>7 DEF Types, dbVars
  <2>9. IndexInv' BY <1>0, <1>1 DEF IndexInv, Linked, dbVars
  <2>10. ntup \in Nat /\ ntup' = ntup /\ ntup <= ntup' /\ tup' = tup /\ tick' = tick /\ tick <= tick'
    BY <1>0, <1>1, Numbers DEF Types, dbVars
  <2>11. Frame({t}) BY <2>7, <2>10 DEF Frame
  <2>12. TidInv'
    <3>1. \A s \in Txns : tx'[s].tid = tx[s].tid BY <2>5, <2>7
    <3>2. \A v \in Tuples : tup'[v].version = MAX_TID \/ IsTid(tup'[v].version)
      BY <1>0, <2>10 DEF TidInv
    <3>3. \A s \in Txns : \A i \in DOMAIN tx'[s].rset : IsTid(tx'[s].rset[i].tid)
      BY <1>0, <2>5, <2>7 DEF TidInv
    <3>4. q.pc \in Running \ {"validate"} BY <1>3 DEF Running
    <3>5. \A s \in Txns : tx'[s].pc \in Running \ {"validate"} => tx'[s].tid = MIN_TID
      BY <1>0, <2>5, <2>7, <3>1, <3>4 DEF TidInv
    <3> QED BY <2>8, <2>10, <3>1, <3>2, <3>3, <3>5, TidStep
  <2>13. TxInv(t)'
    <3>1. tx'[t].wset = Append(tx[t].wset, e) /\ e.tup <= ntup' BY <2>1, <2>2, <2>5, <2>7, <2>10
    <3>2. EntryInv(t)' /\ Inserted(t)' = Inserted(t) \union (IF e.ins THEN {e.tup} ELSE {})
      BY <2>1, <2>2, <2>10, <3>1, AppendEntry
    <3>3. Inserted(t)' = Inserted(t) BY <2>2, <3>2
    <3>4. LockInv(t)' BY <1>0, <2>5, <2>7, <2>10 DEF TxInv, LockInv
    <3>5. q.pc \in Running BY <1>3 DEF Running
    <3>6. InsertInv(t)'
      BY <1>0, <2>5, <2>7, <2>10, <3>3, <3>5 DEF TxInv, InsertInv, Tentative
    <3>7. SearchInv(t)' /\ CommitInv(t)' /\ WriteInv(t)'
      BY <2>5, <2>7 DEF SearchInv, CommitInv, WriteInv
    <3> QED BY <3>2, <3>4, <3>6, <3>7 DEF TxInv
  <2> QED BY <2>8, <2>9, <2>11, <2>12, <2>13, OneStep
<1> QED BY <1>5, <1>6

LEMMA LeafRec ==
  ASSUME Types
  PROVE  /\ find_insert(leaf) \in [v : Nat, size : Int, mod : {"insert", "remove"}]
         /\ find_insert(leaf).size = leaf.size + 1
         /\ finish_remove(leaf) \in [v : Nat, size : Int, mod : {"insert", "remove"}]
         /\ finish_remove(leaf).size = leaf.size - 1
         /\ full_version_value(find_insert(leaf)) \in Int
<1>1. leaf.v \in Nat /\ leaf.size \in Int BY DEF Types
<1> QED BY <1>1 DEF find_insert, finish_remove, full_version_value

LEMMA MaxTid ==
  MAX_TID \in Nat /\ MIN_TID \in Nat /\ None \in Int
<1>1. MaxTick + 1 \in Nat BY Numbers
<1> QED BY <1>1, TidType DEF MAX_TID, MIN_TID, None

LEMMA InsertStep ==
  ASSUME Inv, NEW t \in Txns, try_insert_new_tuple(t)
  PROVE  Inv'
<1> DEFINE q == tx[t]
           k == Op(t).key
           u == ntup + 1
           e == WriteEntry(t, u, TRUE)
           l == q.locked \union {u}
           put == [q EXCEPT !.wset = Append(@, e), !.locked = @ \union {u}]
           v0 == full_version_value(leaf)
           v1 == full_version_value(find_insert(leaf))
           n == NewTuple(k, MAX_TID, WriteVal(t), t)
           r == IF ~SameNode(t, v0) THEN [put EXCEPT !.pc = "abort"]
                ELSE NextOp([put EXCEPT !.aset = IF @ = None THEN None ELSE v1])
<1>0. Types /\ TidInv /\ IndexInv /\ TxInv(t) BY DEF Inv
<1>1. /\ tree[k] = 0 /\ ntup < MaxTuples /\ ntup' = u /\ tup' = [tup EXCEPT ![u] = n]
      /\ tree' = [tree EXCEPT ![k] = u] /\ leaf' = find_insert(leaf) /\ UNCHANGED <<tick, gcq>>
  BY DEF try_insert_new_tuple
<1>1a. tx' = [tx EXCEPT ![t] = r]
  BY Zenon DEF try_insert_new_tuple, Becomes
<1>2. IsOp(t, {"insert"}) \/ At(t, "insert") BY DEF try_insert_new_tuple
<1>3. HasOp(t) /\ k \in Keys /\ q.pc \in {"op", "find", "insert"} BY <1>2, PutFacts
<1>4. /\ q \in TxRec /\ q.locked \in SUBSET Tuples /\ ntup \in Nat /\ u \in Tuples /\ u \in Nat
      /\ u > ntup /\ ntup <= u
  BY <1>0, <1>1, TxFacts, Numbers DEF Types, Tuples
<1>5. e \in WriteRec /\ e.tup = u /\ e.key = k /\ e.ins = TRUE /\ WriteVal(t) \in Int
  BY <1>3, <1>4, WriteEntryFacts
<1>6. l \in SUBSET Tuples BY <1>4
<1> DEFINE w == Append(q.wset, e)
<1>7. put = [q EXCEPT !.wset = w, !.locked = l] OBVIOUS
<1> HIDE DEF e, put
<1>7a. w \in Seq(WriteRec) BY <1>0, <1>5, TxFacts
<1> HIDE DEF w
<1>8. /\ put \in TxRec /\ put.wset = Append(q.wset, e) /\ put.locked = l /\ put.pc = q.pc
      /\ put.tid = q.tid /\ put.prog = q.prog /\ put.rset = q.rset
  <2> HIDE DEF l
  <2>1. put \in TxRec BY <1>4, <1>6, <1>7, <1>7a DEF TxRec
  <2>2. /\ put.wset = w /\ put.locked = l /\ put.pc = q.pc
        /\ put.tid = q.tid /\ put.prog = q.prog /\ put.rset = q.rset
    BY <1>4, <1>7 DEF TxRec
  <2> QED BY <2>1, <2>2 DEF w
<1>9. /\ r \in TxRec /\ r.pc \in {"op", "abort"} /\ r.wset = Append(q.wset, e) /\ r.locked = l
      /\ r.tid = q.tid /\ r.prog = q.prog /\ r.rset = q.rset
  <2>1. CASE ~SameNode(t, v0)
    <3>1. "abort" \in Pcs BY DEF Pcs
    <3>2. r = [put EXCEPT !.pc = "abort"] BY <2>1
    <3> HIDE DEF r
    <3> QED BY <1>8, <3>1, <3>2, MoveRec
  <2>2. CASE SameNode(t, v0)
    <3> DEFINE a == IF put.aset = None THEN None ELSE v1
               p1 == [put EXCEPT !.aset = a]
    <3>1. a \in Int BY <1>0, LeafRec, MaxTid
    <3>2. r = NextOp(p1) BY <2>2
    <3> HIDE DEF a, r
    <3>3. p1 \in TxRec BY <1>8, <3>1 DEF TxRec
    <3>4. /\ p1.wset = put.wset /\ p1.locked = put.locked /\ p1.tid = put.tid
          /\ p1.prog = put.prog /\ p1.rset = put.rset
      BY <1>8 DEF TxRec
    <3> HIDE DEF p1
    <3> QED BY <1>8, <3>2, <3>3, <3>4, NextOpRec
  <2> QED BY <2>1, <2>2
<1> HIDE DEF r
<1>10. tx' \in [Txns -> TxRec] /\ tx'[t] = r /\ \A s \in Txns \ {t} : tx'[s] = tx[s]
  BY <1>0, <1>1a, <1>9 DEF Types
<1>11. n \in TupleRec /\ n.key = k /\ n.latest = TRUE /\ n.owner = t /\ n.version = MAX_TID
  <2>1. t \in 0..NTxns /\ MAX_TID \in Nat /\ k \in Keys \union {0} /\ TRUE \in BOOLEAN
    BY <1>3, MaxTid, Numbers DEF Txns
  <2>2. n = [key |-> k, version |-> MAX_TID, val |-> WriteVal(t), owner |-> t, latest |-> TRUE]
    BY DEF NewTuple
  <2> HIDE DEF n
  <2> QED BY <1>5, <2>1, <2>2 DEF TupleRec
<1> HIDE DEF n
<1>12. tup' \in [Tuples -> TupleRec] /\ tup'[u] = n /\ \A v \in Tuples : v # u => tup'[v] = tup[v]
  BY <1>0, <1>1, <1>4, <1>11 DEF Types
<1>13. Types'
  <2>1. ntup' \in 0..MaxTuples BY <1>1, <1>4, Numbers
  <2>2. u \in 0..MaxTuples BY <1>1, <2>1
  <2>3. tree' \in [Keys -> 0..MaxTuples] BY <1>0, <1>1, <2>2 DEF Types
  <2>4. leaf' \in [v : Nat, size : Int, mod : {"insert", "remove"}] BY <1>0, <1>1, LeafRec
  <2> QED BY <1>0, <1>1, <1>10, <1>12, <2>1, <2>3, <2>4 DEF Types
<1>14. IndexInv'
  <2>1. leaf'.size = leaf.size + 1 BY <1>0, <1>1, LeafRec
  <2> QED BY <1>0, <1>1, <1>3, <1>11, <2>1, IndexInsert
<1>15. ASSUME NEW v \in Tuples, v <= ntup PROVE v # u /\ tup'[v] = tup[v]
  <2>1. v \in Nat BY <1>0, TupleFacts
  <2>2. v # u BY <1>4, <1>15, <2>1
  <2> QED BY <1>12, <2>2
<1>16. tup[u].owner = 0 BY <1>0, <1>4 DEF IndexInv
<1>17. Frame({t})
  <2>1. ASSUME NEW v \in Tuples, NEW s \in Txns \ {t}, tup[v].owner = s \/ tup'[v].owner = s
        PROVE  tup'[v] = tup[v]
    <3>1. s # 0 BY Numbers DEF Txns
    <3>2. v # u BY <1>11, <1>12, <1>16, <2>1, <3>1
    <3> QED BY <1>12, <3>2
  <2> QED BY <1>1, <1>4, <1>10, <1>15, <2>1 DEF Frame
<1>18. TidInv'
  <2>1. \A s \in Txns : tx'[s].tid = tx[s].tid BY <1>9, <1>10
  <2>2. \A v \in Tuples : tup'[v].version = MAX_TID \/ IsTid(tup'[v].version)
    BY <1>0, <1>11, <1>12 DEF TidInv
  <2>3. \A s \in Txns : \A i \in DOMAIN tx'[s].rset : IsTid(tx'[s].rset[i].tid)
    BY <1>0, <1>9, <1>10 DEF TidInv
  <2>4. q.pc \in Running \ {"validate"} BY <1>3 DEF Running
  <2>5. \A s \in Txns : tx'[s].pc \in Running \ {"validate"} => tx'[s].tid = MIN_TID
    BY <1>0, <1>9, <1>10, <2>1, <2>4 DEF TidInv
  <2>6. tick <= tick' BY <1>0, <1>1, Numbers DEF Types
  <2> QED BY <1>13, <2>1, <2>2, <2>3, <2>5, <2>6, TidStep
<1>19. TxInv(t)'
  <2>1. tx'[t].wset = Append(tx[t].wset, e) /\ e.tup <= ntup' /\ ntup <= ntup' /\ ntup' \in Nat
    BY <1>1, <1>4, <1>5, <1>9, <1>10
  <2>2. tup'[e.tup].key = e.key /\ (e.ins => e.tup > ntup) BY <1>4, <1>5, <1>11, <1>12
  <2>3. \A v \in Tuples : v <= ntup => tup'[v].key = tup[v].key BY <1>15
  <2>4. EntryInv(t)' /\ Inserted(t)' = Inserted(t) \union (IF e.ins THEN {e.tup} ELSE {})
    BY <1>5, <2>1, <2>2, <2>3, AppendEntry
  <2>5. Inserted(t)' = Inserted(t) \union {u} BY <1>5, <2>4
  <2>6. LockInv(t)'
    <3>1. ASSUME NEW v \in Tuples PROVE v \in l <=> tup'[v].owner = t
      <4>1. CASE v = u BY <1>11, <1>12, <4>1
      <4>2. CASE v # u BY <1>0, <1>12, <4>2 DEF TxInv, LockInv
      <4> QED BY <4>1, <4>2
    <3> QED BY <1>9, <1>10, <3>1 DEF LockInv
  <2>7. q.pc \in Running BY <1>3 DEF Running
  <2>8. ASSUME NEW v \in Inserted(t)' PROVE v \in l /\ Tentative(t, v)'
    <3>1. CASE v = u BY <1>11, <1>12, <3>1 DEF Tentative
    <3>2. CASE v # u
      <4>1. v \in Inserted(t) BY <2>5, <3>2
      <4>2. v \in q.locked /\ Tentative(t, v) BY <1>0, <2>7, <4>1 DEF TxInv, InsertInv
      <4>3. tup'[v] = tup[v] BY <1>4, <1>12, <3>2, <4>2
      <4> QED BY <4>2, <4>3 DEF Tentative
    <3> QED BY <3>1, <3>2
  <2>9. InsertInv(t)' BY <1>9, <1>10, <2>8 DEF InsertInv
  <2>10. SearchInv(t)' /\ CommitInv(t)' /\ WriteInv(t)'
    BY <1>9, <1>10 DEF SearchInv, CommitInv, WriteInv
  <2> QED BY <2>4, <2>6, <2>9, <2>10 DEF TxInv
<1> QED BY <1>13, <1>14, <1>17, <1>18, <1>19, OneStep

-----------------------------------------------------------------------------
(* The commit, up to the validation.                                       *)

\* The write set and the operators on it are those of the transaction.
LEMMA SameWrites ==
  ASSUME NEW t \in Txns, tx'[t].wset = tx[t].wset
  PROVE  Inserted(t)' = Inserted(t) /\ WriteTuples(t)' = WriteTuples(t)
BY DEF Inserted, WriteTuples

\* A transaction that is validating aborts, or goes on.
LEMMA LeaveStep ==
  ASSUME Inv, NEW t \in Txns, tx' = [tx EXCEPT ![t] = [tx[t] EXCEPT !.pc = "abort"]],
         UNCHANGED dbVars, tx[t].pc \in Running
  PROVE  Inv'
<1> DEFINE r == [tx[t] EXCEPT !.pc = "abort"]
<1>1. tx[t] \in TxRec /\ "abort" \in Pcs BY TxFacts DEF Inv, Pcs
<1>2. /\ r \in TxRec /\ r.pc = "abort" /\ r.wset = tx[t].wset /\ r.locked = tx[t].locked
      /\ r.tid = tx[t].tid /\ r.prog = tx[t].prog /\ r.rset = tx[t].rset
  BY <1>1, MoveRec
<1>3. tx' = [tx EXCEPT ![t] = r] OBVIOUS
<1> HIDE DEF r
<1> QED BY <1>2, <1>3, ReadTids, QuietOp

LEMMA CommitBeginStep ==
  ASSUME Inv, NEW t \in Txns, CommitBegin(t)
  PROVE  Inv'
<1> DEFINE q == tx[t]
           W == WriteTuples(t)
<1>0. Types BY DEF Inv
<1>1. /\ q.pc = "op" /\ UNCHANGED dbVars
      /\ q.wset = << >> => tx' = [tx EXCEPT ![t] = [q EXCEPT !.pc = "validate"]]
      /\ q.wset # << >> => tx' = [tx EXCEPT ![t] = [q EXCEPT !.pc = "lock", !.lockq = W]]
  BY DEF CommitBegin, At, Becomes
<1>2. q \in TxRec /\ W \in SUBSET Tuples BY <1>0, TxFacts, EntryFacts
<1>3. q.pc \in Running /\ q.pc \in Running \ {"validate"} BY <1>1 DEF Running
<1>4. CASE q.wset = << >>
  <2> DEFINE r == [q EXCEPT !.pc = "validate"]
  <2>1. "validate" \in Pcs BY DEF Pcs, Running
  <2>2. /\ r \in TxRec /\ r.pc = "validate" /\ r.wset = q.wset /\ r.locked = q.locked
        /\ r.tid = q.tid /\ r.rset = q.rset
    BY <1>2, <2>1, MoveRec
  <2>3. tx' = [tx EXCEPT ![t] = r] BY <1>1, <1>4
  <2> HIDE DEF r
  <2>4. tx'[t] = r BY <1>0, <2>3 DEF Types
  <2>5. WriteTuples(t)' = {} BY <1>4, <2>2, <2>4 DEF WriteTuples
  <2>6. SearchInv(t)' /\ CommitInv(t)' /\ WriteInv(t)'
    BY <2>2, <2>4, <2>5 DEF SearchInv, CommitInv, WriteInv
  <2> QED BY <1>1, <1>3, <2>2, <2>3, <2>6, ReadTids, QuietStep
<1>5. CASE q.wset # << >>
  <2> HIDE DEF W
  <2> DEFINE r == [q EXCEPT !.pc = "lock", !.lockq = W]
  <2>1. "lock" \in Pcs BY DEF Pcs, Running
  <2>2. r \in TxRec BY <1>2, <2>1 DEF TxRec
  <2>3. /\ r.pc = "lock" /\ r.wset = q.wset /\ r.locked = q.locked
        /\ r.tid = q.tid /\ r.rset = q.rset /\ r.lockq = W
    BY <1>2 DEF TxRec
  <2>4. tx' = [tx EXCEPT ![t] = r] BY <1>1, <1>5
  <2> HIDE DEF r
  <2>5. tx'[t] = r BY <1>0, <2>4 DEF Types
  <2>6. WriteTuples(t)' = W BY <2>3, <2>5, SameWrites DEF W
  <2>7. SearchInv(t)' /\ CommitInv(t)' /\ WriteInv(t)'
    BY <2>3, <2>5, <2>6 DEF SearchInv, CommitInv, WriteInv
  <2> QED BY <1>1, <1>3, <2>2, <2>3, <2>4, <2>7, ReadTids, QuietStep
<1> QED BY <1>4, <1>5

LEMMA ValidateReadStep ==
  ASSUME Inv, NEW t \in Txns, ValidateRead(t)
  PROVE  Inv'
<1> DEFINE q == tx[t]
<1>0. Types /\ TxInv(t) BY DEF Inv
<1>1. q.pc = "validate" /\ UNCHANGED dbVars BY DEF ValidateRead, At
<1>2. \/ tx' = [tx EXCEPT ![t] = [q EXCEPT !.i = @ + 1]]
      \/ tx' = [tx EXCEPT ![t] = [q EXCEPT !.pc = "abort"]]
  BY DEF ValidateRead, Becomes
<1>3. q.pc \in Running BY <1>1 DEF Running
<1>4. CASE tx' = [tx EXCEPT ![t] = [q EXCEPT !.pc = "abort"]] BY <1>1, <1>3, <1>4, LeaveStep
<1>5. CASE tx' = [tx EXCEPT ![t] = [q EXCEPT !.i = @ + 1]]
  <2> DEFINE i == q.i + 1
             r == [q EXCEPT !.i = i]
  <2>1. q \in TxRec /\ i \in Nat \ {0} BY <1>0, TxFacts
  <2>2. tx' = [tx EXCEPT ![t] = r] BY <1>5
  <2> HIDE DEF i
  <2>3. r \in TxRec BY <2>1 DEF TxRec
  <2>4. /\ r.pc = q.pc /\ r.wset = q.wset /\ r.locked = q.locked /\ r.tid = q.tid /\ r.rset = q.rset
    BY <2>1 DEF TxRec
  <2> HIDE DEF r
  <2>5. tx'[t] = r /\ tup' = tup BY <1>0, <1>1, <2>2 DEF Types, dbVars
  <2>6. Inserted(t)' = Inserted(t) /\ WriteTuples(t)' = WriteTuples(t) BY <2>4, <2>5, SameWrites
  <2>7. CommitInv(t)'
    BY <1>0, <1>1, <2>4, <2>5, <2>6 DEF TxInv, CommitInv, Ready
  <2>8. SearchInv(t)' /\ WriteInv(t)' BY <1>1, <2>4, <2>5 DEF SearchInv, WriteInv
  <2>9. r.pc \notin Running \ {"validate"} /\ r.pc # "abort" BY <1>1, <2>4
  <2> QED BY <1>1, <1>3, <2>2, <2>3, <2>4, <2>7, <2>8, <2>9, ReadTids, QuietStep
<1> QED BY <1>2, <1>4, <1>5

LEMMA ValidateNodesStep ==
  ASSUME Inv, NEW t \in Txns, ValidateNodes(t)
  PROVE  Inv'
<1> DEFINE q == tx[t]
           pc == IF SameNode(t, full_version_value(leaf)) THEN "write" ELSE "abort"
           r == [q EXCEPT !.i = 1, !.pc = pc]
<1>0. Types /\ TxInv(t) BY DEF Inv
<1>1. q.pc = "validate" /\ UNCHANGED dbVars /\ tx' = [tx EXCEPT ![t] = r]
  BY DEF ValidateNodes, At, Becomes
<1>2. q \in TxRec /\ pc \in {"write", "abort"} BY <1>0, TxFacts
<1> HIDE DEF pc
<1>2a. pc \in Pcs /\ 1 \in Nat \ {0} BY <1>2 DEF Pcs
<1>3. r \in TxRec BY <1>2, <1>2a DEF TxRec
<1>4. /\ r.pc = pc /\ r.wset = q.wset /\ r.locked = q.locked /\ r.tid = q.tid /\ r.rset = q.rset
      /\ r.i = 1
  BY <1>2 DEF TxRec
<1> HIDE DEF r
<1>5. tx'[t] = r /\ tup' = tup BY <1>0, <1>1 DEF Types, dbVars
<1>6. Inserted(t)' = Inserted(t) /\ WriteTuples(t)' = WriteTuples(t) BY <1>4, <1>5, SameWrites
<1>7. SearchInv(t)' /\ CommitInv(t)' BY <1>2, <1>4, <1>5 DEF SearchInv, CommitInv
<1>8. ASSUME NEW j \in DOMAIN q.wset
      PROVE  LET u == q.wset[j].tup IN
             /\ u \in q.locked /\ tup[u].latest
             /\ u \in Inserted(t) \/ tup[u].version < q.tid
             /\ q.wset[j].ins => tup[u].version = MAX_TID
             /\ ~(j < 1)
  <2> DEFINE u == q.wset[j].tup
  <2>1. u \in WriteTuples(t) /\ (q.wset[j].ins => u \in Inserted(t)) /\ j \in Nat /\ 1 <= j
    BY <1>0, EntryFacts
  <2>2. Ready(t, u) /\ (u \in Inserted(t) \/ tup[u].version < q.tid)
    BY <1>0, <1>1, <2>1 DEF TxInv, CommitInv
  <2>3. q.pc \in Running BY <1>1 DEF Running
  <2>4. u \in Inserted(t) => tup[u].version = MAX_TID
    BY <1>0, <2>2, <2>3 DEF TxInv, InsertInv, Tentative, Ready
  <2> HIDE DEF u
  <2> QED BY <2>1, <2>2, <2>4 DEF Ready, u
<1>9. WriteInv(t)' BY <1>4, <1>5, <1>6, <1>8 DEF WriteInv
<1>10. r.pc \notin Running /\ q.pc \in Running BY <1>1, <1>2, <1>4 DEF Running
<1> QED BY <1>1, <1>3, <1>4, <1>7, <1>9, <1>10, ReadTids, QuietStep

\* An inserted tuple is Ready.
LEMMA InsertedReady ==
  ASSUME Inv, NEW t \in Txns, tx[t].pc \in Running, NEW u \in Inserted(t)
  PROVE  Ready(t, u) /\ tup[u].version = MAX_TID
BY DEF Inv, TxInv, InsertInv, Tentative, Ready

LEMMA LockStep ==
  ASSUME Inv, NEW t \in Txns, LockTuple(t)
  PROVE  Inv'
<1> DEFINE q == tx[t]
           u == Min(q.lockq)
           rest == q.lockq \ {u}
           next == [q EXCEPT !.lockq = rest]
           l == q.locked \union {u}
           pc == IF tup[u].latest THEN "lock" ELSE "abort"
           r == [next EXCEPT !.locked = l, !.pc = pc]
<1>0. Types /\ TidInv /\ IndexInv /\ TxInv(t) BY DEF Inv
<1>1. q.pc = "lock" /\ q.lockq # {} /\ UNCHANGED <<tick, tree, leaf, ntup, gcq>> BY DEF LockTuple, At
<1>2. /\ q \in TxRec /\ q.lockq \subseteq Tuples /\ q.locked \subseteq Tuples
      /\ Tuples \subseteq Nat /\ q.pc \in Running
  BY <1>0, <1>1, TxFacts, Numbers DEF Tuples, Running
<1>3. u \in q.lockq /\ u \in Tuples BY <1>1, <1>2, LeastNat
<1>3a. q.lockq \subseteq WriteTuples(t) /\ u \in WriteTuples(t) /\ u <= ntup
  <2>1. q.lockq \subseteq WriteTuples(t) BY <1>0, <1>1 DEF TxInv, CommitInv
  <2>2. u \in WriteTuples(t) BY <1>3, <2>1
  <2>3. u <= ntup BY <1>0, <2>2 DEF TxInv, EntryInv, WriteTuples
  <2> QED BY <2>1, <2>2, <2>3
<1>4. \/ u \in Inserted(t) /\ tx' = [tx EXCEPT ![t] = next] /\ UNCHANGED tup
      \/ tx' = [tx EXCEPT ![t] = [q EXCEPT !.pc = "abort"]] /\ UNCHANGED tup
      \/ /\ u \notin Inserted(t) /\ tup[u].version # MAX_TID /\ tup[u].owner = 0
         /\ tup' = [tup EXCEPT ![u].owner = t]
         /\ tx' = [tx EXCEPT ![t] = [next EXCEPT !.locked = next.locked \union {u}, !.pc = pc]]
  BY Zenon DEF LockTuple, Becomes
<1>5. next \in TxRec
  <2>1. rest \in SUBSET Tuples BY <1>2
  <2> HIDE DEF rest
  <2> QED BY <1>2, <2>1 DEF TxRec
<1>6. /\ next.pc = "lock" /\ next.wset = q.wset /\ next.locked = q.locked /\ next.tid = q.tid
      /\ next.rset = q.rset /\ next.lockq = rest /\ next.prog = q.prog
  <2> HIDE DEF rest
  <2> QED BY <1>1, <1>2 DEF TxRec
<1>6a. [next EXCEPT !.locked = next.locked \union {u}, !.pc = pc] = r BY <1>6
<1> HIDE DEF next
<1>7. CASE tx' = [tx EXCEPT ![t] = [q EXCEPT !.pc = "abort"]] /\ UNCHANGED tup
  <2>1. UNCHANGED dbVars BY <1>1, <1>7 DEF dbVars
  <2> QED BY <1>2, <1>7, <2>1, LeaveStep
<1>8. CASE u \in Inserted(t) /\ tx' = [tx EXCEPT ![t] = next] /\ UNCHANGED tup
  <2>1. UNCHANGED dbVars BY <1>1, <1>8 DEF dbVars
  <2>2. tx'[t] = next BY <1>0, <1>8 DEF Types
  <2>3. Inserted(t)' = Inserted(t) /\ WriteTuples(t)' = WriteTuples(t) BY <1>6, <2>2, SameWrites
  <2>4. ASSUME NEW v \in WriteTuples(t) \ rest
        PROVE  Ready(t, v) /\ (v \in Inserted(t) \/ tup[v].version # MAX_TID)
    <3>1. CASE v = u BY <1>2, <1>8, <3>1, InsertedReady
    <3>2. CASE v # u BY <1>0, <1>1, <3>2 DEF TxInv, CommitInv
    <3> QED BY <3>1, <3>2
  <2>5. \A v : Ready(t, v)' <=> Ready(t, v) BY <1>6, <1>8, <2>2 DEF Ready
  <2>6. CommitInv(t)' BY <1>3a, <1>6, <1>8, <2>2, <2>3, <2>4, <2>5 DEF CommitInv
  <2>7. SearchInv(t)' /\ WriteInv(t)' BY <1>6, <2>2 DEF SearchInv, WriteInv
  <2>8. q.pc \in Running \ {"validate"} BY <1>1 DEF Running
  <2> QED BY <1>2, <1>5, <1>6, <1>8, <2>1, <2>6, <2>7, <2>8, ReadTids, QuietStep
<1>9. CASE /\ u \notin Inserted(t) /\ tup[u].version # MAX_TID /\ tup[u].owner = 0
           /\ tup' = [tup EXCEPT ![u].owner = t] /\ tx' = [tx EXCEPT ![t] = r]
  <2>1. l \in SUBSET Tuples /\ pc \in {"lock", "abort"} BY <1>2, <1>3
  <2>2. pc \in Pcs BY <2>1 DEF Pcs, Running
  <2>3. pc = "lock" => tup[u].latest OBVIOUS
  <2> HIDE DEF l, pc
  <2>4. r \in TxRec BY <1>5, <2>1, <2>2 DEF TxRec
  <2>5. /\ r.pc = pc /\ r.wset = q.wset /\ r.locked = l /\ r.tid = q.tid
        /\ r.rset = q.rset /\ r.lockq = rest
    BY <1>5, <1>6 DEF TxRec
  <2> HIDE DEF r
  <2>6. tx' \in [Txns -> TxRec] /\ tx'[t] = r /\ \A s \in Txns \ {t} : tx'[s] = tx[s]
    BY <1>0, <1>9, <2>4 DEF Types
  <2> DEFINE n == [tup[u] EXCEPT !.owner = t]
  <2>7. tup[u] \in TupleRec /\ t \in 0..NTxns BY <1>0, <1>3, TupleFacts, Numbers DEF Txns
  <2>8. /\ n \in TupleRec /\ n.owner = t /\ n.latest = tup[u].latest /\ n.key = tup[u].key
        /\ n.version = tup[u].version
    BY <2>7 DEF TupleRec
  <2>9. tup' = [tup EXCEPT ![u] = n] BY <1>9
  <2> HIDE DEF n
  <2>10. tup' \in [Tuples -> TupleRec] /\ tup'[u] = n /\ \A v \in Tuples : v # u => tup'[v] = tup[v]
    BY <1>0, <1>3, <2>8, <2>9 DEF Types
  <2>11. Types' BY <1>0, <1>1, <2>6, <2>10 DEF Types
  <2>12. \A v \in Tuples : /\ tup'[v].latest = tup[v].latest /\ tup'[v].key = tup[v].key
                           /\ tup'[v].version = tup[v].version
    BY <2>8, <2>10
  <2>13. \A s \in Txns : s # 0 BY Numbers DEF Txns
  <2>14. ntup \in Nat /\ ntup <= ntup' /\ tick <= tick' BY <1>0, <1>1, Numbers DEF Types
  <2>15. IndexInv'
    <3>1. ASSUME NEW v \in Tuples, v > ntup PROVE tup'[v].owner = 0
      <4>1. v # u
        <5>1. u \in Nat /\ v \in Nat BY <1>2, <1>3
        <5> QED BY <1>3a, <2>14, <3>1, <5>1
      <4> QED BY <1>0, <2>10, <3>1, <4>1 DEF IndexInv
    <3> QED BY <1>0, <1>1, <2>12, <3>1, IndexSame
  <2>16. Frame({t})
    <3>1. ASSUME NEW v \in Tuples, NEW s \in Txns \ {t}, tup[v].owner = s \/ tup'[v].owner = s
          PROVE  tup'[v] = tup[v]
      <4>1. v # u BY <1>9, <2>8, <2>10, <2>13, <3>1
      <4> QED BY <2>10, <4>1
    <3> QED BY <2>6, <2>12, <2>14, <3>1 DEF Frame
  <2>17. TidInv'
    <3>1. \A s \in Txns : tx'[s].tid = tx[s].tid BY <2>5, <2>6
    <3>2. \A v \in Tuples : tup'[v].version = MAX_TID \/ IsTid(tup'[v].version)
      BY <1>0, <2>12 DEF TidInv
    <3>3. \A s \in Txns : \A i \in DOMAIN tx'[s].rset : IsTid(tx'[s].rset[i].tid)
      BY <1>0, <2>5, <2>6 DEF TidInv
    <3>4. q.pc \in Running \ {"validate"} BY <1>1 DEF Running
    <3>5. \A s \in Txns : tx'[s].pc \in Running \ {"validate"} => tx'[s].tid = MIN_TID
      BY <1>0, <2>5, <2>6, <3>1, <3>4 DEF TidInv
    <3> QED BY <2>11, <2>14, <3>1, <3>2, <3>3, <3>5, TidStep
  <2>18. TxInv(t)'
    <3>1. Inserted(t)' = Inserted(t) /\ WriteTuples(t)' = WriteTuples(t) BY <2>5, <2>6, SameWrites
    <3>2. Inserted(t) \subseteq Tuples /\ WriteTuples(t) \subseteq Tuples BY <1>0, EntryFacts
    <3>3. EntryInv(t)'
      <4>1. \A j \in DOMAIN q.wset : q.wset[j].tup \in Tuples BY <1>0, EntryFacts
      <4> QED BY <1>0, <1>1, <2>5, <2>6, <2>12, <4>1 DEF TxInv, EntryInv
    <3>4. LockInv(t)'
      <4>1. ASSUME NEW v \in Tuples PROVE v \in l <=> tup'[v].owner = t
        <5>1. CASE v = u BY <2>8, <2>10, <5>1 DEF l
        <5>2. CASE v # u BY <1>0, <2>10, <5>2 DEF TxInv, LockInv, l
        <5> QED BY <5>1, <5>2
      <4> QED BY <2>5, <2>6, <4>1 DEF LockInv
    <3>5. InsertInv(t)'
      <4>1. \A v \in Inserted(t) : v \in q.locked /\ Tentative(t, v)
        BY <1>0, <1>2 DEF TxInv, InsertInv
      <4>2. \A v \in Inserted(t) : v \in l /\ Tentative(t, v)'
        BY <2>12, <3>2, <4>1 DEF Tentative, l
      <4> QED BY <2>5, <2>6, <3>1, <4>2 DEF InsertInv
    <3>6. CommitInv(t)'
      <4>1. ASSUME pc = "lock", NEW v \in WriteTuples(t) \ rest
            PROVE  Ready(t, v)' /\ (v \in Inserted(t) \/ tup'[v].version # MAX_TID)
        <5>1. CASE v = u
          <6>1. v \in l /\ tup'[v].latest /\ tup'[v].version # MAX_TID
            BY <1>3, <1>9, <2>3, <2>12, <4>1, <5>1 DEF l
          <6> QED BY <2>5, <2>6, <6>1 DEF Ready
        <5>2. CASE v # u
          <6>1. Ready(t, v) /\ (v \in Inserted(t) \/ tup[v].version # MAX_TID)
            BY <1>0, <1>1, <5>2 DEF TxInv, CommitInv
          <6> QED BY <2>5, <2>6, <2>12, <3>2, <6>1 DEF Ready, l
        <5> QED BY <5>1, <5>2
      <4>2. rest \subseteq WriteTuples(t) BY <1>3a
      <4> QED BY <2>1, <2>5, <2>6, <3>1, <4>1, <4>2 DEF CommitInv
    <3>7. SearchInv(t)' /\ WriteInv(t)' BY <2>1, <2>5, <2>6 DEF SearchInv, WriteInv
    <3> QED BY <3>3, <3>4, <3>5, <3>6, <3>7 DEF TxInv
  <2> QED BY <2>11, <2>15, <2>16, <2>17, <2>18, OneStep
<1> QED BY <1>4, <1>6a, <1>7, <1>8, <1>9

\* A transaction without a TID can still draw one.
LEMMA RoomForTid ==
  ASSUME tx \in [Txns -> TxRec], NEW t \in Txns, tx[t].tid = MIN_TID
  PROVE  Drawn \in Nat /\ Drawn + 1 < NumIds
<1>1. IsFiniteSet(Txns) /\ Cardinality(Txns) = NTxns
  <2>1. NTxns \in Nat /\ 1 \in Int /\ NTxns \in Int BY Numbers
  <2>2. /\ IsFiniteSet(1..NTxns)
        /\ Cardinality(1..NTxns) = IF 1 > NTxns THEN 0 ELSE NTxns - 1 + 1
    BY <2>1, FS_Interval
  <2> QED BY <2>1, <2>2 DEF Txns
<1>2. IsFiniteSet(Numbered) /\ Cardinality(Numbered) \in Nat /\ Drawn \in Nat BY DrawnFacts
<1>3. t \notin Numbered /\ Numbered \union {t} \in SUBSET Txns BY DEF Numbered
<1>4. Cardinality(Numbered \union {t}) = Cardinality(Numbered) + 1 BY <1>2, <1>3, FS_AddElement
<1>5. Cardinality(Numbered \union {t}) <= NTxns BY <1>1, <1>3, FS_Subset
<1>6. Cardinality(Numbered) + 1 <= NTxns BY <1>4, <1>5
<1> QED BY <1>2, <1>6, Numbers DEF Drawn

LEMMA GenerateStep ==
  ASSUME Inv, NEW t \in Txns, gen_commit_tid(t)
  PROVE  Inv'
<1> DEFINE q == tx[t]
           S == SeenTids(t)
           tid == MakeTid(t, NumId(Max(S \union {MakeTid(0, 0, tick)})) + 1, tick)
           r == [q EXCEPT !.pc = "validate", !.tid = tid]
           W == WriteTuples(t)
<1>0. Types /\ TidInv /\ IndexInv /\ TxInv(t) BY DEF Inv
<1>1. q.pc = "lock" /\ q.lockq = {} /\ UNCHANGED dbVars /\ tx' = [tx EXCEPT ![t] = r]
  BY DEF gen_commit_tid, At, Becomes
<1>2. q \in TxRec /\ q.pc \in Running /\ q.pc \in Running \ {"validate"} /\ q.tid = MIN_TID
  <2>1. q.pc \in Running /\ q.pc \in Running \ {"validate"} BY <1>1 DEF Running
  <2> QED BY <1>0, <2>1, TxFacts DEF TidInv
<1>3. Drawn \in Nat /\ Drawn + 1 < NumIds BY <1>0, <1>2, RoomForTid DEF Types
<1>4. ASSUME NEW v \in W
      PROVE  Ready(t, v) /\ (v \in Inserted(t) \/ tup[v].version # MAX_TID) /\ v \in Tuples
  BY <1>0, <1>1, EntryFacts DEF TxInv, CommitInv
<1>5. ASSUME NEW v \in S PROVE TidUpTo(v, tick, Drawn)
  <2>1. CASE \E i \in DOMAIN q.rset : v = q.rset[i].tid
    <3>1. IsTid(v) BY <2>1, ReadTids
    <3> QED BY <3>1 DEF IsTid
  <2>2. CASE \E u \in W \ Inserted(t) : v = tup[u].version
    <3>1. PICK u \in W \ Inserted(t) : v = tup[u].version BY <2>2
    <3>2. IsTid(tup[u].version) BY <1>4, VersionIsTid
    <3> QED BY <3>1, <3>2 DEF IsTid
  <2> QED BY <2>1, <2>2 DEF SeenTids
<1>6. tick \in 1..MaxTick /\ tick \in Nat BY <1>0, Numbers DEF Types
<1>7. TidUpTo(tid, tick, Drawn + 1) /\ tid # MIN_TID /\ \A v \in S : v < tid
  <2> HIDE DEF S
  <2> QED BY <1>3, <1>5, <1>6, Generated
<1>8. \A u \in W \ Inserted(t) : tup[u].version < tid
  <2> HIDE DEF tid
  <2>1. \A u \in W \ Inserted(t) : tup[u].version \in S BY DEF SeenTids
  <2> QED BY <1>7, <2>1
<1> HIDE DEF tid, S
<1>9. tid \in Nat
  <2>1. tick \in 0..MaxTick /\ Drawn + 1 \in Nat BY <1>3, <1>6, Numbers
  <2> QED BY <1>3, <1>7, <2>1, TidBound
<1>10. r \in TxRec
  <2>1. "validate" \in Pcs BY DEF Pcs, Running
  <2> QED BY <1>2, <1>9, <2>1 DEF TxRec
<1>11. /\ r.pc = "validate" /\ r.wset = q.wset /\ r.locked = q.locked /\ r.tid = tid /\ r.rset = q.rset
  BY <1>2 DEF TxRec
<1> HIDE DEF r
<1>12. tx' \in [Txns -> TxRec] /\ tx'[t] = r /\ \A s \in Txns \ {t} : tx'[s] = tx[s]
  BY <1>0, <1>1, <1>10 DEF Types
<1>13. /\ tup' = tup /\ tree' = tree /\ leaf' = leaf /\ ntup' = ntup /\ tick' = tick
  BY <1>1 DEF dbVars
<1>14. Types' BY <1>0, <1>12, <1>13 DEF Types
<1>15. IndexInv' BY <1>0, <1>13 DEF IndexInv, Linked
<1>16. Frame({t})
  <2>1. ntup <= ntup' BY <1>0, <1>13, Numbers DEF Types
  <2> QED BY <1>12, <1>13, <2>1 DEF Frame
<1>17. Drawn' = Drawn + 1
  <2>1. Numbered' = Numbered \union {t} /\ t \notin Numbered
    BY <1>2, <1>7, <1>11, <1>12 DEF Numbered
  <2>2. IsFiniteSet(Numbered) /\ Cardinality(Numbered) \in Nat BY <1>0, DrawnFacts DEF Types
  <2>3. Cardinality(Numbered \union {t}) = Cardinality(Numbered) + 1 BY <2>1, <2>2, FS_AddElement
  <2> QED BY <2>1, <2>2, <2>3 DEF Drawn
<1>18. ASSUME NEW v, IsTid(v) PROVE TidUpTo(v, tick', Drawn')
  <2>1. Drawn <= Drawn + 1 /\ Drawn + 1 \in Nat /\ tick <= tick BY <1>3, <1>6
  <2>2. TidUpTo(v, tick, Drawn) BY <1>18 DEF IsTid
  <2>3. TidUpTo(v, tick, Drawn + 1) BY <1>3, <1>6, <2>1, <2>2, TidLater
  <2> QED BY <1>13, <1>17, <2>3
<1>19. TidInv'
  <2>1. \A u \in Tuples : tup'[u].version = MAX_TID \/ TidUpTo(tup'[u].version, tick', Drawn')
    BY <1>0, <1>13, <1>18 DEF TidInv
  <2>2. ASSUME NEW s \in Txns PROVE TidUpTo(tx'[s].tid, tick', Drawn')
    <3>1. CASE s = t
      <4>1. TidUpTo(tid, tick', Drawn') BY <1>7, <1>13, <1>17
      <4> QED BY <1>11, <1>12, <3>1, <4>1
    <3>2. CASE s # t
      <4>1. IsTid(tx[s].tid) /\ tx'[s].tid = tx[s].tid BY <1>0, <1>12, <3>2 DEF TidInv
      <4> QED BY <1>18, <4>1
    <3> QED BY <3>1, <3>2
  <2>3. ASSUME NEW s \in Txns, NEW i \in DOMAIN tx'[s].rset PROVE TidUpTo(tx'[s].rset[i].tid, tick', Drawn')
    <3>1. tx'[s].rset = tx[s].rset BY <1>11, <1>12
    <3>2. IsTid(tx[s].rset[i].tid) BY <2>3, <3>1, ReadTids
    <3> QED BY <1>18, <3>1, <3>2
  <2>4. \A s \in Txns : tx'[s].pc \in Running \ {"validate"} => tx'[s].tid = MIN_TID
    BY <1>0, <1>11, <1>12 DEF TidInv
  <2> QED BY <2>1, <2>2, <2>3, <2>4 DEF TidInv, IsTid
<1>20. TxInv(t)'
  <2>1. Inserted(t)' = Inserted(t) /\ WriteTuples(t)' = W BY <1>11, <1>12, SameWrites
  <2>2. EntryInv(t)' BY <1>0, <1>11, <1>12, <1>13 DEF TxInv, EntryInv
  <2>3. LockInv(t)' BY <1>0, <1>11, <1>12, <1>13 DEF TxInv, LockInv
  <2>4. InsertInv(t)'
    <3>1. \A v \in Inserted(t) : v \in q.locked /\ Tentative(t, v)
      BY <1>0, <1>2 DEF TxInv, InsertInv
    <3> QED BY <1>11, <1>12, <1>13, <2>1, <3>1 DEF InsertInv, Tentative
  <2>5. CommitInv(t)'
    <3>1. \A v \in W : Ready(t, v)' /\ (v \in Inserted(t) \/ tup'[v].version < tid)
      BY <1>4, <1>8, <1>11, <1>12, <1>13 DEF Ready
    <3> QED BY <1>11, <1>12, <2>1, <3>1 DEF CommitInv
  <2>6. SearchInv(t)' /\ WriteInv(t)' BY <1>11, <1>12 DEF SearchInv, WriteInv
  <2> QED BY <2>2, <2>3, <2>4, <2>5, <2>6 DEF TxInv
<1> QED BY <1>14, <1>15, <1>16, <1>19, <1>20, OneStep

-----------------------------------------------------------------------------
(* The writes.                                                             *)

\* What the write phase knows of the entry it writes.
LEMMA WriteFacts ==
  ASSUME Inv, NEW t \in Txns, tx[t].pc = "write", tx[t].i <= Len(tx[t].wset)
  PROVE  LET i == tx[t].i
             e == tx[t].wset[i]
         IN  /\ i \in DOMAIN tx[t].wset /\ e \in WriteRec /\ e.tup \in Tuples /\ e.tup <= ntup
             /\ e.key \in Keys /\ e.val \in Int /\ e.ins \in BOOLEAN
             /\ tup[e.tup].key = e.key /\ tup[e.tup].owner = t /\ tup[e.tup].latest
             /\ e.ins => e.tup \in Inserted(t)
<1> DEFINE i == tx[t].i
           e == tx[t].wset[i]
<1>0. Types /\ TxInv(t) BY DEF Inv
<1>1. tx[t].wset \in Seq(WriteRec) /\ i \in Nat \ {0} BY <1>0, TxFacts
<1>2. i \in DOMAIN tx[t].wset BY <1>1
<1>3. /\ e \in WriteRec /\ e.tup \in Tuples /\ e.key \in Keys /\ e.ins \in BOOLEAN
      /\ e.ins => e.tup \in Inserted(t)
  BY <1>0, <1>2, EntryFacts
<1>4. e.val \in Int BY <1>3 DEF WriteRec
<1>5. e.tup <= ntup /\ tup[e.tup].key = e.key BY <1>0, <1>2 DEF TxInv, EntryInv
<1>6. i <= i BY <1>1
<1>7. e.tup \in tx[t].locked /\ tup[e.tup].latest BY <1>0, <1>2, <1>6 DEF TxInv, WriteInv
<1>8. tup[e.tup].owner = t BY <1>0, <1>3, <1>7 DEF TxInv, LockInv
<1> QED BY <1>2, <1>3, <1>4, <1>5, <1>7, <1>8

\* One entry is written: only its tuple changes, and one new tuple; nobody
\* loses a lock; the version is the old one or the TID; and what a later entry
\* needs is still there.
WroteOne(t, e, last) ==
  /\ tx[t].pc = "write" /\ tx[t].i <= Len(tx[t].wset) /\ e = tx[t].wset[tx[t].i]
  /\ tx' = [tx EXCEPT ![t] = [tx[t] EXCEPT !.i = @ + 1]]
  /\ UNCHANGED tick /\ ntup <= ntup'
  /\ last => \A j \in DOMAIN tx[t].wset : tx[t].i < j => tx[t].wset[j].tup # e.tup
  /\ \A v \in Tuples : /\ tup'[v].owner = tup[v].owner
                       /\ v <= ntup => tup'[v].key = tup[v].key
                       /\ v <= ntup /\ v # e.tup => tup'[v] = tup[v]
                       /\ tup'[v].version \in {tup[v].version, tx[t].tid}
  /\ tup'[e.tup].latest = tup[e.tup].latest \/ last
  /\ tup'[e.tup].version = tup[e.tup].version \/ e.ins \/ last
  /\ e.ins => tup'[e.tup].version = tx[t].tid

LEMMA WriteOne ==
  ASSUME Inv, NEW t \in Txns, NEW e, NEW last \in BOOLEAN, WroteOne(t, e, last), Types', IndexInv'
  PROVE  Inv'
<1> DEFINE q == tx[t]
           w == q.wset
           i == q.i
           n == i + 1
           r == [q EXCEPT !.i = n]
           u == e.tup
<1>0. Types /\ TidInv /\ IndexInv /\ TxInv(t) BY DEF Inv
<1>1. /\ i \in DOMAIN w /\ u \in Tuples /\ u <= ntup /\ tup[u].owner = t /\ tup[u].latest
      /\ e.ins \in BOOLEAN /\ (e.ins => u \in Inserted(t))
  BY WriteFacts DEF WroteOne
<1>2. q \in TxRec /\ i \in Nat /\ n \in Nat \ {0} /\ i < n BY <1>0, TxFacts
<1>2a. /\ \A v \in Tuples : tup'[v].owner = tup[v].owner
       /\ \A v \in Tuples : v <= ntup => tup'[v].key = tup[v].key
       /\ \A v \in Tuples : v <= ntup /\ v # u => tup'[v] = tup[v]
       /\ \A v \in Tuples : tup'[v].version \in {tup[v].version, q.tid}
       /\ e = w[i] /\ q.pc = "write" /\ tick' = tick /\ ntup <= ntup'
  <2>1. /\ \A v \in Tuples : tup'[v].owner = tup[v].owner
        /\ \A v \in Tuples : v <= ntup => tup'[v].key = tup[v].key
    BY Zenon DEF WroteOne
  <2>2. \A v \in Tuples : v <= ntup /\ v # u => tup'[v] = tup[v] BY Zenon DEF WroteOne
  <2>3. \A v \in Tuples : tup'[v].version \in {tup[v].version, q.tid} BY Zenon DEF WroteOne
  <2>4. e = w[i] /\ q.pc = "write" /\ tick' = tick /\ ntup <= ntup' BY DEF WroteOne
  <2> QED BY <2>1, <2>2, <2>3, <2>4
<1>2b. /\ last => \A j \in DOMAIN w : i < j => w[j].tup # u
       /\ tup'[u].latest = tup[u].latest \/ last
       /\ tup'[u].version = tup[u].version \/ e.ins \/ last
       /\ e.ins => tup'[u].version = q.tid
  BY DEF WroteOne
<1>3. tx' = [tx EXCEPT ![t] = r] BY DEF WroteOne
<1> HIDE DEF n
<1>4. r \in TxRec BY <1>2 DEF TxRec
<1>5. /\ r.pc = "write" /\ r.wset = w /\ r.locked = q.locked /\ r.tid = q.tid /\ r.rset = q.rset
      /\ r.i = n
  BY <1>2, <1>2a DEF TxRec
<1> HIDE DEF r
<1>6. tx'[t] = r /\ \A s \in Txns \ {t} : tx'[s] = tx[s] BY <1>0, <1>3 DEF Types
<1>7. Inserted(t)' = Inserted(t) BY <1>5, <1>6, SameWrites
<1>8. ntup \in Nat BY <1>0, Numbers DEF Types
<1>9. ASSUME NEW v \in Tuples, NEW s \in Txns, s # t, tup[v].owner = s PROVE tup'[v] = tup[v]
  <2>1. s # 0 BY Numbers DEF Txns
  <2>2. v # u BY <1>1, <1>9
  <2>3. v <= ntup BY <1>0, <1>9, <2>1, TupleFacts DEF IndexInv
  <2> QED BY <1>2a, <2>2, <2>3
<1>10. Frame({t})
  <2>1. ASSUME NEW v \in Tuples, NEW s \in Txns \ {t}, tup[v].owner = s \/ tup'[v].owner = s
        PROVE  tup'[v] = tup[v]
    BY <1>2a, <1>9, <2>1
  <2> QED BY <1>2a, <1>6, <2>1 DEF Frame
<1>11. TidInv'
  <2>1. \A s \in Txns : tx'[s].tid = tx[s].tid BY <1>5, <1>6
  <2>2. \A v \in Tuples : tup'[v].version = MAX_TID \/ IsTid(tup'[v].version)
    BY <1>0, <1>2a DEF TidInv
  <2>3. \A s \in Txns : \A k \in DOMAIN tx'[s].rset : IsTid(tx'[s].rset[k].tid)
    BY <1>0, <1>5, <1>6 DEF TidInv
  <2>4. \A s \in Txns : tx'[s].pc \in Running \ {"validate"} => tx'[s].tid = MIN_TID
    BY <1>0, <1>2a, <1>5, <1>6, <2>1 DEF TidInv
  <2>5. tick <= tick' BY <1>0, <1>2a, Numbers DEF Types
  <2> QED BY <2>1, <2>2, <2>3, <2>4, <2>5, TidStep
<1>12. ASSUME NEW j \in DOMAIN w
       PROVE  /\ j \in Nat /\ w[j].tup \in Tuples /\ w[j].tup <= ntup /\ w[j].tup \in q.locked
              /\ w[j].ins \in BOOLEAN
              /\ i <= j => /\ tup[w[j].tup].latest
                           /\ w[j].tup \in Inserted(t) \/ tup[w[j].tup].version < q.tid
              /\ w[j].ins => tup[w[j].tup].version = IF j < i THEN q.tid ELSE MAX_TID
              /\ w[j].tup # u => tup'[w[j].tup] = tup[w[j].tup]
  <2>1. j \in Nat /\ w[j].tup \in Tuples /\ w[j].ins \in BOOLEAN BY <1>0, EntryFacts
  <2>2. w[j].tup <= ntup BY <1>0 DEF TxInv, EntryInv
  <2>3. /\ w[j].tup \in q.locked
        /\ i <= j => /\ tup[w[j].tup].latest
                     /\ w[j].tup \in Inserted(t) \/ tup[w[j].tup].version < q.tid
        /\ w[j].ins => tup[w[j].tup].version = IF j < i THEN q.tid ELSE MAX_TID
    BY <1>0, <1>2a DEF TxInv, WriteInv
  <2>4. w[j].tup # u => tup'[w[j].tup] = tup[w[j].tup] BY <1>2a, <2>1, <2>2
  <2> QED BY <2>1, <2>2, <2>3, <2>4
<1>13. WriteInv(t)'
  <2>1. ASSUME NEW j \in DOMAIN w, n <= j
        PROVE  /\ tup'[w[j].tup].latest
               /\ w[j].tup \in Inserted(t) \/ tup'[w[j].tup].version < q.tid
    <3>1. i < j /\ i <= j BY <1>2, <1>12, <2>1 DEF n
    <3>2. CASE w[j].tup # u BY <1>12, <3>1, <3>2
    <3>3. CASE w[j].tup = u
      <4>1. ~last BY <1>2b, <3>1, <3>3
      <4>2. tup'[u].latest BY <1>1, <1>2b, <4>1
      <4>3. CASE e.ins BY <1>1, <3>3, <4>2, <4>3
      <4>4. CASE ~e.ins
        <5>1. tup'[u].version = tup[u].version BY <1>2b, <4>1, <4>4
        <5> QED BY <1>12, <3>1, <3>3, <4>2, <5>1
      <4> QED BY <4>3, <4>4
    <3> QED BY <3>2, <3>3
  <2>2. ASSUME NEW j \in DOMAIN w, w[j].ins
        PROVE  tup'[w[j].tup].version = IF j < n THEN q.tid ELSE MAX_TID
    <3>0. j \in Nat /\ (j < n <=> j < i \/ j = i) BY <1>2, <1>12 DEF n
    <3>1. CASE j = i BY <1>2a, <1>2b, <2>2, <3>0, <3>1
    <3>2. CASE j # i /\ w[j].tup # u BY <1>12, <2>2, <3>0, <3>2
    <3>3. CASE j # i /\ w[j].tup = u
      <4>0. \A a, b \in DOMAIN w : b < a /\ w[a].ins => w[b].tup # w[a].tup
        BY <1>0 DEF TxInv, EntryInv
      <4>1. ~(i < j) BY <1>1, <1>2a, <2>2, <3>3, <4>0
      <4>2. j < i BY <1>2, <3>0, <3>3, <4>1
      <4>3. tup[u].version = q.tid BY <1>12, <2>2, <3>3, <4>2
      <4>4. tup'[u].version = q.tid BY <1>1, <1>2a, <4>3
      <4> QED BY <3>0, <3>3, <4>2, <4>4
    <3> QED BY <3>1, <3>2, <3>3
  <2>3. \A j \in DOMAIN w : w[j].tup \in q.locked BY <1>12
  <2> QED BY <1>5, <1>6, <1>7, <2>1, <2>2, <2>3 DEF WriteInv
<1>14. EntryInv(t)'
  <2>1. ntup' \in Nat BY Numbers DEF Types
  <2>2. ASSUME NEW j \in DOMAIN w PROVE w[j].tup <= ntup' /\ tup'[w[j].tup].key = w[j].key
    <3>1. w[j].tup \in Tuples /\ w[j].tup <= ntup /\ tup[w[j].tup].key = w[j].key
      BY <1>0, <1>12 DEF TxInv, EntryInv
    <3>2. w[j].tup \in Nat BY <1>0, <3>1, TupleFacts
    <3>3. ASSUME NEW a \in Nat, a <= ntup PROVE a <= ntup' BY <1>2a, <1>8, <2>1, <3>3
    <3>4. w[j].tup <= ntup' BY <3>1, <3>2, <3>3, Zenon
    <3> QED BY <1>2a, <3>1, <3>4
  <2> QED BY <1>0, <1>5, <1>6, <2>2 DEF TxInv, EntryInv
<1>15. LockInv(t)' BY <1>0, <1>2a, <1>5, <1>6 DEF TxInv, LockInv
<1>16. SearchInv(t)' /\ InsertInv(t)' /\ CommitInv(t)'
  BY <1>5, <1>6 DEF SearchInv, InsertInv, CommitInv, Running
<1>17. TxInv(t)' BY <1>13, <1>14, <1>15, <1>16 DEF TxInv
<1> QED BY <1>10, <1>11, <1>17, OneStep

\* One tuple of the write set changes, and no other.
LEMMA ChangeTuple ==
  ASSUME Types, NEW u \in Tuples, NEW n \in TupleRec, tup' = [tup EXCEPT ![u] = n]
  PROVE  /\ tup' \in [Tuples -> TupleRec] /\ tup'[u] = n
         /\ \A v \in Tuples : v # u => tup'[v] = tup[v]
BY DEF Types

LEMMA WriteStep ==
  ASSUME Inv, NEW t \in Txns, Write(t)
  PROVE  Inv'
<1> DEFINE q == tx[t]
           i == q.i
           e == q.wset[i]
           u == e.tup
           m == i + 1
           r == [q EXCEPT !.i = m]
<1>0. Types /\ TidInv /\ IndexInv /\ TxInv(t) BY DEF Inv
<1>1. /\ q.pc = "write" /\ i <= Len(q.wset) /\ UNCHANGED <<tick, leaf>>
      /\ tx' = [tx EXCEPT ![t] = [q EXCEPT !.i = @ + 1]]
  BY DEF Write, At, Becomes
<1>2. \/ do_write(t, i) /\ (WriteInsert(t) \/ WriteInPlace(t) \/ WriteReplace(t))
      \/ ~do_write(t, i) /\ UNCHANGED <<tup, tree, ntup, gcq>>
  BY DEF Write
<1>3. /\ i \in DOMAIN q.wset /\ u \in Tuples /\ u <= ntup
      /\ e.key \in Keys /\ e.val \in Int /\ e.ins \in BOOLEAN
      /\ tup[u].key = e.key /\ tup[u].owner = t /\ tup[u].latest
  BY <1>1, WriteFacts
<1>4. /\ q \in TxRec /\ q.tid \in Nat /\ m \in Nat \ {0} /\ ntup \in Nat /\ Tuples \subseteq Nat
      /\ tup[u] \in TupleRec
  <2>1. q \in TxRec /\ q.tid \in Nat /\ i \in Nat BY <1>0, TxFacts
  <2>2. m \in Nat \ {0} BY <2>1
  <2>3. ntup \in Nat /\ tup[u] \in TupleRec BY <1>0, <1>3, TupleFacts
  <2>4. Tuples \subseteq Nat BY Numbers DEF Tuples
  <2> QED BY <2>1, <2>2, <2>3, <2>4
<1>5. tx' \in [Txns -> TxRec]
  <2>1. tx' = [tx EXCEPT ![t] = r] BY <1>1
  <2> HIDE DEF m
  <2>2. r \in TxRec BY <1>4 DEF TxRec
  <2> QED BY <1>0, <2>1, <2>2 DEF Types
<1>6. ~e.ins /\ do_write(t, i) => \A j \in DOMAIN q.wset : i < j => q.wset[j].tup # u
  <2>1. ASSUME NEW j \in DOMAIN q.wset, i < j PROVE j > i
    <3>1. j \in Nat /\ i \in Nat BY <1>0, TxFacts, EntryFacts
    <3> QED BY <2>1, <3>1
  <2> QED BY <2>1, Zenon DEF do_write
<1>7. CASE ~do_write(t, i) /\ UNCHANGED <<tup, tree, ntup, gcq>>
  <2>1. e.ins = FALSE BY <1>3, <1>7 DEF do_write
  <2>2. ntup <= ntup' BY <1>4, <1>7
  <2>3. WroteOne(t, e, FALSE) BY <1>1, <1>7, <2>1, <2>2 DEF WroteOne
  <2>4. Types' BY <1>0, <1>1, <1>5, <1>7 DEF Types
  <2>5. IndexInv' BY <1>0, <1>1, <1>7 DEF IndexInv, Linked
  <2> QED BY <2>3, <2>4, <2>5, WriteOne
<1>8. CASE do_write(t, i) /\ WriteInsert(t)
  <2> DEFINE n == [tup[u] EXCEPT !.version = q.tid]
  <2>1. e.ins /\ tup' = [tup EXCEPT ![u] = n] /\ UNCHANGED <<tree, ntup, gcq>>
    BY <1>8 DEF WriteInsert
  <2>2. /\ n \in TupleRec /\ n.owner = tup[u].owner /\ n.latest = tup[u].latest
        /\ n.key = tup[u].key /\ n.version = q.tid
    BY <1>4 DEF TupleRec
  <2> HIDE DEF n
  <2>3. /\ tup' \in [Tuples -> TupleRec] /\ tup'[u] = n
        /\ \A v \in Tuples : v # u => tup'[v] = tup[v]
    BY <1>0, <1>3, <2>1, <2>2, ChangeTuple
  <2>4. ntup <= ntup'
    <3>1. ntup \in Nat /\ ntup' = ntup BY <1>4, <2>1
    <3> QED BY ONLY <3>1
  <2>5. \A v \in Tuples : /\ tup'[v].owner = tup[v].owner /\ tup'[v].latest = tup[v].latest
                          /\ tup'[v].key = tup[v].key
                          /\ tup'[v].version \in {tup[v].version, q.tid}
    BY <2>2, <2>3
  <2>6. WroteOne(t, e, FALSE) BY <1>1, <1>3, <2>1, <2>2, <2>3, <2>4, <2>5 DEF WroteOne
  <2>7. Types' BY <1>0, <1>1, <1>5, <2>1, <2>3 DEF Types
  <2>8. IndexInv'
    <3>1. \A v \in Tuples : v > ntup => tup'[v].owner = 0 BY <1>0, <2>5 DEF IndexInv
    <3> QED BY <1>0, <1>1, <2>1, <2>5, <3>1, IndexSame
  <2> QED BY <2>6, <2>7, <2>8, WriteOne
<1>9. CASE do_write(t, i) /\ WriteInPlace(t)
  <2> DEFINE n == [tup[u] EXCEPT !.version = q.tid, !.val = e.val]
  <2>1. ~e.ins /\ tup' = [tup EXCEPT ![u].version = q.tid, ![u].val = e.val] /\ UNCHANGED <<tree, ntup>>
    BY <1>9 DEF WriteInPlace
  <2>1a. tup' = [tup EXCEPT ![u] = n] BY <1>0, <1>3, <2>1 DEF Types
  <2>2. /\ n \in TupleRec /\ n.owner = tup[u].owner /\ n.latest = tup[u].latest
        /\ n.key = tup[u].key /\ n.version = q.tid
    BY <1>3, <1>4 DEF TupleRec
  <2> HIDE DEF n
  <2>3. /\ tup' \in [Tuples -> TupleRec] /\ tup'[u] = n
        /\ \A v \in Tuples : v # u => tup'[v] = tup[v]
    BY <1>0, <1>3, <2>1a, <2>2, ChangeTuple
  <2>4. ntup <= ntup'
    <3>1. ntup \in Nat /\ ntup' = ntup BY <1>4, <2>1
    <3> QED BY ONLY <3>1
  <2>5. \A v \in Tuples : /\ tup'[v].owner = tup[v].owner /\ tup'[v].latest = tup[v].latest
                          /\ tup'[v].key = tup[v].key
                          /\ tup'[v].version \in {tup[v].version, q.tid}
    BY <2>2, <2>3
  <2>6. WroteOne(t, e, TRUE) BY <1>1, <1>3, <1>6, <1>9, <2>1, <2>2, <2>3, <2>4, <2>5 DEF WroteOne
  <2>7. Types' BY <1>0, <1>1, <1>5, <2>1, <2>3 DEF Types
  <2>8. IndexInv'
    <3>1. \A v \in Tuples : v > ntup => tup'[v].owner = 0 BY <1>0, <2>5 DEF IndexInv
    <3> QED BY <1>0, <1>1, <2>1, <2>5, <3>1, IndexSame
  <2> QED BY <2>6, <2>7, <2>8, WriteOne
<1>10. CASE do_write(t, i) /\ WriteReplace(t)
  <2> DEFINE h == ntup + 1
             n == NewTuple(e.key, q.tid, e.val, 0)
             o == [tup[u] EXCEPT !.latest = FALSE]
  <2>1. /\ ~e.ins /\ ntup < MaxTuples /\ ntup' = h /\ tree' = [tree EXCEPT ![e.key] = h]
        /\ tup' = [tup EXCEPT ![h] = n, ![u].latest = FALSE]
    BY <1>10 DEF WriteReplace
  <2>2. h \in Tuples /\ h # u /\ h > ntup /\ h \in 0..MaxTuples /\ ntup <= h
    <3>1. ASSUME NEW a \in Nat, a <= ntup PROVE h # a BY <1>4, <3>1
    <3>2. h # u BY <1>3, <1>4, <3>1, Zenon
    <3>3. h \in Tuples /\ h > ntup /\ h \in 0..MaxTuples /\ ntup <= h
      <4>1. ntup \in Nat /\ ntup < MaxTuples BY <1>4, <2>1
      <4> QED BY ONLY <4>1, Numbers DEF Tuples
    <3> QED BY <3>2, <3>3
  <2>3. n \in TupleRec /\ n.key = e.key /\ n.latest = TRUE /\ n.owner = 0 /\ n.version = q.tid
    <3>1. 0 \in 0..NTxns /\ e.key \in Keys \union {0} /\ TRUE \in BOOLEAN BY <1>3, Numbers
    <3>2. n = [key |-> e.key, version |-> q.tid, val |-> e.val, owner |-> 0, latest |-> TRUE]
      BY DEF NewTuple
    <3> HIDE DEF n
    <3> QED BY <1>3, <1>4, <3>1, <3>2 DEF TupleRec
  <2>4. o \in TupleRec /\ o.key = tup[u].key /\ o.latest = FALSE /\ o.owner = tup[u].owner
        /\ o.version = tup[u].version
    BY <1>4 DEF TupleRec
  <2> HIDE DEF n
  <2>5. tup' = [tup EXCEPT ![h] = n, ![u] = o] BY <1>0, <1>3, <2>1, <2>2 DEF Types
  <2> HIDE DEF o, h
  <2>6. /\ tup' \in [Tuples -> TupleRec] /\ tup'[u] = o /\ tup'[h] = n
        /\ \A v \in Tuples : v # u /\ v # h => tup'[v] = tup[v]
    BY <1>0, <1>3, <2>2, <2>3, <2>4, <2>5 DEF Types
  <2>7. tup[h].owner = 0 BY <1>0, <2>2 DEF IndexInv
  <2>8. \A v \in Tuples : v <= ntup => v # h
    <3>1. ASSUME NEW v \in Nat, v <= ntup PROVE v # h BY ONLY <1>4, <3>1 DEF h
    <3> QED BY <1>4, <3>1
  <2>9. \A v \in Tuples : /\ tup'[v].owner = tup[v].owner
                          /\ v <= ntup => tup'[v].key = tup[v].key
                          /\ v <= ntup /\ v # u => tup'[v] = tup[v]
                          /\ tup'[v].version \in {tup[v].version, q.tid}
    BY <2>3, <2>4, <2>6, <2>7, <2>8
  <2>10. WroteOne(t, e, TRUE)
    BY <1>1, <1>3, <1>6, <1>10, <2>1, <2>2, <2>4, <2>6, <2>9 DEF WroteOne
  <2>11. Types'
    <3>1. tree' \in [Keys -> 0..MaxTuples] BY <1>0, <2>1, <2>2 DEF Types
    <3> QED BY <1>0, <1>1, <1>5, <2>1, <2>2, <2>6, <3>1 DEF Types
  <2>12. IndexInv'
    <3>1. /\ ntup' = ntup + 1 /\ tree' = [tree EXCEPT ![tup[u].key] = ntup + 1]
          /\ n.key = tup[u].key /\ n.latest = TRUE /\ tup'[ntup + 1] = n
          /\ \A v \in Tuples : v # u /\ v # ntup + 1 => tup'[v] = tup[v]
      BY <1>3, <2>1, <2>3, <2>6 DEF h
    <3>2. tup'[u].key = tup[u].key /\ tup'[u].latest = FALSE BY <2>4, <2>6
    <3> QED BY <1>0, <1>1, <1>3, <2>1, <3>1, <3>2, IndexReplace
  <2> QED BY <2>10, <2>11, <2>12, WriteOne
<1> QED BY <1>2, <1>7, <1>8, <1>9, <1>10

\* A transaction that is writing or aborting drops locks: its tuples keep their
\* keys and versions, and the tuples of the others do not change.
Dropped(t, l, pc) ==
  /\ tx[t].pc \in {"write", "abort"} /\ pc \in {"committed", "abort"} /\ l \subseteq tx[t].locked
  /\ tx' = [tx EXCEPT ![t] = [tx[t] EXCEPT !.pc = pc, !.locked = l]]
  /\ UNCHANGED <<tick, ntup>>
  /\ \A v \in Tuples : /\ tup'[v].key = tup[v].key /\ tup'[v].version = tup[v].version
                       /\ tup[v].owner # t \/ v \in l => tup'[v] = tup[v]
                       /\ tup[v].owner = t /\ v \notin l => tup'[v].owner = 0
  /\ pc = "abort" => tx[t].pc = "abort"

LEMMA DropStep ==
  ASSUME Inv, NEW t \in Txns, NEW l, NEW pc, Dropped(t, l, pc),
         IndexInv', tup' \in [Tuples -> TupleRec], tree' \in [Keys -> 0..MaxTuples],
         leaf' \in [v : Nat, size : Int, mod : {"insert", "remove"}]
  PROVE  Inv'
<1> DEFINE q == tx[t]
           r == [q EXCEPT !.pc = pc, !.locked = l]
<1>0. Types /\ TidInv /\ IndexInv /\ TxInv(t) BY DEF Inv
<1>1. /\ q.pc \in {"write", "abort"} /\ pc \in {"committed", "abort"} /\ l \subseteq q.locked
      /\ tx' = [tx EXCEPT ![t] = r] /\ tick' = tick /\ ntup' = ntup
      /\ pc = "abort" => q.pc = "abort"
  BY DEF Dropped
<1>2. \A v \in Tuples : tup'[v].key = tup[v].key /\ tup'[v].version = tup[v].version
  BY DEF Dropped
<1>3. \A v \in Tuples : tup[v].owner # t \/ v \in l => tup'[v] = tup[v] BY DEF Dropped
<1>4. \A v \in Tuples : tup[v].owner = t /\ v \notin l => tup'[v].owner = 0 BY DEF Dropped
<1>5. q \in TxRec /\ q.locked \subseteq Tuples /\ l \in SUBSET Tuples /\ pc \in Pcs
  BY <1>0, <1>1, TxFacts DEF Pcs
<1>6. r \in TxRec /\ r.pc = pc /\ r.wset = q.wset /\ r.locked = l /\ r.tid = q.tid /\ r.rset = q.rset
  <2>1. r \in TxRec BY <1>5 DEF TxRec
  <2>2. r.pc = pc /\ r.wset = q.wset /\ r.locked = l /\ r.tid = q.tid /\ r.rset = q.rset
    BY <1>5 DEF TxRec
  <2> QED BY <2>1, <2>2
<1> HIDE DEF r
<1>7. tx' \in [Txns -> TxRec] /\ tx'[t] = r /\ \A s \in Txns \ {t} : tx'[s] = tx[s]
  BY <1>0, <1>1, <1>6 DEF Types
<1>8. Types' BY <1>0, <1>1, <1>7 DEF Types
<1>9. t # 0 /\ \A s \in Txns : s # 0 BY Numbers DEF Txns
<1>10. \A v \in Tuples : v \in q.locked <=> tup[v].owner = t BY <1>0 DEF TxInv, LockInv
<1>11. Frame({t})
  <2>1. ASSUME NEW v \in Tuples, NEW s \in Txns \ {t}, tup[v].owner = s \/ tup'[v].owner = s
        PROVE  tup'[v] = tup[v]
    BY <1>3, <1>4, <1>9, <2>1
  <2>2. ntup <= ntup' BY <1>0, <1>1, Numbers DEF Types
  <2> QED BY <1>2, <1>7, <2>1, <2>2 DEF Frame
<1>12. TidInv'
  <2>1. \A s \in Txns : tx'[s].tid = tx[s].tid BY <1>6, <1>7
  <2>2. \A v \in Tuples : tup'[v].version = MAX_TID \/ IsTid(tup'[v].version)
    BY <1>0, <1>2 DEF TidInv
  <2>3. \A s \in Txns : \A k \in DOMAIN tx'[s].rset : IsTid(tx'[s].rset[k].tid)
    BY <1>0, <1>6, <1>7 DEF TidInv
  <2>4. pc \notin Running BY <1>1 DEF Running
  <2>5. \A s \in Txns : tx'[s].pc \in Running \ {"validate"} => tx'[s].tid = MIN_TID
    BY <1>0, <1>6, <1>7, <2>1, <2>4 DEF TidInv
  <2>6. tick <= tick' BY <1>0, <1>1, Numbers DEF Types
  <2> QED BY <1>8, <2>1, <2>2, <2>3, <2>5, <2>6, TidStep
<1>13. TxInv(t)'
  <2>1. Inserted(t)' = Inserted(t) /\ WriteTuples(t)' = WriteTuples(t) BY <1>6, <1>7, SameWrites
  <2>2. Inserted(t) \subseteq Tuples BY <1>0, EntryFacts
  <2>3. EntryInv(t)'
    <3>1. \A j \in DOMAIN q.wset : q.wset[j].tup \in Tuples BY <1>0, EntryFacts
    <3> QED BY <1>0, <1>1, <1>2, <1>6, <1>7, <3>1 DEF TxInv, EntryInv
  <2>4. LockInv(t)'
    <3>1. ASSUME NEW v \in Tuples PROVE v \in l <=> tup'[v].owner = t
      BY <1>1, <1>3, <1>4, <1>9, <1>10
    <3> QED BY <1>6, <1>7, <3>1 DEF LockInv
  <2>5. InsertInv(t)'
    <3>1. pc \notin Running BY <1>1 DEF Running
    <3>2. ASSUME pc = "abort", NEW v \in Inserted(t), v \in l PROVE Tentative(t, v)'
      <4>1. q.pc = "abort" /\ v \in q.locked /\ v \in Tuples BY <1>1, <2>2, <3>2
      <4>2. Tentative(t, v) BY <1>0, <3>2, <4>1 DEF TxInv, InsertInv
      <4>3. tup'[v] = tup[v] BY <1>3, <3>2, <4>1
      <4> QED BY <4>2, <4>3 DEF Tentative
    <3> QED BY <1>6, <1>7, <2>1, <3>1, <3>2 DEF InsertInv
  <2>6. SearchInv(t)' /\ CommitInv(t)' /\ WriteInv(t)'
    BY <1>1, <1>6, <1>7 DEF SearchInv, CommitInv, WriteInv
  <2> QED BY <2>3, <2>4, <2>5, <2>6 DEF TxInv
<1> QED BY <1>8, <1>11, <1>12, <1>13, OneStep

LEMMA CommitEndStep ==
  ASSUME Inv, NEW t \in Txns, CommitEnd(t)
  PROVE  Inv'
<1> DEFINE q == tx[t]
<1>0. Types /\ IndexInv /\ TxInv(t) BY DEF Inv
<1>1. /\ q.pc = "write" /\ tup' = Unlock(q.locked) /\ UNCHANGED <<tick, tree, leaf, ntup, gcq>>
      /\ tx' = [tx EXCEPT ![t] = [q EXCEPT !.pc = "committed", !.locked = {}]]
  BY DEF CommitEnd, At, Becomes
<1>2. \A v \in Tuples : v \in q.locked <=> tup[v].owner = t BY <1>0 DEF TxInv, LockInv
<1>3. ASSUME NEW v \in Tuples
      PROVE  /\ tup'[v] \in TupleRec /\ tup'[v].key = tup[v].key /\ tup'[v].version = tup[v].version
             /\ tup'[v].latest = tup[v].latest
             /\ tup[v].owner # t => tup'[v] = tup[v]
             /\ tup[v].owner = t => tup'[v].owner = 0
  <2>0. tup[v] \in TupleRec /\ 0 \in 0..NTxns BY <1>0, TupleFacts, Numbers
  <2>1. CASE tup[v].owner = t
    <3> DEFINE n == [tup[v] EXCEPT !.owner = 0]
    <3>1. tup'[v] = n BY <1>1, <1>2, <2>1 DEF Unlock
    <3>2. /\ n \in TupleRec /\ n.key = tup[v].key /\ n.version = tup[v].version
          /\ n.latest = tup[v].latest /\ n.owner = 0
      BY <2>0 DEF TupleRec
    <3> HIDE DEF n
    <3> QED BY <2>1, <3>1, <3>2
  <2>2. CASE tup[v].owner # t
    <3>1. tup'[v] = tup[v] BY <1>1, <1>2, <2>2 DEF Unlock
    <3> QED BY <2>0, <2>2, <3>1
  <2> QED BY <2>1, <2>2
<1>4. tup' \in [Tuples -> TupleRec] BY <1>1, <1>3 DEF Unlock
<1>5. IndexInv'
  <2>1. ASSUME NEW v \in Tuples, v > ntup PROVE tup'[v].owner = 0
    <3>1. tup[v].owner = 0 BY <1>0, <2>1 DEF IndexInv
    <3> QED BY <1>3, <3>1
  <2> QED BY <1>0, <1>1, <1>3, <2>1, IndexSame
<1>6. Dropped(t, {}, "committed") BY <1>1, <1>3 DEF Dropped
<1>7. /\ tree' \in [Keys -> 0..MaxTuples]
      /\ leaf' \in [v : Nat, size : Int, mod : {"insert", "remove"}]
  BY <1>0, <1>1 DEF Types
<1> QED BY <1>4, <1>5, <1>6, <1>7, DropStep

LEMMA AbortTupleStep ==
  ASSUME Inv, NEW t \in Txns, AbortTuple(t)
  PROVE  Inv'
<1> DEFINE q == tx[t]
           u == Min(q.locked)
           l == q.locked \ {u}
           n == IF u \in Inserted(t) THEN [tup[u] EXCEPT !.owner = 0, !.latest = FALSE]
                                     ELSE [tup[u] EXCEPT !.owner = 0]
<1>0. Types /\ IndexInv /\ TxInv(t) BY DEF Inv
<1>1. /\ q.pc = "abort" /\ q.locked # {} /\ UNCHANGED <<tick, ntup, gcq>>
      /\ tx' = [tx EXCEPT ![t] = [q EXCEPT !.locked = l]]
  BY DEF AbortTuple, At, Becomes
<1>2. /\ u \in Inserted(t) => /\ tree' = [tree EXCEPT ![tup[u].key] = 0]
                              /\ leaf' = finish_remove(leaf)
                              /\ tup' = [Unlock({u}) EXCEPT ![u].latest = FALSE]
      /\ u \notin Inserted(t) => tup' = Unlock({u}) /\ UNCHANGED <<tree, leaf>>
  BY DEF AbortTuple
<1>3. q \in TxRec /\ q.locked \subseteq Tuples /\ Tuples \subseteq Nat
  BY <1>0, TxFacts, Numbers DEF Tuples
<1>4. u \in q.locked /\ u \in Tuples BY <1>1, <1>3, LeastNat
<1> HIDE DEF u
<1>5. tup[u].owner = t /\ \A v \in Tuples : v \in q.locked <=> tup[v].owner = t
  BY <1>0, <1>4 DEF TxInv, LockInv
<1>6. tup' = [tup EXCEPT ![u] = n]
  <2>1. Unlock({u}) = [tup EXCEPT ![u] = [tup[u] EXCEPT !.owner = 0]]
    BY <1>0, <1>4 DEF Unlock, Types
  <2>2. CASE u \in Inserted(t)
    <3> DEFINE x == [tup[u] EXCEPT !.owner = 0]
    <3>1. n = [x EXCEPT !.latest = FALSE] BY <2>2
    <3>2. tup' = [[tup EXCEPT ![u] = x] EXCEPT ![u].latest = FALSE] BY <1>2, <2>1, <2>2
    <3> HIDE DEF x, n
    <3>3. tup' = [tup EXCEPT ![u] = [x EXCEPT !.latest = FALSE]]
      BY <1>0, <1>4, <3>2 DEF Types
    <3> QED BY <3>1, <3>3
  <2>3. CASE u \notin Inserted(t) BY <1>2, <2>1, <2>3
  <2> QED BY <2>2, <2>3
<1>7. /\ n \in TupleRec /\ n.key = tup[u].key /\ n.version = tup[u].version /\ n.owner = 0
      /\ n.latest = IF u \in Inserted(t) THEN FALSE ELSE tup[u].latest
  <2>1. tup[u] \in TupleRec /\ 0 \in 0..NTxns BY <1>0, <1>4, TupleFacts, Numbers
  <2>2. CASE u \in Inserted(t) BY <2>1, <2>2 DEF TupleRec
  <2>3. CASE u \notin Inserted(t) BY <2>1, <2>3 DEF TupleRec
  <2> QED BY <2>2, <2>3
<1> HIDE DEF n
<1>8. /\ tup' \in [Tuples -> TupleRec] /\ tup'[u] = n
      /\ \A v \in Tuples : v # u => tup'[v] = tup[v]
  BY <1>0, <1>4, <1>6, <1>7, ChangeTuple
<1>9. Dropped(t, l, "abort")
  <2>1. [q EXCEPT !.locked = l] = [q EXCEPT !.pc = "abort", !.locked = l]
    <3> HIDE DEF l
    <3> QED BY <1>1, <1>3 DEF TxRec
  <2>2. tx' = [tx EXCEPT ![t] = [q EXCEPT !.pc = "abort", !.locked = l]] BY <1>1, <2>1
  <2>3. ASSUME NEW v \in Tuples
        PROVE  /\ tup'[v].key = tup[v].key /\ tup'[v].version = tup[v].version
               /\ tup[v].owner # t \/ v \in l => tup'[v] = tup[v]
               /\ tup[v].owner = t /\ v \notin l => tup'[v].owner = 0
    <3>1. CASE v = u BY <1>5, <1>7, <1>8, <3>1
    <3>2. CASE v # u BY <1>5, <1>8, <3>2
    <3> QED BY <3>1, <3>2
  <2>4. l \subseteq q.locked OBVIOUS
  <2> HIDE DEF l
  <2> QED BY <1>1, <2>2, <2>3, <2>4 DEF Dropped
<1>10. /\ IndexInv' /\ tree' \in [Keys -> 0..MaxTuples]
       /\ leaf' \in [v : Nat, size : Int, mod : {"insert", "remove"}]
  <2>1. CASE u \in Inserted(t)
    <3>1. tup[u].latest BY <1>0, <1>1, <1>4, <2>1 DEF TxInv, InsertInv, Tentative
    <3>2. tup'[u].key = tup[u].key /\ tup'[u].latest = FALSE BY <1>7, <1>8, <2>1
    <3>3. leaf'.size = leaf.size - 1 /\ leaf' \in [v : Nat, size : Int, mod : {"insert", "remove"}]
      BY <1>0, <1>2, <2>1, LeafRec
    <3>4. IndexInv' BY <1>0, <1>1, <1>2, <1>4, <1>8, <2>1, <3>1, <3>2, <3>3, IndexRemove
    <3>5. tree' \in [Keys -> 0..MaxTuples]
      <4>1. 0 \in 0..MaxTuples BY Numbers
      <4> QED BY <1>0, <1>2, <2>1, <4>1 DEF Types
    <3> QED BY <3>3, <3>4, <3>5
  <2>2. CASE u \notin Inserted(t)
    <3>1. ASSUME NEW v \in Tuples
          PROVE  /\ tup'[v].latest = tup[v].latest /\ tup'[v].key = tup[v].key
                 /\ v > ntup => tup'[v].owner = 0
      <4>1. CASE v = u BY <1>7, <1>8, <2>2, <4>1
      <4>2. CASE v # u BY <1>0, <1>8, <4>2 DEF IndexInv
      <4> QED BY <4>1, <4>2
    <3>2. IndexInv' BY <1>0, <1>1, <1>2, <2>2, <3>1, IndexSame
    <3> QED BY <1>0, <1>2, <2>2, <3>2 DEF Types
  <2> QED BY <2>1, <2>2
<1> HIDE DEF l
<1> QED BY <1>8, <1>9, <1>10, DropStep

-----------------------------------------------------------------------------
(* The ticker and the collector.                                           *)

\* A step that is no transaction's.
LEMMA NobodysStep ==
  ASSUME Inv, Types', IndexInv', tx' = tx, tick <= tick', ntup' = ntup,
         \A v \in Tuples : /\ tup'[v].key = tup[v].key /\ tup'[v].version = tup[v].version
                           /\ tup'[v].owner = tup[v].owner
                           /\ tup[v].owner # 0 => tup'[v] = tup[v]
  PROVE  Inv'
<1>0. Types /\ TidInv BY DEF Inv
<1>1. Frame({})
  <2>1. ASSUME NEW v \in Tuples, NEW s \in Txns, tup[v].owner = s \/ tup'[v].owner = s
        PROVE  tup'[v] = tup[v]
    <3>1. s # 0 BY Numbers DEF Txns
    <3> QED BY <2>1, <3>1
  <2>2. ntup <= ntup' BY <1>0, Numbers DEF Types
  <2> QED BY <2>1, <2>2 DEF Frame
<1>2. TidInv'
  <2>1. \A s \in Txns : tx'[s].tid = tx[s].tid OBVIOUS
  <2>2. \A v \in Tuples : tup'[v].version = MAX_TID \/ IsTid(tup'[v].version)
    BY <1>0 DEF TidInv
  <2>3. \A s \in Txns : \A k \in DOMAIN tx'[s].rset : IsTid(tx'[s].rset[k].tid)
    BY <1>0 DEF TidInv
  <2>4. \A s \in Txns : tx'[s].pc \in Running \ {"validate"} => tx'[s].tid = MIN_TID
    BY <1>0 DEF TidInv
  <2> QED BY <2>1, <2>2, <2>3, <2>4, TidStep
<1>3. ASSUME NEW s \in Txns PROVE TxInv(s)'
  <2>1. s \in Txns \ {} OBVIOUS
  <2> QED BY <1>1, <2>1, FrameTx
<1> QED BY <1>2, <1>3 DEF Inv

LEMMA TickStep ==
  ASSUME Inv, Tick
  PROVE  Inv'
<1>0. Types /\ IndexInv BY DEF Inv
<1>1. tick < MaxTick /\ tick' = tick + 1 /\ UNCHANGED <<tree, leaf, tup, ntup, gcq, tx>> BY DEF Tick
<1>2. tick \in Nat /\ tick' \in 1..MaxTick /\ tick <= tick' BY <1>0, <1>1, Numbers DEF Types
<1>3. Types' BY <1>0, <1>1, <1>2 DEF Types
<1>4. IndexInv' BY <1>0, <1>1 DEF IndexInv, Linked
<1>5. tup' = tup /\ tx' = tx /\ ntup' = ntup BY <1>1
<1> QED BY <1>2, <1>3, <1>4, <1>5, NobodysStep

LEMMA GcDeleteStep ==
  ASSUME Inv, NEW u \in Tuples, GcDelete(u)
  PROVE  Inv'
<1> DEFINE n == [tup[u] EXCEPT !.latest = FALSE]
<1>0. Types /\ IndexInv BY DEF Inv
<1>1. tup[u].owner = 0 /\ UNCHANGED <<tick, ntup, tx>> BY DEF GcDelete
<1>2. \/ /\ tup[u].latest /\ tree' = [tree EXCEPT ![tup[u].key] = 0] /\ leaf' = finish_remove(leaf)
         /\ tup' = [tup EXCEPT ![u] = n]
      \/ UNCHANGED <<tree, leaf, tup>>
  BY DEF GcDelete
<1>3. tick <= tick' BY <1>0, <1>1, Numbers DEF Types
<1>4. CASE UNCHANGED <<tree, leaf, tup>>
  <2>1. Types' BY <1>0, <1>1, <1>4 DEF Types
  <2>2. IndexInv' BY <1>0, <1>1, <1>4 DEF IndexInv, Linked
  <2>3. tup' = tup /\ tx' = tx /\ ntup' = ntup BY <1>1, <1>4
  <2> QED BY <1>3, <2>1, <2>2, <2>3, NobodysStep
<1>5. CASE /\ tup[u].latest /\ tree' = [tree EXCEPT ![tup[u].key] = 0] /\ leaf' = finish_remove(leaf)
           /\ tup' = [tup EXCEPT ![u] = n]
  <2>1. /\ n \in TupleRec /\ n.key = tup[u].key /\ n.version = tup[u].version
        /\ n.owner = tup[u].owner /\ n.latest = FALSE
    <3>1. tup[u] \in TupleRec BY <1>0, TupleFacts
    <3> QED BY <3>1 DEF TupleRec
  <2> HIDE DEF n
  <2>2. /\ tup' \in [Tuples -> TupleRec] /\ tup'[u] = n
        /\ \A v \in Tuples : v # u => tup'[v] = tup[v]
    BY <1>0, <1>5, <2>1, ChangeTuple
  <2>3. leaf'.size = leaf.size - 1 /\ leaf' \in [v : Nat, size : Int, mod : {"insert", "remove"}]
    BY <1>0, <1>5, LeafRec
  <2>4. IndexInv' BY <1>0, <1>1, <1>5, <2>1, <2>2, <2>3, IndexRemove
  <2>5. Types'
    <3>1. 0 \in 0..MaxTuples BY Numbers
    <3>2. tree' \in [Keys -> 0..MaxTuples] BY <1>0, <1>5, <3>1 DEF Types
    <3> QED BY <1>0, <1>1, <2>2, <2>3, <3>2 DEF Types
  <2>6. ASSUME NEW v \in Tuples
        PROVE  /\ tup'[v].key = tup[v].key /\ tup'[v].version = tup[v].version
               /\ tup'[v].owner = tup[v].owner
               /\ tup[v].owner # 0 => tup'[v] = tup[v]
    <3>1. CASE v = u BY <1>1, <2>1, <2>2, <3>1
    <3>2. CASE v # u BY <2>2, <3>2
    <3> QED BY <3>1, <3>2
  <2>7. tx' = tx /\ ntup' = ntup BY <1>1
  <2> QED BY <1>3, <2>4, <2>5, <2>6, <2>7, NobodysStep
<1> QED BY <1>2, <1>4, <1>5

-----------------------------------------------------------------------------
(* The theorems.                                                           *)

\* Every step keeps the invariant.
LEMMA NextStep ==
  ASSUME Inv, [Next]_vars
  PROVE  Inv'
<1>1. CASE UNCHANGED vars
  <2>0. Types /\ IndexInv BY DEF Inv
  <2>1. /\ tick' = tick /\ tree' = tree /\ leaf' = leaf /\ tup' = tup /\ ntup' = ntup /\ tx' = tx
    BY <1>1 DEF vars, dbVars
  <2>2. Types' /\ IndexInv' BY <2>0, <2>1 DEF Types, IndexInv, Linked
  <2>3. tick <= tick' BY <2>0, <2>1, Numbers DEF Types
  <2> QED BY <2>1, <2>2, <2>3, NobodysStep
<1>2. ASSUME NEW t \in Txns, Step(t) PROVE Inv'
  BY <1>2, SearchStep, ScanStep, ReadStep, ReadDoneStep, PutStep, InsertStep, InsertFailedStep,
     CommitBeginStep, LockStep, GenerateStep, ValidateReadStep, ValidateNodesStep, WriteStep,
     CommitEndStep, AbortTupleStep, AbortEndStep DEF Step
<1> QED BY <1>1, <1>2, TickStep, GcDeleteStep DEF Next

\* Every reachable state satisfies Inv: the types, the index and its leaf, the
\* bounds on the TIDs, and for each transaction what its write set, its locks,
\* its tentative inserts and its phase of commit() say about the tuples.
THEOREM SiloInvariant == Spec => []Inv
<1>1. Init => Inv BY InitHolds
<1>2. Inv /\ [Next]_vars => Inv' BY NextStep
<1> QED BY <1>1, <1>2, PTL DEF Spec

\* The index and the latest marks agree in every reachable state, so what
\* cleanup_inserted_tuple_marker(), commit() and the collector assert when they
\* unlink or replace a tuple always holds, and the leaf counts its keys.
THEOREM LatestAlwaysLinked == Spec => []LatestIsLinked
<1>1. Inv => LatestIsLinked
  <2> SUFFICES ASSUME Inv PROVE LatestIsLinked OBVIOUS
  <2>0. Types /\ IndexInv BY DEF Inv
  <2>1. ASSUME NEW u \in 1..ntup PROVE tup[u].latest <=> tree[tup[u].key] = u
    <3>1. u \in Tuples /\ u <= ntup /\ u # 0 BY <2>0, Numbers DEF Types, Tuples
    <3>2. tup[u].key \in Keys /\ (tup[u].latest => tree[tup[u].key] = u)
      BY <2>0, <3>1 DEF IndexInv
    <3>3. ASSUME tree[tup[u].key] = u PROVE tup[u].latest
      <4>1. tup[u].key \in Linked BY <3>1, <3>2, <3>3 DEF Linked
      <4> QED BY <2>0, <3>3, <4>1 DEF IndexInv
    <3> QED BY <3>2, <3>3, <2>0, <3>1, TupleFacts
  <2> QED BY <2>0, <2>1 DEF LatestIsLinked, IndexInv, Linked
<1> QED BY <1>1, SiloInvariant, PTL

\* What VersionsGrow says of one tuple.
Grows(u) ==
  /\ tup[u].version # MAX_TID => tup'[u].version >= tup[u].version
  /\ tup'[u].val # tup[u].val =>
       \/ tup'[u].version > tup[u].version
       \/ tup[u].owner # 0 /\ tup[u].version = tx[tup[u].owner].tid

\* A tuple that keeps its version and its value.
LEMMA KeepGrows ==
  ASSUME Types, NEW u \in Tuples, tup'[u].version = tup[u].version, tup'[u].val = tup[u].val
  PROVE  Grows(u)
<1>1. tup[u].version \in Nat BY TupleFacts
<1>2. \A a \in Nat : a >= a OBVIOUS
<1>3. tup[u].version >= tup[u].version BY <1>1, <1>2
<1> QED BY <1>3 DEF Grows

\* One tuple changes, but not its version and its value.
LEMMA KeepOne ==
  ASSUME Types, NEW v \in Tuples, NEW n, tup' = [tup EXCEPT ![v] = n],
         n.version = tup[v].version, n.val = tup[v].val, NEW u \in Tuples
  PROVE  Grows(u)
<1>1. CASE u = v
  <2>1. tup'[u] = n BY <1>1 DEF Types
  <2> QED BY <1>1, <2>1, KeepGrows
<1>2. CASE u # v
  <2>1. tup'[u] = tup[u] BY <1>2 DEF Types
  <2> QED BY <2>1, KeepGrows
<1> QED BY <1>1, <1>2

\* A step of the write phase: a tuple written in place has an older version, or
\* was inserted by the same transaction.
LEMMA WriteGrows ==
  ASSUME Inv, NEW t \in Txns, Write(t), NEW u \in Tuples, u <= ntup
  PROVE  Grows(u)
<1> DEFINE q == tx[t]
           w == q.wset
           i == q.i
           e == w[i]
<1>0. Types /\ TidInv /\ TxInv(t) BY DEF Inv
<1>1. /\ q.pc = "write" /\ i <= Len(w)
      /\ \/ WriteInsert(t) \/ WriteInPlace(t) \/ WriteReplace(t)
         \/ UNCHANGED tup
  BY DEF Write, At
<1>2. /\ i \in DOMAIN w /\ e.tup \in Tuples /\ e.tup <= ntup
      /\ e.ins \in BOOLEAN /\ tup[e.tup].owner = t /\ (e.ins => e.tup \in Inserted(t))
  BY <1>1, WriteFacts
<1>3. tup[e.tup] \in TupleRec /\ q.tid \in Nat /\ tup[e.tup].version \in Nat /\ i \in Nat /\ t # 0
  <2>1. tup[e.tup] \in TupleRec /\ tup[e.tup].version \in Nat BY <1>0, <1>2, TupleFacts
  <2>2. q.tid \in Nat /\ i \in Nat BY <1>0, TxFacts
  <2>3. t # 0 BY Numbers DEF Txns
  <2> QED BY <2>1, <2>2, <2>3
<1>4. /\ e.tup \in Inserted(t) \/ tup[e.tup].version < q.tid
      /\ e.ins => tup[e.tup].version = MAX_TID
  <2>1. i <= i /\ ~(i < i) BY <1>3
  <2> QED BY <1>0, <1>1, <1>2, <2>1 DEF TxInv, WriteInv
<1>5. CASE UNCHANGED tup BY <1>0, <1>5, KeepGrows
<1>6. CASE WriteInsert(t)
  <2> DEFINE n == [tup[e.tup] EXCEPT !.version = q.tid]
  <2>1. e.ins /\ tup' = [tup EXCEPT ![e.tup] = n] BY <1>6 DEF WriteInsert
  <2>2. n.val = tup[e.tup].val BY <1>3 DEF TupleRec
  <2> HIDE DEF n
  <2>3. CASE u = e.tup
    <3>1. tup'[u] = n BY <1>0, <1>2, <2>1, <2>3 DEF Types
    <3> QED BY <1>4, <2>1, <2>2, <2>3, <3>1 DEF Grows
  <2>4. CASE u # e.tup
    <3>1. tup'[u] = tup[u] BY <1>0, <2>1, <2>4 DEF Types
    <3> QED BY <1>0, <3>1, KeepGrows
  <2> QED BY <2>3, <2>4
<1>7. CASE WriteInPlace(t)
  <2> DEFINE n == [tup[e.tup] EXCEPT !.version = q.tid, !.val = e.val]
  <2>1. ~e.ins /\ tup' = [tup EXCEPT ![e.tup].version = q.tid, ![e.tup].val = e.val]
    BY <1>7 DEF WriteInPlace
  <2>2. tup' = [tup EXCEPT ![e.tup] = n] BY <1>0, <1>2, <2>1 DEF Types
  <2>3. n.version = q.tid BY <1>3 DEF TupleRec
  <2> HIDE DEF n
  <2>4. CASE u # e.tup
    <3>1. tup'[u] = tup[u] BY <1>0, <2>2, <2>4 DEF Types
    <3> QED BY <1>0, <3>1, KeepGrows
  <2>5. CASE u = e.tup
    <3>1. tup'[u].version = q.tid BY <1>0, <1>2, <2>2, <2>3, <2>5 DEF Types
    <3>2. CASE tup[u].version < q.tid
      <4>1. ASSUME NEW a \in Nat, NEW b \in Nat, a < b PROVE b >= a /\ b > a BY <4>1
      <4>2. tup'[u].version >= tup[u].version /\ tup'[u].version > tup[u].version
        BY <1>3, <2>5, <3>1, <3>2, <4>1
      <4> QED BY <4>2 DEF Grows
    <3>3. CASE u \in Inserted(t)
      <4>1. PICK j \in DOMAIN w : w[j].ins /\ w[j].tup = u BY <3>3 DEF Inserted
      <4>2. j \in Nat BY <1>0, EntryFacts
      <4>3. j # i BY <2>1, <4>1
      <4>4. ~(i < j) BY <1>0, <1>2, <2>5, <4>1 DEF TxInv, EntryInv
      <4>5. j < i BY <1>3, <4>2, <4>3, <4>4
      <4>6. tup[u].version = q.tid BY <1>0, <1>1, <4>1, <4>5 DEF TxInv, WriteInv
      <4>7. \A a \in Nat : a >= a OBVIOUS
      <4>8. tup'[u].version >= tup[u].version BY <1>3, <3>1, <4>6, <4>7
      <4> QED BY <1>2, <1>3, <2>5, <4>6, <4>8 DEF Grows
    <3> QED BY <1>4, <2>5, <3>2, <3>3
  <2> QED BY <2>4, <2>5
<1>8. CASE WriteReplace(t)
  <2> DEFINE h == ntup + 1
             n == NewTuple(e.key, q.tid, e.val, 0)
             o == [tup[e.tup] EXCEPT !.latest = FALSE]
  <2>1. ntup < MaxTuples /\ tup' = [tup EXCEPT ![h] = n, ![e.tup].latest = FALSE]
    BY <1>8 DEF WriteReplace
  <2>2. ASSUME NEW a \in Tuples, a <= ntup PROVE a # h
    <3>1. a \in Nat /\ ntup \in Nat BY <1>0, TupleFacts
    <3> QED BY <2>2, <3>1
  <2>3. e.tup # h /\ u # h BY <1>2, <2>2
  <2>4. o.version = tup[e.tup].version /\ o.val = tup[e.tup].val BY <1>3 DEF TupleRec
  <2> HIDE DEF n, h
  <2>5. tup' = [tup EXCEPT ![h] = n, ![e.tup] = o] BY <1>0, <1>2, <2>1, <2>3 DEF Types
  <2> HIDE DEF o
  <2>6. CASE u = e.tup
    <3>1. tup'[u] = o BY <1>0, <1>2, <2>3, <2>5, <2>6 DEF Types
    <3> QED BY <1>0, <2>4, <2>6, <3>1, KeepGrows
  <2>7. CASE u # e.tup
    <3>1. tup'[u] = tup[u] BY <1>0, <2>3, <2>5, <2>7 DEF Types
    <3> QED BY <1>0, <3>1, KeepGrows
  <2> QED BY <2>6, <2>7
<1> QED BY <1>1, <1>5, <1>6, <1>7, <1>8

\* The steps that take, drop or mark a tuple keep its version and its value.
LEMMA LockGrows ==
  ASSUME Inv, NEW t \in Txns, LockTuple(t), NEW u \in Tuples
  PROVE  Grows(u)
<1> DEFINE v == Min(tx[t].lockq)
           n == [tup[v] EXCEPT !.owner = t]
<1>0. Types BY DEF Inv
<1>1. UNCHANGED tup \/ tup' = [tup EXCEPT ![v] = n] BY DEF LockTuple
<1>2. v \in Tuples
  <2>1. tx[t].lockq # {} /\ tx[t].lockq \subseteq Tuples /\ Tuples \subseteq Nat
    BY <1>0, TxFacts, Numbers DEF LockTuple, Tuples
  <2> QED BY <2>1, LeastNat
<1> HIDE DEF v
<1>3. tup[v] \in TupleRec BY <1>0, <1>2, TupleFacts
<1>4. n.version = tup[v].version /\ n.val = tup[v].val BY <1>3 DEF TupleRec
<1>5. CASE UNCHANGED tup BY <1>0, <1>5, KeepGrows
<1> HIDE DEF n
<1>6. CASE tup' = [tup EXCEPT ![v] = n] BY <1>0, <1>2, <1>4, <1>6, KeepOne
<1> QED BY <1>1, <1>5, <1>6

LEMMA UnlockGrows ==
  ASSUME Inv, NEW S, tup' = Unlock(S), NEW u \in Tuples
  PROVE  Grows(u)
<1>0. Types BY DEF Inv
<1>1. tup[u] \in TupleRec BY <1>0, TupleFacts
<1>2. tup'[u] = tup[u] \/ tup'[u] = [tup[u] EXCEPT !.owner = 0] BY DEF Unlock
<1>3. tup'[u].version = tup[u].version /\ tup'[u].val = tup[u].val BY <1>1, <1>2 DEF TupleRec
<1> QED BY <1>0, <1>3, KeepGrows

LEMMA AbortGrows ==
  ASSUME Inv, NEW t \in Txns, AbortTuple(t), NEW u \in Tuples
  PROVE  Grows(u)
<1> DEFINE v == Min(tx[t].locked)
<1>0. Types BY DEF Inv
<1>1. tup' = Unlock({v}) \/ tup' = [Unlock({v}) EXCEPT ![v].latest = FALSE] BY DEF AbortTuple
<1> HIDE DEF v
<1>2. CASE tup' = Unlock({v}) BY <1>2, UnlockGrows
<1>3. CASE tup' = [Unlock({v}) EXCEPT ![v].latest = FALSE]
  <2> DEFINE x == Unlock({v})[u]
  <2>1. tup[u] \in TupleRec BY <1>0, TupleFacts
  <2>2. tup'[u] = x \/ tup'[u] = [x EXCEPT !.latest = FALSE] BY <1>3 DEF Unlock
  <2>3. x = tup[u] \/ x = [tup[u] EXCEPT !.owner = 0] BY DEF Unlock
  <2> HIDE DEF x
  <2>4. /\ x.version = tup[u].version /\ x.val = tup[u].val
        /\ x \in [key : Keys \union {0}, version : Nat, val : Int, owner : Nat, latest : BOOLEAN]
    BY <2>1, <2>3, Numbers DEF TupleRec
  <2>5. tup'[u].version = tup[u].version /\ tup'[u].val = tup[u].val BY <2>2, <2>4
  <2> QED BY <1>0, <2>5, KeepGrows
<1> QED BY <1>1, <1>2, <1>3

LEMMA NextGrows ==
  ASSUME Inv, [Next]_vars, NEW u \in 1..ntup
  PROVE  Grows(u)
<1>0. Types BY DEF Inv
<1>1. u \in Tuples /\ u <= ntup /\ ntup \in Nat /\ u \in Nat BY <1>0, Numbers DEF Types, Tuples
<1>2. CASE UNCHANGED tup BY <1>0, <1>1, <1>2, KeepGrows
<1>3. ASSUME NEW t \in Txns, try_insert_new_tuple(t) PROVE Grows(u)
  <2>1. /\ ntup < MaxTuples
        /\ tup' = [tup EXCEPT ![ntup + 1] = NewTuple(Op(t).key, MAX_TID, WriteVal(t), t)]
    BY <1>3 DEF try_insert_new_tuple
  <2>2. u # ntup + 1 BY <1>1
  <2>3. tup'[u] = tup[u] BY <1>0, <1>1, <2>1, <2>2 DEF Types
  <2> QED BY <1>0, <1>1, <2>3, KeepGrows
<1>4. ASSUME NEW v \in Tuples, GcDelete(v) PROVE Grows(u)
  <2> DEFINE n == [tup[v] EXCEPT !.latest = FALSE]
  <2>1. UNCHANGED tup \/ tup' = [tup EXCEPT ![v] = n] BY <1>4 DEF GcDelete
  <2>2. tup[v] \in TupleRec BY <1>0, TupleFacts
  <2>3. n.version = tup[v].version /\ n.val = tup[v].val BY <2>2 DEF TupleRec
  <2> HIDE DEF n
  <2> QED BY <1>0, <1>1, <1>2, <2>1, <2>3, KeepOne
<1>5. ASSUME NEW t \in Txns, CommitEnd(t) PROVE Grows(u)
  <2>1. tup' = Unlock(tx[t].locked) BY <1>5 DEF CommitEnd
  <2> QED BY <1>1, <2>1, UnlockGrows
<1>6. ASSUME NEW t \in Txns, Step(t) PROVE Grows(u)
  <2>1. CASE \/ do_search(t) \/ do_search_range(t) \/ do_tuple_read(t) \/ ReadDone(t)
             \/ PutSearch(t) \/ InsertFailed(t) \/ CommitBegin(t) \/ gen_commit_tid(t)
    <3>1. UNCHANGED dbVars
      BY <2>1 DEF do_search, do_search_range, do_tuple_read, ReadDone, PutSearch, InsertFailed,
                  CommitBegin, gen_commit_tid
    <3> QED BY <1>2, <3>1 DEF dbVars
  <2>2. CASE ValidateRead(t) \/ ValidateNodes(t) \/ AbortEnd(t)
    <3>1. UNCHANGED dbVars BY <2>2 DEF ValidateRead, ValidateNodes, AbortEnd
    <3> QED BY <1>2, <3>1 DEF dbVars
  <2>3. CASE LockTuple(t) \/ Write(t) \/ AbortTuple(t)
    BY <1>1, <2>3, LockGrows, WriteGrows, AbortGrows
  <2> QED BY <1>3, <1>5, <1>6, <2>1, <2>2, <2>3 DEF Step
<1>7. CASE Tick \/ UNCHANGED vars BY <1>2, <1>7 DEF Tick, vars, dbVars
<1> QED BY <1>4, <1>6, <1>7 DEF Next

\* No step lets the version of a tuple that others can see go back, and none
\* gives a tuple a new value under a version that another transaction can have
\* read: `version <= tid' in the validation of a read therefore means that
\* nobody has written since.
THEOREM VersionsAlwaysGrow == Spec => VersionsGrow
<1>1. Inv /\ [Next]_vars =>
        [\A u \in 1..ntup :
           /\ tup[u].version # MAX_TID => tup'[u].version >= tup[u].version
           /\ tup'[u].val # tup[u].val =>
                \/ tup'[u].version > tup[u].version
                \/ tup[u].owner # 0 /\ tup[u].version = tx[tup[u].owner].tid]_vars
  BY NextGrows, Zenon DEF Grows
<1> QED BY <1>1, SiloInvariant, PTL DEF Spec, VersionsGrow
=============================================================================
