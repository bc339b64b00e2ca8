-------------------------- MODULE SiloLoggerProofs --------------------------
(***************************************************************************)
(* Proofs about SiloLogger, for any number of cores, writer threads,       *)
(* buffers, transactions and ticks.                                        *)
(*                                                                         *)
(* The argument.  CoreInv cuts the commit order of a core in two: its      *)
(* first n transactions are in its file and its queue (HoldFirst), the     *)
(* others are, in order, in the open buffer, the horizon and the hands of  *)
(* the worker (TailOK).  A push moves n past the open buffer; a write      *)
(* moves a scheduled prefix of the queue to the file, which Filed counts   *)
(* once while the writer is at Done.  That the scheduled buffers are a     *)
(* prefix, and none outside a round, is FlagsOK: giving back the head      *)
(* while it is scheduled gives back exactly what was written.  ClaimInv is *)
(* about the epoch prefixes: what has an epoch up to the prefix is on disk *)
(* or in a scheduled buffer, since epochs grow along the log and the       *)
(* prefix is one less than the epoch of the last buffer scheduled; it is   *)
(* less than the current tick, so that later commits do not touch it.      *)
(***************************************************************************)
EXTENDS SiloLogger, FiniteSetTheorems, SequenceTheorems, TLAPS

LoggerOf(c) == CHOOSE l \in Loggers : c \in Assignment[l]

\* The places of a writer at which what it has scheduled is on disk.
Done == {"load", "store", "return"}

WriterType ==
  [pc : {"start", "scan", "write"} \cup Done, todo : SUBSET Cores, sync_ex : Nat,
   nbufs : Nat, sense : BOOLEAN, x0 : 0..MaxTick]

PersisterType ==
  [pc : {"start", "tail", "slot", "try_lock", "tail_locked", "slot_locked", "load", "publish"},
   k : Cores, best : 0..MaxTick, min : 0..MaxTick, t : 0..g_perthread_buffers - 1]

Types ==
  /\ TypeOK
  /\ committed \in [Cores -> Seq(Txn)]
  /\ disk \in [Cores -> Seq(Seq(Txn))]
  /\ epoch_prefixes \in [BOOLEAN -> [Cores -> 0..MaxTick]]
  /\ writer \in [Loggers -> WriterType]
  /\ persister \in PersisterType

\* A writer's loops over its cores.
LoopOK(w, mine) ==
  /\ w.nbufs <= IovMax
  /\ w.todo \subseteq mine
  /\ w.pc = "write" => w.todo = mine
  /\ w.pc \in {"scan"} \cup Done => w.todo # {}

WriterInv == \A l \in Loggers : LoopOK(writer[l], Assignment[l])

\* The scheduled buffers are at the front of the queue q of core c, and are gone
\* when their writer w begins another round.
QuietFor(w, c) ==
  \/ w.pc = "start"
  \/ w.pc = "scan" /\ (c \in w.todo \/ w.nbufs = 0)
  \/ w.pc \in Done /\ c \notin w.todo

FlagsOK(q, w, c) ==
  /\ \A i, j \in 1..Len(q) : i <= j /\ q[j].io_scheduled_ => q[i].io_scheduled_
  /\ QuietFor(w, c) => \A i \in 1..Len(q) : ~q[i].io_scheduled_

\* Transactions are numbered as they commit, and their epochs do not fall.
CommitOK(txns, now) ==
  /\ \A i \in 1..Len(txns) : txns[i].n = i /\ txns[i].ep <= now
  /\ \A i, j \in 1..Len(txns) : i <= j => txns[i].ep <= txns[j].ep

\* The pieces hold the first n of the transactions txns, in order.
HoldFirst(pieces, txns, n) ==
  /\ \A k \in 1..Len(pieces) : \A j \in 1..Len(pieces[k]) :
       pieces[k][j].n \in 1..n /\ txns[pieces[k][j].n] = pieces[k][j]
  /\ \A k \in 1..Len(pieces) : \A i, j \in 1..Len(pieces[k]) :
       i < j => pieces[k][i].n < pieces[k][j].n
  /\ \A k, m \in 1..Len(pieces) : k < m =>
       \A i \in 1..Len(pieces[k]), j \in 1..Len(pieces[m]) :
         pieces[k][i].n < pieces[m][j].n
  /\ \A x \in 1..n : \E k \in 1..Len(pieces) : \E j \in 1..Len(pieces[k]) :
       pieces[k][j].n = x

Open(bufs) == IF bufs = << >> THEN << >> ELSE Head(bufs).txns

\* What follows the first n transactions is in the open buffer, in the horizon
\* and in the hands of the worker.
TailOK(txns, bufs, hor, lg, comp, n) ==
  /\ n + Len(Open(bufs)) + Len(hor) + (IF lg = "log" THEN 1 ELSE 0) = Len(txns)
  /\ \A j \in 1..Len(Open(bufs)) : Open(bufs)[j] = txns[n + j]
  /\ \A j \in 1..Len(hor) : hor[j] = txns[n + Len(Open(bufs)) + j]
  /\ \A i \in 2..Len(bufs) : bufs[i].txns = << >>
  /\ \A i \in 1..Len(bufs) : ~bufs[i].io_scheduled_
  /\ Len(hor) <= HorizonTxns
  /\ ~comp => hor = << >>

\* The file and the queue of core c, without what has been written twice.
Filed(dsk, q, w) == dsk \o Contents(q, w + 1, Len(q))

LogOK(txns, filed, bufs, hor, lg, comp) ==
  \E n \in 0..Len(txns) :
    HoldFirst(filed, txns, n) /\ TailOK(txns, bufs, hor, lg, comp, n)

WrittenOf(q, w) == IF w.pc \in Done THEN Scheduled(q) ELSE 0

\* What holds of one core; no buffer is queued without transactions (the
\* assertions on nentries_).
CoreOK(c, txns, dsk, q, bufs, hor, lg, comp, w, now) ==
  /\ FlagsOK(q, w, c)
  /\ CommitOK(txns, now)
  /\ \A i \in 1..Len(q) : q[i].txns # << >>
  /\ LogOK(txns, Filed(dsk, q, WrittenOf(q, w)), bufs, hor, lg, comp)

CoreInv ==
  \A c \in Cores :
    CoreOK(c, committed[c], disk[c], persist_buffers_[c], all_buffers_[c], horizon_[c],
           logging[c], g_use_compression, writer[LoggerOf(c)], current_tick_)

InFile(dsk, t) == \E k \in 1..Len(dsk) : \E j \in 1..Len(dsk[k]) : dsk[k][j] = t

InScheduled(q, t) ==
  \E k \in 1..Len(q) : q[k].io_scheduled_ /\ \E j \in 1..Len(q[k].txns) : q[k].txns[j] = t

\* The claim that everything up to epoch e is on disk, or will be when the
\* writer at pc has written what it has scheduled.
ClaimOK(e, txns, dsk, q, pc) ==
  \A i \in 1..Len(txns) : txns[i].ep <= e =>
    InFile(dsk, txns[i]) \/ (pc \in {"scan", "write"} /\ InScheduled(q, txns[i]))

ClaimInv ==
  \A s \in BOOLEAN, c \in Cores :
    /\ epoch_prefixes[s][c] < current_tick_
    /\ ClaimOK(epoch_prefixes[s][c], committed[c], disk[c], persist_buffers_[c],
               writer[LoggerOf(c)].pc)

LoggerInv == Types /\ WriterInv /\ CoreInv /\ ClaimInv

-----------------------------------------------------------------------------
(* Least elements and the CHOOSE operators of the model.                   *)

\* A set of natural numbers that is not empty has a least element.
LEMMA LeastNat ==
  ASSUME NEW S, S \subseteq Nat, S # {}
  PROVE  \E x \in S : \A y \in S : x <= y
<1> DEFINE R == OpToRel(<, Nat)
<1>1. IsWellFoundedOn(R, Nat)
  BY NatLessThanWellFounded
<1>2. ASSUME NEW x \in Nat, NEW y \in Nat, ~(<<y, x>> \in R)
      PROVE  ~(y < x)
  BY <1>2, Zenon DEF OpToRel
<1> HIDE DEF R
<1>3. PICK x \in S : \A y \in S : ~(<<y, x>> \in R)
  BY <1>1, WFMin, Zenon
<1>4. ASSUME NEW y \in S PROVE x <= y
  <2>1. x \in Nat /\ y \in Nat OBVIOUS
  <2>2. ~(y < x) BY <2>1, <1>2, <1>3
  <2> QED BY <2>1, <2>2
<1> QED BY <1>4

LEMMA LeastIs ==
  ASSUME NEW S, S \subseteq Nat, S # {}
  PROVE  Least(S) \in S
BY LeastNat DEF Least

\* The front of a queue that is scheduled.
LEMMA ScheduledIs ==
  ASSUME NEW q \in Seq(pbuffer)
  PROVE  /\ Scheduled(q) \in 0..Len(q)
         /\ \A i \in 1..Scheduled(q) : q[i].io_scheduled_
         /\ Scheduled(q) < Len(q) => ~q[Scheduled(q) + 1].io_scheduled_
<1> DEFINE S == {n \in 0..Len(q) : n < Len(q) => ~q[n + 1].io_scheduled_}
           G(n) == /\ \A i \in 1..n : q[i].io_scheduled_
                   /\ n < Len(q) => ~q[n + 1].io_scheduled_
<1>1. Len(q) \in Nat OBVIOUS
<1>2. Len(q) \in S /\ S \subseteq Nat BY <1>1
<1>3. PICK n \in S : \A y \in S : n <= y BY <1>2, LeastNat
<1>4. n \in 0..Len(q) /\ (n < Len(q) => ~q[n + 1].io_scheduled_) BY <1>3
<1>5. ASSUME NEW i \in 1..n PROVE q[i].io_scheduled_
  <2>1. i - 1 \in 0..Len(q) /\ i - 1 < Len(q) /\ (i - 1) + 1 = i /\ i - 1 < n
    BY <1>1, <1>4
  <2>2. i - 1 \notin S BY <1>3, <2>1
  <2> QED BY <2>1, <2>2
<1>6. G(n) BY <1>4, <1>5
<1>7. \E m \in 0..Len(q) : G(m) BY <1>4, <1>6
<1>8. Scheduled(q) = CHOOSE m \in 0..Len(q) : G(m) BY DEF Scheduled
<1> HIDE DEF G
<1>9. Scheduled(q) \in 0..Len(q) /\ G(Scheduled(q)) BY <1>7, <1>8, Zenon
<1> QED BY <1>9 DEF G

LEMMA ScheduledEq ==
  ASSUME NEW q \in Seq(pbuffer), NEW n \in 0..Len(q),
         \A i \in 1..n : q[i].io_scheduled_,
         n < Len(q) => ~q[n + 1].io_scheduled_
  PROVE  Scheduled(q) = n
<1>1. Scheduled(q) \in 0..Len(q) /\ Len(q) \in Nat BY ScheduledIs
<1>2. ~(Scheduled(q) < n)
  <2> SUFFICES ASSUME Scheduled(q) < n PROVE FALSE OBVIOUS
  <2>1. Scheduled(q) + 1 \in 1..n /\ Scheduled(q) < Len(q) BY <1>1
  <2> QED BY <2>1, ScheduledIs
<1>3. ~(n < Scheduled(q))
  <2> SUFFICES ASSUME n < Scheduled(q) PROVE FALSE OBVIOUS
  <2>1. n + 1 \in 1..Scheduled(q) /\ n < Len(q) BY <1>1
  <2> QED BY <2>1, ScheduledIs
<1> QED BY <1>1, <1>2, <1>3

\* The number of buffers a round takes is within the queue and the iovec array.
LEMMA NScheduledIs ==
  ASSUME NEW q \in Seq(pbuffer), NEW e \in Nat, NEW room \in Nat,
         \A i \in 1..Len(q) : q[i].txns # << >>
  PROVE  /\ NScheduled(q, e, room) \in 0..Len(q)
         /\ NScheduled(q, e, room) <= room
<1> DEFINE X(i) == LastEpoch(q[i].txns)
           lim == e + g_max_lag_epochs
           S == {n \in 0..Len(q) : n < Len(q) /\ n < room => X(n + 1) >= lim}
           G(n) == /\ n <= room
                   /\ \A i \in 1..n : X(i) < lim
                   /\ n < Len(q) /\ n < room => X(n + 1) >= lim
<1>1. Len(q) \in Nat OBVIOUS
<1>2. ASSUME NEW i \in 1..Len(q) PROVE X(i) \in Nat
  <2>0. q[i] \in pbuffer BY <1>1
  <2>1. q[i].txns \in Seq(Txn) /\ q[i].txns # << >> BY <2>0 DEF pbuffer
  <2>2. Len(q[i].txns) \in 1..Len(q[i].txns) BY <2>1
  <2>3. q[i].txns[Len(q[i].txns)] \in Txn BY <2>1, <2>2
  <2> QED BY <2>3, ClockAssumption DEF LastEpoch, Txn
<1>3. lim \in Nat BY LoggerAssumption
<1>4. Len(q) \in S /\ S \subseteq Nat BY <1>1
<1>5. PICK n \in S : \A y \in S : n <= y BY <1>4, LeastNat
<1>6. n \in 0..Len(q) /\ (n < Len(q) /\ n < room => X(n + 1) >= lim) BY <1>5
<1> HIDE DEF X, lim
<1>7. n <= room
  <2> SUFFICES ASSUME room < n PROVE FALSE BY <1>6
  <2>1. room \in S BY <1>1, <1>6
  <2> QED BY <2>1, <1>5, <1>6
<1>8. ASSUME NEW i \in 1..n PROVE X(i) < lim
  <2>1. i - 1 \in 0..Len(q) /\ i - 1 < Len(q) /\ (i - 1) + 1 = i /\ i - 1 < n /\ i - 1 < room
        /\ i \in 1..Len(q)
    BY <1>1, <1>6, <1>7
  <2>2. i - 1 \notin S BY <1>5, <2>1
  <2>3. ~(X(i) >= lim) BY <2>1, <2>2
  <2> QED BY <2>1, <2>3, <1>2, <1>3
<1>9. G(n) BY <1>6, <1>7, <1>8
<1>10. \E m \in 0..Len(q) : G(m) BY <1>6, <1>9
<1>11. NScheduled(q, e, room) = CHOOSE m \in 0..Len(q) : G(m) BY DEF NScheduled, X, lim
<1> HIDE DEF G
<1>12. NScheduled(q, e, room) \in 0..Len(q) /\ G(NScheduled(q, e, room))
  BY <1>10, <1>11, Zenon
<1> QED BY <1>12 DEF G

LEMMA LoggerOfIs ==
  ASSUME NEW c \in Cores
  PROVE  /\ LoggerOf(c) \in Loggers /\ c \in Assignment[LoggerOf(c)]
         /\ \A l \in Loggers : c \in Assignment[l] => l = LoggerOf(c)
<1>1. \E l \in Loggers : c \in Assignment[l] BY LoggerAssumption
<1>2. LoggerOf(c) \in Loggers /\ c \in Assignment[LoggerOf(c)] BY <1>1 DEF LoggerOf
<1> QED BY <1>2, LoggerAssumption

LEMMA WrittenIs ==
  ASSUME NEW c \in Cores
  PROVE  Written(c) = IF writer[LoggerOf(c)].pc \in Done
                        THEN Scheduled(persist_buffers_[c]) ELSE 0
BY DEF Written, LoggerOf, Done

LEMMA TurnIs ==
  ASSUME NEW l \in Loggers, Types, WriterInv, writer[l].todo # {}
  PROVE  Turn(l) \in writer[l].todo /\ Turn(l) \in Assignment[l] /\ Turn(l) \in Cores
         /\ LoggerOf(Turn(l)) = l
<1>1. writer[l].todo \subseteq Assignment[l] BY DEF WriterInv, LoopOK
<1>2. Assignment[l] \subseteq Cores BY LoggerAssumption
<1>3. Cores \subseteq Nat BY ClockAssumption DEF Cores
<1>4. Turn(l) \in writer[l].todo BY <1>1, <1>2, <1>3, LeastIs DEF Turn
<1> QED BY <1>1, <1>2, <1>4, LoggerOfIs

-----------------------------------------------------------------------------
(* The pieces of a log.                                                    *)

LEMMA ConcatRight ==
  ASSUME NEW S, NEW D \in Seq(S), NEW X \in Seq(S), NEW j \in 1..Len(X)
  PROVE  (D \o X)[Len(D) + j] = X[j]
<1>1. Len(D) \in Nat /\ Len(X) \in Nat /\ j \in Nat OBVIOUS
<1>2. Len(D) + j \in 1..Len(D) + Len(X) /\ ~(Len(D) + j <= Len(D)) /\ Len(D) + j - Len(D) = j
  BY <1>1
<1> QED BY <1>2, ConcatProperties

LEMMA ConcatThree ==
  ASSUME NEW S, NEW F \in Seq(S), NEW a \in S, NEW b \in S, NEW c \in S
  PROVE  F \o <<a, b, c>> = Append(Append(Append(F, a), b), c)
<1> DEFINE X == F \o <<a, b, c>>
           Y == Append(Append(Append(F, a), b), c)
<1>1. Len(F) \in Nat OBVIOUS
<1>2. X \in Seq(S) /\ Len(X) = Len(F) + 3 /\ Y \in Seq(S) /\ Len(Y) = Len(F) + 3
  OBVIOUS
<1>3. ASSUME NEW i \in 1..Len(F) + 3 PROVE X[i] = Y[i]
  OBVIOUS
<1> QED BY <1>2, <1>3, SeqEqual

\* Only the first n transactions matter.
LEMMA HoldKeep ==
  ASSUME NEW Q, NEW C, NEW D, NEW n, HoldFirst(Q, C, n), \A i \in 1..n : D[i] = C[i]
  PROVE  HoldFirst(Q, D, n)
<1>1. ASSUME NEW k \in 1..Len(Q), NEW j \in 1..Len(Q[k])
      PROVE  Q[k][j].n \in 1..n /\ D[Q[k][j].n] = Q[k][j]
  BY DEF HoldFirst
<1> QED BY <1>1 DEF HoldFirst

\* A buffer with the next transactions is added.
LEMMA HoldAppend ==
  ASSUME NEW Q \in Seq(Seq(Txn)), NEW C \in Seq(Txn), NEW n \in Nat, NEW H \in Seq(Txn),
         HoldFirst(Q, C, n),
         \A i \in 1..Len(C) : C[i].n = i,
         n + Len(H) <= Len(C),
         \A j \in 1..Len(H) : H[j] = C[n + j]
  PROVE  HoldFirst(Append(Q, H), C, n + Len(H))
<1> DEFINE A == Append(Q, H)
           N == n + Len(H)
<1>1. /\ Len(Q) \in Nat /\ Len(H) \in Nat /\ Len(C) \in Nat /\ N \in Nat
      /\ Len(A) = Len(Q) + 1 /\ A[Len(Q) + 1] = H
      /\ \A k \in 1..Len(Q) : A[k] = Q[k] /\ Len(Q[k]) \in Nat
      /\ \A k \in 1..Len(A) : k \in 1..Len(Q) \/ k = Len(Q) + 1
  OBVIOUS
<1>2. \A j \in 1..Len(H) : H[j].n = n + j /\ C[n + j] = H[j] /\ n + j \in 1..N
  <2> TAKE j \in 1..Len(H)
  <2>1. n + j \in 1..Len(C) /\ n + j \in 1..N BY <1>1
  <2> QED BY <2>1
<1>3. \A k \in 1..Len(Q) : \A j \in 1..Len(Q[k]) :
        Q[k][j].n \in 1..n /\ C[Q[k][j].n] = Q[k][j]
  BY DEF HoldFirst
<1>4. \A k \in 1..Len(Q) : \A i, j \in 1..Len(Q[k]) : i < j => Q[k][i].n < Q[k][j].n
  BY DEF HoldFirst
<1>5. \A k, m \in 1..Len(Q) : k < m =>
        \A i \in 1..Len(Q[k]), j \in 1..Len(Q[m]) : Q[k][i].n < Q[m][j].n
  BY DEF HoldFirst
<1>6. \A x \in 1..n : \E k \in 1..Len(Q) : \E j \in 1..Len(Q[k]) : Q[k][j].n = x
  BY DEF HoldFirst
<1> HIDE DEF A, N
<1>7. \A x \in 1..n : x \in 1..N BY <1>1 DEF N
<1>a. ASSUME NEW k \in 1..Len(A), NEW j \in 1..Len(A[k])
      PROVE  A[k][j].n \in 1..N /\ C[A[k][j].n] = A[k][j]
  <2>1. CASE k \in 1..Len(Q)
    <3>1. A[k] = Q[k] /\ j \in 1..Len(Q[k]) BY <2>1, <1>1
    <3>2. Q[k][j].n \in 1..n /\ C[Q[k][j].n] = Q[k][j] BY <2>1, <3>1, <1>3
    <3>3. Q[k][j].n \in 1..N BY <3>2, <1>7
    <3> QED BY <3>1, <3>2, <3>3
  <2>2. CASE k = Len(Q) + 1 BY <2>2, <1>1, <1>2
  <2> QED BY <2>1, <2>2, <1>1
<1>b. ASSUME NEW k \in 1..Len(A), NEW i \in 1..Len(A[k]), NEW j \in 1..Len(A[k]), i < j
      PROVE  A[k][i].n < A[k][j].n
  <2>1. CASE k \in 1..Len(Q) BY <2>1, <1>1, <1>4, <1>b
  <2>2. CASE k = Len(Q) + 1
    <3>1. A[k][i].n = n + i /\ A[k][j].n = n + j BY <2>2, <1>1, <1>2
    <3>2. i \in Nat /\ j \in Nat BY <2>2, <1>1
    <3> QED BY <3>1, <3>2, <1>b
  <2> QED BY <2>1, <2>2, <1>1
<1>c. ASSUME NEW k \in 1..Len(A), NEW m \in 1..Len(A), k < m,
             NEW i \in 1..Len(A[k]), NEW j \in 1..Len(A[m])
      PROVE  A[k][i].n < A[m][j].n
  <2>1. k \in 1..Len(Q) BY <1>1, <1>c
  <2>2. CASE m \in 1..Len(Q) BY <2>1, <2>2, <1>1, <1>5, <1>c
  <2>3. CASE m = Len(Q) + 1
    <3>1. A[m][j].n = n + j /\ j \in 1..Len(H) BY <2>3, <1>1, <1>2
    <3>2. A[k][i].n \in 1..n BY <2>1, <1>1, <1>3
    <3> QED BY <3>1, <3>2, <1>1
  <2> QED BY <2>2, <2>3, <1>1
<1>d. ASSUME NEW x \in 1..N
      PROVE  \E k \in 1..Len(A) : \E j \in 1..Len(A[k]) : A[k][j].n = x
  <2>1. CASE x \in 1..n
    <3>1. PICK k \in 1..Len(Q) : \E j \in 1..Len(Q[k]) : Q[k][j].n = x BY <2>1, <1>6
    <3>2. k \in 1..Len(A) /\ A[k] = Q[k] BY <1>1
    <3> QED BY <3>1, <3>2
  <2>2. CASE x \notin 1..n
    <3>1. x - n \in 1..Len(H) /\ n + (x - n) = x BY <2>2, <1>1 DEF N
    <3>2. H[x - n].n = x BY <3>1, <1>2
    <3>3. Len(Q) + 1 \in 1..Len(A) /\ A[Len(Q) + 1] = H BY <1>1
    <3> QED BY <3>1, <3>2, <3>3
  <2> QED BY <2>1, <2>2
<1>e. HoldFirst(A, C, N) BY <1>a, <1>b, <1>c, <1>d DEF HoldFirst
<1> QED BY <1>e DEF A, N

LEMMA ContentsIs ==
  ASSUME NEW q \in Seq(pbuffer), NEW m \in 1..Len(q) + 1, NEW n \in 0..Len(q), n + 1 >= m
  PROVE  /\ Contents(q, m, n) \in Seq(Seq(Txn))
         /\ Len(Contents(q, m, n)) = n - m + 1
         /\ \A i \in 1..n - m + 1 : Contents(q, m, n)[i] = q[m + i - 1].txns
<1>1. Len(q) \in Nat /\ n - m + 1 \in Nat OBVIOUS
<1>2. ASSUME NEW i \in 1..n - m + 1 PROVE q[m + i - 1].txns \in Seq(Txn)
  <2>1. m + i - 1 \in 1..Len(q) BY <1>1
  <2>2. q[m + i - 1] \in pbuffer BY <2>1
  <2> QED BY <2>2 DEF pbuffer
<1>3. Contents(q, m, n) \in Seq(Seq(Txn))
  <2>1. Contents(q, m, n) = [i \in 1..n - m + 1 |-> q[m + i - 1].txns] BY DEF Contents
  <2> HIDE DEF Contents
  <2> QED BY <1>1, <1>2, <2>1, IsASeq
<1> QED BY <1>1, <1>3 DEF Contents

LEMMA FiledIs ==
  ASSUME NEW D \in Seq(Seq(Txn)), NEW q \in Seq(pbuffer), NEW w \in 0..Len(q)
  PROVE  /\ Filed(D, q, w) \in Seq(Seq(Txn))
         /\ Len(Filed(D, q, w)) = Len(D) + Len(q) - w
         /\ \A i \in 1..Len(D) : Filed(D, q, w)[i] = D[i]
         /\ \A i \in w + 1..Len(q) : Filed(D, q, w)[Len(D) + i - w] = q[i].txns
<1> DEFINE X == Contents(q, w + 1, Len(q))
<1>1. Len(q) \in Nat /\ Len(D) \in Nat OBVIOUS
<1>2. /\ X \in Seq(Seq(Txn)) /\ Len(X) = Len(q) - w
      /\ \A i \in 1..Len(q) - w : X[i] = q[w + i].txns
  <2>1. w + 1 \in 1..Len(q) + 1 /\ Len(q) \in 0..Len(q) /\ Len(q) + 1 >= w + 1 BY <1>1
  <2>2. Len(q) - (w + 1) + 1 = Len(q) - w BY <1>1
  <2>3. \A i \in 1..Len(q) - w : (w + 1) + i - 1 = w + i BY <1>1
  <2>4. /\ X \in Seq(Seq(Txn)) /\ Len(X) = Len(q) - (w + 1) + 1
        /\ \A i \in 1..Len(q) - (w + 1) + 1 : X[i] = q[(w + 1) + i - 1].txns
    BY <2>1, ContentsIs
  <2> HIDE DEF X
  <2>5. ASSUME NEW i \in 1..Len(q) - w PROVE X[i] = q[w + i].txns
    <3>1. X[i] = q[(w + 1) + i - 1].txns BY <2>2, <2>4
    <3> QED BY <3>1, <2>3
  <2> QED BY <2>2, <2>4, <2>5
<1> HIDE DEF X
<1>3. Filed(D, q, w) = D \o X BY DEF Filed, X
<1>4. ASSUME NEW i \in w + 1..Len(q) PROVE (D \o X)[Len(D) + i - w] = q[i].txns
  <2>1. i - w \in 1..Len(X) /\ w + (i - w) = i /\ Len(D) + i - w = Len(D) + (i - w) BY <1>1, <1>2
  <2>2. (D \o X)[Len(D) + (i - w)] = X[i - w] BY <2>1, <1>2, ConcatRight
  <2> QED BY <2>1, <2>2, <1>2
<1>5. (D \o X) \in Seq(Seq(Txn)) /\ Len(D \o X) = Len(D) + Len(q) - w
  <2>1. (D \o X) \in Seq(Seq(Txn)) BY <1>2, ConcatProperties
  <2>2. Len(D \o X) = Len(D) + Len(X) BY <1>2, ConcatProperties
  <2>3. Len(D) + (Len(q) - w) = Len(D) + Len(q) - w BY <1>1
  <2> QED BY <2>1, <2>2, <2>3, <1>2
<1>6. \A i \in 1..Len(D) : (D \o X)[i] = D[i] BY <1>1, <1>2
<1> QED BY <1>3, <1>4, <1>5, <1>6, Zenon

\* Two logs of the same pieces are one.
LEMMA FiledEq ==
  ASSUME NEW D \in Seq(Seq(Txn)), NEW q \in Seq(pbuffer), NEW w \in 0..Len(q),
         NEW X \in Seq(Seq(Txn)), Len(X) = Len(D) + Len(q) - w,
         \A i \in 1..Len(D) : X[i] = D[i],
         \A i \in w + 1..Len(q) : X[Len(D) + i - w] = q[i].txns
  PROVE  Filed(D, q, w) = X
<1> DEFINE F == Filed(D, q, w)
<1>1. /\ F \in Seq(Seq(Txn)) /\ Len(F) = Len(D) + Len(q) - w
      /\ \A i \in 1..Len(D) : F[i] = D[i]
      /\ \A i \in w + 1..Len(q) : F[Len(D) + i - w] = q[i].txns
  BY FiledIs
<1>2. Len(D) \in Nat /\ Len(q) \in Nat OBVIOUS
<1> HIDE DEF F
<1>3. ASSUME NEW i \in 1..Len(F) PROVE F[i] = X[i]
  <2>1. CASE i \in 1..Len(D) BY <2>1, <1>1
  <2>2. CASE i \notin 1..Len(D)
    <3>1. i - Len(D) + w \in w + 1..Len(q) /\ Len(D) + (i - Len(D) + w) - w = i
      BY <2>2, <1>1, <1>2
    <3> QED BY <3>1, <1>1
  <2> QED BY <2>1, <2>2
<1>4. F = X BY <1>1, <1>3, SeqEqual
<1> QED BY <1>4 DEF F

\* A buffer is queued.
LEMMA FiledPush ==
  ASSUME NEW D \in Seq(Seq(Txn)), NEW q \in Seq(pbuffer), NEW w \in 0..Len(q), NEW b \in pbuffer
  PROVE  Filed(D, Append(q, b), w) = Append(Filed(D, q, w), b.txns)
<1> DEFINE F == Filed(D, q, w)
           X == Append(F, b.txns)
           r == Append(q, b)
<1>1. /\ F \in Seq(Seq(Txn)) /\ Len(F) = Len(D) + Len(q) - w
      /\ \A i \in 1..Len(D) : F[i] = D[i]
      /\ \A i \in w + 1..Len(q) : F[Len(D) + i - w] = q[i].txns
  BY FiledIs
<1>2. Len(D) \in Nat /\ Len(q) \in Nat OBVIOUS
<1>3. b.txns \in Seq(Txn) BY DEF pbuffer
<1>4. /\ r \in Seq(pbuffer) /\ Len(r) = Len(q) + 1 /\ r[Len(q) + 1] = b
      /\ \A i \in 1..Len(q) : r[i] = q[i]
  OBVIOUS
<1> HIDE DEF F, r
<1>5. /\ X \in Seq(Seq(Txn)) /\ Len(X) = Len(F) + 1 /\ X[Len(F) + 1] = b.txns
      /\ \A i \in 1..Len(F) : X[i] = F[i]
  BY <1>1, <1>3
<1> HIDE DEF X
<1>6. w \in 0..Len(r) /\ Len(X) = Len(D) + Len(r) - w BY <1>1, <1>2, <1>4, <1>5
<1>7. ASSUME NEW i \in 1..Len(D) PROVE X[i] = D[i]
  <2>1. i \in 1..Len(F) BY <1>1, <1>2
  <2> QED BY <2>1, <1>1, <1>5
<1>8. ASSUME NEW i \in w + 1..Len(r) PROVE X[Len(D) + i - w] = r[i].txns
  <2>1. CASE i \in 1..Len(q)
    <3>1. i \in w + 1..Len(q) /\ Len(D) + i - w \in 1..Len(F) BY <2>1, <1>1, <1>2
    <3> QED BY <3>1, <1>1, <1>4, <1>5, <2>1
  <2>2. CASE i = Len(q) + 1
    <3>1. Len(D) + i - w = Len(F) + 1 BY <2>2, <1>1, <1>2
    <3> QED BY <3>1, <2>2, <1>4, <1>5
  <2>3. i \in 1..Len(q) \/ i = Len(q) + 1 BY <1>2, <1>4
  <2> QED BY <2>1, <2>2, <2>3
<1>9. Filed(D, r, w) = X BY <1>4, <1>5, <1>6, <1>7, <1>8, FiledEq
<1> QED BY <1>9 DEF X, F, r

\* A written buffer leaves the queue.
LEMMA FiledPop ==
  ASSUME NEW D \in Seq(Seq(Txn)), NEW q \in Seq(pbuffer), NEW w \in 1..Len(q)
  PROVE  Filed(D, Tail(q), w - 1) = Filed(D, q, w)
<1> DEFINE X == Filed(D, q, w)
           r == Tail(q)
<1>2. Len(D) \in Nat /\ Len(q) \in Nat /\ w \in 0..Len(q) /\ q # << >> OBVIOUS
<1>1. /\ X \in Seq(Seq(Txn)) /\ Len(X) = Len(D) + Len(q) - w
      /\ \A i \in 1..Len(D) : X[i] = D[i]
      /\ \A i \in w + 1..Len(q) : X[Len(D) + i - w] = q[i].txns
  BY <1>2, FiledIs
<1>4. /\ r \in Seq(pbuffer) /\ Len(r) = Len(q) - 1
      /\ \A i \in 1..Len(q) - 1 : r[i] = q[i + 1]
  BY <1>2
<1> HIDE DEF X, r
<1>5. w - 1 \in 0..Len(r) /\ Len(X) = Len(D) + Len(r) - (w - 1) BY <1>1, <1>2, <1>4
<1>6. ASSUME NEW i \in (w - 1) + 1..Len(r) PROVE X[Len(D) + i - (w - 1)] = r[i].txns
  <2>1. i + 1 \in w + 1..Len(q) /\ i \in 1..Len(q) - 1
        /\ Len(D) + (i + 1) - w = Len(D) + i - (w - 1)
    BY <1>2, <1>4
  <2>2. X[Len(D) + (i + 1) - w] = q[i + 1].txns BY <2>1, <1>1
  <2> QED BY <2>1, <2>2, <1>4
<1>7. Filed(D, r, w - 1) = X BY <1>1, <1>4, <1>5, <1>6, FiledEq
<1> QED BY <1>7 DEF X, r

\* The scheduled buffers are written.
LEMMA FiledWrite ==
  ASSUME NEW D \in Seq(Seq(Txn)), NEW q \in Seq(pbuffer), NEW s \in 0..Len(q)
  PROVE  /\ D \o Contents(q, 1, s) \in Seq(Seq(Txn))
         /\ Filed(D \o Contents(q, 1, s), q, s) = Filed(D, q, 0)
         /\ \A i \in 1..Len(D) : i \in 1..Len(D \o Contents(q, 1, s))
                                 /\ (D \o Contents(q, 1, s))[i] = D[i]
         /\ \A i \in 1..s : Len(D) + i \in 1..Len(D \o Contents(q, 1, s))
                            /\ (D \o Contents(q, 1, s))[Len(D) + i] = q[i].txns
<1> DEFINE Y == Contents(q, 1, s)
           E == D \o Y
           X == Filed(D, q, 0)
<1>1. Len(D) \in Nat /\ Len(q) \in Nat /\ s \in Nat /\ 0 \in 0..Len(q) OBVIOUS
<1>2. /\ Y \in Seq(Seq(Txn)) /\ Len(Y) = s
      /\ \A i \in 1..s : Y[i] = q[i].txns
  <2>1. 1 \in 1..Len(q) + 1 /\ s + 1 >= 1 /\ s - 1 + 1 = s BY <1>1
  <2>2. \A i \in 1..s : 1 + i - 1 = i BY <1>1
  <2>3. /\ Y \in Seq(Seq(Txn)) /\ Len(Y) = s - 1 + 1
        /\ \A i \in 1..s - 1 + 1 : Y[i] = q[1 + i - 1].txns
    BY <2>1, ContentsIs
  <2> HIDE DEF Y
  <2>4. ASSUME NEW i \in 1..s PROVE Y[i] = q[i].txns
    <3>1. Y[i] = q[1 + i - 1].txns BY <2>1, <2>3
    <3> QED BY <3>1, <2>2
  <2> QED BY <2>1, <2>3, <2>4
<1> HIDE DEF Y
<1>3. E \in Seq(Seq(Txn)) /\ Len(E) = Len(D) + s BY <1>2, ConcatProperties
<1>4. \A i \in 1..Len(D) : E[i] = D[i] BY <1>2
<1>5. \A i \in 1..s : E[Len(D) + i] = q[i].txns
  <2> TAKE i \in 1..s
  <2>1. i \in 1..Len(Y) /\ Len(D) + i \in 1..Len(D) + Len(Y) /\ ~(Len(D) + i <= Len(D))
        /\ Len(D) + i - Len(D) = i
    BY <1>1, <1>2
  <2>2. E[Len(D) + i] = Y[i] BY <2>1, <1>2
  <2> QED BY <2>2, <1>2
<1> HIDE DEF E
<1>6. /\ X \in Seq(Seq(Txn)) /\ Len(X) = Len(D) + Len(q) - 0
      /\ \A i \in 1..Len(D) : X[i] = D[i]
      /\ \A i \in 0 + 1..Len(q) : X[Len(D) + i - 0] = q[i].txns
  BY <1>1, FiledIs
<1> HIDE DEF X
<1>7. \A i \in 1..Len(q) : X[Len(D) + i] = q[i].txns
  <2> TAKE i \in 1..Len(q)
  <2>1. i \in 0 + 1..Len(q) /\ Len(D) + i - 0 = Len(D) + i BY <1>1
  <2> QED BY <2>1, <1>6
<1>8. Len(X) = Len(E) + Len(q) - s BY <1>1, <1>3, <1>6
<1>9. ASSUME NEW i \in 1..Len(E) PROVE X[i] = E[i]
  <2>1. CASE i \in 1..Len(D) BY <2>1, <1>4, <1>6
  <2>2. CASE i \notin 1..Len(D)
    <3>1. i - Len(D) \in 1..s /\ i - Len(D) \in 1..Len(q) /\ Len(D) + (i - Len(D)) = i
      BY <2>2, <1>1, <1>3
    <3>2. X[Len(D) + (i - Len(D))] = q[i - Len(D)].txns BY <3>1, <1>7
    <3>3. E[Len(D) + (i - Len(D))] = q[i - Len(D)].txns BY <3>1, <1>5
    <3> QED BY <3>1, <3>2, <3>3
  <2> QED BY <2>1, <2>2
<1>10. ASSUME NEW i \in s + 1..Len(q) PROVE X[Len(E) + i - s] = q[i].txns
  <2>1. Len(E) + i - s = Len(D) + i /\ i \in 1..Len(q) BY <1>1, <1>3
  <2> QED BY <2>1, <1>7
<1>11. Filed(E, q, s) = X BY <1>3, <1>6, <1>8, <1>9, <1>10, FiledEq
<1>12. \A i \in 1..Len(D) : i \in 1..Len(E) BY <1>1, <1>3
<1>13. \A i \in 1..s : Len(D) + i \in 1..Len(E) BY <1>1, <1>3
<1> QED BY <1>3, <1>4, <1>5, <1>11, <1>12, <1>13 DEF E, X, Y

\* The flags of the queued buffers do not matter.
LEMMA FiledFlags ==
  ASSUME NEW D \in Seq(Seq(Txn)), NEW q \in Seq(pbuffer), NEW r \in Seq(pbuffer),
         Len(r) = Len(q), \A i \in 1..Len(q) : r[i].txns = q[i].txns
  PROVE  Filed(D, r, 0) = Filed(D, q, 0)
<1> DEFINE X == Filed(D, q, 0)
<1>1. Len(D) \in Nat /\ Len(q) \in Nat /\ 0 \in 0..Len(q) OBVIOUS
<1>2. /\ X \in Seq(Seq(Txn)) /\ Len(X) = Len(D) + Len(q) - 0
      /\ \A i \in 1..Len(D) : X[i] = D[i]
      /\ \A i \in 0 + 1..Len(q) : X[Len(D) + i - 0] = q[i].txns
  BY <1>1, FiledIs
<1> HIDE DEF X
<1>3. ASSUME NEW i \in 0 + 1..Len(r) PROVE X[Len(D) + i - 0] = r[i].txns
  <2>1. i \in 0 + 1..Len(q) /\ i \in 1..Len(q) BY <1>1
  <2> QED BY <2>1, <1>2
<1>4. 0 \in 0..Len(r) /\ Len(X) = Len(D) + Len(r) - 0 BY <1>1, <1>2
<1>5. Filed(D, r, 0) = X BY <1>2, <1>3, <1>4, FiledEq
<1> QED BY <1>5 DEF X

-----------------------------------------------------------------------------
(* A worker's steps, for the buffers of one core.                          *)

\* The transactions in the open buffer.
LEMMA OpenIs ==
  ASSUME NEW A \in Seq(pbuffer)
  PROVE  Open(A) \in Seq(Txn) /\ (A # << >> => Open(A) = A[1].txns /\ A[1] \in pbuffer)
<1>1. CASE A = << >> BY <1>1 DEF Open
<1>2. CASE A # << >>
  <2>1. Head(A) = A[1] /\ A[1] \in pbuffer BY <1>2
  <2> QED BY <2>1, <1>2 DEF Open, pbuffer
<1> QED BY <1>1, <1>2

\* Transactions go to the open buffer.
LEMMA WriteHead ==
  ASSUME NEW A \in Seq(pbuffer), A # << >>, NEW ts \in Seq(Txn)
  PROVE  LET B == [A EXCEPT ![1].txns = @ \o ts] IN
         /\ B \in Seq(pbuffer) /\ Len(B) = Len(A) /\ B # << >>
         /\ Open(B) = Open(A) \o ts
         /\ B[1].io_scheduled_ = A[1].io_scheduled_
         /\ \A i \in 2..Len(A) : B[i] = A[i]
<1> DEFINE b == [A[1] EXCEPT !.txns = @ \o ts]
           B == [A EXCEPT ![1] = b]
<1>1. A[1] \in pbuffer /\ Open(A) = A[1].txns /\ 1 \in 1..Len(A) BY OpenIs
<1>2. A[1].txns \in Seq(Txn) BY <1>1 DEF pbuffer
<1>3. A[1].txns \o ts \in Seq(Txn) BY <1>2, ConcatProperties
<1>4. b \in pbuffer /\ b.txns = A[1].txns \o ts /\ b.io_scheduled_ = A[1].io_scheduled_
  BY <1>1, <1>3 DEF pbuffer
<1> HIDE DEF b
<1>5. B \in Seq(pbuffer) /\ Len(B) = Len(A) /\ B[1] = b /\ \A i \in 2..Len(A) : B[i] = A[i]
  BY <1>1, <1>4
<1>6. B # << >> BY <1>5, <1>1
<1> HIDE DEF B
<1>7. Open(B) = b.txns BY <1>5, <1>6, OpenIs
<1>8. [A EXCEPT ![1].txns = @ \o ts] = B BY DEF B, b
<1> QED BY <1>1, <1>4, <1>5, <1>6, <1>7, <1>8

\* The open buffer is pushed; the next one is empty.
LEMMA PopHead ==
  ASSUME NEW A \in Seq(pbuffer), A # << >>, \A i \in 2..Len(A) : A[i].txns = << >>,
         \A i \in 1..Len(A) : ~A[i].io_scheduled_
  PROVE  /\ Tail(A) \in Seq(pbuffer) /\ Len(Tail(A)) = Len(A) - 1
         /\ Open(Tail(A)) = << >>
         /\ \A i \in 1..Len(Tail(A)) : Tail(A)[i].txns = << >> /\ ~Tail(A)[i].io_scheduled_
<1> DEFINE B == Tail(A)
<1>1. B \in Seq(pbuffer) /\ Len(B) = Len(A) - 1 /\ \A i \in 1..Len(A) - 1 : B[i] = A[i + 1]
  OBVIOUS
<1>2. ASSUME NEW i \in 1..Len(B) PROVE B[i].txns = << >> /\ ~B[i].io_scheduled_
  <2>1. Len(A) \in Nat /\ i \in 1..Len(A) - 1 /\ i + 1 \in 2..Len(A) /\ i + 1 \in 1..Len(A)
    BY <1>1
  <2> QED BY <2>1, <1>1
<1> HIDE DEF B
<1>3. Open(B) = << >>
  <2>1. CASE B = << >> BY <2>1 DEF Open
  <2>2. CASE B # << >>
    <3>1. 1 \in 1..Len(B) BY <1>1, <2>2
    <3> QED BY <3>1, <2>2, <1>1, <1>2, OpenIs
  <2> QED BY <2>1, <2>2
<1> QED BY <1>1, <1>2, <1>3 DEF B

\* A buffer comes back.
LEMMA AppendEmpty ==
  ASSUME NEW A \in Seq(pbuffer)
  PROVE  LET B == Append(A, EmptyBuffer) IN
         /\ B \in Seq(pbuffer) /\ Len(B) = Len(A) + 1
         /\ Open(B) = Open(A)
         /\ \A i \in 1..Len(A) : B[i] = A[i]
         /\ B[Len(A) + 1] = EmptyBuffer
<1> DEFINE B == Append(A, EmptyBuffer)
<1>1. EmptyBuffer \in pbuffer BY DEF EmptyBuffer, pbuffer
<1>2. /\ B \in Seq(pbuffer) /\ Len(B) = Len(A) + 1 /\ B # << >>
      /\ \A i \in 1..Len(A) : B[i] = A[i]
      /\ B[Len(A) + 1] = EmptyBuffer
  BY <1>1
<1> HIDE DEF B
<1>3. Open(B) = Open(A)
  <2>1. CASE A = << >>
    <3>1. B[1] = EmptyBuffer BY <2>1, <1>2
    <3>2. Open(B) = B[1].txns BY <1>2, OpenIs
    <3>3. Open(A) = << >> BY <2>1 DEF Open
    <3> QED BY <3>1, <3>2, <3>3 DEF EmptyBuffer
  <2>2. CASE A # << >>
    <3>1. 1 \in 1..Len(A) BY <2>2
    <3> QED BY <3>1, <2>2, <1>2, OpenIs
  <2> QED BY <2>1, <2>2
<1> QED BY <1>2, <1>3 DEF B

\* Commit.
LEMMA TailCommit ==
  ASSUME NEW C \in Seq(Txn), NEW t \in Txn, NEW A \in Seq(pbuffer), NEW Z \in Seq(Txn),
         NEW comp, NEW n \in Nat, NEW lg, lg # "log", TailOK(C, A, Z, lg, comp, n)
  PROVE  TailOK(Append(C, t), A, Z, "log", comp, n)
<1> DEFINE O == Open(A)
           D == Append(C, t)
<1>1. O \in Seq(Txn) BY OpenIs
<1>2. /\ n + Len(O) + Len(Z) + 0 = Len(C)
      /\ \A j \in 1..Len(O) : O[j] = C[n + j]
      /\ \A j \in 1..Len(Z) : Z[j] = C[n + Len(O) + j]
      /\ \A i \in 2..Len(A) : A[i].txns = << >>
      /\ \A i \in 1..Len(A) : ~A[i].io_scheduled_
      /\ Len(Z) <= HorizonTxns
      /\ ~comp => Z = << >>
  BY DEF TailOK
<1> HIDE DEF O
<1>3. Len(O) \in Nat /\ Len(Z) \in Nat /\ Len(C) \in Nat BY <1>1
<1>4. Len(D) = Len(C) + 1 /\ \A i \in 1..Len(C) : D[i] = C[i] OBVIOUS
<1> HIDE DEF D
<1>5. n + Len(O) + Len(Z) + 1 = Len(D)
  <2>1. n + Len(O) + Len(Z) = Len(C) BY <1>2, <1>3
  <2>2. Len(D) = Len(C) + 1 BY <1>4
  <2> QED BY <2>1, <2>2
<1>6. \A j \in 1..Len(O) : O[j] = D[n + j]
  <2> TAKE j \in 1..Len(O)
  <2>1. n + j \in 1..Len(C) BY <1>2, <1>3
  <2> QED BY <2>1, <1>2, <1>4
<1>7. \A j \in 1..Len(Z) : Z[j] = D[n + Len(O) + j]
  <2> TAKE j \in 1..Len(Z)
  <2>1. n + Len(O) + j \in 1..Len(C) BY <1>2, <1>3
  <2> QED BY <2>1, <1>2, <1>4
<1>8. TailOK(D, A, Z, "log", comp, n) BY <1>2, <1>5, <1>6, <1>7 DEF TailOK, O
<1> QED BY <1>8 DEF D

\* The worker's place does not matter outside on_tid_finish().
LEMMA TailPlace ==
  ASSUME NEW C, NEW A, NEW Z, NEW comp, NEW n, NEW lg, NEW lg2, lg # "log", lg2 # "log",
         TailOK(C, A, Z, lg, comp, n)
  PROVE  TailOK(C, A, Z, lg2, comp, n)
BY DEF TailOK

\* The transaction goes to the open buffer.
LEMMA TailWrite ==
  ASSUME NEW C \in Seq(Txn), NEW A \in Seq(pbuffer), NEW Z \in Seq(Txn),
         NEW n \in Nat, A # << >>, TailOK(C, A, Z, "log", FALSE, n)
  PROVE  TailOK(C, [A EXCEPT ![1].txns = @ \o <<C[Len(C)]>>], Z, "idle", FALSE, n)
         /\ C[Len(C)] \in Txn
<1> DEFINE O == Open(A)
           B == [A EXCEPT ![1].txns = @ \o <<C[Len(C)]>>]
           P == O \o <<C[Len(C)]>>
<1>1. O \in Seq(Txn) BY OpenIs
<1>2. /\ n + Len(O) + Len(Z) + 1 = Len(C)
      /\ \A j \in 1..Len(O) : O[j] = C[n + j]
      /\ \A i \in 2..Len(A) : A[i].txns = << >>
      /\ \A i \in 1..Len(A) : ~A[i].io_scheduled_
      /\ Z = << >> /\ Len(Z) <= HorizonTxns
  BY DEF TailOK
<1> HIDE DEF O
<1>3. Len(O) \in Nat /\ Len(Z) = 0 /\ Len(C) \in Nat BY <1>1, <1>2
<1>4. Len(C) \in 1..Len(C) /\ n + Len(O) + 1 = Len(C) BY <1>2, <1>3
<1>5. C[Len(C)] \in Txn BY <1>4
<1>6. <<C[Len(C)]>> \in Seq(Txn) BY <1>5
<1>7. /\ B \in Seq(pbuffer) /\ Len(B) = Len(A) /\ B # << >>
      /\ Open(B) = P
      /\ B[1].io_scheduled_ = A[1].io_scheduled_
      /\ \A i \in 2..Len(A) : B[i] = A[i]
  BY <1>6, WriteHead DEF O
<1> HIDE DEF B
<1>8. Len(P) = Len(O) + 1 /\ P[Len(O) + 1] = C[Len(C)] /\ \A j \in 1..Len(O) : P[j] = O[j]
  BY <1>1, <1>5
<1> HIDE DEF P
<1>9. \A j \in 1..Len(P) : P[j] = C[n + j]
  <2> TAKE j \in 1..Len(P)
  <2>1. CASE j \in 1..Len(O) BY <2>1, <1>2, <1>8
  <2>2. CASE j = Len(O) + 1
    <3>1. n + j = Len(C) BY <2>2, <1>3, <1>4
    <3> QED BY <3>1, <2>2, <1>8
  <2>3. j \in 1..Len(O) \/ j = Len(O) + 1 BY <1>3, <1>8
  <2> QED BY <2>1, <2>2, <2>3
<1>10. n + Len(P) + Len(Z) + 0 = Len(C) BY <1>3, <1>4, <1>8
<1>11. \A i \in 1..Len(B) : ~B[i].io_scheduled_
  <2> TAKE i \in 1..Len(B)
  <2>1. i \in 1..Len(A) /\ (i = 1 \/ i \in 2..Len(A)) BY <1>7
  <2> QED BY <2>1, <1>2, <1>7
<1>12. \A i \in 2..Len(B) : B[i].txns = << >> BY <1>2, <1>7
<1>13. \A j \in 1..Len(Z) : Z[j] = C[n + Len(P) + j] BY <1>3
<1>14. TailOK(C, B, Z, "idle", FALSE, n)
  BY <1>2, <1>7, <1>9, <1>10, <1>11, <1>12, <1>13 DEF TailOK
<1> QED BY <1>5, <1>14 DEF B

\* The horizon goes to the open buffer.
LEMMA TailFlush ==
  ASSUME NEW C \in Seq(Txn), NEW A \in Seq(pbuffer), NEW Z \in Seq(Txn),
         NEW comp, NEW n \in Nat, NEW lg, A # << >>, TailOK(C, A, Z, lg, comp, n)
  PROVE  TailOK(C, [A EXCEPT ![1].txns = @ \o Z], << >>, lg, comp, n)
<1> DEFINE O == Open(A)
           B == [A EXCEPT ![1].txns = @ \o Z]
           P == O \o Z
           x == IF lg = "log" THEN 1 ELSE 0
<1>1. O \in Seq(Txn) BY OpenIs
<1>2. /\ n + Len(O) + Len(Z) + x = Len(C)
      /\ \A j \in 1..Len(O) : O[j] = C[n + j]
      /\ \A j \in 1..Len(Z) : Z[j] = C[n + Len(O) + j]
      /\ \A i \in 2..Len(A) : A[i].txns = << >>
      /\ \A i \in 1..Len(A) : ~A[i].io_scheduled_
  BY DEF TailOK
<1>0. x \in Nat OBVIOUS
<1> HIDE DEF O, x
<1>3. Len(O) \in Nat /\ Len(Z) \in Nat /\ Len(C) \in Nat BY <1>1, <1>2
<1>7. /\ B \in Seq(pbuffer) /\ Len(B) = Len(A) /\ B # << >>
      /\ Open(B) = P
      /\ B[1].io_scheduled_ = A[1].io_scheduled_
      /\ \A i \in 2..Len(A) : B[i] = A[i]
  BY WriteHead DEF O
<1> HIDE DEF B
<1>8. Len(P) = Len(O) + Len(Z) /\ (\A j \in 1..Len(O) : P[j] = O[j])
      /\ \A j \in 1..Len(Z) : P[Len(O) + j] = Z[j]
  BY <1>1, ConcatProperties
<1> HIDE DEF P
<1>9. \A j \in 1..Len(P) : P[j] = C[n + j]
  <2> TAKE j \in 1..Len(P)
  <2>1. CASE j \in 1..Len(O) BY <2>1, <1>2, <1>8
  <2>2. CASE j \notin 1..Len(O)
    <3>1. j - Len(O) \in 1..Len(Z) /\ Len(O) + (j - Len(O)) = j /\ n + Len(O) + (j - Len(O)) = n + j
      BY <2>2, <1>3, <1>8
    <3>2. P[Len(O) + (j - Len(O))] = Z[j - Len(O)] BY <3>1, <1>8
    <3>3. Z[j - Len(O)] = C[n + Len(O) + (j - Len(O))] BY <3>1, <1>2
    <3> QED BY <3>1, <3>2, <3>3
  <2> QED BY <2>1, <2>2
<1>10. n + Len(P) + 0 + x = Len(C) BY <1>0, <1>2, <1>3, <1>8
<1>11. \A i \in 1..Len(B) : ~B[i].io_scheduled_
  <2> TAKE i \in 1..Len(B)
  <2>1. i \in 1..Len(A) /\ (i = 1 \/ i \in 2..Len(A)) BY <1>7
  <2> QED BY <2>1, <1>2, <1>7
<1>12. \A i \in 2..Len(B) : B[i].txns = << >> BY <1>2, <1>7
<1> DEFINE E == << >>
<1>13. Len(E) = 0 /\ Len(E) <= HorizonTxns /\ E = << >> BY LoggerAssumption
<1> HIDE DEF E
<1>14. \A j \in 1..Len(E) : E[j] = C[n + Len(P) + j] BY <1>13
<1>15. n + Len(P) + Len(E) + x = Len(C) BY <1>10, <1>13
<1>16. TailOK(C, B, E, lg, comp, n)
  BY <1>7, <1>9, <1>11, <1>12, <1>13, <1>14, <1>15 DEF TailOK, x
<1> QED BY <1>16 DEF B, E

\* The transaction goes to the horizon, which has room.
LEMMA TailHorizon ==
  ASSUME NEW C \in Seq(Txn), NEW A \in Seq(pbuffer), NEW Z \in Seq(Txn),
         NEW n \in Nat, TailOK(C, A, Z, "log", TRUE, n), Len(Z) + 1 <= HorizonTxns
  PROVE  TailOK(C, A, Z \o <<C[Len(C)]>>, "idle", TRUE, n) /\ C[Len(C)] \in Txn
<1> DEFINE O == Open(A)
           Y == Z \o <<C[Len(C)]>>
<1>1. O \in Seq(Txn) BY OpenIs
<1>2. /\ n + Len(O) + Len(Z) + 1 = Len(C)
      /\ \A j \in 1..Len(O) : O[j] = C[n + j]
      /\ \A j \in 1..Len(Z) : Z[j] = C[n + Len(O) + j]
      /\ \A i \in 2..Len(A) : A[i].txns = << >>
      /\ \A i \in 1..Len(A) : ~A[i].io_scheduled_
  BY DEF TailOK
<1> HIDE DEF O
<1>3. Len(O) \in Nat /\ Len(Z) \in Nat /\ Len(C) \in Nat BY <1>1
<1>4. Len(C) \in 1..Len(C) BY <1>2, <1>3
<1>5. C[Len(C)] \in Txn BY <1>4
<1>8. Len(Y) = Len(Z) + 1 /\ Y[Len(Z) + 1] = C[Len(C)] /\ \A j \in 1..Len(Z) : Y[j] = Z[j]
  BY <1>5
<1> HIDE DEF Y
<1>9. \A j \in 1..Len(Y) : Y[j] = C[n + Len(O) + j]
  <2> TAKE j \in 1..Len(Y)
  <2>1. CASE j \in 1..Len(Z) BY <2>1, <1>2, <1>8
  <2>2. CASE j = Len(Z) + 1
    <3>1. n + Len(O) + j = Len(C) BY <2>2, <1>2, <1>3
    <3> QED BY <3>1, <2>2, <1>8
  <2>3. j \in 1..Len(Z) \/ j = Len(Z) + 1 BY <1>3, <1>8
  <2> QED BY <2>1, <2>2, <2>3
<1>10. n + Len(O) + Len(Y) + 0 = Len(C) BY <1>2, <1>3, <1>8
<1>11. Len(Y) <= HorizonTxns BY <1>8
<1>14. TailOK(C, A, Y, "idle", TRUE, n) BY <1>2, <1>9, <1>10, <1>11 DEF TailOK, O
<1> QED BY <1>5, <1>14 DEF Y

\* The open buffer is pushed.
LEMMA TailPush ==
  ASSUME NEW C \in Seq(Txn), NEW A \in Seq(pbuffer), NEW Z \in Seq(Txn),
         NEW comp, NEW n \in Nat, NEW lg, A # << >>, TailOK(C, A, Z, lg, comp, n)
  PROVE  TailOK(C, Tail(A), Z, lg, comp, n + Len(Open(A)))
         /\ n + Len(Open(A)) <= Len(C) /\ Open(A) = Head(A).txns
<1> DEFINE O == Open(A)
           B == Tail(A)
           x == IF lg = "log" THEN 1 ELSE 0
           m == n + Len(O)
<1>1. O \in Seq(Txn) BY OpenIs
<1>2. /\ n + Len(O) + Len(Z) + x = Len(C)
      /\ \A j \in 1..Len(Z) : Z[j] = C[n + Len(O) + j]
      /\ \A i \in 2..Len(A) : A[i].txns = << >>
      /\ \A i \in 1..Len(A) : ~A[i].io_scheduled_
      /\ Len(Z) <= HorizonTxns
      /\ ~comp => Z = << >>
  BY DEF TailOK
<1>0. x \in Nat OBVIOUS
<1>6. O = Head(A).txns BY DEF Open
<1> HIDE DEF O, x
<1>3. Len(O) \in Nat /\ Len(Z) \in Nat /\ Len(C) \in Nat /\ m \in Nat BY <1>1
<1>4. /\ B \in Seq(pbuffer) /\ Open(B) = << >> /\ Len(B) \in Nat
      /\ \A i \in 1..Len(B) : B[i].txns = << >> /\ ~B[i].io_scheduled_
  BY <1>2, PopHead
<1> HIDE DEF B
<1>5. m + Len(Open(B)) + Len(Z) + x = Len(C) /\ Len(Open(B)) = 0
  <2>1. Len(Open(B)) = 0 BY <1>4
  <2> QED BY <2>1, <1>0, <1>2, <1>3
<1>7. \A j \in 1..Len(Z) : Z[j] = C[m + Len(Open(B)) + j]
  <2> TAKE j \in 1..Len(Z)
  <2>1. m + 0 + j = n + Len(O) + j BY <1>3
  <2> QED BY <2>1, <1>2, <1>5
<1>8. \A i \in 2..Len(B) : B[i].txns = << >>
  <2> TAKE i \in 2..Len(B)
  <2>1. i \in 1..Len(B) BY <1>4
  <2> QED BY <2>1, <1>4
<1>9. \A j \in 1..Len(Open(B)) : Open(B)[j] = C[m + j] BY <1>5
<1>10. TailOK(C, B, Z, lg, comp, m) BY <1>2, <1>4, <1>5, <1>7, <1>8, <1>9 DEF TailOK, x
<1>11. m <= Len(C) BY <1>0, <1>2, <1>3
<1> QED BY <1>6, <1>10, <1>11 DEF B, O

\* A buffer comes back from the writer.
LEMMA TailReturn ==
  ASSUME NEW C, NEW A \in Seq(pbuffer), NEW Z, NEW comp, NEW n, NEW lg,
         TailOK(C, A, Z, lg, comp, n)
  PROVE  TailOK(C, Append(A, EmptyBuffer), Z, lg, comp, n)
<1> DEFINE B == Append(A, EmptyBuffer)
<1>1. /\ B \in Seq(pbuffer) /\ Len(B) = Len(A) + 1 /\ Open(B) = Open(A)
      /\ (\A i \in 1..Len(A) : B[i] = A[i]) /\ B[Len(A) + 1] = EmptyBuffer
  BY AppendEmpty
<1>2. Len(A) \in Nat OBVIOUS
<1> HIDE DEF B
<1>3. ASSUME NEW i \in 1..Len(B)
      PROVE  ~B[i].io_scheduled_ /\ (i >= 2 => B[i].txns = << >>)
  <2>1. CASE i \in 1..Len(A)
    <3>1. B[i] = A[i] /\ ~A[i].io_scheduled_ BY <2>1, <1>1 DEF TailOK
    <3>2. i >= 2 => i \in 2..Len(A) BY <2>1, <1>2
    <3> QED BY <3>1, <3>2 DEF TailOK
  <2>2. CASE i = Len(A) + 1 BY <2>2, <1>1 DEF EmptyBuffer
  <2>3. i \in 1..Len(A) \/ i = Len(A) + 1 BY <1>1, <1>2
  <2> QED BY <2>1, <2>2, <2>3
<1>4. \A i \in 2..Len(B) : B[i].txns = << >>
  <2> TAKE i \in 2..Len(B)
  <2>1. i \in 1..Len(B) /\ i >= 2 BY <1>1, <1>2
  <2> QED BY <2>1, <1>3
<1>5. TailOK(C, B, Z, lg, comp, n) BY <1>1, <1>3, <1>4 DEF TailOK
<1> QED BY <1>5 DEF B

-----------------------------------------------------------------------------
(* One core: what each step of its worker and of its writer does to CoreOK. *)

LEMMA WrittenIn ==
  ASSUME NEW q \in Seq(pbuffer), NEW w
  PROVE  WrittenOf(q, w) \in 0..Len(q)
BY ScheduledIs DEF WrittenOf

\* The clock goes on.
LEMMA CoreTick ==
  ASSUME NEW c, NEW C \in Seq(Txn), NEW D, NEW P, NEW A, NEW Z, NEW lg, NEW comp, NEW w,
         NEW now \in Nat, NEW later \in Nat, now <= later,
         CoreOK(c, C, D, P, A, Z, lg, comp, w, now)
  PROVE  CoreOK(c, C, D, P, A, Z, lg, comp, w, later)
<1>1. CommitOK(C, later)
  <2>1. ASSUME NEW i \in 1..Len(C) PROVE C[i].n = i /\ C[i].ep <= later
    <3>1. C[i] \in Txn OBVIOUS
    <3>2. C[i].ep \in Nat BY <3>1, ClockAssumption DEF Txn
    <3>3. C[i].n = i /\ C[i].ep <= now BY DEF CoreOK, CommitOK
    <3> QED BY <3>2, <3>3
  <2> QED BY <2>1 DEF CoreOK, CommitOK
<1> QED BY <1>1 DEF CoreOK

\* Commit.
LEMMA CoreCommit ==
  ASSUME NEW c, NEW C \in Seq(Txn), NEW D, NEW P, NEW A \in Seq(pbuffer), NEW Z \in Seq(Txn),
         NEW comp, NEW w, NEW now \in 1..MaxTick,
         CoreOK(c, C, D, P, A, Z, "idle", comp, w, now)
  PROVE  /\ CoreOK(c, Append(C, [n |-> Len(C) + 1, ep |-> now]), D, P, A, Z, "log", comp, w, now)
         /\ [n |-> Len(C) + 1, ep |-> now] \in Txn
<1> DEFINE t == [n |-> Len(C) + 1, ep |-> now]
           E == Append(C, t)
           F == Filed(D, P, WrittenOf(P, w))
<1>1. t \in Txn /\ Len(C) \in Nat /\ now \in Nat BY ClockAssumption DEF Txn
<1>2. t.n = Len(C) + 1 /\ t.ep = now OBVIOUS
<1> HIDE DEF t
<1>3. Len(E) = Len(C) + 1 /\ E[Len(C) + 1] = t /\ (\A i \in 1..Len(C) : E[i] = C[i]) BY <1>1
<1> HIDE DEF E, F
<1>4. PICK n \in 0..Len(C) : HoldFirst(F, C, n) /\ TailOK(C, A, Z, "idle", comp, n)
  BY DEF CoreOK, LogOK, F
<1>5. n \in Nat /\ n \in 0..Len(E) /\ \A i \in 1..n : i \in 1..Len(C) BY <1>1, <1>3
<1>6. HoldFirst(F, E, n)
  <2>1. \A i \in 1..n : E[i] = C[i] BY <1>3, <1>5
  <2> QED BY <2>1, <1>4, HoldKeep
<1>7. TailOK(E, A, Z, "log", comp, n) BY <1>1, <1>4, <1>5, TailCommit DEF E
<1>8. CommitOK(E, now)
  <2>1. \A i \in 1..Len(C) : C[i].n = i /\ C[i].ep <= now BY DEF CoreOK, CommitOK
  <2>2. \A i, j \in 1..Len(C) : i <= j => C[i].ep <= C[j].ep BY DEF CoreOK, CommitOK
  <2>3. \A i \in 1..Len(E) : i \in 1..Len(C) \/ i = Len(C) + 1 BY <1>1, <1>3
  <2>4. \A i \in 1..Len(E) : E[i].n = i /\ E[i].ep <= now BY <2>1, <2>3, <1>1, <1>2, <1>3
  <2>5. ASSUME NEW i \in 1..Len(E), NEW j \in 1..Len(E), i <= j
        PROVE  E[i].ep <= E[j].ep
    <3>1. CASE j \in 1..Len(C)
      <4>1. i \in 1..Len(C) BY <3>1, <2>5, <1>1
      <4> QED BY <4>1, <3>1, <2>2, <2>5, <1>3
    <3>2. CASE j = Len(C) + 1 BY <3>2, <2>4, <1>2, <1>3
    <3> QED BY <3>1, <3>2, <2>3
  <2> QED BY <2>4, <2>5 DEF CommitOK
<1>9. LogOK(E, F, A, Z, "log", comp) BY <1>5, <1>6, <1>7 DEF LogOK
<1>10. CoreOK(c, E, D, P, A, Z, "log", comp, w, now) BY <1>8, <1>9 DEF CoreOK, F
<1> QED BY <1>1, <1>10 DEF E, t

\* Steps that change the open buffer, the horizon and the worker's place.
LEMMA CoreTail ==
  ASSUME NEW c, NEW C, NEW D, NEW P, NEW A, NEW Z, NEW lg, NEW comp, NEW w, NEW now,
         NEW A2, NEW Z2, NEW lg2,
         CoreOK(c, C, D, P, A, Z, lg, comp, w, now),
         \A n \in 0..Len(C) : TailOK(C, A, Z, lg, comp, n) => TailOK(C, A2, Z2, lg2, comp, n)
  PROVE  CoreOK(c, C, D, P, A2, Z2, lg2, comp, w, now)
BY DEF CoreOK, LogOK

\* The open buffer is pushed.
LEMMA CorePush ==
  ASSUME NEW c, NEW C \in Seq(Txn), NEW D \in Seq(Seq(Txn)), NEW P \in Seq(pbuffer),
         NEW A \in Seq(pbuffer), NEW Z \in Seq(Txn), NEW lg, NEW comp, NEW w, NEW now,
         A # << >>, Head(A).txns # << >>,
         CoreOK(c, C, D, P, A, Z, lg, comp, w, now)
  PROVE  CoreOK(c, C, D, Append(P, Head(A)), Tail(A), Z, lg, comp, w, now)
<1> DEFINE b == Head(A)
           R == Append(P, b)
           v == WrittenOf(P, w)
           F == Filed(D, P, v)
<1>1. b \in pbuffer /\ b = A[1] /\ 1 \in 1..Len(A) OBVIOUS
<1>2. PICK n \in 0..Len(C) : HoldFirst(F, C, n) /\ TailOK(C, A, Z, lg, comp, n)
  BY DEF CoreOK, LogOK
<1>3. ~b.io_scheduled_ /\ b.txns \in Seq(Txn) /\ Open(A) = b.txns
  BY <1>1, <1>2 DEF TailOK, Open, pbuffer
<1> HIDE DEF b
<1>4. /\ R \in Seq(pbuffer) /\ Len(R) = Len(P) + 1 /\ R[Len(P) + 1] = b
      /\ \A i \in 1..Len(P) : R[i] = P[i]
  BY <1>1
<1>5. Len(P) \in Nat /\ \A i \in 1..Len(R) : i \in 1..Len(P) \/ i = Len(P) + 1 BY <1>4
<1> HIDE DEF R
<1>6. Scheduled(R) = Scheduled(P)
  <2> DEFINE m == Scheduled(P)
  <2>1. /\ m \in 0..Len(P) /\ (\A i \in 1..m : P[i].io_scheduled_)
        /\ (m < Len(P) => ~P[m + 1].io_scheduled_)
    BY ScheduledIs
  <2> HIDE DEF m
  <2>2. m \in 0..Len(R) /\ \A i \in 1..m : i \in 1..Len(P) BY <2>1, <1>4, <1>5
  <2>3. \A i \in 1..m : R[i].io_scheduled_ BY <2>1, <2>2, <1>4
  <2>4. ~R[m + 1].io_scheduled_
    <3>1. CASE m < Len(P)
      <4>1. m + 1 \in 1..Len(P) BY <3>1, <2>1, <1>5
      <4> QED BY <4>1, <3>1, <2>1, <1>4
    <3>2. CASE m = Len(P) BY <3>2, <1>3, <1>4
    <3> QED BY <3>1, <3>2, <2>1, <1>5
  <2> QED BY <2>2, <2>3, <2>4, <1>4, ScheduledEq DEF m
<1>7. WrittenOf(R, w) = v BY <1>6 DEF WrittenOf
<1>8. v \in 0..Len(P) BY WrittenIn
<1> HIDE DEF v
<1>9. Filed(D, R, v) = Append(F, b.txns) BY <1>1, <1>8, FiledPush DEF R
<1>10. F \in Seq(Seq(Txn)) BY <1>8, FiledIs
<1> HIDE DEF F
<1>11. /\ TailOK(C, Tail(A), Z, lg, comp, n + Len(b.txns))
       /\ n + Len(b.txns) <= Len(C) /\ n \in Nat /\ Len(C) \in Nat
  <2>1. n \in Nat /\ Len(C) \in Nat OBVIOUS
  <2> QED BY <2>1, <1>2, <1>3, TailPush
<1>12. HoldFirst(Append(F, b.txns), C, n + Len(b.txns))
  <2>1. \A i \in 1..Len(C) : C[i].n = i BY DEF CoreOK, CommitOK
  <2>2. \A j \in 1..Len(b.txns) : b.txns[j] = C[n + j] BY <1>2, <1>3 DEF TailOK
  <2> QED BY <2>1, <2>2, <1>2, <1>3, <1>10, <1>11, HoldAppend
<1>13. LogOK(C, Filed(D, R, WrittenOf(R, w)), Tail(A), Z, lg, comp)
  <2>1. Len(b.txns) \in Nat BY <1>3
  <2>2. n + Len(b.txns) \in 0..Len(C) BY <2>1, <1>11
  <2> QED BY <2>2, <1>7, <1>9, <1>11, <1>12 DEF LogOK
<1>14. FlagsOK(R, w, c)
  <2>1. ASSUME NEW i \in 1..Len(R), NEW j \in 1..Len(R), i <= j, R[j].io_scheduled_
        PROVE  R[i].io_scheduled_
    <3>1. j \in 1..Len(P) BY <2>1, <1>3, <1>4, <1>5
    <3>2. i \in 1..Len(P) BY <3>1, <2>1, <1>5
    <3> QED BY <3>1, <3>2, <2>1, <1>4 DEF CoreOK, FlagsOK
  <2>2. ASSUME NEW i \in 1..Len(R), QuietFor(w, c) PROVE ~R[i].io_scheduled_
    BY <2>2, <1>3, <1>4, <1>5 DEF CoreOK, FlagsOK
  <2> QED BY <2>1, <2>2 DEF FlagsOK
<1>15. \A i \in 1..Len(R) : R[i].txns # << >>
  <2>1. b.txns # << >> BY DEF b
  <2> QED BY <2>1, <1>4, <1>5 DEF CoreOK
<1>16. CoreOK(c, C, D, R, Tail(A), Z, lg, comp, w, now) BY <1>13, <1>14, <1>15 DEF CoreOK
<1> QED BY <1>16 DEF R, b

NoneScheduled(q) == \A i \in 1..Len(q) : ~q[i].io_scheduled_

LEMMA NoneIsZero ==
  ASSUME NEW q \in Seq(pbuffer), NoneScheduled(q)
  PROVE  Scheduled(q) = 0
<1>1. Len(q) \in Nat /\ 0 \in 0..Len(q) /\ (0 < Len(q) => 0 + 1 \in 1..Len(q)) OBVIOUS
<1> QED BY <1>1, ScheduledEq DEF NoneScheduled

\* The writer moves from w to x, at another core of its own or between places
\* that mean the same for core c.
Moves(q, w, x, c) ==
  \/ NoneScheduled(q)
  \/ /\ QuietFor(x, c) => QuietFor(w, c)
     /\ w.pc \in Done <=> x.pc \in Done
     /\ w.pc \in {"scan", "write"} => x.pc \in {"scan", "write"}

LEMMA CoreMove ==
  ASSUME NEW c, NEW C, NEW D, NEW P \in Seq(pbuffer), NEW A, NEW Z, NEW lg, NEW comp,
         NEW w, NEW x, NEW now, Moves(P, w, x, c),
         CoreOK(c, C, D, P, A, Z, lg, comp, w, now)
  PROVE  CoreOK(c, C, D, P, A, Z, lg, comp, x, now)
<1>1. WrittenOf(P, x) = WrittenOf(P, w)
  <2>1. CASE NoneScheduled(P) BY <2>1, NoneIsZero DEF WrittenOf
  <2>2. CASE w.pc \in Done <=> x.pc \in Done BY <2>2 DEF WrittenOf
  <2> QED BY <2>1, <2>2 DEF Moves
<1>2. FlagsOK(P, x, c) BY DEF FlagsOK, Moves, NoneScheduled, CoreOK
<1> QED BY <1>1, <1>2 DEF CoreOK

LEMMA ClaimMove ==
  ASSUME NEW e, NEW C, NEW D, NEW P, NEW w, NEW x, NEW c, Moves(P, w, x, c),
         ClaimOK(e, C, D, P, w.pc)
  PROVE  ClaimOK(e, C, D, P, x.pc)
BY DEF ClaimOK, Moves, NoneScheduled, InScheduled

\* The writer schedules the first n buffers of the queue.
Flagged(q, n) == [i \in DOMAIN q |-> [q[i] EXCEPT !.io_scheduled_ = i <= n]]

LEMMA FlaggedIs ==
  ASSUME NEW q \in Seq(pbuffer), NEW n \in 0..Len(q)
  PROVE  /\ Flagged(q, n) \in Seq(pbuffer) /\ Len(Flagged(q, n)) = Len(q)
         /\ \A i \in 1..Len(q) : /\ Flagged(q, n)[i].txns = q[i].txns
                                 /\ Flagged(q, n)[i].io_scheduled_ = (i <= n)
<1> DEFINE b(i) == [q[i] EXCEPT !.io_scheduled_ = i <= n]
<1>1. DOMAIN q = 1..Len(q) /\ Len(q) \in Nat OBVIOUS
<1>2. ASSUME NEW i \in 1..Len(q)
      PROVE  b(i) \in pbuffer /\ b(i).txns = q[i].txns /\ b(i).io_scheduled_ = (i <= n)
  <2>1. q[i] \in pbuffer OBVIOUS
  <2>2. (i <= n) \in BOOLEAN BY <1>1
  <2> QED BY <2>1, <2>2 DEF pbuffer
<1>3. Flagged(q, n) = [i \in 1..Len(q) |-> b(i)] BY <1>1 DEF Flagged
<1> HIDE DEF b
<1>4. Flagged(q, n) \in Seq(pbuffer) BY <1>1, <1>2, <1>3, IsASeq
<1>5. Len(Flagged(q, n)) = Len(q) BY <1>1, <1>3
<1> QED BY <1>2, <1>3, <1>4, <1>5

LEMMA CoreScan ==
  ASSUME NEW c, NEW C, NEW D \in Seq(Seq(Txn)), NEW P \in Seq(pbuffer), NEW A, NEW Z,
         NEW lg, NEW comp, NEW w, NEW x, NEW now, NEW n \in 0..Len(P),
         CoreOK(c, C, D, P, A, Z, lg, comp, w, now),
         w.pc = "scan", x.pc \notin Done, QuietFor(x, c) => n = 0
  PROVE  CoreOK(c, C, D, Flagged(P, n), A, Z, lg, comp, x, now)
<1> DEFINE R == Flagged(P, n)
<1>1. /\ R \in Seq(pbuffer) /\ Len(R) = Len(P)
      /\ \A i \in 1..Len(P) : R[i].txns = P[i].txns /\ R[i].io_scheduled_ = (i <= n)
  BY FlaggedIs
<1> HIDE DEF R
<1>2. WrittenOf(R, x) = 0 /\ WrittenOf(P, w) = 0 BY DEF WrittenOf, Done
<1>3. Filed(D, R, 0) = Filed(D, P, 0) BY <1>1, FiledFlags
<1>4. Len(P) \in Nat OBVIOUS
<1>5. FlagsOK(R, x, c)
  <2>1. ASSUME NEW i \in 1..Len(R), NEW j \in 1..Len(R), i <= j, R[j].io_scheduled_
        PROVE  R[i].io_scheduled_
    <3>1. j <= n BY <2>1, <1>1
    <3>2. i <= n BY <3>1, <2>1, <1>1, <1>4
    <3> QED BY <3>2, <1>1
  <2>2. ASSUME NEW i \in 1..Len(R), QuietFor(x, c) PROVE ~R[i].io_scheduled_
    <3>1. ~(i <= n) BY <2>2, <1>1, <1>4
    <3> QED BY <3>1, <1>1
  <2> QED BY <2>1, <2>2 DEF FlagsOK
<1>6. \A i \in 1..Len(R) : R[i].txns # << >> BY <1>1 DEF CoreOK
<1>7. CoreOK(c, C, D, R, A, Z, lg, comp, x, now) BY <1>2, <1>3, <1>5, <1>6 DEF CoreOK
<1> QED BY <1>7 DEF R

\* writev(): the scheduled buffers go to the file.
LEMMA CoreWrite ==
  ASSUME NEW c, NEW C, NEW D \in Seq(Seq(Txn)), NEW P \in Seq(pbuffer), NEW A, NEW Z,
         NEW lg, NEW comp, NEW w, NEW x, NEW now,
         CoreOK(c, C, D, P, A, Z, lg, comp, w, now),
         w.pc = "write", x.pc \in Done, ~QuietFor(x, c)
  PROVE  CoreOK(c, C, D \o Contents(P, 1, Scheduled(P)), P, A, Z, lg, comp, x, now)
<1> DEFINE s == Scheduled(P)
           E == D \o Contents(P, 1, s)
<1>1. s \in 0..Len(P) BY ScheduledIs
<1> HIDE DEF s
<1>2. Filed(E, P, s) = Filed(D, P, 0) BY <1>1, FiledWrite
<1> HIDE DEF E
<1>3. WrittenOf(P, x) = s /\ WrittenOf(P, w) = 0 BY DEF WrittenOf, Done, s
<1>4. FlagsOK(P, x, c) BY DEF CoreOK, FlagsOK
<1>5. CoreOK(c, C, E, P, A, Z, lg, comp, x, now) BY <1>2, <1>3, <1>4 DEF CoreOK
<1> QED BY <1>5 DEF E, s

\* A written buffer is given back.
LEMMA CoreReturn ==
  ASSUME NEW c, NEW C, NEW D \in Seq(Seq(Txn)), NEW P \in Seq(pbuffer),
         NEW A \in Seq(pbuffer), NEW Z, NEW lg, NEW comp, NEW w, NEW now,
         CoreOK(c, C, D, P, A, Z, lg, comp, w, now),
         w.pc \in Done, P # << >>, Head(P).io_scheduled_
  PROVE  CoreOK(c, C, D, Tail(P), Append(A, EmptyBuffer), Z, lg, comp, w, now)
<1> DEFINE R == Tail(P)
           s == Scheduled(P)
<1>1. /\ s \in 0..Len(P) /\ (\A i \in 1..s : P[i].io_scheduled_)
      /\ (s < Len(P) => ~P[s + 1].io_scheduled_)
  BY ScheduledIs
<1> HIDE DEF s
<1>2. Len(P) \in Nat /\ Len(P) > 0 /\ Head(P) = P[1] OBVIOUS
<1>3. s \in 1..Len(P)
  <2>1. s # 0
    <3> SUFFICES ASSUME s = 0 PROVE FALSE OBVIOUS
    <3>1. ~P[0 + 1].io_scheduled_ BY <1>1, <1>2
    <3> QED BY <3>1, <1>2
  <2> QED BY <2>1, <1>1, <1>2
<1>4. /\ R \in Seq(pbuffer) /\ Len(R) = Len(P) - 1
      /\ \A i \in 1..Len(P) - 1 : R[i] = P[i + 1]
  BY <1>2
<1>5. Filed(D, R, s - 1) = Filed(D, P, s) BY <1>3, FiledPop
<1> HIDE DEF R
<1>6. \A i \in 1..Len(R) : i \in 1..Len(P) - 1 /\ i + 1 \in 1..Len(P) /\ R[i] = P[i + 1]
  BY <1>2, <1>4
<1>7. Scheduled(R) = s - 1
  <2>1. s - 1 \in 0..Len(R) BY <1>2, <1>3, <1>4
  <2>2. ASSUME NEW i \in 1..s - 1 PROVE R[i].io_scheduled_
    <3>1. i \in 1..Len(R) /\ i + 1 \in 1..s BY <1>2, <1>3, <1>4
    <3> QED BY <3>1, <1>1, <1>6
  <2>3. ASSUME s - 1 < Len(R) PROVE ~R[(s - 1) + 1].io_scheduled_
    <3>1. (s - 1) + 1 = s /\ s \in 1..Len(R) /\ s < Len(P) BY <2>3, <1>2, <1>3, <1>4
    <3>2. R[s] = P[s + 1] BY <3>1, <1>6
    <3> QED BY <3>1, <3>2, <1>1
  <2> QED BY <2>1, <2>2, <2>3, <1>4, ScheduledEq
<1>8. WrittenOf(R, w) = s - 1 /\ WrittenOf(P, w) = s BY <1>7 DEF WrittenOf, s
<1>9. FlagsOK(R, w, c)
  <2>1. ASSUME NEW i \in 1..Len(R), NEW j \in 1..Len(R), i <= j, R[j].io_scheduled_
        PROVE  R[i].io_scheduled_
    <3>1. i + 1 \in 1..Len(P) /\ j + 1 \in 1..Len(P) /\ R[i] = P[i + 1] /\ R[j] = P[j + 1]
      BY <1>6
    <3>2. i + 1 <= j + 1 BY <2>1, <1>4, <1>2
    <3> QED BY <3>1, <3>2, <2>1 DEF CoreOK, FlagsOK
  <2>2. ASSUME NEW i \in 1..Len(R), QuietFor(w, c) PROVE ~R[i].io_scheduled_
    BY <2>2, <1>6 DEF CoreOK, FlagsOK
  <2> QED BY <2>1, <2>2 DEF FlagsOK
<1>10. \A i \in 1..Len(R) : R[i].txns # << >> BY <1>6 DEF CoreOK
<1>11. LogOK(C, Filed(D, R, WrittenOf(R, w)), Append(A, EmptyBuffer), Z, lg, comp)
  BY <1>5, <1>8, TailReturn DEF CoreOK, LogOK
<1>12. CoreOK(c, C, D, R, Append(A, EmptyBuffer), Z, lg, comp, w, now)
  BY <1>9, <1>10, <1>11 DEF CoreOK
<1> QED BY <1>12 DEF R

-----------------------------------------------------------------------------
(* The claims of the writer.                                               *)

\* Later transactions have later epochs.
LEMMA ClaimCommit ==
  ASSUME NEW e \in Nat, NEW C \in Seq(Txn), NEW D, NEW P, NEW pc, NEW t \in Txn, e < t.ep,
         ClaimOK(e, C, D, P, pc)
  PROVE  ClaimOK(e, Append(C, t), D, P, pc)
<1> DEFINE E == Append(C, t)
<1>1. Len(C) \in Nat /\ Len(E) = Len(C) + 1 /\ E[Len(C) + 1] = t /\ \A i \in 1..Len(C) : E[i] = C[i]
  OBVIOUS
<1>2. t.ep \in Nat BY ClockAssumption DEF Txn
<1> HIDE DEF E
<1>3. ASSUME NEW i \in 1..Len(E), E[i].ep <= e
      PROVE  InFile(D, E[i]) \/ (pc \in {"scan", "write"} /\ InScheduled(P, E[i]))
  <2>1. i # Len(C) + 1 BY <1>1, <1>2, <1>3
  <2>2. i \in 1..Len(C) BY <2>1, <1>1
  <2> QED BY <2>2, <1>1, <1>3 DEF ClaimOK
<1>4. ClaimOK(e, E, D, P, pc) BY <1>3 DEF ClaimOK
<1> QED BY <1>4 DEF E

LEMMA ClaimPush ==
  ASSUME NEW e, NEW C, NEW D, NEW P \in Seq(pbuffer), NEW pc, NEW b \in pbuffer,
         ClaimOK(e, C, D, P, pc)
  PROVE  ClaimOK(e, C, D, Append(P, b), pc)
<1> DEFINE R == Append(P, b)
<1>1. \A k \in 1..Len(P) : k \in 1..Len(R) /\ R[k] = P[k] OBVIOUS
<1> HIDE DEF R
<1>2. ASSUME NEW t, InScheduled(P, t) PROVE InScheduled(R, t)
  BY <1>1, <1>2 DEF InScheduled
<1>3. ClaimOK(e, C, D, R, pc) BY <1>2 DEF ClaimOK
<1> QED BY <1>3 DEF R

\* Where nothing is scheduled, or all that is has been written.
LEMMA ClaimQuiet ==
  ASSUME NEW e, NEW C, NEW D, NEW P, NEW pc, NEW R, NEW pc2,
         NoneScheduled(P) \/ pc \in Done, ClaimOK(e, C, D, P, pc)
  PROVE  ClaimOK(e, C, D, R, pc2)
BY DEF ClaimOK, NoneScheduled, InScheduled, Done

\* writev() makes the claims true.
LEMMA ClaimWrite ==
  ASSUME NEW e, NEW C, NEW D \in Seq(Seq(Txn)), NEW P \in Seq(pbuffer), NEW pc, NEW pc2,
         NEW w, NEW c, FlagsOK(P, w, c), ClaimOK(e, C, D, P, pc)
  PROVE  ClaimOK(e, C, D \o Contents(P, 1, Scheduled(P)), P, pc2)
<1> DEFINE s == Scheduled(P)
           E == D \o Contents(P, 1, s)
<1>1. s \in 0..Len(P) /\ (s < Len(P) => ~P[s + 1].io_scheduled_) BY ScheduledIs
<1> HIDE DEF s
<1>2. /\ \A i \in 1..Len(D) : i \in 1..Len(E) /\ E[i] = D[i]
      /\ \A i \in 1..s : Len(D) + i \in 1..Len(E) /\ E[Len(D) + i] = P[i].txns
  BY <1>1, FiledWrite
<1> HIDE DEF E
<1>3. ASSUME NEW t, InFile(D, t) PROVE InFile(E, t)
  BY <1>2, <1>3 DEF InFile
<1>4. ASSUME NEW t, InScheduled(P, t) PROVE InFile(E, t)
  <2>1. PICK k \in 1..Len(P) : P[k].io_scheduled_ /\ \E j \in 1..Len(P[k].txns) : P[k].txns[j] = t
    BY <1>4 DEF InScheduled
  <2>2. k \in 1..s
    <3> SUFFICES ASSUME k > s PROVE FALSE BY <1>1
    <3>1. Len(P) \in Nat /\ s + 1 \in 1..Len(P) /\ s + 1 <= k /\ s < Len(P) BY <1>1
    <3>2. P[s + 1].io_scheduled_ BY <3>1, <2>1 DEF FlagsOK
    <3> QED BY <3>1, <3>2, <1>1
  <2>3. Len(D) + k \in 1..Len(E) /\ E[Len(D) + k] = P[k].txns BY <2>2, <1>2
  <2> QED BY <2>1, <2>3 DEF InFile
<1>5. ClaimOK(e, C, E, P, pc2) BY <1>3, <1>4 DEF ClaimOK
<1> QED BY <1>5 DEF E, s

\* The epoch before the one of the last buffer scheduled.
LEMMA ClaimScan ==
  ASSUME NEW c, NEW C \in Seq(Txn), NEW D \in Seq(Seq(Txn)), NEW P \in Seq(pbuffer),
         NEW A \in Seq(pbuffer), NEW Z \in Seq(Txn), NEW lg, NEW comp, NEW w, NEW now \in Nat,
         NEW n \in 1..Len(P), NEW pc2 \in {"scan", "write"},
         CoreOK(c, C, D, P, A, Z, lg, comp, w, now), w.pc = "scan"
  PROVE  /\ EpochPrefix(P[n]) \in 0..MaxTick
         /\ EpochPrefix(P[n]) < now
         /\ ClaimOK(EpochPrefix(P[n]), C, D, Flagged(P, n), pc2)
<1> DEFINE R == Flagged(P, n)
           F == Filed(D, P, 0)
           b == P[n].txns
           f == Len(D) + n
           z == Len(b)
           m == b[z].n
<1>0. Len(P) \in Nat /\ Len(D) \in Nat /\ Len(C) \in Nat /\ 0 \in 0..Len(P) /\ n \in 0..Len(P) OBVIOUS
<1>1. /\ R \in Seq(pbuffer) /\ Len(R) = Len(P)
      /\ \A i \in 1..Len(P) : R[i].txns = P[i].txns /\ R[i].io_scheduled_ = (i <= n)
  BY <1>0, FlaggedIs
<1>2. WrittenOf(P, w) = 0 BY DEF WrittenOf, Done
<1>3. PICK N \in 0..Len(C) : HoldFirst(F, C, N) /\ TailOK(C, A, Z, lg, comp, N)
  BY <1>2 DEF CoreOK, LogOK
<1>4. /\ F \in Seq(Seq(Txn)) /\ Len(F) = Len(D) + Len(P)
      /\ \A i \in 1..Len(D) : F[i] = D[i]
      /\ \A i \in 1..Len(P) : F[Len(D) + i] = P[i].txns
  <2>1. /\ F \in Seq(Seq(Txn)) /\ Len(F) = Len(D) + Len(P) - 0
        /\ \A i \in 1..Len(D) : F[i] = D[i]
        /\ \A i \in 0 + 1..Len(P) : F[Len(D) + i - 0] = P[i].txns
    BY <1>0, FiledIs
  <2> HIDE DEF F
  <2>2. ASSUME NEW i \in 1..Len(P) PROVE F[Len(D) + i] = P[i].txns
    <3>1. i \in 0 + 1..Len(P) /\ Len(D) + i - 0 = Len(D) + i BY <1>0
    <3> QED BY <3>1, <2>1
  <2>3. Len(D) + Len(P) - 0 = Len(D) + Len(P) BY <1>0
  <2> QED BY <2>1, <2>2, <2>3
<1> HIDE DEF F, R
<1>5. P[n] \in pbuffer /\ b \in Seq(Txn) /\ b # << >>
  <2>1. P[n] \in pbuffer OBVIOUS
  <2> QED BY <2>1 DEF pbuffer, CoreOK
<1>6. z \in 1..Len(b) /\ b[z] \in Txn BY <1>5
<1>7. f \in 1..Len(F) /\ F[f] = b BY <1>0, <1>4
<1>8. m \in 1..N /\ C[m] = b[z] /\ m \in 1..Len(C)
  <2>1. F[f][z].n \in 1..N /\ C[F[f][z].n] = F[f][z] BY <1>3, <1>6, <1>7 DEF HoldFirst
  <2>2. \A x \in 1..N : x \in 1..Len(C) BY <1>0
  <2>3. F[f][z] = b[z] BY <1>7, Zenon
  <2> HIDE DEF b, z, f
  <2> QED BY <2>1, <2>2, <2>3, Zenon
<1>9. LastEpoch(b) = C[m].ep BY <1>8 DEF LastEpoch
<1>16. f = Len(D) + n /\ F[f][z].n = m BY <1>7
<1> HIDE DEF f, m
<1>10. C[m].ep \in 1..MaxTick /\ C[m].ep \in Nat
  <2>1. \A t \in Txn : t.ep \in 1..MaxTick /\ t.ep \in Nat BY ClockAssumption DEF Txn
  <2>2. C[m] \in Txn BY <1>6, <1>8, Zenon
  <2> QED BY <2>1, <2>2, Zenon
<1>11. C[m].ep <= now BY <1>8 DEF CoreOK, CommitOK
<1>12. EpochPrefix(P[n]) = C[m].ep - 1 BY <1>9 DEF EpochPrefix
<1>13. ASSUME NEW i \in 1..Len(C), C[i].ep <= C[m].ep - 1
       PROVE  InFile(D, C[i]) \/ InScheduled(R, C[i])
  <2>1. C[i] \in Txn OBVIOUS
  <2>2. C[i].ep \in Nat BY <2>1, ClockAssumption DEF Txn
  <2>3. ~(m <= i)
    <3> SUFFICES ASSUME m <= i PROVE FALSE OBVIOUS
    <3>1. C[m].ep <= C[i].ep BY <1>8 DEF CoreOK, CommitOK
    <3> QED BY <3>1, <2>2, <1>10, <1>13
  <2>4. i < m /\ i \in 1..N BY <2>3, <1>0, <1>3, <1>8
  <2>5. PICK k \in 1..Len(F) : \E j \in 1..Len(F[k]) : F[k][j].n = i
    BY <2>4, <1>3 DEF HoldFirst
  <2>6. PICK j \in 1..Len(F[k]) : F[k][j].n = i BY <2>5
  <2>7. C[i] = F[k][j]
    <3>1. C[F[k][j].n] = F[k][j] BY <1>3 DEF HoldFirst
    <3> QED BY <3>1, <2>6
  <2>8. ~(f < k)
    <3> SUFFICES ASSUME f < k PROVE FALSE OBVIOUS
    <3>1. F[f][z].n < F[k][j].n BY <1>3, <1>6, <1>7 DEF HoldFirst
    <3>2. m < i BY <3>1, <2>6, <1>16
    <3> QED BY <3>2, <2>4, <1>8
  <2>9. CASE k \in 1..Len(D) BY <2>9, <2>7, <1>4 DEF InFile
  <2>10. CASE k \notin 1..Len(D)
    <3>1. k - Len(D) \in 1..Len(P) /\ Len(D) + (k - Len(D)) = k /\ k - Len(D) <= n
      <4>1. k \in Nat /\ 1 <= k /\ k <= Len(D) + Len(P) BY <1>0, <1>4
      <4>2. k > Len(D) BY <4>1, <2>10, <1>0
      <4>3. ~(Len(D) + n < k) BY <2>8, <1>16
      <4> QED BY <4>1, <4>2, <4>3, <1>0
    <3>2. F[k] = P[k - Len(D)].txns BY <3>1, <1>4
    <3>3. R[k - Len(D)].txns = F[k] /\ R[k - Len(D)].io_scheduled_ BY <3>1, <3>2, <1>1
    <3> QED BY <3>1, <3>3, <2>7, <1>1 DEF InScheduled
  <2> QED BY <2>9, <2>10
<1>14. ClaimOK(C[m].ep - 1, C, D, R, pc2) BY <1>13 DEF ClaimOK
<1>15. C[m].ep - 1 \in 0..MaxTick /\ C[m].ep - 1 < now
  <2>1. ASSUME NEW e \in 1..MaxTick, e <= now PROVE e - 1 \in 0..MaxTick /\ e - 1 < now
    BY <2>1, ClockAssumption
  <2> QED BY <2>1, <1>10, <1>11, Zenon
<1> QED BY <1>12, <1>14, <1>15 DEF R

-----------------------------------------------------------------------------
(* The specification: initial states and steps.                            *)

LEMMA InitInv == Init => LoggerInv
<1> SUFFICES ASSUME Init PROVE LoggerInv OBVIOUS
<1> DEFINE bufs == [i \in 1..g_perthread_buffers |-> EmptyBuffer]
<1>1. EmptyBuffer \in pbuffer BY DEF EmptyBuffer, pbuffer
<1>2. g_perthread_buffers \in Nat /\ 0 \in 0..g_perthread_buffers - 1 /\ 0 \in 0..MaxTick
      /\ 1 \in 1..MaxTick /\ 1 \in Cores
  BY LoggerAssumption, ClockAssumption DEF Cores
<1>3. /\ bufs \in Seq(pbuffer) /\ Len(bufs) = g_perthread_buffers
      /\ \A i \in 1..Len(bufs) : bufs[i] = EmptyBuffer
  <2>1. bufs \in Seq(pbuffer) BY <1>1, <1>2
  <2> QED BY <2>1, <1>2
<1> HIDE DEF bufs
<1>4. /\ all_buffers_ = [c \in Cores |-> bufs] /\ persist_buffers_ = [c \in Cores |-> << >>]
      /\ horizon_ = [c \in Cores |-> << >>] /\ committed = [c \in Cores |-> << >>]
      /\ disk = [c \in Cores |-> << >>] /\ logging = [c \in Cores |-> "idle"]
      /\ current_tick_ = 1 /\ epoch_prefixes = [s \in BOOLEAN |-> [c \in Cores |-> 0]]
      /\ writer = [l \in Loggers |-> [pc |-> "start", todo |-> {}, sync_ex |-> 0, nbufs |-> 0,
                                      sense |-> FALSE, x0 |-> 0]]
  BY DEF Init, bufs, ClockInit
<1>5. Types
  <2>1. ClockTypeOK BY <1>2 DEF Init, ClockInit, ClockTypeOK
  <2>2. all_buffers_ \in [Cores -> Seq(pbuffer)] /\ persist_buffers_ \in [Cores -> Seq(pbuffer)]
    BY <1>3, <1>4
  <2>3. \A c \in Cores : Len(all_buffers_[c]) + Len(persist_buffers_[c]) = g_perthread_buffers
    BY <1>2, <1>3, <1>4
  <2>8. g_use_compression \in BOOLEAN BY DEF Init
  <2>9. tail_ \in [Cores -> 0..g_perthread_buffers - 1] BY <1>2 DEF Init
  <2>10. horizon_ \in [Cores -> Seq(Txn)]
         /\ logging \in [Cores -> {"idle", "log", "end", "ended"}]
    BY <1>4
  <2>11. epochs_ \in [Cores -> 0..MaxTick] /\ system_sync_epoch_ \in 0..MaxTick
    BY <1>2 DEF Init
  <2>4. TypeOK BY <2>1, <2>2, <2>3, <2>8, <2>9, <2>10, <2>11 DEF TypeOK
  <2>5. writer \in [Loggers -> WriterType] BY <1>2, <1>4 DEF WriterType
  <2>6. persister \in PersisterType BY <1>2 DEF Init, PersisterType
  <2>7. committed \in [Cores -> Seq(Txn)] /\ disk \in [Cores -> Seq(Seq(Txn))]
        /\ epoch_prefixes \in [BOOLEAN -> [Cores -> 0..MaxTick]]
    BY <1>2, <1>4
  <2> QED BY <2>4, <2>5, <2>6, <2>7 DEF Types
<1>6. WriterInv BY <1>4, LoggerAssumption DEF WriterInv, LoopOK, Done
<1>7. CoreInv
  <2> SUFFICES ASSUME NEW c \in Cores
               PROVE  CoreOK(c, committed[c], disk[c], persist_buffers_[c], all_buffers_[c],
                             horizon_[c], logging[c], g_use_compression, writer[LoggerOf(c)],
                             current_tick_)
    BY DEF CoreInv
  <2> DEFINE w == writer[LoggerOf(c)]
             E == << >>
  <2>1. w.pc = "start" BY <1>4, LoggerOfIs
  <2> HIDE DEF w
  <2>0. E \in Seq(pbuffer) /\ E \in Seq(Txn) /\ E \in Seq(Seq(Txn)) /\ Len(E) = 0 OBVIOUS
  <2>2. FlagsOK(E, w, c) BY <2>0 DEF FlagsOK
  <2>3. CommitOK(E, 1) BY <2>0 DEF CommitOK
  <2>4. WrittenOf(E, w) = 0 BY <2>1 DEF WrittenOf, Done
  <2>5. Filed(E, E, 0) \in Seq(Seq(Txn)) /\ Len(Filed(E, E, 0)) = 0
    <3>1. 0 \in 0..Len(E) BY <2>0
    <3>2. Filed(E, E, 0) \in Seq(Seq(Txn)) /\ Len(Filed(E, E, 0)) = Len(E) + Len(E) - 0
      BY <3>1, <2>0, FiledIs
    <3> QED BY <3>2, <2>0
  <2>6. HoldFirst(Filed(E, E, 0), E, 0) BY <2>5 DEF HoldFirst
  <2>7. TailOK(E, bufs, E, "idle", g_use_compression, 0)
    <3>1. Open(bufs) = << >>
      <4>1. bufs # << >> /\ 1 \in 1..Len(bufs) BY <1>2, <1>3, LoggerAssumption
      <4> QED BY <4>1, <1>3, OpenIs DEF EmptyBuffer
    <3>2. Len(Open(bufs)) = 0 BY <3>1
    <3>3. \A i \in 1..Len(bufs) : bufs[i].txns = << >> /\ ~bufs[i].io_scheduled_
      BY <1>3 DEF EmptyBuffer
    <3>4. \A i \in 2..Len(bufs) : i \in 1..Len(bufs) BY <1>2, <1>3
    <3>5. 0 <= HorizonTxns BY LoggerAssumption
    <3> QED BY <3>2, <3>3, <3>4, <3>5, <2>0 DEF TailOK
  <2>8. LogOK(E, Filed(E, E, 0), bufs, E, "idle", g_use_compression)
    <3>1. 0 \in 0..Len(E) BY <2>0
    <3> QED BY <3>1, <2>6, <2>7 DEF LogOK
  <2>9. \A i \in 1..Len(E) : E[i].txns # << >> BY <2>0
  <2>10. CoreOK(c, E, E, E, bufs, E, "idle", g_use_compression, w, 1)
    BY <2>2, <2>3, <2>4, <2>8, <2>9 DEF CoreOK
  <2> QED BY <2>10, <1>4 DEF w
<1>8. ClaimInv
  <2> SUFFICES ASSUME NEW s \in BOOLEAN, NEW c \in Cores
               PROVE  /\ epoch_prefixes[s][c] < current_tick_
                      /\ ClaimOK(epoch_prefixes[s][c], committed[c], disk[c],
                                 persist_buffers_[c], writer[LoggerOf(c)].pc)
    BY DEF ClaimInv
  <2>1. epoch_prefixes[s][c] = 0 /\ committed[c] = << >> /\ current_tick_ = 1 BY <1>4
  <2>2. Len(committed[c]) = 0 BY <2>1
  <2> QED BY <2>1, <2>2 DEF ClaimOK
<1> QED BY <1>5, <1>6, <1>7, <1>8 DEF LoggerInv

\* Steps that leave the log alone.
LEMMA OtherFrame ==
  ASSUME LoggerInv, Types',
         UNCHANGED <<current_tick_, committed, disk, persist_buffers_, all_buffers_, horizon_,
                     logging, g_use_compression, writer, epoch_prefixes>>
  PROVE  LoggerInv'
<1>1. WriterInv' BY DEF LoggerInv, WriterInv
<1>2. CoreInv' BY DEF LoggerInv, CoreInv
<1>3. ClaimInv' BY DEF LoggerInv, ClaimInv
<1> QED BY <1>1, <1>2, <1>3 DEF LoggerInv

\* Steps of the worker of core c.
LEMMA WorkerFrame ==
  ASSUME NEW c \in Cores, LoggerInv, Types',
         UNCHANGED <<current_tick_, disk, g_use_compression, writer, epoch_prefixes>>,
         \A d \in Cores \ {c} :
           /\ committed'[d] = committed[d] /\ persist_buffers_'[d] = persist_buffers_[d]
           /\ all_buffers_'[d] = all_buffers_[d] /\ horizon_'[d] = horizon_[d]
           /\ logging'[d] = logging[d],
         CoreOK(c, committed'[c], disk[c], persist_buffers_'[c], all_buffers_'[c], horizon_'[c],
                logging'[c], g_use_compression, writer[LoggerOf(c)], current_tick_),
         \A s \in BOOLEAN : ClaimOK(epoch_prefixes[s][c], committed'[c], disk[c],
                                    persist_buffers_'[c], writer[LoggerOf(c)].pc)
  PROVE  LoggerInv'
<1>1. WriterInv' BY DEF LoggerInv, WriterInv
<1>2. CoreInv'
  <2> SUFFICES ASSUME NEW d \in Cores
               PROVE  CoreOK(d, committed'[d], disk'[d], persist_buffers_'[d], all_buffers_'[d],
                             horizon_'[d], logging'[d], g_use_compression',
                             writer'[LoggerOf(d)], current_tick_')
    BY DEF CoreInv
  <2>1. CASE d = c BY <2>1
  <2>2. CASE d # c BY <2>2 DEF LoggerInv, CoreInv
  <2> QED BY <2>1, <2>2
<1>3. ClaimInv'
  <2> SUFFICES ASSUME NEW s \in BOOLEAN, NEW d \in Cores
               PROVE  /\ epoch_prefixes'[s][d] < current_tick_'
                      /\ ClaimOK(epoch_prefixes'[s][d], committed'[d], disk'[d],
                                 persist_buffers_'[d], writer'[LoggerOf(d)].pc)
    BY DEF ClaimInv
  <2>1. CASE d = c BY <2>1 DEF LoggerInv, ClaimInv
  <2>2. CASE d # c BY <2>2 DEF LoggerInv, ClaimInv
  <2> QED BY <2>1, <2>2
<1> QED BY <1>1, <1>2, <1>3 DEF LoggerInv

\* What the invariant says of core c.
LEMMA CoreFacts ==
  ASSUME LoggerInv, NEW c \in Cores
  PROVE  /\ committed[c] \in Seq(Txn) /\ disk[c] \in Seq(Seq(Txn))
         /\ persist_buffers_[c] \in Seq(pbuffer) /\ all_buffers_[c] \in Seq(pbuffer)
         /\ horizon_[c] \in Seq(Txn) /\ current_tick_ \in 1..MaxTick /\ current_tick_ \in Nat
         /\ g_use_compression \in BOOLEAN
         /\ CoreOK(c, committed[c], disk[c], persist_buffers_[c], all_buffers_[c], horizon_[c],
                   logging[c], g_use_compression, writer[LoggerOf(c)], current_tick_)
         /\ \A s \in BOOLEAN :
              /\ epoch_prefixes[s][c] \in Nat /\ epoch_prefixes[s][c] < current_tick_
              /\ ClaimOK(epoch_prefixes[s][c], committed[c], disk[c], persist_buffers_[c],
                         writer[LoggerOf(c)].pc)
<1>1. /\ committed[c] \in Seq(Txn) /\ disk[c] \in Seq(Seq(Txn))
      /\ persist_buffers_[c] \in Seq(pbuffer) /\ all_buffers_[c] \in Seq(pbuffer)
      /\ horizon_[c] \in Seq(Txn) /\ current_tick_ \in 1..MaxTick
      /\ g_use_compression \in BOOLEAN
  BY DEF LoggerInv, Types, TypeOK, ClockTypeOK
<1>2. current_tick_ \in Nat /\ 0..MaxTick \subseteq Nat BY <1>1, ClockAssumption
<1>3. \A s \in BOOLEAN : epoch_prefixes[s][c] \in 0..MaxTick BY DEF LoggerInv, Types
<1>4. CoreOK(c, committed[c], disk[c], persist_buffers_[c], all_buffers_[c], horizon_[c],
             logging[c], g_use_compression, writer[LoggerOf(c)], current_tick_)
  BY DEF LoggerInv, CoreInv
<1>5. \A s \in BOOLEAN :
        /\ epoch_prefixes[s][c] < current_tick_
        /\ ClaimOK(epoch_prefixes[s][c], committed[c], disk[c], persist_buffers_[c],
                   writer[LoggerOf(c)].pc)
  BY DEF LoggerInv, ClaimInv
<1> QED BY <1>1, <1>2, <1>3, <1>4, <1>5

-----------------------------------------------------------------------------
(* The worker's steps.                                                     *)

LEMMA ClockStep == ASSUME LoggerInv, Ticking PROVE LoggerInv'
<1>1. UNCHANGED loggerVars BY DEF Ticking
<1>2. UNCHANGED <<committed, disk, persist_buffers_, all_buffers_, horizon_,
                  logging, g_use_compression, writer, epoch_prefixes, tail_, epochs_,
                  system_sync_epoch_, persister>>
  BY <1>1 DEF loggerVars, workerVars, syncVars
<1>3. /\ current_tick_ \in 1..MaxTick /\ last_tick_inclusive_ \in 0..MaxTick
      /\ inside \in [Cores -> 0..MaxTick] /\ MaxTick \in Nat
  BY ClockAssumption DEF LoggerInv, Types, TypeOK, ClockTypeOK
<1>4. ClockTypeOK' /\ current_tick_ <= current_tick_'
  <2>1. CASE Advance BY <2>1, <1>3 DEF Advance, ClockTypeOK
  <2>2. CASE Complete BY <2>2, <1>3 DEF Complete, ClockTypeOK
  <2> QED BY <2>1, <2>2 DEF Ticking, Clock
<1>5. Types' BY <1>2, <1>4 DEF LoggerInv, Types, TypeOK
<1>6. current_tick_ \in Nat /\ current_tick_' \in Nat
  BY <1>3, <1>4 DEF ClockTypeOK
<1>7. WriterInv' BY <1>2 DEF LoggerInv, WriterInv
<1>8. CoreInv'
  <2> SUFFICES ASSUME NEW d \in Cores
               PROVE  CoreOK(d, committed[d], disk[d], persist_buffers_[d], all_buffers_[d],
                             horizon_[d], logging[d], g_use_compression,
                             writer[LoggerOf(d)], current_tick_')
    BY <1>2 DEF CoreInv
  <2> QED BY <1>4, <1>6, CoreFacts, CoreTick
<1>9. ClaimInv'
  <2> SUFFICES ASSUME NEW s \in BOOLEAN, NEW d \in Cores
               PROVE  /\ epoch_prefixes[s][d] < current_tick_'
                      /\ ClaimOK(epoch_prefixes[s][d], committed[d], disk[d],
                                 persist_buffers_[d], writer[LoggerOf(d)].pc)
    BY <1>2 DEF ClaimInv
  <2>1. /\ epoch_prefixes[s][d] \in Nat /\ epoch_prefixes[s][d] < current_tick_
        /\ ClaimOK(epoch_prefixes[s][d], committed[d], disk[d],
                   persist_buffers_[d], writer[LoggerOf(d)].pc)
    BY CoreFacts
  <2> QED BY <2>1, <1>4, <1>6
<1> QED BY <1>5, <1>7, <1>8, <1>9 DEF LoggerInv

LEMMA RegionStep ==
  ASSUME LoggerInv, NEW c \in Cores, Begin(c) \/ RegionEnd(c)
  PROVE  LoggerInv'
<1>1. UNCHANGED loggerVars BY DEF Begin, RegionEnd
<1>2. UNCHANGED <<committed, disk, persist_buffers_, all_buffers_, horizon_,
                  logging, g_use_compression, writer, epoch_prefixes, tail_, epochs_,
                  system_sync_epoch_, persister>>
  BY <1>1 DEF loggerVars, workerVars, syncVars
<1>3. UNCHANGED <<current_tick_, last_tick_inclusive_>> /\ inside' \in [Cores -> 0..MaxTick]
  <2>1. /\ inside \in [Cores -> 0..MaxTick] /\ current_tick_ \in 0..MaxTick /\ 0 \in 0..MaxTick
    BY ClockAssumption DEF LoggerInv, Types, TypeOK, ClockTypeOK
  <2>2. CASE Begin(c) BY <2>1, <2>2 DEF Begin, Enter
  <2>3. CASE RegionEnd(c) BY <2>1, <2>3 DEF RegionEnd, Leave
  <2> QED BY <2>2, <2>3
<1>4. Types' BY <1>2, <1>3 DEF LoggerInv, Types, TypeOK, ClockTypeOK
<1> QED BY <1>2, <1>3, <1>4, OtherFrame

LEMMA CommitStep == ASSUME LoggerInv, NEW c \in Cores, Commit(c) PROVE LoggerInv'
<1> DEFINE t == [n |-> Len(committed[c]) + 1, ep |-> current_tick_]
           C == Append(committed[c], t)
<1>1. /\ committed' = [committed EXCEPT ![c] = C]
      /\ logging' = [logging EXCEPT ![c] = "log"]
      /\ logging[c] = "idle"
      /\ UNCHANGED <<clockVars, g_use_compression, horizon_, all_buffers_, persist_buffers_,
                     tail_, disk, writer, persister, epochs_, epoch_prefixes, system_sync_epoch_>>
  BY DEF Commit, syncVars
<1>2. /\ CoreOK(c, C, disk[c], persist_buffers_[c], all_buffers_[c], horizon_[c],
                "log", g_use_compression, writer[LoggerOf(c)], current_tick_)
      /\ t \in Txn
  <2>1. /\ committed[c] \in Seq(Txn) /\ all_buffers_[c] \in Seq(pbuffer)
        /\ horizon_[c] \in Seq(Txn) /\ current_tick_ \in 1..MaxTick
        /\ CoreOK(c, committed[c], disk[c], persist_buffers_[c], all_buffers_[c], horizon_[c],
                  "idle", g_use_compression, writer[LoggerOf(c)], current_tick_)
    BY <1>1, CoreFacts
  <2> QED BY <2>1, CoreCommit
<1>3. t.ep = current_tick_ OBVIOUS
<1> HIDE DEF t
<1>4. C \in Seq(Txn) BY <1>2, CoreFacts
<1>5. \A s \in BOOLEAN : ClaimOK(epoch_prefixes[s][c], C, disk[c], persist_buffers_[c],
                                 writer[LoggerOf(c)].pc)
  BY <1>2, <1>3, CoreFacts, ClaimCommit
<1> HIDE DEF C
<1>6. committed \in [Cores -> Seq(Txn)] /\ logging \in [Cores -> {"idle", "log", "end", "ended"}]
  BY DEF LoggerInv, Types, TypeOK
<1>7. committed' \in [Cores -> Seq(Txn)] /\ logging' \in [Cores -> {"idle", "log", "end", "ended"}]
      /\ committed'[c] = C /\ logging'[c] = "log"
      /\ \A d \in Cores \ {c} : committed'[d] = committed[d] /\ logging'[d] = logging[d]
  BY <1>1, <1>4, <1>6
<1>8. Types'
  BY <1>1, <1>7 DEF LoggerInv, Types, TypeOK, ClockTypeOK, clockVars
<1>9. UNCHANGED current_tick_ BY <1>1 DEF clockVars
<1> QED BY <1>1, <1>2, <1>5, <1>7, <1>8, <1>9, WorkerFrame

LEMMA ThreadEndStep == ASSUME LoggerInv, NEW c \in Cores, ThreadEnd(c) PROVE LoggerInv'
<1>1. /\ logging' = [logging EXCEPT ![c] = "end"]
      /\ logging[c] = "idle"
      /\ UNCHANGED <<clockVars, g_use_compression, horizon_, all_buffers_, persist_buffers_,
                     committed, tail_, disk, writer, persister, epochs_, epoch_prefixes,
                     system_sync_epoch_>>
  BY DEF ThreadEnd, syncVars
<1>2. CoreOK(c, committed[c], disk[c], persist_buffers_[c], all_buffers_[c], horizon_[c],
             "end", g_use_compression, writer[LoggerOf(c)], current_tick_)
  <2>1. \A n \in 0..Len(committed[c]) :
          TailOK(committed[c], all_buffers_[c], horizon_[c], "idle", g_use_compression, n)
            => TailOK(committed[c], all_buffers_[c], horizon_[c], "end", g_use_compression, n)
    BY TailPlace
  <2> QED BY <2>1, <1>1, CoreFacts, CoreTail
<1>6. logging \in [Cores -> {"idle", "log", "end", "ended"}]
  BY DEF LoggerInv, Types, TypeOK
<1>7. logging' \in [Cores -> {"idle", "log", "end", "ended"}] /\ logging'[c] = "end"
      /\ \A d \in Cores \ {c} : logging'[d] = logging[d]
  BY <1>1, <1>6
<1>8. Types'
  BY <1>1, <1>7 DEF LoggerInv, Types, TypeOK, ClockTypeOK, clockVars
<1>9. UNCHANGED current_tick_ BY <1>1 DEF clockVars
<1> QED BY <1>1, <1>2, <1>7, <1>8, <1>9, WorkerFrame, CoreFacts

\* The number of a pushed transaction is not part of the log.
LEMMA CountStep == ASSUME LoggerInv, NEW c \in Cores, HorizonCount(c) PROVE LoggerInv'
<1>1. UNCHANGED <<clockVars, committed, disk, persist_buffers_, all_buffers_, horizon_,
                  logging, g_use_compression, writer, epoch_prefixes, tail_, epochs_,
                  system_sync_epoch_, persister>>
  BY DEF HorizonCount, syncVars
<1>2. Types' BY <1>1 DEF LoggerInv, Types, TypeOK, ClockTypeOK, clockVars
<1>3. UNCHANGED current_tick_ BY <1>1 DEF clockVars
<1> QED BY <1>1, <1>2, <1>3, OtherFrame

\* Core c's open buffer, its horizon and its place change.
LEMMA TailStep ==
  ASSUME LoggerInv, NEW c \in Cores, NEW A \in Seq(pbuffer), Len(A) = Len(all_buffers_[c]),
         NEW Z \in Seq(Txn), NEW lg \in {"idle", "log", "end", "ended"},
         all_buffers_' = [all_buffers_ EXCEPT ![c] = A],
         horizon_' = [horizon_ EXCEPT ![c] = Z],
         logging' = [logging EXCEPT ![c] = lg],
         UNCHANGED <<clockVars, g_use_compression, committed, persist_buffers_, tail_, disk,
                     writer, persister, epochs_, epoch_prefixes, system_sync_epoch_>>,
         \A n \in 0..Len(committed[c]) :
           TailOK(committed[c], all_buffers_[c], horizon_[c], logging[c], g_use_compression, n)
             => TailOK(committed[c], A, Z, lg, g_use_compression, n)
  PROVE  LoggerInv'
<1>1. CoreOK(c, committed[c], disk[c], persist_buffers_[c], A, Z, lg,
             g_use_compression, writer[LoggerOf(c)], current_tick_)
  BY CoreFacts, CoreTail
<1>2. /\ logging \in [Cores -> {"idle", "log", "end", "ended"}]
      /\ all_buffers_ \in [Cores -> Seq(pbuffer)] /\ horizon_ \in [Cores -> Seq(Txn)]
      /\ \A d \in Cores : Len(all_buffers_[d]) + Len(persist_buffers_[d]) = g_perthread_buffers
  BY DEF LoggerInv, Types, TypeOK
<1>3. /\ logging' \in [Cores -> {"idle", "log", "end", "ended"}] /\ logging'[c] = lg
      /\ all_buffers_' \in [Cores -> Seq(pbuffer)] /\ all_buffers_'[c] = A
      /\ horizon_' \in [Cores -> Seq(Txn)] /\ horizon_'[c] = Z
      /\ \A d \in Cores \ {c} : /\ logging'[d] = logging[d] /\ horizon_'[d] = horizon_[d]
                                /\ all_buffers_'[d] = all_buffers_[d]
  BY <1>2
<1>4. \A d \in Cores : Len(all_buffers_'[d]) + Len(persist_buffers_[d]) = g_perthread_buffers
  <2> TAKE d \in Cores
  <2>1. CASE d = c BY <2>1, <1>2, <1>3
  <2>2. CASE d # c BY <2>2, <1>2, <1>3
  <2> QED BY <2>1, <2>2
<1>5. Types' BY <1>3, <1>4 DEF LoggerInv, Types, TypeOK, ClockTypeOK, clockVars
<1>6. UNCHANGED current_tick_ BY DEF clockVars
<1> QED BY <1>1, <1>3, <1>5, <1>6, WorkerFrame, CoreFacts

\* Core c's open buffer is pushed.
LEMMA PushStep ==
  ASSUME LoggerInv, NEW c \in Cores, all_buffers_[c] # << >>, PushHead(c),
         Head(all_buffers_[c]).txns # << >>,
         NEW lg \in {"idle", "log", "end", "ended"},
         lg = logging[c] \/ (lg # "log" /\ logging[c] # "log"),
         logging' = [logging EXCEPT ![c] = lg],
         UNCHANGED <<clockVars, g_use_compression, committed, horizon_, tail_, disk,
                     writer, persister, epochs_, epoch_prefixes, system_sync_epoch_>>
  PROVE  LoggerInv'
<1> DEFINE A == Tail(all_buffers_[c])
           P == Append(persist_buffers_[c], Head(all_buffers_[c]))
<1>1. /\ all_buffers_' = [all_buffers_ EXCEPT ![c] = A]
      /\ persist_buffers_' = [persist_buffers_ EXCEPT ![c] = P]
  BY DEF PushHead
<1>2. Head(all_buffers_[c]) \in pbuffer BY CoreFacts
<1>3. CoreOK(c, committed[c], disk[c], P, A, horizon_[c], logging[c],
             g_use_compression, writer[LoggerOf(c)], current_tick_)
  BY CoreFacts, CorePush
<1>4. \A s \in BOOLEAN : ClaimOK(epoch_prefixes[s][c], committed[c], disk[c], P,
                                 writer[LoggerOf(c)].pc)
  BY <1>2, CoreFacts, ClaimPush
<1>5. /\ A \in Seq(pbuffer) /\ P \in Seq(pbuffer)
      /\ Len(A) = Len(all_buffers_[c]) - 1 /\ Len(P) = Len(persist_buffers_[c]) + 1
      /\ Len(all_buffers_[c]) \in Nat /\ Len(persist_buffers_[c]) \in Nat
  BY <1>2, CoreFacts
<1> HIDE DEF A, P
<1>6. CoreOK(c, committed[c], disk[c], P, A, horizon_[c], lg,
             g_use_compression, writer[LoggerOf(c)], current_tick_)
  <2>1. CASE lg = logging[c] BY <2>1, <1>3
  <2>2. CASE lg # "log" /\ logging[c] # "log"
    <3>1. \A n \in 0..Len(committed[c]) :
            TailOK(committed[c], A, horizon_[c], logging[c], g_use_compression, n)
              => TailOK(committed[c], A, horizon_[c], lg, g_use_compression, n)
      BY <2>2, TailPlace
    <3> QED BY <3>1, <1>3, CoreTail
  <2> QED BY <2>1, <2>2
<1>7. /\ logging \in [Cores -> {"idle", "log", "end", "ended"}]
      /\ all_buffers_ \in [Cores -> Seq(pbuffer)] /\ persist_buffers_ \in [Cores -> Seq(pbuffer)]
      /\ \A d \in Cores : Len(all_buffers_[d]) + Len(persist_buffers_[d]) = g_perthread_buffers
  BY DEF LoggerInv, Types, TypeOK
<1>8. /\ logging' \in [Cores -> {"idle", "log", "end", "ended"}] /\ logging'[c] = lg
      /\ all_buffers_' \in [Cores -> Seq(pbuffer)] /\ all_buffers_'[c] = A
      /\ persist_buffers_' \in [Cores -> Seq(pbuffer)] /\ persist_buffers_'[c] = P
      /\ \A d \in Cores \ {c} : /\ logging'[d] = logging[d]
                                /\ persist_buffers_'[d] = persist_buffers_[d]
                                /\ all_buffers_'[d] = all_buffers_[d]
  BY <1>1, <1>5, <1>7
<1>9. \A d \in Cores : Len(all_buffers_'[d]) + Len(persist_buffers_'[d]) = g_perthread_buffers
  <2> TAKE d \in Cores
  <2>1. CASE d = c
    <3>1. Len(all_buffers_[c]) + Len(persist_buffers_[c]) = g_perthread_buffers BY <1>7
    <3>2. ASSUME NEW a \in Nat, NEW p \in Nat, a + p = g_perthread_buffers
          PROVE  (a - 1) + (p + 1) = g_perthread_buffers
      BY <3>2
    <3>4. (Len(all_buffers_[c]) - 1) + (Len(persist_buffers_[c]) + 1) = g_perthread_buffers
      BY <3>1, <3>2, <1>5, Zenon
    <3>3. Len(A) + Len(P) = g_perthread_buffers BY <3>4, <1>5, Zenon
    <3> QED BY <3>3, <2>1, <1>8
  <2>2. CASE d # c BY <2>2, <1>7, <1>8
  <2> QED BY <2>1, <2>2
<1>10. Types' BY <1>8, <1>9 DEF LoggerInv, Types, TypeOK, ClockTypeOK, clockVars
<1>11. UNCHANGED current_tick_ BY DEF clockVars
<1> QED BY <1>4, <1>6, <1>8, <1>10, <1>11, WorkerFrame

\* A buffer that cannot take ts is not empty.
LEMMA FullHead ==
  ASSUME LoggerInv, NEW c \in Cores, all_buffers_[c] # << >>, NEW ts \in Seq(Txn),
         Len(ts) <= BufferTxns, ~HeadHolds(c, ts)
  PROVE  Head(all_buffers_[c]).txns # << >>
<1> SUFFICES ASSUME Head(all_buffers_[c]).txns = << >> PROVE FALSE OBVIOUS
<1>1. Len(Head(all_buffers_[c]).txns) = 0 OBVIOUS
<1>2. Len(ts) \in Nat OBVIOUS
<1> QED BY <1>1, <1>2 DEF HeadHolds, Holds, can_hold_tid

\* The last transaction of a core that is logging.
LEMMA LoggedIs ==
  ASSUME LoggerInv, NEW c \in Cores, logging[c] = "log"
  PROVE  Logged(c) \in Seq(Txn) /\ Len(Logged(c)) = 1
         /\ Len(committed[c]) \in 1..Len(committed[c])
<1>1. PICK n \in 0..Len(committed[c]) :
        TailOK(committed[c], all_buffers_[c], horizon_[c], "log", g_use_compression, n)
  BY CoreFacts DEF CoreOK, LogOK
<1>2. /\ Open(all_buffers_[c]) \in Seq(Txn) /\ horizon_[c] \in Seq(Txn)
      /\ committed[c] \in Seq(Txn)
  BY CoreFacts, OpenIs
<1>3. n + Len(Open(all_buffers_[c])) + Len(horizon_[c]) + 1 = Len(committed[c])
  BY <1>1 DEF TailOK
<1>4. Len(committed[c]) \in 1..Len(committed[c])
  <2>1. Len(Open(all_buffers_[c])) \in Nat /\ Len(horizon_[c]) \in Nat /\ Len(committed[c]) \in Nat
    BY <1>2
  <2>2. n \in Nat BY <2>1
  <2>3. ASSUME NEW a \in Nat, NEW b \in Nat, NEW m \in Nat, n + a + b + 1 = m
        PROVE  m \in 1..m
    BY <2>2, <2>3
  <2> QED BY <2>1, <2>3, <1>3, Zenon
<1>5. committed[c][Len(committed[c])] \in Txn BY <1>2, <1>4
<1> QED BY <1>4, <1>5 DEF Logged

\* The horizon holds at most HorizonTxns transactions, which fit in a buffer.
LEMMA HorizonIs ==
  ASSUME LoggerInv, NEW c \in Cores
  PROVE  Len(horizon_[c]) <= HorizonTxns /\ Len(horizon_[c]) <= BufferTxns
         /\ (~g_use_compression => horizon_[c] = << >>)
<1>1. Len(horizon_[c]) <= HorizonTxns /\ (~g_use_compression => horizon_[c] = << >>)
  BY CoreFacts DEF CoreOK, LogOK, TailOK
<1>2. Len(horizon_[c]) \in Nat BY CoreFacts
<1> QED BY <1>1, <1>2, LoggerAssumption

LEMMA LogWriteStep == ASSUME LoggerInv, NEW c \in Cores, LogWrite(c) PROVE LoggerInv'
<1> DEFINE C == committed[c]
           A == [all_buffers_[c] EXCEPT ![1].txns = @ \o <<C[Len(C)]>>]
<1>1. /\ logging[c] = "log" /\ g_use_compression = FALSE /\ all_buffers_[c] # << >>
      /\ WriteToHead(c, Logged(c))
      /\ logging' = [logging EXCEPT ![c] = "idle"]
      /\ UNCHANGED <<clockVars, g_use_compression, horizon_, committed, persist_buffers_, tail_,
                     disk, writer, persister, epochs_, epoch_prefixes, system_sync_epoch_>>
  BY CoreFacts DEF LogWrite, syncVars
<1>2. Logged(c) = <<C[Len(C)]>> /\ Logged(c) \in Seq(Txn)
  BY <1>1, LoggedIs DEF Logged
<1>3. all_buffers_' = [all_buffers_ EXCEPT ![c] = A]
  BY <1>1, <1>2 DEF WriteToHead
<1>4. A \in Seq(pbuffer) /\ Len(A) = Len(all_buffers_[c])
  <2>1. all_buffers_[c] \in Seq(pbuffer) /\ <<C[Len(C)]>> \in Seq(Txn) BY <1>2, CoreFacts
  <2> HIDE DEF C
  <2> QED BY <2>1, <1>1, WriteHead
<1>5. \A n \in 0..Len(C) :
        TailOK(C, all_buffers_[c], horizon_[c], "log", FALSE, n)
          => TailOK(C, A, horizon_[c], "idle", FALSE, n)
  <2>1. \A n \in 0..Len(C) : n \in Nat BY CoreFacts
  <2> QED BY <2>1, <1>1, CoreFacts, TailWrite
<1>6. horizon_' = [horizon_ EXCEPT ![c] = horizon_[c]] /\ horizon_[c] \in Seq(Txn)
  BY <1>1, CoreFacts DEF LoggerInv, Types, TypeOK
<1> HIDE DEF A
<1> QED BY <1>1, <1>3, <1>4, <1>5, <1>6, TailStep

LEMMA LogPushStep == ASSUME LoggerInv, NEW c \in Cores, LogPush(c) PROVE LoggerInv'
<1>1. /\ logging[c] = "log" /\ all_buffers_[c] # << >>
      /\ ~HeadHolds(c, Logged(c)) /\ PushHead(c)
      /\ UNCHANGED <<clockVars, g_use_compression, horizon_, committed, logging, tail_,
                     disk, writer, persister, epochs_, epoch_prefixes, system_sync_epoch_>>
  BY DEF LogPush, syncVars, workerVars
<1>2. Logged(c) \in Seq(Txn) /\ Len(Logged(c)) <= BufferTxns
  <2>1. Logged(c) \in Seq(Txn) /\ Len(Logged(c)) = 1 BY <1>1, LoggedIs
  <2>2. 1 <= BufferTxns BY LoggerAssumption
  <2> QED BY <2>1, <2>2
<1>3. Head(all_buffers_[c]).txns # << >> BY <1>1, <1>2, FullHead
<1>4. logging' = [logging EXCEPT ![c] = logging[c]]
      /\ logging[c] \in {"idle", "log", "end", "ended"}
  BY <1>1 DEF LoggerInv, Types, TypeOK
<1> QED BY <1>1, <1>3, <1>4, PushStep

LEMMA HorizonPushStep == ASSUME LoggerInv, NEW c \in Cores, HorizonPush(c) PROVE LoggerInv'
<1>1. /\ all_buffers_[c] # << >>
      /\ ~HeadHolds(c, horizon_[c]) /\ PushHead(c)
      /\ UNCHANGED <<clockVars, g_use_compression, horizon_, committed, logging, tail_,
                     disk, writer, persister, epochs_, epoch_prefixes, system_sync_epoch_>>
  BY DEF HorizonPush, syncVars
<1>2. horizon_[c] \in Seq(Txn) /\ Len(horizon_[c]) <= BufferTxns
  BY CoreFacts, HorizonIs
<1>3. Head(all_buffers_[c]).txns # << >> BY <1>1, <1>2, FullHead
<1>4. logging' = [logging EXCEPT ![c] = logging[c]]
      /\ logging[c] \in {"idle", "log", "end", "ended"}
  BY <1>1 DEF LoggerInv, Types, TypeOK
<1> QED BY <1>1, <1>3, <1>4, PushStep

LEMMA HorizonFlushStep == ASSUME LoggerInv, NEW c \in Cores, HorizonFlush(c) PROVE LoggerInv'
<1> DEFINE A == [all_buffers_[c] EXCEPT ![1].txns = @ \o horizon_[c]]
<1>1. /\ all_buffers_[c] # << >> /\ WriteToHead(c, horizon_[c])
      /\ horizon_' = [horizon_ EXCEPT ![c] = << >>]
      /\ UNCHANGED <<clockVars, g_use_compression, logging, committed, persist_buffers_, tail_,
                     disk, writer, persister, epochs_, epoch_prefixes, system_sync_epoch_>>
  BY DEF HorizonFlush, syncVars
<1>3. all_buffers_' = [all_buffers_ EXCEPT ![c] = A]
  BY <1>1 DEF WriteToHead
<1>4. A \in Seq(pbuffer) /\ Len(A) = Len(all_buffers_[c])
  BY <1>1, CoreFacts, WriteHead
<1>5. \A n \in 0..Len(committed[c]) :
        TailOK(committed[c], all_buffers_[c], horizon_[c], logging[c], g_use_compression, n)
          => TailOK(committed[c], A, << >>, logging[c], g_use_compression, n)
  <2>1. \A n \in 0..Len(committed[c]) : n \in Nat BY CoreFacts
  <2> QED BY <2>1, <1>1, CoreFacts, TailFlush
<1>6. logging' = [logging EXCEPT ![c] = logging[c]]
      /\ logging[c] \in {"idle", "log", "end", "ended"} /\ << >> \in Seq(Txn)
  BY <1>1 DEF LoggerInv, Types, TypeOK
<1> HIDE DEF A
<1> QED BY <1>1, <1>3, <1>4, <1>5, <1>6, TailStep

LEMMA HorizonWriteStep == ASSUME LoggerInv, NEW c \in Cores, HorizonWrite(c) PROVE LoggerInv'
<1> DEFINE C == committed[c]
           Z == horizon_[c] \o <<C[Len(C)]>>
<1>1. /\ logging[c] = "log" /\ g_use_compression = TRUE /\ ~Flushing(c)
      /\ horizon_' = [horizon_ EXCEPT ![c] = @ \o Logged(c)]
      /\ logging' = [logging EXCEPT ![c] = "idle"]
      /\ UNCHANGED <<clockVars, g_use_compression, all_buffers_, committed, persist_buffers_, tail_,
                     disk, writer, persister, epochs_, epoch_prefixes, system_sync_epoch_>>
  BY CoreFacts DEF HorizonWrite, syncVars
<1>2. Logged(c) = <<C[Len(C)]>> /\ Logged(c) \in Seq(Txn) /\ Len(Logged(c)) = 1
  BY <1>1, LoggedIs DEF Logged
<1>3. horizon_' = [horizon_ EXCEPT ![c] = Z]
  BY <1>1, <1>2
<1>4. Z \in Seq(Txn) BY <1>2, CoreFacts
<1>5. Len(horizon_[c]) + 1 <= HorizonTxns
  <2>1. CASE horizon_[c] = << >>
    <3>1. Len(horizon_[c]) = 0 BY <2>1
    <3> QED BY <3>1, LoggerAssumption
  <2>2. CASE horizon_[c] # << >>
    <3>1. Holds(horizon_[c], Logged(c), HorizonTxns) BY <2>2, <1>1 DEF Flushing
    <3> QED BY <3>1, <1>2 DEF Holds
  <2> QED BY <2>1, <2>2
<1>6. \A n \in 0..Len(C) :
        TailOK(C, all_buffers_[c], horizon_[c], "log", TRUE, n)
          => TailOK(C, all_buffers_[c], Z, "idle", TRUE, n)
  <2>1. \A n \in 0..Len(C) : n \in Nat BY CoreFacts
  <2> QED BY <2>1, <1>1, <1>5, CoreFacts, TailHorizon
<1>7. all_buffers_' = [all_buffers_ EXCEPT ![c] = all_buffers_[c]]
      /\ all_buffers_[c] \in Seq(pbuffer)
  BY <1>1, CoreFacts DEF LoggerInv, Types, TypeOK
<1> HIDE DEF Z
<1> QED BY <1>1, <1>3, <1>4, <1>6, <1>7, TailStep

LEMMA EndPushStep == ASSUME LoggerInv, NEW c \in Cores, EndPush(c) PROVE LoggerInv'
<1>1. /\ logging[c] = "end"
      /\ logging' = [logging EXCEPT ![c] = "ended"]
      /\ UNCHANGED <<clockVars, g_use_compression, horizon_, committed, tail_,
                     disk, writer, persister, epochs_, epoch_prefixes, system_sync_epoch_>>
  BY DEF EndPush, syncVars
<1>2. CASE all_buffers_[c] # << >> /\ Head(all_buffers_[c]).txns # << >>
  <2>1. PushHead(c) BY <1>2 DEF EndPush
  <2> QED BY <2>1, <1>1, <1>2, PushStep
<1>3. CASE ~(all_buffers_[c] # << >> /\ Head(all_buffers_[c]).txns # << >>)
  <2>1. UNCHANGED <<all_buffers_, persist_buffers_>> BY <1>3 DEF EndPush
  <2>2. /\ all_buffers_' = [all_buffers_ EXCEPT ![c] = all_buffers_[c]]
        /\ horizon_' = [horizon_ EXCEPT ![c] = horizon_[c]]
        /\ all_buffers_[c] \in Seq(pbuffer) /\ horizon_[c] \in Seq(Txn)
    BY <2>1, <1>1, CoreFacts DEF LoggerInv, Types, TypeOK
  <2>3. \A n \in 0..Len(committed[c]) :
          TailOK(committed[c], all_buffers_[c], horizon_[c], "end", g_use_compression, n)
            => TailOK(committed[c], all_buffers_[c], horizon_[c], "ended", g_use_compression, n)
    BY TailPlace
  <2> QED BY <1>1, <2>1, <2>2, <2>3, TailStep
<1> QED BY <1>2, <1>3

LEMMA WorkerStep == ASSUME LoggerInv, NEW c \in Cores, Worker(c) PROVE LoggerInv'
BY RegionStep, CommitStep, LogWriteStep, LogPushStep, HorizonPushStep, HorizonFlushStep,
   CountStep, HorizonWriteStep, ThreadEndStep, EndPushStep, Zenon DEF Worker

-----------------------------------------------------------------------------
(* The writer's steps.                                                     *)

\* Writer l moves to x: only its own cores are concerned.
LEMMA WriterFrame ==
  ASSUME LoggerInv, Types', NEW l \in Loggers, NEW x,
         writer' = [writer EXCEPT ![l] = x], LoopOK(x, Assignment[l]),
         UNCHANGED <<current_tick_, committed, horizon_, logging, g_use_compression>>,
         \A d \in Cores \ Assignment[l] :
           /\ disk'[d] = disk[d] /\ persist_buffers_'[d] = persist_buffers_[d]
           /\ all_buffers_'[d] = all_buffers_[d]
           /\ \A s \in BOOLEAN : epoch_prefixes'[s][d] = epoch_prefixes[s][d],
         \A c \in Assignment[l] :
           /\ CoreOK(c, committed[c], disk'[c], persist_buffers_'[c], all_buffers_'[c],
                     horizon_[c], logging[c], g_use_compression, x, current_tick_)
           /\ \A s \in BOOLEAN :
                /\ epoch_prefixes'[s][c] < current_tick_
                /\ ClaimOK(epoch_prefixes'[s][c], committed[c], disk'[c], persist_buffers_'[c],
                           x.pc)
  PROVE  LoggerInv'
<1>1. writer \in [Loggers -> WriterType] BY DEF LoggerInv, Types
<1>2. \A m \in Loggers : writer'[m] = IF m = l THEN x ELSE writer[m] BY <1>1
<1>3. WriterInv'
  <2>1. \A m \in Loggers : LoopOK(writer'[m], Assignment[m])
    BY <1>2 DEF LoggerInv, WriterInv
  <2> QED BY <2>1 DEF WriterInv
<1>4. ASSUME NEW d \in Cores, d \in Assignment[l] PROVE writer'[LoggerOf(d)] = x
  BY <1>2, <1>4, LoggerOfIs
<1>5. ASSUME NEW d \in Cores, d \notin Assignment[l]
      PROVE  writer'[LoggerOf(d)] = writer[LoggerOf(d)]
  BY <1>2, <1>5, LoggerOfIs
<1>6. CoreInv'
  <2> SUFFICES ASSUME NEW d \in Cores
               PROVE  CoreOK(d, committed[d], disk'[d], persist_buffers_'[d], all_buffers_'[d],
                             horizon_[d], logging[d], g_use_compression,
                             writer'[LoggerOf(d)], current_tick_)
    BY DEF CoreInv
  <2>1. CASE d \in Assignment[l] BY <2>1, <1>4
  <2>2. CASE d \notin Assignment[l] BY <2>2, <1>5 DEF LoggerInv, CoreInv
  <2> QED BY <2>1, <2>2
<1>7. ClaimInv'
  <2> SUFFICES ASSUME NEW s \in BOOLEAN, NEW d \in Cores
               PROVE  /\ epoch_prefixes'[s][d] < current_tick_
                      /\ ClaimOK(epoch_prefixes'[s][d], committed[d], disk'[d],
                                 persist_buffers_'[d], writer'[LoggerOf(d)].pc)
    BY DEF ClaimInv
  <2>1. CASE d \in Assignment[l] BY <2>1, <1>4
  <2>2. CASE d \notin Assignment[l] BY <2>2, <1>5 DEF LoggerInv, ClaimInv
  <2> QED BY <2>1, <2>2
<1> QED BY <1>3, <1>6, <1>7 DEF LoggerInv

\* What the invariant says of writer l and its cores.
LEMMA WriterFacts ==
  ASSUME LoggerInv, NEW l \in Loggers
  PROVE  /\ writer[l] \in WriterType /\ LoopOK(writer[l], Assignment[l])
         /\ Assignment[l] \subseteq Cores /\ Assignment[l] # {}
         /\ \A c \in Assignment[l] : c \in Cores /\ LoggerOf(c) = l
         /\ writer[l].todo # {} =>
              /\ Turn(l) \in writer[l].todo /\ Turn(l) \in Assignment[l] /\ Turn(l) \in Cores
<1>1. writer[l] \in WriterType /\ LoopOK(writer[l], Assignment[l]) /\ Types /\ WriterInv
  BY DEF LoggerInv, Types, WriterInv
<1>2. Assignment[l] \subseteq Cores /\ Assignment[l] # {} BY LoggerAssumption
<1>3. \A c \in Assignment[l] : c \in Cores /\ LoggerOf(c) = l BY <1>2, LoggerOfIs
<1>4. writer[l].todo # {} =>
        /\ Turn(l) \in writer[l].todo /\ Turn(l) \in Assignment[l] /\ Turn(l) \in Cores
  BY <1>1, TurnIs
<1> QED BY <1>1, <1>2, <1>3, <1>4

\* What the invariant says of a core of writer l.
LEMMA MineFacts ==
  ASSUME LoggerInv, NEW l \in Loggers, NEW c \in Assignment[l]
  PROVE  /\ c \in Cores
         /\ committed[c] \in Seq(Txn) /\ disk[c] \in Seq(Seq(Txn))
         /\ persist_buffers_[c] \in Seq(pbuffer) /\ all_buffers_[c] \in Seq(pbuffer)
         /\ horizon_[c] \in Seq(Txn) /\ current_tick_ \in Nat
         /\ CoreOK(c, committed[c], disk[c], persist_buffers_[c], all_buffers_[c], horizon_[c],
                   logging[c], g_use_compression, writer[l], current_tick_)
         /\ FlagsOK(persist_buffers_[c], writer[l], c)
         /\ QuietFor(writer[l], c) => NoneScheduled(persist_buffers_[c])
         /\ \A s \in BOOLEAN :
              /\ epoch_prefixes[s][c] < current_tick_
              /\ ClaimOK(epoch_prefixes[s][c], committed[c], disk[c], persist_buffers_[c],
                         writer[l].pc)
<1>1. c \in Cores /\ LoggerOf(c) = l BY WriterFacts
<1>2. CoreOK(c, committed[c], disk[c], persist_buffers_[c], all_buffers_[c], horizon_[c],
             logging[c], g_use_compression, writer[l], current_tick_)
  BY <1>1, CoreFacts
<1>3. FlagsOK(persist_buffers_[c], writer[l], c) BY <1>2 DEF CoreOK
<1>4. QuietFor(writer[l], c) => NoneScheduled(persist_buffers_[c])
  BY <1>3 DEF FlagsOK, NoneScheduled
<1> QED BY <1>1, <1>2, <1>3, <1>4, CoreFacts

\* Writer l only moves on.
LEMMA WriterMoves ==
  ASSUME LoggerInv, NEW l \in Loggers, NEW x \in WriterType,
         writer' = [writer EXCEPT ![l] = x], LoopOK(x, Assignment[l]),
         UNCHANGED <<clockVars, workerVars, epoch_prefixes, system_sync_epoch_, all_buffers_,
                     persist_buffers_, tail_, disk, persister>>,
         epochs_' \in [Cores -> 0..MaxTick],
         \A c \in Assignment[l] : Moves(persist_buffers_[c], writer[l], x, c)
  PROVE  LoggerInv'
<1>1. UNCHANGED <<current_tick_, committed, horizon_, logging, g_use_compression>>
  BY DEF clockVars, workerVars
<1>2. writer' \in [Loggers -> WriterType] BY DEF LoggerInv, Types
<1>3. Types'
  BY <1>1, <1>2 DEF LoggerInv, Types, TypeOK, ClockTypeOK, clockVars
<1>4. ASSUME NEW c \in Assignment[l]
      PROVE  /\ CoreOK(c, committed[c], disk[c], persist_buffers_[c], all_buffers_[c],
                       horizon_[c], logging[c], g_use_compression, x, current_tick_)
             /\ \A s \in BOOLEAN :
                  /\ epoch_prefixes[s][c] < current_tick_
                  /\ ClaimOK(epoch_prefixes[s][c], committed[c], disk[c], persist_buffers_[c],
                             x.pc)
  <2>1. Moves(persist_buffers_[c], writer[l], x, c) OBVIOUS
  <2>2. CoreOK(c, committed[c], disk[c], persist_buffers_[c], all_buffers_[c],
               horizon_[c], logging[c], g_use_compression, x, current_tick_)
    BY <2>1, MineFacts, CoreMove
  <2>3. \A s \in BOOLEAN :
          /\ epoch_prefixes[s][c] < current_tick_
          /\ ClaimOK(epoch_prefixes[s][c], committed[c], disk[c], persist_buffers_[c], x.pc)
    BY <2>1, MineFacts, ClaimMove
  <2> QED BY <2>2, <2>3
<1> QED BY <1>1, <1>3, <1>4, WriterFrame

LEMMA WriterStartStep == ASSUME LoggerInv, NEW l \in Loggers, WriterStart(l) PROVE LoggerInv'
<1> DEFINE x == [writer[l] EXCEPT !.pc = "scan", !.todo = Assignment[l],
                                  !.sync_ex = system_sync_epoch_ + 1, !.nbufs = 0]
<1>1. /\ writer[l].pc = "start"
      /\ writer' = [writer EXCEPT
           ![l].pc = "scan", ![l].todo = Assignment[l],
           ![l].sync_ex = system_sync_epoch_ + 1, ![l].nbufs = 0]
      /\ UNCHANGED <<clockVars, workerVars, epoch_prefixes, system_sync_epoch_, all_buffers_,
                     persist_buffers_, tail_, disk, persister, epochs_>>
  BY DEF WriterStart, syncVars
<1>2. writer \in [Loggers -> WriterType] /\ writer[l] \in WriterType
      /\ epochs_ \in [Cores -> 0..MaxTick] /\ system_sync_epoch_ \in 0..MaxTick
  BY DEF LoggerInv, Types, TypeOK
<1>3. writer' = [writer EXCEPT ![l] = x] BY <1>1, <1>2 DEF WriterType
<1>4. Assignment[l] \subseteq Cores /\ Assignment[l] # {} BY WriterFacts
<1>5. system_sync_epoch_ + 1 \in Nat BY <1>2, ClockAssumption
<1>6. x \in WriterType BY <1>2, <1>4, <1>5 DEF WriterType
<1>7. x.pc = "scan" /\ x.todo = Assignment[l] /\ x.nbufs = 0 BY <1>2 DEF WriterType
<1> HIDE DEF x
<1>8. 0 <= IovMax BY LoggerAssumption
<1>9. LoopOK(x, Assignment[l]) BY <1>4, <1>7, <1>8 DEF LoopOK
<1>10. \A c \in Assignment[l] : Moves(persist_buffers_[c], writer[l], x, c)
  <2> TAKE c \in Assignment[l]
  <2>1. QuietFor(writer[l], c) BY <1>1 DEF QuietFor
  <2> QED BY <2>1, MineFacts DEF Moves
<1> QED BY <1>1, <1>2, <1>3, <1>6, <1>9, <1>10, WriterMoves

LEMMA WriterLoadStep == ASSUME LoggerInv, NEW l \in Loggers, WriterLoad(l) PROVE LoggerInv'
<1> DEFINE x == [writer[l] EXCEPT !.pc = "store", !.x0 = epochs_[Turn(l)]]
<1>1. /\ writer[l].pc = "load"
      /\ writer' = [writer EXCEPT ![l].pc = "store", ![l].x0 = epochs_[Turn(l)]]
      /\ UNCHANGED <<clockVars, workerVars, epoch_prefixes, system_sync_epoch_, all_buffers_,
                     persist_buffers_, tail_, disk, persister, epochs_>>
  BY DEF WriterLoad, syncVars
<1>2. writer \in [Loggers -> WriterType] /\ writer[l] \in WriterType
      /\ epochs_ \in [Cores -> 0..MaxTick]
  BY DEF LoggerInv, Types, TypeOK
<1>3. writer' = [writer EXCEPT ![l] = x] BY <1>1, <1>2 DEF WriterType
<1>4. LoopOK(writer[l], Assignment[l]) BY WriterFacts
<1>5. writer[l].todo # {} BY <1>1, <1>4 DEF LoopOK, Done
<1>6. epochs_[Turn(l)] \in 0..MaxTick BY <1>2, <1>5, WriterFacts
<1>7. x \in WriterType BY <1>2, <1>6 DEF WriterType, Done
<1>8. x.pc = "store" /\ x.todo = writer[l].todo /\ x.nbufs = writer[l].nbufs
  BY <1>2 DEF WriterType
<1> HIDE DEF x
<1>9. LoopOK(x, Assignment[l]) BY <1>4, <1>5, <1>8 DEF LoopOK
<1>10. \A c \in Assignment[l] : Moves(persist_buffers_[c], writer[l], x, c)
  BY <1>1, <1>8 DEF Moves, QuietFor, Done
<1> QED BY <1>1, <1>2, <1>3, <1>7, <1>9, <1>10, WriterMoves

LEMMA WriterStoreStep == ASSUME LoggerInv, NEW l \in Loggers, WriterStore(l) PROVE LoggerInv'
<1> DEFINE x == [writer[l] EXCEPT !.pc = "return", !.x0 = 0]
           x1 == epoch_prefixes[writer[l].sense][Turn(l)]
<1>1. /\ writer[l].pc = "store"
      /\ writer' = [writer EXCEPT ![l].pc = "return", ![l].x0 = 0]
      /\ epochs_' = IF x1 > writer[l].x0 THEN [epochs_ EXCEPT ![Turn(l)] = x1] ELSE epochs_
      /\ UNCHANGED <<clockVars, workerVars, epoch_prefixes, system_sync_epoch_, all_buffers_,
                     persist_buffers_, tail_, disk, persister>>
  BY DEF WriterStore
<1>2. writer \in [Loggers -> WriterType] /\ writer[l] \in WriterType
      /\ epochs_ \in [Cores -> 0..MaxTick]
      /\ epoch_prefixes \in [BOOLEAN -> [Cores -> 0..MaxTick]]
  BY DEF LoggerInv, Types, TypeOK
<1>3. writer' = [writer EXCEPT ![l] = x] BY <1>1, <1>2 DEF WriterType
<1>4. LoopOK(writer[l], Assignment[l]) BY WriterFacts
<1>5. writer[l].todo # {} BY <1>1, <1>4 DEF LoopOK, Done
<1>6. writer[l].sense \in BOOLEAN /\ 0 \in 0..MaxTick BY <1>2, ClockAssumption DEF WriterType
<1>7. x1 \in 0..MaxTick BY <1>2, <1>5, <1>6, WriterFacts
<1>8. x \in WriterType BY <1>2, <1>6 DEF WriterType, Done
<1>9. x.pc = "return" /\ x.todo = writer[l].todo /\ x.nbufs = writer[l].nbufs
  BY <1>2 DEF WriterType
<1> HIDE DEF x, x1
<1>10. epochs_' \in [Cores -> 0..MaxTick] BY <1>1, <1>2, <1>7
<1>11. LoopOK(x, Assignment[l]) BY <1>4, <1>5, <1>9 DEF LoopOK
<1>12. \A c \in Assignment[l] : Moves(persist_buffers_[c], writer[l], x, c)
  BY <1>1, <1>9 DEF Moves, QuietFor, Done
<1> QED BY <1>1, <1>3, <1>8, <1>10, <1>11, <1>12, WriterMoves

LEMMA WriterNextStep == ASSUME LoggerInv, NEW l \in Loggers, WriterNextCore(l) PROVE LoggerInv'
<1> DEFINE k == Turn(l)
           w == writer[l]
           last == w.todo = {k}
           x == [w EXCEPT !.todo = @ \ {k}, !.pc = IF last THEN "start" ELSE "load",
                          !.sense = IF last THEN ~@ ELSE @]
<1>1. /\ w.pc = "return"
      /\ ~(persist_buffers_[k] # << >> /\ Head(persist_buffers_[k]).io_scheduled_)
      /\ writer' = [writer EXCEPT
           ![l].todo = @ \ {k}, ![l].pc = IF last THEN "start" ELSE "load",
           ![l].sense = IF last THEN ~@ ELSE @]
      /\ UNCHANGED <<clockVars, workerVars, epoch_prefixes, system_sync_epoch_, all_buffers_,
                     persist_buffers_, tail_, disk, persister, epochs_>>
  BY DEF WriterNextCore, syncVars
<1>2. writer \in [Loggers -> WriterType] /\ w \in WriterType
      /\ epochs_ \in [Cores -> 0..MaxTick]
  BY DEF LoggerInv, Types, TypeOK
<1>3. writer' = [writer EXCEPT ![l] = x] BY <1>1, <1>2 DEF WriterType
<1>4. LoopOK(w, Assignment[l]) BY WriterFacts
<1>5. w.todo # {} BY <1>1, <1>4 DEF LoopOK, Done
<1>6. k \in w.todo /\ k \in Assignment[l] BY <1>5, WriterFacts
<1>7. w.sense \in BOOLEAN /\ (IF last THEN ~w.sense ELSE w.sense) \in BOOLEAN
  BY <1>2, Zenon DEF WriterType
<1>8. x \in WriterType BY <1>2, <1>7 DEF WriterType, Done
<1>9. /\ x.todo = w.todo \ {k} /\ x.nbufs = w.nbufs
      /\ (last /\ x.pc = "start") \/ (~last /\ x.pc = "load")
  BY <1>2 DEF WriterType
<1>10. NoneScheduled(persist_buffers_[k])
  <2>1. persist_buffers_[k] \in Seq(pbuffer) /\ FlagsOK(persist_buffers_[k], w, k)
    BY <1>6, MineFacts
  <2>2. CASE persist_buffers_[k] = << >>
    <3>1. Len(persist_buffers_[k]) = 0 BY <2>2
    <3> QED BY <3>1 DEF NoneScheduled
  <2>3. CASE persist_buffers_[k] # << >>
    <3>1. 1 \in 1..Len(persist_buffers_[k])
          /\ Head(persist_buffers_[k]) = persist_buffers_[k][1] BY <2>1, <2>3
    <3>2. ~persist_buffers_[k][1].io_scheduled_ BY <3>1, <2>3, <1>1
    <3>3. \A j \in 1..Len(persist_buffers_[k]) : 1 <= j BY <2>1
    <3> QED BY <3>1, <3>2, <3>3, <2>1 DEF FlagsOK, NoneScheduled
  <2> QED BY <2>2, <2>3
<1> HIDE DEF x, k, w
<1>11. LoopOK(x, Assignment[l])
  <2>1. ~last => x.todo # {} BY <1>6, <1>9
  <2> QED BY <2>1, <1>4, <1>9 DEF LoopOK, Done
<1>12. \A c \in Assignment[l] : Moves(persist_buffers_[c], w, x, c)
  <2> TAKE c \in Assignment[l]
  <2>1. CASE c = k BY <2>1, <1>10 DEF Moves
  <2>2. CASE c # k /\ c \notin w.todo
    <3>1. QuietFor(w, c) BY <2>2, <1>1 DEF QuietFor, Done
    <3> QED BY <3>1, MineFacts DEF Moves, w
  <2>3. CASE c # k /\ c \in w.todo
    <3>1. ~last /\ x.pc = "load" /\ c \in x.todo BY <2>3, <1>9
    <3> QED BY <3>1, <1>1 DEF Moves, QuietFor, Done
  <2> QED BY <2>1, <2>2, <2>3
<1> QED BY <1>1, <1>2, <1>3, <1>8, <1>11, <1>12, WriterMoves DEF w

LEMMA WriterWriteStep == ASSUME LoggerInv, NEW l \in Loggers, WriterWrite(l) PROVE LoggerInv'
<1> DEFINE x == [writer[l] EXCEPT !.pc = "load"]
           New(c) == disk[c] \o Contents(persist_buffers_[c], 1, Scheduled(persist_buffers_[c]))
<1>1. /\ writer[l].pc = "write"
      /\ disk' = [c \in Cores |-> IF c \in Assignment[l] THEN New(c) ELSE disk[c]]
      /\ writer' = [writer EXCEPT ![l].pc = "load"]
      /\ UNCHANGED <<clockVars, workerVars, epoch_prefixes, system_sync_epoch_, all_buffers_,
                     persist_buffers_, tail_, persister, epochs_>>
  BY DEF WriterWrite, syncVars
<1>2. writer \in [Loggers -> WriterType] /\ writer[l] \in WriterType
      /\ disk \in [Cores -> Seq(Seq(Txn))]
  BY DEF LoggerInv, Types
<1>3. writer' = [writer EXCEPT ![l] = x] BY <1>1, <1>2 DEF WriterType
<1>4. LoopOK(writer[l], Assignment[l]) BY WriterFacts
<1>5. x \in WriterType BY <1>2 DEF WriterType, Done
<1>6. x.pc = "load" /\ x.todo = Assignment[l] /\ x.nbufs = writer[l].nbufs
  BY <1>1, <1>2, <1>4 DEF WriterType, LoopOK
<1> HIDE DEF x, New
<1>7. Assignment[l] \subseteq Cores /\ Assignment[l] # {} BY WriterFacts
<1>8. LoopOK(x, Assignment[l]) BY <1>4, <1>6, <1>7 DEF LoopOK
<1>9. ASSUME NEW c \in Assignment[l]
      PROVE  /\ New(c) \in Seq(Seq(Txn))
             /\ CoreOK(c, committed[c], New(c), persist_buffers_[c], all_buffers_[c],
                       horizon_[c], logging[c], g_use_compression, x, current_tick_)
             /\ \A s \in BOOLEAN :
                  /\ epoch_prefixes[s][c] < current_tick_
                  /\ ClaimOK(epoch_prefixes[s][c], committed[c], New(c), persist_buffers_[c],
                             x.pc)
  <2>1. persist_buffers_[c] \in Seq(pbuffer) /\ disk[c] \in Seq(Seq(Txn)) BY MineFacts
  <2>2. New(c) \in Seq(Seq(Txn)) BY <2>1, ScheduledIs, FiledWrite DEF New
  <2>3. x.pc \in Done /\ ~QuietFor(x, c) BY <1>6 DEF QuietFor, Done
  <2>4. CoreOK(c, committed[c], New(c), persist_buffers_[c], all_buffers_[c],
               horizon_[c], logging[c], g_use_compression, x, current_tick_)
    BY <1>1, <2>1, <2>3, MineFacts, CoreWrite DEF New
  <2>5. \A s \in BOOLEAN :
          /\ epoch_prefixes[s][c] < current_tick_
          /\ ClaimOK(epoch_prefixes[s][c], committed[c], New(c), persist_buffers_[c], x.pc)
    BY <2>1, MineFacts, ClaimWrite DEF New
  <2> QED BY <2>2, <2>4, <2>5
<1>10. /\ disk' \in [Cores -> Seq(Seq(Txn))]
       /\ \A c \in Assignment[l] : disk'[c] = New(c)
       /\ \A c \in Cores \ Assignment[l] : disk'[c] = disk[c]
  BY <1>1, <1>2, <1>7, <1>9
<1>11. writer' \in [Loggers -> WriterType] BY <1>2, <1>3, <1>5
<1>12. UNCHANGED <<current_tick_, committed, horizon_, logging, g_use_compression>>
  BY <1>1 DEF clockVars, workerVars
<1>13. Types'
  BY <1>1, <1>10, <1>11, <1>12 DEF LoggerInv, Types, TypeOK, ClockTypeOK, clockVars
<1>14. ASSUME NEW c \in Assignment[l]
       PROVE  /\ CoreOK(c, committed[c], disk'[c], persist_buffers_'[c], all_buffers_'[c],
                        horizon_[c], logging[c], g_use_compression, x, current_tick_)
              /\ \A s \in BOOLEAN :
                   /\ epoch_prefixes'[s][c] < current_tick_
                   /\ ClaimOK(epoch_prefixes'[s][c], committed[c], disk'[c],
                              persist_buffers_'[c], x.pc)
  BY <1>1, <1>9, <1>10
<1>15. \A d \in Cores \ Assignment[l] :
         /\ disk'[d] = disk[d] /\ persist_buffers_'[d] = persist_buffers_[d]
         /\ all_buffers_'[d] = all_buffers_[d]
         /\ \A s \in BOOLEAN : epoch_prefixes'[s][d] = epoch_prefixes[s][d]
  BY <1>1, <1>10
<1> QED BY <1>3, <1>8, <1>12, <1>13, <1>14, <1>15, WriterFrame

LEMMA WriterReturnStep == ASSUME LoggerInv, NEW l \in Loggers, WriterReturn(l) PROVE LoggerInv'
<1> DEFINE k == Turn(l)
           w == writer[l]
           P == Tail(persist_buffers_[k])
           A == Append(all_buffers_[k], EmptyBuffer)
<1>1. /\ w.pc = "return"
      /\ persist_buffers_[k] # << >> /\ Head(persist_buffers_[k]).io_scheduled_
      /\ persist_buffers_' = [persist_buffers_ EXCEPT ![k] = P]
      /\ tail_' = [tail_ EXCEPT ![k] = (@ + 1) % g_perthread_buffers]
      /\ all_buffers_' = [all_buffers_ EXCEPT ![k] = A]
      /\ UNCHANGED <<clockVars, workerVars, epoch_prefixes, system_sync_epoch_, disk, writer,
                     persister, epochs_>>
  BY DEF WriterReturn, syncVars
<1>2. /\ writer \in [Loggers -> WriterType]
      /\ tail_ \in [Cores -> 0..g_perthread_buffers - 1]
      /\ all_buffers_ \in [Cores -> Seq(pbuffer)] /\ persist_buffers_ \in [Cores -> Seq(pbuffer)]
      /\ \A d \in Cores : Len(all_buffers_[d]) + Len(persist_buffers_[d]) = g_perthread_buffers
  BY DEF LoggerInv, Types, TypeOK
<1>3. writer' = [writer EXCEPT ![l] = w] BY <1>1, <1>2
<1>4. LoopOK(w, Assignment[l]) BY WriterFacts
<1>5. w.todo # {} BY <1>1, <1>4 DEF LoopOK, Done
<1>6. k \in Assignment[l] /\ k \in Cores BY <1>5, WriterFacts
<1>7. /\ P \in Seq(pbuffer) /\ A \in Seq(pbuffer)
      /\ Len(P) = Len(persist_buffers_[k]) - 1 /\ Len(A) = Len(all_buffers_[k]) + 1
      /\ Len(persist_buffers_[k]) \in Nat /\ Len(all_buffers_[k]) \in Nat
  BY <1>1, <1>2, <1>6, AppendEmpty
<1>8. CoreOK(k, committed[k], disk[k], P, A, horizon_[k], logging[k], g_use_compression,
             w, current_tick_)
  BY <1>1, <1>6, MineFacts, CoreReturn DEF Done
<1>9. \A s \in BOOLEAN :
        /\ epoch_prefixes[s][k] < current_tick_
        /\ ClaimOK(epoch_prefixes[s][k], committed[k], disk[k], P, w.pc)
  BY <1>1, <1>6, MineFacts, ClaimQuiet DEF Done
<1> HIDE DEF P, A, k, w
<1>10. /\ persist_buffers_' \in [Cores -> Seq(pbuffer)] /\ all_buffers_' \in [Cores -> Seq(pbuffer)]
       /\ persist_buffers_'[k] = P /\ all_buffers_'[k] = A
       /\ \A d \in Cores \ {k} : /\ persist_buffers_'[d] = persist_buffers_[d]
                                 /\ all_buffers_'[d] = all_buffers_[d]
  BY <1>1, <1>2, <1>6, <1>7
<1>11. tail_' \in [Cores -> 0..g_perthread_buffers - 1]
  <2>1. ASSUME NEW t \in 0..g_perthread_buffers - 1
        PROVE  (t + 1) % g_perthread_buffers \in 0..g_perthread_buffers - 1
    <3>1. g_perthread_buffers \in Nat /\ g_perthread_buffers > 0 BY LoggerAssumption
    <3> QED BY <3>1
  <2>2. tail_[k] \in 0..g_perthread_buffers - 1 BY <1>2, <1>6
  <2> QED BY <2>1, <2>2, <1>1, <1>2
<1>12. \A d \in Cores : Len(all_buffers_'[d]) + Len(persist_buffers_'[d]) = g_perthread_buffers
  <2> TAKE d \in Cores
  <2>1. CASE d = k
    <3>1. Len(all_buffers_[k]) + Len(persist_buffers_[k]) = g_perthread_buffers BY <1>2, <1>6
    <3>2. ASSUME NEW a \in Nat, NEW p \in Nat, a + p = g_perthread_buffers
          PROVE  (a + 1) + (p - 1) = g_perthread_buffers
      BY <3>2
    <3>3. (Len(all_buffers_[k]) + 1) + (Len(persist_buffers_[k]) - 1) = g_perthread_buffers
      BY <3>1, <3>2, <1>7, Zenon
    <3>4. Len(A) + Len(P) = g_perthread_buffers BY <3>3, <1>7, Zenon
    <3> QED BY <3>4, <2>1, <1>10
  <2>2. CASE d # k BY <2>2, <1>2, <1>10
  <2> QED BY <2>1, <2>2
<1>13. UNCHANGED <<current_tick_, committed, horizon_, logging, g_use_compression>>
  BY <1>1 DEF clockVars, workerVars
<1>14. Types'
  BY <1>1, <1>10, <1>11, <1>12, <1>13 DEF LoggerInv, Types, TypeOK, ClockTypeOK, clockVars
<1>15. ASSUME NEW c \in Assignment[l]
       PROVE  /\ CoreOK(c, committed[c], disk'[c], persist_buffers_'[c], all_buffers_'[c],
                        horizon_[c], logging[c], g_use_compression, w, current_tick_)
              /\ \A s \in BOOLEAN :
                   /\ epoch_prefixes'[s][c] < current_tick_
                   /\ ClaimOK(epoch_prefixes'[s][c], committed[c], disk'[c],
                              persist_buffers_'[c], w.pc)
  <2>1. CASE c = k BY <2>1, <1>1, <1>8, <1>9, <1>10
  <2>2. CASE c # k
    <3>1. /\ CoreOK(c, committed[c], disk[c], persist_buffers_[c], all_buffers_[c],
                    horizon_[c], logging[c], g_use_compression, w, current_tick_)
          /\ \A s \in BOOLEAN :
               /\ epoch_prefixes[s][c] < current_tick_
               /\ ClaimOK(epoch_prefixes[s][c], committed[c], disk[c], persist_buffers_[c], w.pc)
          /\ c \in Cores
      BY MineFacts DEF w
    <3> QED BY <3>1, <2>2, <1>1, <1>10
  <2> QED BY <2>1, <2>2
<1>16. \A d \in Cores \ Assignment[l] :
         /\ disk'[d] = disk[d] /\ persist_buffers_'[d] = persist_buffers_[d]
         /\ all_buffers_'[d] = all_buffers_[d]
         /\ \A s \in BOOLEAN : epoch_prefixes'[s][d] = epoch_prefixes[s][d]
  BY <1>1, <1>6, <1>10
<1> QED BY <1>3, <1>4, <1>13, <1>14, <1>15, <1>16, WriterFrame

LEMMA WriterScanStep == ASSUME LoggerInv, NEW l \in Loggers, WriterScan(l) PROVE LoggerInv'
<1> DEFINE k == Turn(l)
           w == writer[l]
           q == persist_buffers_[k]
           n == NScheduled(q, w.sync_ex, IovMax - w.nbufs)
           last == w.todo = {k}
           nb == w.nbufs + n
           td == IF last /\ nb # 0 THEN Assignment[l] ELSE w.todo \ {k}
           pc == CASE ~last -> "scan" [] last /\ nb = 0 -> "start" [] OTHER -> "write"
           x == [w EXCEPT !.nbufs = nb, !.todo = td, !.pc = pc]
           P == Flagged(q, n)
<1>1. /\ w.pc = "scan"
      /\ persist_buffers_' = [persist_buffers_ EXCEPT ![k] = P]
      /\ epoch_prefixes' = IF n = 0 THEN epoch_prefixes
           ELSE [epoch_prefixes EXCEPT ![w.sense][k] = EpochPrefix(q[n])]
      /\ writer' = [writer EXCEPT ![l].nbufs = nb,
           ![l].todo = IF last /\ nb # 0 THEN Assignment[l] ELSE @ \ {k}, ![l].pc = pc]
      /\ UNCHANGED <<clockVars, workerVars, system_sync_epoch_, disk, all_buffers_, tail_,
                     persister, epochs_>>
  BY DEF WriterScan, Flagged
<1>2. /\ writer \in [Loggers -> WriterType] /\ w \in WriterType
      /\ persist_buffers_ \in [Cores -> Seq(pbuffer)]
      /\ epoch_prefixes \in [BOOLEAN -> [Cores -> 0..MaxTick]]
      /\ \A d \in Cores : Len(all_buffers_[d]) + Len(persist_buffers_[d]) = g_perthread_buffers
  BY DEF LoggerInv, Types, TypeOK
<1>3. writer' = [writer EXCEPT ![l] = x] BY <1>1, <1>2 DEF WriterType
<1>4. LoopOK(w, Assignment[l]) /\ Assignment[l] \subseteq Cores BY WriterFacts
<1>5. w.todo # {} /\ w.nbufs <= IovMax /\ w.todo \subseteq Assignment[l]
  BY <1>1, <1>4 DEF LoopOK
<1>6. k \in w.todo /\ k \in Assignment[l] /\ k \in Cores BY <1>5, WriterFacts
<1>7. q \in Seq(pbuffer) /\ \A i \in 1..Len(q) : q[i].txns # << >>
  BY <1>6, MineFacts DEF CoreOK
<1>8. n \in 0..Len(q) /\ n <= IovMax - w.nbufs /\ w.nbufs \in Nat
  <2>1. w.sync_ex \in Nat /\ w.nbufs \in Nat BY <1>2 DEF WriterType
  <2>2. IovMax - w.nbufs \in Nat BY <2>1, <1>5, LoggerAssumption
  <2> QED BY <2>1, <2>2, <1>7, NScheduledIs
<1> HIDE DEF n
<1>9. n \in Nat /\ nb \in Nat /\ nb <= IovMax /\ (nb = 0 => n = 0 /\ w.nbufs = 0)
  BY <1>7, <1>8, LoggerAssumption
<1>10. P \in Seq(pbuffer) /\ Len(P) = Len(q) BY <1>7, <1>8, FlaggedIs
<1> HIDE DEF nb
<1>11. /\ pc \in {"scan", "start", "write"}
       /\ ~last => pc = "scan"
       /\ last /\ nb = 0 => pc = "start"
       /\ last /\ nb # 0 => pc = "write"
  OBVIOUS
<1>12. td \subseteq Assignment[l] /\ td \subseteq Cores BY <1>4, <1>5
<1> HIDE DEF pc, td
<1>13. x \in WriterType BY <1>2, <1>9, <1>11, <1>12 DEF WriterType
<1>14. x.pc = pc /\ x.todo = td /\ x.nbufs = nb BY <1>2 DEF WriterType
<1> HIDE DEF x, P, q, k, w
<1>15. LoopOK(x, Assignment[l])
  <2>1. ~last => td # {} BY <1>6 DEF td
  <2>2. last /\ nb # 0 => td = Assignment[l] BY DEF td
  <2> QED BY <2>1, <2>2, <1>9, <1>11, <1>12, <1>14 DEF LoopOK, Done
<1>16. ASSUME NEW c \in Assignment[l], c # k
       PROVE  Moves(persist_buffers_[c], w, x, c)
  <2>1. CASE nb = 0
    <3>1. QuietFor(w, c) BY <2>1, <1>1, <1>9 DEF QuietFor
    <3> QED BY <3>1, MineFacts DEF Moves, w
  <2>2. CASE nb # 0
    <3>1. pc \in {"scan", "write"} BY <2>2, <1>11
    <3>2. ASSUME QuietFor(x, c) PROVE QuietFor(w, c)
      <4>1. pc = "scan" /\ c \in td BY <3>1, <3>2, <2>2, <1>14 DEF QuietFor, Done
      <4>2. ~last BY <4>1, <2>2, <1>11
      <4>3. c \in w.todo BY <4>1, <4>2 DEF td
      <4> QED BY <4>3, <1>1 DEF QuietFor
    <3> QED BY <3>1, <3>2, <1>1, <1>14 DEF Moves, Done
  <2> QED BY <2>1, <2>2
<1>17. /\ persist_buffers_' \in [Cores -> Seq(pbuffer)] /\ persist_buffers_'[k] = P
       /\ \A d \in Cores \ {k} : persist_buffers_'[d] = persist_buffers_[d]
  BY <1>1, <1>2, <1>6, <1>10
<1>18. CoreOK(k, committed[k], disk[k], P, all_buffers_[k], horizon_[k], logging[k],
              g_use_compression, x, current_tick_)
  <2>1. QuietFor(x, k) => n = 0
    <3> SUFFICES ASSUME QuietFor(x, k), nb # 0 PROVE FALSE BY <1>9
    <3>1. pc = "scan" /\ k \in td BY <1>11, <1>14 DEF QuietFor, Done
    <3>2. ~last BY <3>1, <1>11
    <3> QED BY <3>1, <3>2 DEF td
  <2>2. x.pc \notin Done BY <1>11, <1>14 DEF Done
  <2> QED BY <2>1, <2>2, <1>1, <1>6, <1>8, MineFacts, CoreScan DEF P, q, w
<1>19. NoneScheduled(q)
  <2>1. QuietFor(w, k) BY <1>1, <1>6 DEF QuietFor
  <2> QED BY <2>1, <1>6, MineFacts DEF q, w
<1>20. ASSUME NEW s \in BOOLEAN
       PROVE  /\ epoch_prefixes[s][k] < current_tick_
              /\ ClaimOK(epoch_prefixes[s][k], committed[k], disk[k], P, x.pc)
  BY <1>19, <1>6, MineFacts, ClaimQuiet DEF q
<1>21. n # 0 => /\ EpochPrefix(q[n]) \in 0..MaxTick
                /\ EpochPrefix(q[n]) < current_tick_
                /\ ClaimOK(EpochPrefix(q[n]), committed[k], disk[k], P, x.pc)
  <2> SUFFICES ASSUME n # 0 PROVE /\ EpochPrefix(q[n]) \in 0..MaxTick
                                  /\ EpochPrefix(q[n]) < current_tick_
                                  /\ ClaimOK(EpochPrefix(q[n]), committed[k], disk[k], P, x.pc)
    OBVIOUS
  <2>1. n \in 1..Len(q) BY <1>7, <1>8
  <2>2. x.pc \in {"scan", "write"} BY <1>9, <1>11, <1>14
  <2>3. /\ committed[k] \in Seq(Txn) /\ disk[k] \in Seq(Seq(Txn)) /\ q \in Seq(pbuffer)
        /\ all_buffers_[k] \in Seq(pbuffer) /\ horizon_[k] \in Seq(Txn) /\ current_tick_ \in Nat
        /\ CoreOK(k, committed[k], disk[k], q, all_buffers_[k], horizon_[k],
                  logging[k], g_use_compression, w, current_tick_)
    BY <1>6, MineFacts DEF q, w
  <2> QED BY <2>1, <2>2, <2>3, <1>1, ClaimScan DEF P
<1>22. w.sense \in BOOLEAN BY <1>2 DEF WriterType
<1>23. /\ epoch_prefixes' \in [BOOLEAN -> [Cores -> 0..MaxTick]]
       /\ \A s \in BOOLEAN : \A d \in Cores \ {k} : epoch_prefixes'[s][d] = epoch_prefixes[s][d]
       /\ \A s \in BOOLEAN : \/ epoch_prefixes'[s][k] = epoch_prefixes[s][k]
                             \/ n # 0 /\ epoch_prefixes'[s][k] = EpochPrefix(q[n])
  <2>1. CASE n = 0 BY <2>1, <1>1, <1>2
  <2>2. CASE n # 0
    <3>1. epoch_prefixes' = [epoch_prefixes EXCEPT ![w.sense][k] = EpochPrefix(q[n])]
      BY <2>2, <1>1
    <3>2. EpochPrefix(q[n]) \in 0..MaxTick BY <2>2, <1>21
    <3> QED BY <2>2, <3>1, <3>2, <1>2, <1>6, <1>22
  <2> QED BY <2>1, <2>2
<1>24. UNCHANGED <<current_tick_, committed, horizon_, logging, g_use_compression>>
  BY <1>1 DEF clockVars, workerVars
<1>25. \A d \in Cores : Len(all_buffers_[d]) + Len(persist_buffers_'[d]) = g_perthread_buffers
  <2> TAKE d \in Cores
  <2>1. CASE d = k BY <2>1, <1>2, <1>10, <1>17 DEF q
  <2>2. CASE d # k BY <2>2, <1>2, <1>17
  <2> QED BY <2>1, <2>2
<1>26. writer' \in [Loggers -> WriterType] BY <1>2, <1>3, <1>13
<1>27. Types'
  BY <1>1, <1>17, <1>23, <1>24, <1>25, <1>26 DEF LoggerInv, Types, TypeOK, ClockTypeOK, clockVars
<1>28. ASSUME NEW c \in Assignment[l]
       PROVE  /\ CoreOK(c, committed[c], disk'[c], persist_buffers_'[c], all_buffers_'[c],
                        horizon_[c], logging[c], g_use_compression, x, current_tick_)
              /\ \A s \in BOOLEAN :
                   /\ epoch_prefixes'[s][c] < current_tick_
                   /\ ClaimOK(epoch_prefixes'[s][c], committed[c], disk'[c],
                              persist_buffers_'[c], x.pc)
  <2>1. CASE c = k
    <3>1. \A s \in BOOLEAN :
            /\ epoch_prefixes'[s][k] < current_tick_
            /\ ClaimOK(epoch_prefixes'[s][k], committed[k], disk[k], P, x.pc)
      BY <1>20, <1>21, <1>23
    <3> QED BY <2>1, <3>1, <1>1, <1>17, <1>18
  <2>2. CASE c # k
    <3>1. c \in Cores /\ Moves(persist_buffers_[c], w, x, c)
          /\ persist_buffers_[c] \in Seq(pbuffer)
          /\ CoreOK(c, committed[c], disk[c], persist_buffers_[c], all_buffers_[c],
                    horizon_[c], logging[c], g_use_compression, w, current_tick_)
      BY <2>2, <1>16, MineFacts DEF w
    <3>2. CoreOK(c, committed[c], disk[c], persist_buffers_[c], all_buffers_[c],
                 horizon_[c], logging[c], g_use_compression, x, current_tick_)
      BY <3>1, CoreMove
    <3>3. \A s \in BOOLEAN :
            /\ epoch_prefixes[s][c] < current_tick_
            /\ ClaimOK(epoch_prefixes[s][c], committed[c], disk[c], persist_buffers_[c], x.pc)
      BY <3>1, MineFacts, ClaimMove DEF w
    <3> QED BY <2>2, <3>1, <3>2, <3>3, <1>1, <1>17, <1>23
  <2> QED BY <2>1, <2>2
<1>29. \A d \in Cores \ Assignment[l] :
         /\ disk'[d] = disk[d] /\ persist_buffers_'[d] = persist_buffers_[d]
         /\ all_buffers_'[d] = all_buffers_[d]
         /\ \A s \in BOOLEAN : epoch_prefixes'[s][d] = epoch_prefixes[s][d]
  BY <1>1, <1>6, <1>17, <1>23
<1> QED BY <1>3, <1>15, <1>24, <1>27, <1>28, <1>29, WriterFrame

LEMMA WriterStep == ASSUME LoggerInv, NEW l \in Loggers, Writer(l) PROVE LoggerInv'
BY WriterStartStep, WriterScanStep, WriterWriteStep, WriterLoadStep, WriterStoreStep,
   WriterReturnStep, WriterNextStep, Zenon DEF Writer

-----------------------------------------------------------------------------
(* The persister's steps: they leave the log alone.                        *)

LEMMA PersisterStep == ASSUME LoggerInv, Persister PROVE LoggerInv'
<1> DEFINE M == 0..MaxTick
<1>1. UNCHANGED <<clockVars, committed, disk, persist_buffers_, all_buffers_, horizon_,
                  logging, g_use_compression, writer, epoch_prefixes, tail_>>
  <2>1. PersisterKeeps
    BY Zenon DEF Persister, PersisterStart, PersisterTail, PersisterSlot, PersisterTryLock,
                 PersisterIdle, PersisterBusy, PersisterLoad, PersisterPublish
  <2> QED BY <2>1 DEF PersisterKeeps, workerVars
<1>2. /\ persister \in PersisterType /\ epochs_ \in [Cores -> M] /\ system_sync_epoch_ \in M
      /\ current_tick_ \in 1..MaxTick /\ tail_ \in [Cores -> 0..g_perthread_buffers - 1]
  BY DEF LoggerInv, Types, TypeOK, ClockTypeOK
<1>3. /\ MaxTick \in Nat /\ NCores \in Nat \ {0} /\ g_perthread_buffers \in Nat \ {0, 1}
  BY ClockAssumption, LoggerAssumption
<1>4. /\ 1 \in Cores /\ 0 \in M /\ MaxTick \in M /\ current_tick_ - 1 \in M
      /\ 0 \in 0..g_perthread_buffers - 1
  BY <1>2, <1>3 DEF Cores
<1>5. /\ persister.k \in Cores /\ persister.best \in M /\ persister.min \in M
  BY <1>2 DEF PersisterType
<1>6. ASSUME NEW e \in M, PersisterFold(e) PROVE persister' \in PersisterType
  <2>1. (IF persister.k = NCores THEN 1 ELSE persister.k + 1) \in Cores
    BY <1>3, <1>5 DEF Cores
  <2>2. Lower(persister.min, e) \in M BY <1>5 DEF Lower
  <2> HIDE DEF M
  <2> QED BY <2>1, <2>2, <1>2, <1>4, <1>6 DEF PersisterFold, PersisterType, M
<1> HIDE DEF M
<1>7. persister' \in PersisterType /\ epochs_' \in [Cores -> M] /\ system_sync_epoch_' \in M
  <2>1. CASE PersisterStart BY <2>1, <1>2, <1>4 DEF PersisterStart, PersisterType, M
  <2>2. CASE PersisterTail
    <3>1. tail_[persister.k] \in 0..g_perthread_buffers - 1 BY <1>2, <1>5
    <3> QED BY <2>2, <3>1, <1>2 DEF PersisterTail, PersisterType
  <2>3. CASE PersisterSlot BY <2>3, <1>2, <1>4 DEF PersisterSlot, PersisterType
  <2>4. CASE PersisterTryLock BY <2>4, <1>2 DEF PersisterTryLock, PersisterType
  <2>5. CASE PersisterIdle
    <3>1. persister' \in PersisterType BY <2>5, <1>5, <1>6 DEF PersisterIdle
    <3> QED BY <2>5, <3>1, <1>2, <1>5 DEF PersisterIdle
  <2>6. CASE PersisterBusy BY <2>6, <1>2, <1>4 DEF PersisterBusy, PersisterType
  <2>7. CASE PersisterLoad
    <3>1. persister' \in PersisterType BY <2>7, <1>2, <1>5, <1>6 DEF PersisterLoad
    <3> QED BY <2>7, <3>1, <1>2 DEF PersisterLoad
  <2>8. CASE PersisterPublish
    BY <2>8, <1>2, <1>4, <1>5 DEF PersisterPublish, PersisterType, M
  <2> QED BY <2>1, <2>2, <2>3, <2>4, <2>5, <2>6, <2>7, <2>8 DEF Persister
<1>8. Types'
  BY <1>1, <1>7 DEF LoggerInv, Types, TypeOK, ClockTypeOK, clockVars, M
<1>9. UNCHANGED current_tick_ BY <1>1 DEF clockVars
<1> QED BY <1>1, <1>8, <1>9, OtherFrame

-----------------------------------------------------------------------------
(* The theorems.                                                           *)

\* The inductive invariant: types, the writers' loops, each core's log, and the
\* epoch prefixes a writer is about to record.
THEOREM LoggerInvariant == Spec => []LoggerInv
<1>1. LoggerInv /\ UNCHANGED vars => LoggerInv'
  <2> SUFFICES ASSUME LoggerInv, UNCHANGED vars PROVE LoggerInv' OBVIOUS
  <2>1. UNCHANGED <<clockVars, committed, disk, persist_buffers_, all_buffers_, horizon_,
                    logging, g_use_compression, writer, epoch_prefixes, tail_, epochs_,
                    system_sync_epoch_, persister>>
    BY DEF vars, loggerVars, workerVars, syncVars
  <2>2. Types' BY <2>1 DEF LoggerInv, Types, TypeOK, ClockTypeOK, clockVars
  <2>3. UNCHANGED current_tick_ BY <2>1 DEF clockVars
  <2> QED BY <2>1, <2>2, <2>3, OtherFrame
<1>2. LoggerInv /\ Next => LoggerInv'
  <2> SUFFICES ASSUME LoggerInv, Next PROVE LoggerInv' OBVIOUS
  <2>1. CASE Ticking BY <2>1, ClockStep
  <2>2. CASE \E c \in Cores : Worker(c) BY <2>2, WorkerStep
  <2>3. CASE \E l \in Loggers : Writer(l) BY <2>3, WriterStep
  <2>4. CASE Persister BY <2>4, PersisterStep
  <2> QED BY <2>1, <2>2, <2>3, <2>4 DEF Next
<1> QED BY InitInv, <1>1, <1>2, PTL DEF Spec

\* The type invariant: in particular the two rings of a core (all_buffers_ and
\* persist_buffers_) share its g_perthread_buffers buffers at every step.
THEOREM TypeCorrect == Spec => []TypeOK
<1>1. LoggerInv => TypeOK BY DEF LoggerInv, Types
<1> QED BY <1>1, LoggerInvariant, PTL

\* The pieces that hold a core's log, and what they hold.
LEMMA LogHolds == ASSUME LoggerInv, NEW c \in Cores PROVE Holding(Log(c), committed[c])
<1> DEFINE C == committed[c]
           A == all_buffers_[c]
           Z == horizon_[c]
           F == Filed(disk[c], persist_buffers_[c],
                      WrittenOf(persist_buffers_[c], writer[LoggerOf(c)]))
<1>1. /\ C \in Seq(Txn) /\ A \in Seq(pbuffer) /\ Z \in Seq(Txn)
      /\ disk[c] \in Seq(Seq(Txn)) /\ persist_buffers_[c] \in Seq(pbuffer)
  BY CoreFacts
<1>2. F \in Seq(Seq(Txn)) BY <1>1, WrittenIn, FiledIs
<1>3. PICK n \in 0..Len(C) :
        HoldFirst(F, C, n) /\ TailOK(C, A, Z, logging[c], g_use_compression, n)
  BY CoreFacts DEF CoreOK, LogOK
<1>4. \A i \in 1..Len(C) : C[i].n = i BY CoreFacts DEF CoreOK, CommitOK
<1>5. Log(c) = F \o <<Open(A), Z, ToLog(c)>>
  BY WrittenIs DEF Log, Filed, WrittenOf, OpenBuffer, Open
<1> HIDE DEF F, C, A, Z
<1>6. Open(A) \in Seq(Txn) BY <1>1, OpenIs
<1>7. n \in Nat /\ Len(Open(A)) \in Nat /\ Len(Z) \in Nat /\ Len(C) \in Nat BY <1>1, <1>6
<1>8. ToLog(c) \in Seq(Txn)
      /\ (logging[c] = "log" => ToLog(c) = <<C[Len(C)]>> /\ Len(ToLog(c)) = 1
                                /\ ToLog(c)[1] = C[Len(C)])
      /\ (logging[c] # "log" => Len(ToLog(c)) = 0)
  BY LoggedIs DEF ToLog, Logged, C
<1>9. /\ n + Len(Open(A)) + Len(Z) + (IF logging[c] = "log" THEN 1 ELSE 0) = Len(C)
      /\ \A j \in 1..Len(Open(A)) : Open(A)[j] = C[n + j]
      /\ \A j \in 1..Len(Z) : Z[j] = C[n + Len(Open(A)) + j]
  BY <1>3 DEF TailOK
<1>10. /\ n + Len(Open(A)) + Len(Z) + Len(ToLog(c)) = Len(C) /\ Len(ToLog(c)) \in Nat
       /\ \A j \in 1..Len(ToLog(c)) : ToLog(c)[j] = C[n + Len(Open(A)) + Len(Z) + j]
  <2>1. CASE logging[c] = "log"
    <3>1. Len(ToLog(c)) = 1 /\ ToLog(c)[1] = C[Len(C)] BY <2>1, <1>8
    <3>2. n + Len(Open(A)) + Len(Z) + 1 = Len(C) BY <2>1, <1>9
    <3>3. \A j \in 1..Len(ToLog(c)) : j = 1 BY <3>1
    <3> QED BY <3>1, <3>2, <3>3
  <2>2. CASE logging[c] # "log"
    <3>1. Len(ToLog(c)) = 0 BY <2>2, <1>8
    <3>2. n + Len(Open(A)) + Len(Z) + 0 = Len(C) BY <2>2, <1>9
    <3> QED BY <3>1, <3>2
  <2> QED BY <2>1, <2>2
<1> DEFINE T == ToLog(c)
           F1 == Append(F, Open(A))
           F2 == Append(F1, Z)
           F3 == Append(F2, T)
           a == Len(Open(A))
           z == Len(Z)
           t == Len(T)
<1> HIDE DEF T
<1>11. n + a + z + t = Len(C) /\ t \in Nat /\ T \in Seq(Txn)
       /\ \A j \in 1..t : T[j] = C[n + a + z + j]
  BY <1>8, <1>10 DEF T
<1>12. HoldFirst(F1, C, n + a) /\ F1 \in Seq(Seq(Txn)) /\ n + a \in Nat
  <2>1. n + a <= Len(C) BY <1>7, <1>11
  <2>2. HoldFirst(F1, C, n + a) BY <2>1, <1>1, <1>2, <1>3, <1>4, <1>6, <1>7, <1>9, HoldAppend DEF C, Z
  <2> QED BY <2>2, <1>2, <1>6, <1>7
<1> HIDE DEF F1
<1>13. HoldFirst(F2, C, n + a + z) /\ F2 \in Seq(Seq(Txn)) /\ n + a + z \in Nat
  <2>1. n + a + z <= Len(C) BY <1>7, <1>11
  <2>2. Z \in Seq(Txn) /\ C \in Seq(Txn) BY <1>1 DEF Z, C
  <2>3. HoldFirst(F2, C, n + a + z) BY <2>1, <2>2, <1>4, <1>7, <1>9, <1>12, HoldAppend
  <2> QED BY <2>2, <2>3, <1>12, <1>7
<1> HIDE DEF F2
<1>14. HoldFirst(F3, C, Len(C)) /\ F3 \in Seq(Seq(Txn))
  <2>1. n + a + z + t <= Len(C) BY <1>7, <1>11
  <2>2. T \in Seq(Txn) /\ C \in Seq(Txn) BY <1>1, <1>11 DEF C
  <2>3. HoldFirst(F3, C, n + a + z + t) BY <2>1, <2>2, <1>4, <1>7, <1>11, <1>13, HoldAppend
  <2>4. HoldFirst(F3, C, Len(C)) BY <2>3, <1>11, Zenon
  <2>5. F3 \in Seq(Seq(Txn)) BY <2>2, <1>13
  <2> QED BY <2>4, <2>5
<1>15. Log(c) = F3
  <2>0. /\ F \in Seq(Seq(Txn)) /\ Open(A) \in Seq(Txn) /\ Z \in Seq(Txn) /\ T \in Seq(Txn)
    BY <1>1, <1>2, <1>6, <1>11 DEF Z
  <2>1. F \o <<Open(A), Z, T>> = Append(Append(Append(F, Open(A)), Z), T)
    <3>1. ASSUME NEW f \in Seq(Seq(Txn)), NEW x \in Seq(Txn), NEW y \in Seq(Txn), NEW v \in Seq(Txn)
          PROVE  f \o <<x, y, v>> = Append(Append(Append(f, x), y), v)
      BY ConcatThree
    <3> HIDE DEF F, A, Z, T
    <3> QED BY <2>0, <3>1
  <2>2. F \o <<Open(A), Z, T>> = F3 BY <2>1, Zenon DEF F1, F2
  <2> QED BY <2>2, <1>5 DEF T
<1> HIDE DEF F3
<1>16. DOMAIN F3 = 1..Len(F3) /\ DOMAIN C = 1..Len(C)
       /\ \A k \in 1..Len(F3) : DOMAIN F3[k] = 1..Len(F3[k])
  BY <1>1, <1>14 DEF C
<1>17. Holding(F3, C)
  <2>1. \A k \in DOMAIN F3 : \A j \in DOMAIN F3[k] :
          F3[k][j].n \in DOMAIN C /\ C[F3[k][j].n] = F3[k][j]
    BY <1>14, <1>16, Zenon DEF HoldFirst
  <2>2. \A k \in DOMAIN F3 : \A i, j \in DOMAIN F3[k] : i < j => F3[k][i].n < F3[k][j].n
    BY <1>14, <1>16, Zenon DEF HoldFirst
  <2>3. \A k, m \in DOMAIN F3 : k < m =>
          \A i \in DOMAIN F3[k], j \in DOMAIN F3[m] : F3[k][i].n < F3[m][j].n
    <3> SUFFICES ASSUME NEW k \in 1..Len(F3), NEW m \in 1..Len(F3), k < m,
                        NEW i \in 1..Len(F3[k]), NEW j \in 1..Len(F3[m])
                 PROVE  F3[k][i].n < F3[m][j].n
      BY <1>16
    <3> QED BY <1>14 DEF HoldFirst
  <2>4. \A x \in DOMAIN C : \E k \in DOMAIN F3 : \E j \in DOMAIN F3[k] : F3[k][j].n = x
    BY <1>14, <1>16 DEF HoldFirst
  <2> QED BY <2>1, <2>2, <2>3, <2>4 DEF Holding
<1> QED BY <1>15, <1>17 DEF C

\* Every transaction a worker has committed is, once and in commit order, in its
\* log file, in the buffers that wait for the writer, in the open buffer, in the
\* horizon or in the hands of on_tid_finish(): none is lost or written twice by
\* the writer's rounds, whatever they leave in the queue.
THEOREM NothingLostAlways == Spec => []NothingLost
<1>1. LoggerInv => NothingLost
  <2> SUFFICES ASSUME LoggerInv, NEW c \in Cores
               PROVE  /\ Holding(Log(c), committed[c])
                      /\ \A i \in 2..Len(all_buffers_[c]) : all_buffers_[c][i].txns = << >>
    BY DEF NothingLost
  <2>1. \A i \in 2..Len(all_buffers_[c]) : all_buffers_[c][i].txns = << >>
    BY CoreFacts DEF CoreOK, LogOK, TailOK
  <2> QED BY <2>1, LogHolds
<1> QED BY <1>1, LoggerInvariant, PTL

\* What WriterStore records for a core is true: every transaction the core
\* committed in that epoch or before is on disk.
LEMMA StoreIsTrue ==
  ASSUME LoggerInv, NEW l \in Loggers, WriterStore(l), epochs_' # epochs_,
         NEW i \in DOMAIN committed[Turn(l)], committed[Turn(l)][i].ep <= epochs_'[Turn(l)]
  PROVE  OnDisk(Turn(l), committed[Turn(l)][i])
<1> DEFINE k == Turn(l)
           x1 == epoch_prefixes[writer[l].sense][k]
<1>1. /\ writer[l].pc = "store"
      /\ epochs_' = IF x1 > writer[l].x0 THEN [epochs_ EXCEPT ![k] = x1] ELSE epochs_
  BY DEF WriterStore
<1>2. writer[l].todo # {} BY <1>1, WriterFacts DEF LoopOK, Done
<1>3. k \in Assignment[l] /\ k \in Cores BY <1>2, WriterFacts
<1>4. writer[l].sense \in BOOLEAN BY WriterFacts DEF WriterType
<1>5. epochs_ \in [Cores -> 0..MaxTick] BY DEF LoggerInv, Types, TypeOK
<1>6. epochs_'[k] = x1 BY <1>1, <1>3, <1>5
<1>7. ClaimOK(x1, committed[k], disk[k], persist_buffers_[k], "store")
  BY <1>1, <1>3, <1>4, MineFacts
<1>8. committed[k] \in Seq(Txn) /\ disk[k] \in Seq(Seq(Txn)) BY <1>3, MineFacts
<1>9. i \in 1..Len(committed[k]) BY <1>8
<1>10. InFile(disk[k], committed[k][i]) BY <1>6, <1>7, <1>9 DEF ClaimOK
<1>11. PICK m \in 1..Len(disk[k]) :
         \E j \in 1..Len(disk[k][m]) : disk[k][m][j] = committed[k][i]
  BY <1>10 DEF InFile
<1>12. PICK j \in 1..Len(disk[k][m]) : disk[k][m][j] = committed[k][i] BY <1>11
<1>13. m \in DOMAIN disk[k] /\ disk[k][m] \in Seq(Txn) BY <1>8
<1>14. j \in DOMAIN disk[k][m] BY <1>13
<1> QED BY <1>12, <1>13, <1>14 DEF OnDisk

\* The epochs that writer() records with its compare and store are true claims,
\* for every number of writers, cores, buffers and transactions.
THEOREM WriterClaimsHold == Spec => WriterClaimsAreTrue
<1> DEFINE Claim == \A l \in Loggers : WriterStore(l) /\ epochs_' # epochs_ =>
                      \A i \in DOMAIN committed[Turn(l)] :
                        committed[Turn(l)][i].ep <= epochs_'[Turn(l)]
                          => OnDisk(Turn(l), committed[Turn(l)][i])
<1>1. LoggerInv => Claim BY StoreIsTrue
<1>2. LoggerInv => [Claim]_vars BY <1>1
<1> QED BY <1>2, LoggerInvariant, PTL DEF WriterClaimsAreTrue
=============================================================================
