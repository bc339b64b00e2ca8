------------------------ MODULE FollowerReplayProofs ------------------------
(***************************************************************************)
(* Proofs about FollowerReplay, for any number of streams, any timestamps  *)
(* and any number of failovers.                                            *)
(***************************************************************************)
EXTENDS FollowerReplay, FiniteSetTheorems, SequenceTheorems, TLAPS

-----------------------------------------------------------------------------
(* Type correctness.                                                       *)

LEMMA InitType == Init => TypeOK
<1> SUFFICES ASSUME Init PROVE TypeOK
  OBVIOUS
<1> USE DEF Init
<1>1. SharedType
  BY UMaxAssumption, MaxTsAssumption DEF SharedType
<1>2. MainType
  BY DEF MainType
<1>3. ThreadType
  BY NAssumption, UMaxAssumption DEF ThreadType, Places
<1>4. AdvType
  BY NAssumption, UMaxAssumption DEF AdvType, AdvIdle, AdvPlaces
<1>5. HistoryType
  <2>1. epoch \in [Streams -> 0 .. MaxNoops]
    BY MaxNoopsAssumption
  <2>2. ended \in [Streams -> BOOLEAN] /\ warm \in BOOLEAN
    OBVIOUS
  <2>3. /\ got \in [Streams -> SUBSET LogEntry]
        /\ applied \in [Streams -> SUBSET LogEntry]
        /\ dropped \in [Streams -> SUBSET LogEntry]
    OBVIOUS
  <2> QED
    BY <2>1, <2>2, <2>3 DEF HistoryType
<1> QED
  BY <1>1, <1>2, <1>3, <1>4, <1>5 DEF TypeOK

LEMMA CgRange ==
  ASSUME SharedType, NEW j \in Streams
  PROVE  cg[j] \in 0 .. UMax
<1>1. cg[j] \in 0 .. MaxTs \cup {UMax}
  BY DEF SharedType
<1> QED
  BY <1>1, UMaxAssumption, MaxTsAssumption

LEMMA AdvancerType == TypeOK /\ Advancer => TypeOK'
<1> SUFFICES ASSUME TypeOK, Advancer PROVE TypeOK'
  OBVIOUS
<1> USE DEF TypeOK
<1>1. CASE AdvTop
  <2>1. AdvType'
    BY <1>1, NAssumption, UMaxAssumption DEF AdvTop, AdvType, AdvPlaces
  <2> QED
    BY <1>1, <2>1 DEF AdvTop, SharedType, MainType, ThreadType, HistoryType,
                      shared, mainVars, scanVars, history
<1>2. CASE AdvRead
  <2>1. AdvType'
    BY <1>2, NAssumption, UMaxAssumption DEF AdvRead, AdvType, AdvPlaces
  <2> QED
    BY <1>2, <2>1 DEF AdvRead, SharedType, MainType, ThreadType, HistoryType,
                      shared, mainVars, scanVars, history
<1>3. CASE AdvReread
  <2>1. cg[adv.i] \in 0 .. UMax
    BY <1>3, NAssumption, CgRange DEF AdvReread, AdvType, Streams
  <2>2. Min2(adv.min, cg[adv.i]) \in 0 .. UMax
    BY <2>1, UMaxAssumption DEF AdvType, Min2
  <2>3. adv.i + 1 \in 0 .. N
    BY <1>3, NAssumption DEF AdvReread, AdvType
  <2>4. AdvType'
    BY <1>3, <2>2, <2>3 DEF AdvReread, AdvType, AdvPlaces
  <2> QED
    BY <1>3, <2>4 DEF AdvReread, SharedType, MainType, ThreadType,
                      HistoryType, shared, mainVars, scanVars, history
<1>4. CASE AdvStore
  <2>1. AdvType'
    BY <1>4, NAssumption, UMaxAssumption
       DEF AdvStore, AdvType, AdvPlaces, AdvIdle
  <2>2. SharedType'
    BY <1>4 DEF AdvStore, AdvType, SharedType, counters
  <2>3. HistoryType'
    BY <1>4 DEF AdvStore, AdvType, HistoryType, ledger
  <2> QED
    BY <1>4, <2>1, <2>2, <2>3 DEF AdvStore, MainType, ThreadType, mainVars,
                                  scanVars
<1> QED
  BY <1>1, <1>2, <1>3, <1>4 DEF Advancer

LEMMA BatchType ==
  ASSUME TypeOK, NEW i \in Streams, RecvBatch(i) \/ CheckBatch(i) \/ DrainBatch(i)
  PROVE  TypeOK'
<1> USE DEF TypeOK, shared, counters, mainVars, scanVars, ledger, history
<1>1. CASE RecvBatch(i)
  <2>1. PICK c \in cg[i] + 1 .. MaxTs :
          LET e == [cid |-> c, ep |-> epoch[i]] IN
          /\ cg' = [cg EXCEPT ![i] = c]
          /\ hold' = [hold EXCEPT ![i] = e]
          /\ got' = [got EXCEPT ![i] = @ \cup {e}]
    BY <1>1 DEF RecvBatch
  <2>2. c \in 1 .. MaxTs
    BY MaxTsAssumption, UMaxAssumption DEF SharedType
  <2>3. /\ [cid |-> c, ep |-> epoch[i]] \in LogEntry
        /\ [cid |-> c, ep |-> epoch[i]] # NoEntry
    BY <2>2 DEF LogEntry, NoEntry, HistoryType
  <2>4. SharedType'
    BY <1>1, <2>1, <2>2, MaxTsAssumption DEF RecvBatch, SharedType
  <2>5. ThreadType'
    BY <1>1, <2>1, <2>3 DEF RecvBatch, ThreadType, Goto, Places, BatchPlaces
  <2>6. got' \in [Streams -> SUBSET LogEntry]
    BY <2>1, <2>3 DEF HistoryType
  <2>7. HistoryType'
    BY <1>1, <2>6 DEF RecvBatch, HistoryType
  <2> QED
    BY <1>1, <2>4, <2>5, <2>7 DEF RecvBatch, MainType, AdvType
<1>2. CASE CheckBatch(i)
  <2>1. hold[i] \in LogEntry
    BY <1>2 DEF CheckBatch, ThreadType
  <2>2. ThreadType'
    BY <1>2 DEF CheckBatch, ThreadType, Goto, Places, BatchPlaces
  <2>3. applied' \in [Streams -> SUBSET LogEntry]
    BY <1>2, <2>1 DEF CheckBatch, HistoryType
  <2> QED
    BY <1>2, <2>2, <2>3 DEF CheckBatch, SharedType, MainType, AdvType,
                            HistoryType
<1>3. CASE DrainBatch(i)
  <2>1. PICK n \in 0 .. Len(queue[i]) :
          LET rest == SubSeq(queue[i], n + 1, Len(queue[i])) IN
          /\ applied' = [applied EXCEPT ![i] =
                           @ \cup {queue[i][k] : k \in 1 .. n}]
          /\ queue' = [queue EXCEPT ![i] = PushHeld(i, rest)]
    BY <1>3 DEF DrainBatch
  <2>2. /\ queue[i] \in Seq(LogEntry)
        /\ n \in Nat /\ n <= Len(queue[i])
    BY DEF ThreadType
  <2>3. {queue[i][k] : k \in 1 .. n} \in SUBSET LogEntry
    BY <2>2
  <2>4. SubSeq(queue[i], n + 1, Len(queue[i])) \in Seq(LogEntry)
    BY <2>2
  <2>5. PushHeld(i, SubSeq(queue[i], n + 1, Len(queue[i]))) \in Seq(LogEntry)
    BY <2>4 DEF PushHeld, ThreadType
  <2>6. ThreadType'
    BY <1>3, <2>1, <2>5 DEF DrainBatch, ThreadType, Goto, Places
  <2>7. applied' \in [Streams -> SUBSET LogEntry]
    BY <2>1, <2>3 DEF HistoryType
  <2> QED
    BY <1>3, <2>6, <2>7 DEF DrainBatch, SharedType, MainType, AdvType,
                            HistoryType
<1> QED
  BY <1>1, <1>2, <1>3

LEMMA ScanType ==
  ASSUME TypeOK, NEW i \in Streams, NEW done \in Places \ {"check"}, ScanStep(i, done)
  PROVE  TypeOK'
<1> USE DEF TypeOK, shared, counters, mainVars, scanVars, ledger, history
<1>1. CASE idx[i] = N
  <2>1. pc' = [pc EXCEPT ![i] = done] /\ idx' = [idx EXCEPT ![i] = 0]
    BY <1>1 DEF ScanStep, Goto
  <2>2. UNCHANGED <<shared, mainVars, queue, hold, low, adv, history>>
    BY <1>1 DEF ScanStep
  <2>3. ThreadType'
    BY <2>1, <2>2, NAssumption DEF ThreadType
  <2> QED
    BY <2>2, <2>3 DEF SharedType, MainType, AdvType, HistoryType
<1>2. CASE idx[i] # N
  <2>1. idx[i] \in Streams /\ idx[i] + 1 \in 0 .. N
    BY <1>2, NAssumption DEF ThreadType, Streams
  <2>2. Min2(low[i], cg[idx[i]]) \in 0 .. UMax
    BY <2>1, CgRange, UMaxAssumption DEF Min2, ThreadType
  <2>3. /\ low' = [low EXCEPT ![i] = Min2(low[i], cg[idx[i]])]
        /\ idx' = [idx EXCEPT ![i] = idx[i] + 1]
        /\ UNCHANGED <<pc, queue, hold>>
    BY <1>2 DEF ScanStep
  <2>4. ThreadType'
    BY <2>1, <2>2, <2>3 DEF ThreadType
  <2> QED
    BY <1>2, <2>4 DEF ScanStep, SharedType, MainType, AdvType, HistoryType
<1> QED
  BY <1>1, <1>2

LEMMA NoopType ==
  ASSUME TypeOK, NEW i \in Streams,
         \/ RecvNoop(i) \/ Barrier1(i) \/ CutScan(i) \/ CutStore(i)
         \/ CutLoad(i) \/ IncHole(i) \/ Barrier2(i) \/ ResetCg(i)
         \/ IncInit(i) \/ Barrier3(i) \/ FinalScan(i) \/ FinalStore(i)
  PROVE  TypeOK'
<1> USE DEF TypeOK, shared, counters, mainVars, scanVars, ledger, history,
            Places, BatchPlaces, BeforeReset, CutPlaces, AfterReset, EndPlaces
<1>1. CASE RecvNoop(i)
  BY <1>1, MaxNoopsAssumption
     DEF RecvNoop, Goto, SharedType, MainType, ThreadType, AdvType, HistoryType
<1>2. CASE Barrier1(i)
  BY <1>2 DEF Barrier1, Goto, SharedType, MainType, ThreadType, AdvType,
              HistoryType
<1>3. CASE CutScan(i)
  BY <1>3, ScanType DEF CutScan
<1>4. CASE CutStore(i)
  BY <1>4, UMaxAssumption
     DEF CutStore, StoreG, Goto, SharedType, MainType, ThreadType, AdvType, HistoryType
<1>5. CASE CutLoad(i)
  <2>1. Elements(queue[i]) \in SUBSET LogEntry
    BY DEF Elements, ThreadType
  <2>2. /\ applied' \in [Streams -> SUBSET LogEntry]
        /\ dropped' \in [Streams -> SUBSET LogEntry]
    BY <1>5, <2>1 DEF CutLoad, HistoryType
  <2>3. ThreadType'
    BY <1>5 DEF CutLoad, Goto, ThreadType
  <2> QED
    BY <1>5, <2>2, <2>3 DEF CutLoad, SharedType, MainType, AdvType, HistoryType
<1>6. CASE IncHole(i)
  BY <1>6 DEF IncHole, Goto, SharedType, MainType, ThreadType, AdvType,
              HistoryType
<1>7. CASE Barrier2(i)
  BY <1>7 DEF Barrier2, Goto, SharedType, MainType, ThreadType, AdvType,
              HistoryType
<1>8. CASE ResetCg(i)
  <2>1. /\ got' \in [Streams -> SUBSET LogEntry]
        /\ applied' \in [Streams -> SUBSET LogEntry]
        /\ dropped' \in [Streams -> SUBSET LogEntry]
    BY <1>8 DEF ResetCg, HistoryType
  <2>2. SharedType'
    BY <1>8, MaxTsAssumption DEF ResetCg, SharedType
  <2>3. ThreadType'
    BY <1>8 DEF ResetCg, Goto, ThreadType
  <2>4. AdvType'
    BY <1>8 DEF ResetCg, AdvType
  <2> QED
    BY <1>8, <2>1, <2>2, <2>3, <2>4 DEF ResetCg, MainType, HistoryType
<1>9. CASE IncInit(i)
  BY <1>9 DEF IncInit, Goto, SharedType, MainType, ThreadType, AdvType,
              HistoryType
<1>10. CASE Barrier3(i)
  BY <1>10 DEF Barrier3, Goto, SharedType, MainType, ThreadType, AdvType,
               HistoryType
<1>11. CASE FinalScan(i)
  BY <1>11, ScanType DEF FinalScan
<1>12. CASE FinalStore(i)
  BY <1>12, UMaxAssumption
     DEF FinalStore, StoreG, Goto, SharedType, MainType, ThreadType, AdvType, HistoryType
<1> QED
  BY <1>1, <1>2, <1>3, <1>4, <1>5, <1>6, <1>7, <1>8, <1>9, <1>10, <1>11, <1>12

LEMMA EndType ==
  ASSUME TypeOK, NEW i \in Streams,
         RecvEnd(i) \/ EndStore(i) \/ LagReplay(i) \/ LagDone(i)
  PROVE  TypeOK'
<1> USE DEF TypeOK, shared, counters, mainVars, scanVars, ledger, history,
            Places, EndPlaces
<1>1. CASE RecvEnd(i)
  <2>1. MainType'
    BY <1>1 DEF RecvEnd, MainType
  <2>2. ended' \in [Streams -> BOOLEAN]
    BY <1>1 DEF RecvEnd, HistoryType
  <2>3. ThreadType'
    BY <1>1 DEF RecvEnd, Goto, ThreadType
  <2> QED
    BY <1>1, <2>1, <2>2, <2>3 DEF RecvEnd, SharedType, AdvType, HistoryType
<1>2. CASE EndStore(i)
  BY <1>2 DEF EndStore, Goto, SharedType, MainType, ThreadType, AdvType,
              HistoryType
<1>3. CASE LagReplay(i)
  <2>1. queue[i] \in Seq(LogEntry) /\ queue[i] # <<>>
    BY <1>3 DEF LagReplay, ThreadType
  <2>2. Head(queue[i]) \in LogEntry /\ Tail(queue[i]) \in Seq(LogEntry)
    BY <2>1
  <2>3. ThreadType'
    BY <1>3, <2>2 DEF LagReplay, ThreadType
  <2>4. applied' \in [Streams -> SUBSET LogEntry]
    BY <1>3, <2>2 DEF LagReplay, HistoryType
  <2> QED
    BY <1>3, <2>3, <2>4 DEF LagReplay, SharedType, MainType, AdvType,
                            HistoryType
<1>4. CASE LagDone(i)
  BY <1>4 DEF LagDone, Goto, SharedType, MainType, ThreadType, AdvType,
              HistoryType
<1> QED
  BY <1>1, <1>2, <1>3, <1>4

LEMMA NextType == TypeOK /\ [Next]_vars => TypeOK'
<1> SUFFICES ASSUME TypeOK, [Next]_vars PROVE TypeOK'
  OBVIOUS
<1>1. CASE Advancer
  BY <1>1, AdvancerType
<1>2. CASE Shutdown
  BY <1>2 DEF Shutdown, TypeOK, SharedType, MainType, ThreadType, AdvType,
              HistoryType, shared, scanVars, history
<1>3. ASSUME NEW i \in Streams, Deliver(i) \/ ThreadStep(i)
      PROVE  TypeOK'
  BY <1>3, BatchType, NoopType, EndType DEF Deliver, ThreadStep
<1>4. CASE UNCHANGED vars
  BY <1>4 DEF vars, TypeOK, SharedType, MainType, ThreadType, AdvType,
              HistoryType, history
<1> QED
  BY <1>1, <1>2, <1>3, <1>4 DEF Next

\* Type correctness: the watermark and the streams' timestamps stay in range,
\* the queues hold log entries and the scans index existing streams, for any
\* number of streams.
THEOREM TypeCorrect == Spec => []TypeOK
  BY InitType, NextType, PTL DEF Spec

-----------------------------------------------------------------------------
(* The ledger: every delivered entry has exactly one fate, and no entry of *)
(* an old epoch outlives the cut.                                          *)

\* The epoch of the entries in stream i's books: the one before the no-op
\* until the thread has reset its cg_.
LogEpoch(i) == IF pc[i] \in BeforeReset THEN epoch[i] - 1 ELSE epoch[i]

Sorted(q) == \A a, b \in DOMAIN q : a < b => q[a].cid < q[b].cid

Partition(g, a, d, s, h) ==
  /\ g = a \cup d \cup s \cup h
  /\ a \cap d = {}
  /\ (a \cup d) \cap s = {}
  /\ (a \cup d \cup s) \cap h = {}

AllBelow(s, c) == \A e \in s : e.cid < c

Emptied == {"hole", "b2", "reset"} \cup AfterReset

\* The inductive invariant.  What was delivered is of one epoch and not above
\* cg_, so the next batch is new; the entry in hand is above the whole queue,
\* so pushing it keeps the queue sorted; the cut leaves nothing for the resets.
StreamLedger(i) ==
  /\ Partition(got[i], applied[i], dropped[i], Elements(queue[i]), InHand(i))
  /\ Sorted(queue[i])
  /\ \A e \in got[i] : e.ep = LogEpoch(i) /\ e.cid <= cg[i]
  /\ hold[i] # NoEntry => /\ pc[i] \in BatchPlaces
                          /\ AllBelow(Elements(queue[i]), hold[i].cid)
  /\ pc[i] \in Emptied => queue[i] = <<>>

LedgerInv == \A i \in Streams : StreamLedger(i)

LEMMA NextOrLast ==
  ASSUME NEW a \in Nat, NEW b \in Nat, a <= b
  PROVE  a + 1 <= b \/ a = b
  OBVIOUS

\* A drain takes the first n entries: the rest is the rest, still sorted.
LEMMA PrefixTaken ==
  ASSUME NEW q \in Seq(LogEntry), Sorted(q), NEW n \in 0 .. Len(q)
  PROVE  LET rest == SubSeq(q, n + 1, Len(q))
             took == {q[k] : k \in 1 .. n}
         IN  /\ Elements(q) = took \cup Elements(rest)
             /\ took \cap Elements(rest) = {}
             /\ Sorted(rest)
             /\ rest \in Seq(LogEntry)
<1> DEFINE rest == SubSeq(q, n + 1, Len(q))
           took == {q[k] : k \in 1 .. n}
<1>1. /\ Len(q) \in Nat /\ n \in Nat /\ n <= Len(q)
      /\ DOMAIN q = 1 .. Len(q)
  OBVIOUS
<1>2. /\ rest \in Seq(LogEntry)
      /\ Len(rest) = Len(q) - n
      /\ DOMAIN rest = 1 .. Len(q) - n
      /\ \A k \in 1 .. Len(q) - n : rest[k] = q[n + k]
  <2>a. rest \in Seq(LogEntry)
    BY <1>1
  <2>b. Len(rest) = Len(q) - n
    <3>1. CASE n + 1 <= Len(q)
      BY <3>1, <1>1
    <3>2. CASE n = Len(q)
      BY <3>2, <1>1
    <3>3. n + 1 <= Len(q) \/ n = Len(q)
      BY <1>1, NextOrLast
    <3> QED
      BY <3>1, <3>2, <3>3
  <2>1. rest \in Seq(LogEntry) /\ Len(rest) = Len(q) - n
    BY <2>a, <2>b
  <2>2. DOMAIN rest = 1 .. Len(q) - n
    BY <2>1
  <2>3. \A k \in 1 .. Len(q) - n : rest[k] = q[n + k]
    BY <1>1, SMTT(30)
  <2> QED
    BY <2>1, <2>2, <2>3
<1> HIDE DEF rest
<1>3. Elements(q) = took \cup Elements(rest)
  <2>1. ASSUME NEW k \in 1 .. Len(q), k > n
        PROVE  q[k] \in Elements(rest)
    <3>1. k - n \in 1 .. Len(q) - n /\ n + (k - n) = k
      BY <2>1, <1>1
    <3> QED
      BY <3>1, <1>2 DEF Elements
  <2>2. Elements(q) \subseteq took \cup Elements(rest)
    BY <2>1, <1>1 DEF Elements
  <2>3. ASSUME NEW k \in 1 .. Len(q) - n
        PROVE  rest[k] \in Elements(q)
    <3>1. n + k \in 1 .. Len(q)
      BY <1>1
    <3> QED
      BY <3>1, <1>1, <1>2 DEF Elements
  <2>4. Elements(rest) \subseteq Elements(q)
    BY <2>3, <1>2 DEF Elements
  <2>5. took \subseteq Elements(q)
    BY <1>1 DEF Elements
  <2> QED
    BY <2>2, <2>4, <2>5
<1>4. took \cap Elements(rest) = {}
  <2> SUFFICES ASSUME NEW k \in 1 .. n, NEW m \in 1 .. Len(q) - n, q[k] = rest[m]
               PROVE  FALSE
    BY <1>2 DEF Elements
  <2>1. k \in 1 .. Len(q) /\ n + m \in 1 .. Len(q) /\ k < n + m
    BY <1>1
  <2>2. q[k].cid < q[n + m].cid
    BY <2>1, <1>1 DEF Sorted
  <2>3. q[k] \in LogEntry
    BY <2>1
  <2>4. q[k].cid \in Nat
    BY <2>3, MaxTsAssumption DEF LogEntry
  <2>5. q[k] = q[n + m]
    BY <1>2
  <2> QED
    BY <2>2, <2>4, <2>5
<1>5. Sorted(rest)
  <2> SUFFICES ASSUME NEW a \in 1 .. Len(q) - n, NEW b \in 1 .. Len(q) - n, a < b
               PROVE  rest[a].cid < rest[b].cid
    BY <1>2 DEF Sorted
  <2>1. n + a \in 1 .. Len(q) /\ n + b \in 1 .. Len(q) /\ n + a < n + b
    BY <1>1
  <2>2. q[n + a].cid < q[n + b].cid
    BY <2>1, <1>1 DEF Sorted
  <2> QED
    BY <2>2, <1>2
<1> QED
  BY <1>2, <1>3, <1>4, <1>5 DEF rest

\* PaxosWorker::Next's push.
LEMMA EntryPushed ==
  ASSUME NEW q \in Seq(LogEntry), NEW e \in LogEntry
  PROVE  /\ Elements(Append(q, e)) = Elements(q) \cup {e}
         /\ Sorted(q) /\ AllBelow(Elements(q), e.cid) => Sorted(Append(q, e))
<1> DEFINE r == Append(q, e)
<1>1. /\ DOMAIN q = 1 .. Len(q) /\ Len(q) \in Nat
      /\ DOMAIN r = 1 .. Len(q) + 1
      /\ \A k \in 1 .. Len(q) : r[k] = q[k]
      /\ r[Len(q) + 1] = e
  OBVIOUS
<1>2. \A k \in 1 .. Len(q) + 1 : k \in 1 .. Len(q) \/ k = Len(q) + 1
  BY <1>1
<1>3. 1 .. Len(q) \subseteq 1 .. Len(q) + 1 /\ Len(q) + 1 \in 1 .. Len(q) + 1
  BY <1>1
<1> HIDE DEF r
<1>4. Elements(r) = Elements(q) \cup {e}
  BY <1>1, <1>2, <1>3 DEF Elements
<1>5. ASSUME Sorted(q), AllBelow(Elements(q), e.cid)
      PROVE  Sorted(r)
  <2> SUFFICES ASSUME NEW a \in 1 .. Len(q) + 1, NEW b \in 1 .. Len(q) + 1, a < b
               PROVE  r[a].cid < r[b].cid
    BY <1>1 DEF Sorted
  <2>1. a \in 1 .. Len(q)
    BY <1>1
  <2>2. CASE b \in 1 .. Len(q)
    BY <2>1, <2>2, <1>1, <1>5 DEF Sorted
  <2>3. CASE b = Len(q) + 1
    BY <2>1, <2>3, <1>1, <1>5 DEF AllBelow, Elements
  <2> QED
    BY <2>2, <2>3, <1>2
<1> QED
  BY <1>4, <1>5 DEF r
\* One round of the lag stage.
LEMMA HeadTaken ==
  ASSUME NEW q \in Seq(LogEntry), Sorted(q), q # <<>>
  PROVE  /\ Elements(q) = {Head(q)} \cup Elements(Tail(q))
         /\ Head(q) \notin Elements(Tail(q))
         /\ Sorted(Tail(q))
<1>1. Len(q) \in Nat /\ 1 <= Len(q) /\ Head(q) = q[1]
  OBVIOUS
<1>2. Tail(q) = SubSeq(q, 2, Len(q))
  BY TailIsSubSeq
<1>3. {q[k] : k \in 1 .. 1} = {Head(q)}
  BY <1>1
<1>4. 1 \in 0 .. Len(q) /\ Tail(q) = SubSeq(q, 1 + 1, Len(q))
  BY <1>1, <1>2
<1>5. /\ Elements(q) = {q[k] : k \in 1 .. 1} \cup Elements(SubSeq(q, 1 + 1, Len(q)))
      /\ {q[k] : k \in 1 .. 1} \cap Elements(SubSeq(q, 1 + 1, Len(q))) = {}
      /\ Sorted(SubSeq(q, 1 + 1, Len(q)))
  BY <1>4, PrefixTaken, Zenon
<1>6. /\ Elements(q) = {Head(q)} \cup Elements(Tail(q))
      /\ {Head(q)} \cap Elements(Tail(q)) = {}
      /\ Sorted(Tail(q))
  BY <1>3, <1>4, <1>5, Zenon
<1> QED
  BY <1>6, Zenon

\* A stream whose variables a step leaves alone keeps its books.
LEMMA LedgerFrame ==
  ASSUME NEW j \in Streams, StreamLedger(j),
         /\ got'[j] = got[j] /\ applied'[j] = applied[j] /\ dropped'[j] = dropped[j]
         /\ queue'[j] = queue[j] /\ hold'[j] = hold[j] /\ cg'[j] = cg[j],
         LogEpoch(j)' = LogEpoch(j),
         hold[j] # NoEntry /\ pc[j] \in BatchPlaces => pc'[j] \in BatchPlaces,
         pc'[j] \in Emptied => pc[j] \in Emptied \/ queue[j] = <<>>
  PROVE  StreamLedger(j)'
<1>1. InHand(j)' = InHand(j)
  BY DEF InHand
<1> QED
  BY <1>1 DEF StreamLedger, AllBelow

LEMMA LedgerInit == Init => LedgerInv
<1> SUFFICES ASSUME Init, NEW i \in Streams PROVE StreamLedger(i)
  BY DEF LedgerInv
<1>1. /\ got[i] = {} /\ applied[i] = {} /\ dropped[i] = {} /\ queue[i] = <<>>
      /\ hold[i] = NoEntry
  BY DEF Init
<1>2. Elements(<<>>) = {} /\ Sorted(<<>>)
  BY DEF Elements, Sorted
<1>3. InHand(i) = {}
  BY <1>1 DEF InHand
<1> QED
  BY <1>1, <1>2, <1>3 DEF StreamLedger, Partition

\* Every step of stream i's thread leaves the other streams' books alone.
LEMMA LedgerElsewhere ==
  ASSUME TypeOK, LedgerInv, NEW i \in Streams, NEW j \in Streams, j # i,
         Deliver(i) \/ ThreadStep(i)
  PROVE  StreamLedger(j)'
<1>1. /\ got'[j] = got[j] /\ applied'[j] = applied[j] /\ dropped'[j] = dropped[j]
      /\ queue'[j] = queue[j] /\ hold'[j] = hold[j] /\ cg'[j] = cg[j]
      /\ epoch'[j] = epoch[j] /\ pc'[j] = pc[j]
  <2> USE DEF TypeOK, SharedType, ThreadType, HistoryType, Goto, ScanStep, StoreG,
              shared, counters, ledger, history
  <2>1. CASE RecvBatch(i) \/ CheckBatch(i) \/ RecvNoop(i) \/ RecvEnd(i) \/ EndStore(i)
    BY <2>1 DEF RecvBatch, CheckBatch, RecvNoop, RecvEnd, EndStore
  <2>2. CASE DrainBatch(i)
    BY <2>2 DEF DrainBatch
  <2>3. CASE CutLoad(i)
    BY <2>3 DEF CutLoad
  <2>4. CASE ResetCg(i)
    BY <2>4 DEF ResetCg
  <2>5. CASE LagReplay(i)
    BY <2>5 DEF LagReplay
  <2>6. CASE Barrier1(i) \/ CutScan(i) \/ CutStore(i) \/ IncHole(i) \/ Barrier2(i)
    BY <2>6 DEF Barrier1, CutScan, CutStore, IncHole, Barrier2
  <2>7. CASE IncInit(i) \/ Barrier3(i) \/ FinalScan(i) \/ FinalStore(i) \/ LagDone(i)
    BY <2>7 DEF IncInit, Barrier3, FinalScan, FinalStore, LagDone
  <2> QED
    BY <2>1, <2>2, <2>3, <2>4, <2>5, <2>6, <2>7 DEF Deliver, ThreadStep
<1>2. LogEpoch(j)' = LogEpoch(j)
  BY <1>1 DEF LogEpoch
<1> QED
  BY <1>1, <1>2, LedgerFrame DEF LedgerInv
\* How an entry moves from one book to another.
LEMMA PartitionMoves ==
  ASSUME NEW g, NEW a, NEW d, NEW s, NEW h, Partition(g, a, d, s, h)
  PROVE  /\ \A t, r : s = t \cup r /\ t \cap r = {} =>
              /\ Partition(g, a \cup t, d, r, h)
              /\ Partition(g, a \cup t, d \cup r, {}, h)
         /\ Partition(g, a \cup h, d, s, {})
         /\ Partition(g, a, d, s \cup h, {})
         /\ \A e : h = {} /\ e \notin g => Partition(g \cup {e}, a, d, s, {e})
  BY DEF Partition

LEMMA RecvBatchLedger ==
  ASSUME TypeOK, NEW i \in Streams, StreamLedger(i), RecvBatch(i)
  PROVE  StreamLedger(i)'
<1> USE DEF TypeOK, SharedType, ThreadType, HistoryType
<1>1. PICK c \in cg[i] + 1 .. MaxTs :
        LET e == [cid |-> c, ep |-> epoch[i]] IN
        /\ cg' = [cg EXCEPT ![i] = c]
        /\ hold' = [hold EXCEPT ![i] = e]
        /\ got' = [got EXCEPT ![i] = @ \cup {e}]
  BY DEF RecvBatch
<1> DEFINE e == [cid |-> c, ep |-> epoch[i]]
<1>2. /\ cg'[i] = c /\ hold'[i] = e /\ got'[i] = got[i] \cup {e}
      /\ pc[i] = "idle" /\ pc'[i] = "check"
      /\ queue'[i] = queue[i] /\ applied'[i] = applied[i] /\ dropped'[i] = dropped[i]
      /\ epoch'[i] = epoch[i]
  BY <1>1 DEF RecvBatch, Goto
<1>3. c \in Nat /\ cg[i] \in Nat /\ cg[i] < c /\ 1 <= c
  BY MaxTsAssumption, UMaxAssumption
<1>4. e.cid = c /\ e.ep = epoch[i] /\ e # NoEntry
  BY <1>3 DEF NoEntry
<1> HIDE DEF e
<1>5. LogEpoch(i) = epoch[i] /\ LogEpoch(i)' = epoch[i]
  BY <1>2 DEF LogEpoch, BeforeReset, CutPlaces
<1>6. hold[i] = NoEntry /\ InHand(i) = {} /\ InHand(i)' = {e}
  BY <1>2, <1>4 DEF StreamLedger, BatchPlaces, InHand
<1>7. \A x \in got[i] : x \in LogEntry /\ x.cid \in Nat /\ x.cid <= cg[i] /\ x.ep = epoch[i]
  BY <1>5, MaxTsAssumption DEF StreamLedger, LogEntry
<1>8. e \notin got[i]
  BY <1>7, <1>4, <1>3
<1>9. Partition(got[i], applied[i], dropped[i], Elements(queue[i]), InHand(i))'
  <2>1. Partition(got[i], applied[i], dropped[i], Elements(queue[i]), {})
    BY <1>6 DEF StreamLedger
  <2>2. Partition(got[i] \cup {e}, applied[i], dropped[i], Elements(queue[i]), {e})
    BY <2>1, <1>8, PartitionMoves
  <2> QED
    BY <2>2, <1>2, <1>6
<1>10. \A x \in got'[i] : x.ep = LogEpoch(i)' /\ x.cid <= cg'[i]
  BY <1>2, <1>3, <1>4, <1>5, <1>7
<1>11. AllBelow(Elements(queue[i]), c)
  BY <1>3, <1>7 DEF AllBelow, StreamLedger, Partition
<1> QED
  BY <1>2, <1>4, <1>9, <1>10, <1>11
     DEF StreamLedger, BatchPlaces, Emptied, AfterReset

LEMMA CheckBatchLedger ==
  ASSUME TypeOK, NEW i \in Streams, StreamLedger(i), CheckBatch(i)
  PROVE  StreamLedger(i)'
<1> USE DEF TypeOK, SharedType, ThreadType, HistoryType
<1>1. /\ pc[i] = "check" /\ pc'[i] = "drain" /\ hold[i] # NoEntry
      /\ UNCHANGED <<queue, got, dropped, cg, epoch>>
  BY DEF CheckBatch, Goto, shared
<1>2. LogEpoch(i)' = LogEpoch(i)
  BY <1>1 DEF LogEpoch, BeforeReset, CutPlaces
<1>3. CASE UNCHANGED <<hold, applied>>
  BY <1>1, <1>2, <1>3, LedgerFrame DEF BatchPlaces, Emptied, AfterReset
<1>4. CASE /\ applied' = [applied EXCEPT ![i] = @ \cup {hold[i]}]
           /\ hold' = [hold EXCEPT ![i] = NoEntry]
  <2>1. applied'[i] = applied[i] \cup InHand(i) /\ hold'[i] = NoEntry /\ InHand(i)' = {}
    BY <1>1, <1>4 DEF InHand
  <2>2. Partition(got[i], applied[i], dropped[i], Elements(queue[i]), InHand(i))'
    <3>1. Partition(got[i], applied[i] \cup InHand(i), dropped[i], Elements(queue[i]), {})
      BY PartitionMoves DEF StreamLedger
    <3> QED
      BY <3>1, <1>1, <2>1
  <2> QED
    BY <1>1, <1>2, <2>1, <2>2 DEF StreamLedger, Emptied, AfterReset
<1> QED
  BY <1>3, <1>4 DEF CheckBatch

LEMMA DrainBatchLedger ==
  ASSUME TypeOK, NEW i \in Streams, StreamLedger(i), DrainBatch(i)
  PROVE  StreamLedger(i)'
<1> USE DEF TypeOK, SharedType, ThreadType, HistoryType
<1>1. PICK n \in 0 .. Len(queue[i]) :
        LET rest == SubSeq(queue[i], n + 1, Len(queue[i])) IN
        /\ applied' = [applied EXCEPT ![i] =
                         @ \cup {queue[i][k] : k \in 1 .. n}]
        /\ queue' = [queue EXCEPT ![i] = PushHeld(i, rest)]
  BY DEF DrainBatch
<1> DEFINE rest == SubSeq(queue[i], n + 1, Len(queue[i]))
           took == {queue[i][k] : k \in 1 .. n}
<1>2. /\ applied'[i] = applied[i] \cup took /\ queue'[i] = PushHeld(i, rest)
      /\ hold'[i] = NoEntry /\ pc[i] = "drain" /\ pc'[i] = "idle"
      /\ UNCHANGED <<got, dropped, cg, epoch>>
  BY <1>1 DEF DrainBatch, Goto, shared
<1>3. /\ Elements(queue[i]) = took \cup Elements(rest)
      /\ took \cap Elements(rest) = {}
      /\ Sorted(rest) /\ rest \in Seq(LogEntry)
  BY PrefixTaken DEF StreamLedger
<1> HIDE DEF rest, took
<1>4. LogEpoch(i)' = LogEpoch(i)
  BY <1>2 DEF LogEpoch, BeforeReset, CutPlaces
<1>5. Partition(got[i], applied[i] \cup took, dropped[i], Elements(rest), InHand(i))
  BY <1>3, PartitionMoves DEF StreamLedger
<1>6. Elements(PushHeld(i, rest)) = Elements(rest) \cup InHand(i) /\ Sorted(PushHeld(i, rest))
  <2>1. CASE hold[i] = NoEntry
    BY <2>1, <1>3 DEF PushHeld, InHand
  <2>2. CASE hold[i] # NoEntry
    <3>1. hold[i] \in LogEntry /\ PushHeld(i, rest) = Append(rest, hold[i])
      BY <2>2 DEF PushHeld
    <3>2. AllBelow(Elements(rest), hold[i].cid)
      BY <2>2, <1>3 DEF StreamLedger, AllBelow
    <3> QED
      BY <2>2, <3>1, <3>2, <1>3, EntryPushed DEF InHand
  <2> QED
    BY <2>1, <2>2
<1>7. InHand(i)' = {}
  BY <1>2 DEF InHand
<1>8. Partition(got[i], applied[i], dropped[i], Elements(queue[i]), InHand(i))'
  <2>1. Partition(got[i], applied[i] \cup took, dropped[i],
                  Elements(rest) \cup InHand(i), {})
    BY <1>5, PartitionMoves
  <2> QED
    BY <2>1, <1>2, <1>6, <1>7
<1> QED
  BY <1>2, <1>4, <1>6, <1>8 DEF StreamLedger, Emptied, AfterReset
LEMMA CutLoadLedger ==
  ASSUME TypeOK, NEW i \in Streams, StreamLedger(i), CutLoad(i)
  PROVE  StreamLedger(i)'
<1> USE DEF TypeOK, SharedType, ThreadType, HistoryType
<1> DEFINE below == {e \in Elements(queue[i]) : e.cid <= G}
           above == {e \in Elements(queue[i]) : e.cid > G}
<1>1. /\ applied'[i] = applied[i] \cup below /\ dropped'[i] = dropped[i] \cup above
      /\ queue'[i] = <<>> /\ pc[i] = "cload" /\ pc'[i] = "hole"
      /\ UNCHANGED <<got, hold, cg, epoch>>
  BY DEF CutLoad, Goto, shared
<1>2. Elements(queue[i]) = below \cup above /\ below \cap above = {}
  <2>1. \A e \in Elements(queue[i]) : e.cid \in Nat /\ G \in Nat
    <3>1. \A e \in Elements(queue[i]) : e \in LogEntry
      BY DEF Elements
    <3>2. \A e \in LogEntry : e.cid \in Nat
      BY MaxTsAssumption DEF LogEntry
    <3> QED
      BY <3>1, <3>2, UMaxAssumption
  <2> QED
    BY <2>1
<1> HIDE DEF below, above
<1>3. Elements(<<>>) = {} /\ Sorted(<<>>)
  BY DEF Elements, Sorted
<1>4. LogEpoch(i)' = LogEpoch(i)
  BY <1>1 DEF LogEpoch, BeforeReset, CutPlaces
<1>5. hold[i] = NoEntry /\ InHand(i)' = InHand(i)
  BY <1>1 DEF StreamLedger, BatchPlaces, InHand
<1>6. Partition(got[i], applied[i] \cup below, dropped[i] \cup above, {}, InHand(i))
  BY <1>2, PartitionMoves DEF StreamLedger
<1>7. Partition(got[i], applied[i], dropped[i], Elements(queue[i]), InHand(i))'
  BY <1>1, <1>3, <1>5, <1>6
<1> QED
  BY <1>1, <1>3, <1>4, <1>5, <1>7 DEF StreamLedger

LEMMA LagReplayLedger ==
  ASSUME TypeOK, NEW i \in Streams, StreamLedger(i), LagReplay(i)
  PROVE  StreamLedger(i)'
<1> USE DEF TypeOK, SharedType, ThreadType, HistoryType
<1>1. /\ applied'[i] = applied[i] \cup {Head(queue[i])}
      /\ queue'[i] = Tail(queue[i]) /\ queue[i] # <<>> /\ queue[i] \in Seq(LogEntry)
      /\ pc[i] = "lag" /\ pc'[i] = "lag"
      /\ UNCHANGED <<got, dropped, hold, cg, epoch>>
  BY DEF LagReplay, shared
<1>2. /\ Elements(queue[i]) = {Head(queue[i])} \cup Elements(Tail(queue[i]))
      /\ {Head(queue[i])} \cap Elements(Tail(queue[i])) = {}
      /\ Sorted(Tail(queue[i]))
  BY <1>1, HeadTaken DEF StreamLedger
<1>4. LogEpoch(i)' = LogEpoch(i)
  BY <1>1 DEF LogEpoch, BeforeReset, CutPlaces
<1>5. hold[i] = NoEntry /\ InHand(i)' = InHand(i)
  BY <1>1 DEF StreamLedger, BatchPlaces, InHand
<1>6. Partition(got[i], applied[i] \cup {Head(queue[i])}, dropped[i],
                Elements(Tail(queue[i])), InHand(i))
  BY <1>2, PartitionMoves DEF StreamLedger
<1>7. Partition(got[i], applied[i], dropped[i], Elements(queue[i]), InHand(i))'
  BY <1>1, <1>5, <1>6
<1> QED
  BY <1>1, <1>2, <1>4, <1>5, <1>7 DEF StreamLedger, Emptied, AfterReset

LEMMA ResetLedger ==
  ASSUME TypeOK, NEW i \in Streams, StreamLedger(i), ResetCg(i)
  PROVE  StreamLedger(i)'
<1> USE DEF TypeOK, SharedType, ThreadType, HistoryType
<1>1. /\ got'[i] = {} /\ applied'[i] = {} /\ dropped'[i] = {}
      /\ pc[i] = "reset" /\ pc'[i] = "init"
      /\ UNCHANGED <<queue, hold>>
  BY DEF ResetCg, Goto
<1>2. queue[i] = <<>> /\ hold[i] = NoEntry
  BY <1>1 DEF StreamLedger, Emptied, BatchPlaces
<1>3. Elements(<<>>) = {} /\ Sorted(<<>>)
  BY DEF Elements, Sorted
<1>4. InHand(i)' = {}
  BY <1>1, <1>2 DEF InHand
<1>5. Partition({}, {}, {}, {}, {})
  BY DEF Partition
<1>6. Partition(got[i], applied[i], dropped[i], Elements(queue[i]), InHand(i))'
  BY <1>1, <1>2, <1>3, <1>4, <1>5
<1> QED
  BY <1>1, <1>2, <1>3, <1>6 DEF StreamLedger

\* The steps that touch no book of the stream.
LEMMA PassingLedger ==
  ASSUME TypeOK, NEW i \in Streams, StreamLedger(i),
         \/ RecvNoop(i) \/ Barrier1(i) \/ CutScan(i) \/ CutStore(i)
         \/ IncHole(i) \/ Barrier2(i) \/ IncInit(i) \/ Barrier3(i)
         \/ FinalScan(i) \/ FinalStore(i)
         \/ RecvEnd(i) \/ EndStore(i) \/ LagDone(i)
  PROVE  StreamLedger(i)'
<1> USE DEF TypeOK, SharedType, ThreadType, HistoryType
<1>1. CASE EndStore(i)
  <2>1. /\ UNCHANGED <<got, applied, dropped, queue, hold, epoch>>
        /\ cg'[i] = UMax /\ pc[i] = "endstore" /\ pc'[i] = "lag"
    BY <1>1 DEF EndStore, Goto, history
  <2>2. LogEpoch(i)' = LogEpoch(i)
    BY <2>1 DEF LogEpoch, BeforeReset, CutPlaces
  <2>3. \A e \in got[i] : e.cid <= UMax
    BY MaxTsAssumption, UMaxAssumption DEF LogEntry
  <2>4. hold[i] = NoEntry /\ InHand(i)' = InHand(i)
    BY <2>1 DEF StreamLedger, BatchPlaces, InHand
  <2> QED
    BY <2>1, <2>2, <2>3, <2>4 DEF StreamLedger, Emptied, AfterReset
<1>2. CASE ~EndStore(i)
  <2> USE DEF Goto, ScanStep, StoreG, shared, counters, ledger, history
  <2>1. UNCHANGED <<got, applied, dropped, queue, hold, cg>>
    BY <1>2 DEF RecvNoop, Barrier1, CutScan, CutStore, IncHole, Barrier2, IncInit, Barrier3,
                FinalScan, FinalStore, RecvEnd, LagDone
  <2>2. /\ pc[i] \notin BatchPlaces
        /\ pc'[i] \in Emptied => pc[i] \in Emptied
        /\ LogEpoch(i)' = LogEpoch(i)
    <3> USE DEF BatchPlaces, Emptied, AfterReset, LogEpoch, BeforeReset, CutPlaces
    <3>1. CASE RecvEnd(i) \/ LagDone(i)
      BY <3>1 DEF RecvEnd, LagDone
    <3>6. CASE RecvNoop(i)
      <4>1. epoch[i] \in Nat /\ epoch'[i] = epoch[i] + 1
        BY <3>6, MaxNoopsAssumption DEF RecvNoop
      <4>2. pc[i] = "idle" /\ pc'[i] = "b1"
        BY <3>6 DEF RecvNoop
      <4> QED
        BY <4>1, <4>2
    <3>2. CASE Barrier1(i) \/ CutStore(i) \/ IncHole(i) \/ Barrier2(i)
      BY <3>2 DEF Barrier1, CutStore, IncHole, Barrier2
    <3>3. CASE IncInit(i) \/ Barrier3(i) \/ FinalStore(i)
      BY <3>3 DEF IncInit, Barrier3, FinalStore
    <3>4. CASE CutScan(i)
      BY <3>4 DEF CutScan
    <3>5. CASE FinalScan(i)
      BY <3>5 DEF FinalScan
    <3> QED
      BY <1>2, <3>1, <3>2, <3>3, <3>4, <3>5, <3>6
  <2> QED
    BY <2>1, <2>2, LedgerFrame
<1> QED
  BY <1>1, <1>2

LEMMA LedgerNext == TypeOK /\ LedgerInv /\ [Next]_vars => LedgerInv'
<1> SUFFICES ASSUME TypeOK, LedgerInv, [Next]_vars, NEW j \in Streams
             PROVE  StreamLedger(j)'
  BY DEF LedgerInv
<1>1. StreamLedger(j)
  BY DEF LedgerInv
<1>2. CASE Advancer \/ Shutdown \/ UNCHANGED vars
  <2>1. UNCHANGED <<got, applied, dropped, queue, hold, cg, epoch, pc>>
    BY <1>2 DEF Advancer, AdvTop, AdvRead, AdvReread, AdvStore, Shutdown, vars,
                shared, history, ledger
  <2>2. LogEpoch(j)' = LogEpoch(j)
    BY <2>1 DEF LogEpoch
  <2> QED
    BY <1>1, <2>1, <2>2, LedgerFrame
<1>3. ASSUME NEW i \in Streams, Deliver(i) \/ ThreadStep(i)
      PROVE  StreamLedger(j)'
  <2>1. CASE j # i
    BY <1>3, <2>1, LedgerElsewhere
  <2>2. CASE j = i
    BY <1>1, <1>3, <2>2, RecvBatchLedger, CheckBatchLedger, DrainBatchLedger,
       CutLoadLedger, LagReplayLedger, ResetLedger, PassingLedger
       DEF Deliver, ThreadStep
  <2> QED
    BY <2>1, <2>2
<1> QED
  BY <1>2, <1>3 DEF Next

LEMMA LedgerCorrect == Spec => []LedgerInv
  BY LedgerInit, LedgerNext, TypeCorrect, PTL DEF Spec

\* The books are what the two invariants say of them.
LEMMA LedgerImplies == TypeOK /\ LedgerInv => ExactlyOnce /\ EpochFence
<1> SUFFICES ASSUME TypeOK, NEW i \in Streams, StreamLedger(i)
             PROVE  /\ Partition(got[i], applied[i], dropped[i], Elements(queue[i]), InHand(i))
                    /\ \A a, b \in DOMAIN queue[i] : a # b => queue[i][a] # queue[i][b]
                    /\ \A k \in DOMAIN queue[i] :
                         /\ queue[i][k].ep =
                              IF pc[i] \in {"b1", "cscan", "cstore", "cload"}
                              THEN epoch[i] - 1 ELSE epoch[i]
                         /\ queue[i][k].cid <= cg[i]
                    /\ \A a, b \in DOMAIN queue[i] :
                         a < b => queue[i][a].cid < queue[i][b].cid
  BY DEF LedgerInv, ExactlyOnce, EpochFence, Partition
<1>1. \A k \in DOMAIN queue[i] : queue[i][k] \in Elements(queue[i])
  BY DEF Elements
<1>2. queue[i] \in Seq(LogEntry) /\ DOMAIN queue[i] \subseteq Nat
  BY DEF TypeOK, ThreadType
<1>3. \A k \in DOMAIN queue[i] : queue[i][k].cid \in Nat
  <2>1. \A e \in LogEntry : e.cid \in Nat
    BY MaxTsAssumption DEF LogEntry
  <2> QED
    BY <1>2, <2>1
<1>4. \A a, b \in DOMAIN queue[i] : a < b => queue[i][a].cid < queue[i][b].cid
  BY DEF StreamLedger, Sorted
<1>5. \A a, b \in DOMAIN queue[i] : a # b => queue[i][a] # queue[i][b]
  <2> SUFFICES ASSUME NEW a \in DOMAIN queue[i], NEW b \in DOMAIN queue[i], a # b,
                      queue[i][a] = queue[i][b]
               PROVE  FALSE
    OBVIOUS
  <2>1. a < b \/ b < a
    BY <1>2
  <2> QED
    BY <2>1, <1>3, <1>4
<1>6. ASSUME NEW k \in DOMAIN queue[i]
      PROVE  /\ queue[i][k].ep = IF pc[i] \in {"b1", "cscan", "cstore", "cload"}
                                 THEN epoch[i] - 1 ELSE epoch[i]
             /\ queue[i][k].cid <= cg[i]
  <2>1. queue[i][k] \in got[i]
    BY <1>1 DEF StreamLedger, Partition
  <2>2. pc[i] \notin Emptied
    <3>1. queue[i] # <<>>
      OBVIOUS
    <3> QED
      BY <3>1 DEF StreamLedger
  <2> QED
    BY <2>1, <2>2 DEF StreamLedger, LogEpoch, Emptied, BeforeReset, CutPlaces
<1> QED
  BY <1>4, <1>5, <1>6 DEF StreamLedger

\* Every batch Paxos delivers is replayed, discarded by a no-op, queued or in
\* the thread's hands, and never two of these: the callback's status codes, the
\* three drain loops and PaxosWorker::Next's push agree.
THEOREM ExactlyOnceAlways == Spec => []ExactlyOnce
  BY LedgerCorrect, LedgerImplies, TypeCorrect, PTL

\* No entry of an old epoch is still queued when the new epoch's first entry
\* arrives, and each queue is sorted by timestamp, as the drain loops that stop
\* at the first entry above the watermark rely on.
THEOREM EpochFenceAlways == Spec => []EpochFence
  BY LedgerCorrect, LedgerImplies, TypeCorrect, PTL

-----------------------------------------------------------------------------
(***************************************************************************)
(* The watermark never passes a stream and nothing above the watermark is  *)
(* replayed, for any number of streams, timestamps and failovers.          *)
(*                                                                         *)
(* Three writers store into G without a lock: the advancer, computeG for   *)
(* the cut, and computeG after the reset.  The argument: cg_ only grows    *)
(* until it is reset, so a minimum over values read earlier stays a lower  *)
(* bound; no thread resets while another computes the cut (the barriers);  *)
(* and after a reset the watermark is not trusted again before a scan that *)
(* began with every stream started.                                        *)
(*                                                                         *)
(* The counting barriers of the no-op are barriers, for any number of      *)
(* streams and of failovers: a counter that is never reset and is compared *)
(* with 0 modulo nthreads separates the stages, because the three counters *)
(* are used in turn.                                                       *)
(*                                                                         *)
(* joined[i] counts the increments stream i has made over all three        *)
(* counters, Passed(i) the barriers it has left.  The inductive invariant  *)
(* is that nobody has left a barrier that somebody has not joined, and     *)
(* that the counters tally the increments.                                 *)
(***************************************************************************)

(* The barriers.                                                           *)

\* The counters a thread at place p has still to increment for its no-op.
Ahead(p) == IF p \in CutPlaces \cup {"b1"} THEN 2
            ELSE IF p \in {"b2", "reset", "init"} THEN 1
            ELSE 0

Waits(p) == p \in {"b1", "b2", "b3"}

joined == [i \in Streams |-> 3 * epoch[i] - Ahead(pc[i])]

Passed(i) == IF Waits(pc[i]) THEN joined[i] - 1 ELSE joined[i]

\* The counts J after one more increment of stream i.
Bump(J, i) == [J EXCEPT ![i] = J[i] + 1]

\* The streams that are ahead of the others: they have made b + 1 increments.
Lead(J, b) == {i \in Streams : J[i] = b + 1}

\* All streams have made b or b + 1 increments.
Within(J, b) == \A i \in Streams : J[i] \in {b, b + 1}

\* n, h and k tally the increments J of the three counters: after r full
\* rounds the streams are joining the first, the second or the third.
Tally(J, n, h, k) ==
    \E r \in Nat :
      \/ /\ Within(J, 3 * r)
         /\ n = N * r + Cardinality(Lead(J, 3 * r))
         /\ h = N * r
         /\ k = N * r
      \/ /\ Within(J, 3 * r + 1)
         /\ n = N * r + N
         /\ h = N * r + Cardinality(Lead(J, 3 * r + 1))
         /\ k = N * r
      \/ /\ Within(J, 3 * r + 2)
         /\ n = N * r + N
         /\ h = N * r + N
         /\ k = N * r + Cardinality(Lead(J, 3 * r + 2))

-----------------------------------------------------------------------------
(* Arithmetic of the counters.                                             *)

LEMMA StreamsFinite == IsFiniteSet(Streams) /\ Cardinality(Streams) = N
  BY FS_Interval, NAssumption DEF Streams

LEMMA LeadCard ==
  ASSUME NEW J, NEW b
  PROVE  /\ IsFiniteSet(Lead(J, b))
         /\ Cardinality(Lead(J, b)) \in 0 .. N
         /\ Cardinality(Lead(J, b)) = N => Lead(J, b) = Streams
<1>1. Lead(J, b) \in SUBSET Streams
  BY DEF Lead
<1> QED
  BY <1>1, StreamsFinite, FS_Subset, FS_CardinalityType, NAssumption

\* A multiple of N plus at most N is divisible by N at the ends only.
LEMMA ModEnds ==
  ASSUME NEW r \in Nat, NEW s \in 0 .. N, (N * r + s) % N = 0
  PROVE  s = 0 \/ s = N
<1>1. N \in Nat /\ N > 0 /\ N * r \in Nat
  BY NAssumption
<1> SUFFICES ASSUME s > 0, s < N PROVE FALSE
  BY <1>1
<1>2. (N * r + s) % N = s
  BY <1>1
<1> QED
  BY <1>1, <1>2

\* A divisible counter with a stream ahead means that all streams are ahead.
LEMMA LeadDone ==
  ASSUME NEW J \in [Streams -> Nat], NEW b \in Nat, NEW r \in Nat,
         NEW i \in Lead(J, b), (N * r + Cardinality(Lead(J, b))) % N = 0
  PROVE  \A j \in Streams : J[j] = b + 1
<1>1. Cardinality(Lead(J, b)) # 0
  BY LeadCard, FS_EmptySet
<1>2. Cardinality(Lead(J, b)) = N
  BY <1>1, LeadCard, ModEnds
<1>3. Lead(J, b) = Streams
  BY <1>2, LeadCard
<1> QED
  BY <1>3 DEF Lead

\* A stream joins a barrier that others may have joined before it.
LEMMA LeadJoin ==
  ASSUME NEW J \in [Streams -> Nat], NEW i \in Streams, NEW b \in Nat,
         Within(J, b), J[i] = b
  PROVE  /\ Within(Bump(J, i), b)
         /\ Cardinality(Lead(Bump(J, i), b)) = Cardinality(Lead(J, b)) + 1
<1>1. Within(Bump(J, i), b)
  BY DEF Within, Bump
<1>2. Lead(Bump(J, i), b) = Lead(J, b) \cup {i} /\ i \notin Lead(J, b)
  BY DEF Lead, Bump
<1>3. Cardinality(Lead(Bump(J, i), b)) = Cardinality(Lead(J, b)) + 1
  BY <1>2, LeadCard, FS_AddElement
<1> QED
  BY <1>1, <1>3

\* A stream is the first to join the next barrier.
LEMMA LeadStart ==
  ASSUME NEW J \in [Streams -> Nat], NEW i \in Streams, NEW b \in Nat,
         Within(J, b), J[i] = b + 1, \A j \in Streams : J[i] <= J[j]
  PROVE  /\ Within(Bump(J, i), b + 1)
         /\ Cardinality(Lead(Bump(J, i), b + 1)) = 1
         /\ Cardinality(Lead(J, b)) = N
<1>1. \A j \in Streams : J[j] = b + 1
  BY DEF Within
<1>2. Within(Bump(J, i), b + 1)
  BY <1>1 DEF Within, Bump
<1>3. Lead(Bump(J, i), b + 1) = {i}
  BY <1>1 DEF Lead, Bump
<1>4. Lead(J, b) = Streams
  BY <1>1 DEF Lead
<1> QED
  BY <1>2, <1>3, <1>4, FS_Singleton, StreamsFinite

\* Leaving a barrier: its counter is divisible, so every stream has joined it.
LEMMA TallyPass ==
  ASSUME NEW J \in [Streams -> Nat], NEW i \in Streams, NEW e \in Nat,
         NEW n, NEW h, NEW k, Tally(J, n, h, k),
         \/ J[i] = 3 * e + 1 /\ n % N = 0
         \/ J[i] = 3 * e + 2 /\ h % N = 0
         \/ J[i] = 3 * e + 3 /\ k % N = 0
  PROVE  \A j \in Streams : J[i] <= J[j]
<1>1. PICK r \in Nat :
      \/ /\ Within(J, 3 * r)
         /\ n = N * r + Cardinality(Lead(J, 3 * r))
         /\ h = N * r
         /\ k = N * r
      \/ /\ Within(J, 3 * r + 1)
         /\ n = N * r + N
         /\ h = N * r + Cardinality(Lead(J, 3 * r + 1))
         /\ k = N * r
      \/ /\ Within(J, 3 * r + 2)
         /\ n = N * r + N
         /\ h = N * r + N
         /\ k = N * r + Cardinality(Lead(J, 3 * r + 2))
  BY DEF Tally
<1>2. ASSUME NEW b \in Nat, Within(J, b),
             J[i] = b + 1 => (N * r + Cardinality(Lead(J, b))) % N = 0
      PROVE  \A j \in Streams : J[i] <= J[j]
  <2>1. CASE J[i] = b
    BY <1>2, <2>1 DEF Within
  <2>2. CASE J[i] = b + 1
    BY <1>2, <2>2, LeadDone DEF Lead
  <2> QED
    BY <1>2, <2>1, <2>2 DEF Within
<1>3. CASE Within(J, 3 * r) /\ n = N * r + Cardinality(Lead(J, 3 * r))
  <2>1. J[i] = 3 * r + 1 => n % N = 0
    OBVIOUS
  <2> QED
    BY <1>2, <1>3, <2>1
<1>4. CASE Within(J, 3 * r + 1) /\ h = N * r + Cardinality(Lead(J, 3 * r + 1))
  <2>1. J[i] = 3 * r + 2 => h % N = 0
    OBVIOUS
  <2> QED
    BY <1>2, <1>4, <2>1
<1>5. CASE Within(J, 3 * r + 2) /\ k = N * r + Cardinality(Lead(J, 3 * r + 2))
  <2>1. J[i] = 3 * r + 3 => k % N = 0
    OBVIOUS
  <2> QED
    BY <1>2, <1>5, <2>1
<1> QED
  BY <1>1, <1>3, <1>4, <1>5

\* Joining a barrier: a stream that has left all it has joined, while no stream
\* is behind it, increments the next counter in turn.
LEMMA TallyJoin ==
  ASSUME NEW J \in [Streams -> Nat], NEW i \in Streams, NEW e \in Nat,
         NEW n, NEW h, NEW k, Tally(J, n, h, k),
         \A j \in Streams : J[i] <= J[j]
  PROVE  /\ J[i] = 3 * e     => Tally(Bump(J, i), n + 1, h, k)
         /\ J[i] = 3 * e + 1 => Tally(Bump(J, i), n, h + 1, k)
         /\ J[i] = 3 * e + 2 => Tally(Bump(J, i), n, h, k + 1)
<1>0. N \in Nat /\ (\A r \in Nat : N * r \in Nat /\ N * (r + 1) = N * r + N)
  BY NAssumption
<1>1. PICK r \in Nat :
      \/ /\ Within(J, 3 * r)
         /\ n = N * r + Cardinality(Lead(J, 3 * r))
         /\ h = N * r
         /\ k = N * r
      \/ /\ Within(J, 3 * r + 1)
         /\ n = N * r + N
         /\ h = N * r + Cardinality(Lead(J, 3 * r + 1))
         /\ k = N * r
      \/ /\ Within(J, 3 * r + 2)
         /\ n = N * r + N
         /\ h = N * r + N
         /\ k = N * r + Cardinality(Lead(J, 3 * r + 2))
  BY DEF Tally
<1>2. ASSUME NEW b \in Nat, Within(J, b)
      PROVE  /\ Cardinality(Lead(J, b)) \in Nat
             /\ \/ /\ J[i] = b
                   /\ Within(Bump(J, i), b)
                   /\ Cardinality(Lead(Bump(J, i), b)) = Cardinality(Lead(J, b)) + 1
                \/ /\ J[i] = b + 1
                   /\ Within(Bump(J, i), b + 1)
                   /\ Cardinality(Lead(Bump(J, i), b + 1)) = 1
                   /\ Cardinality(Lead(J, b)) = N
  <2>0. Cardinality(Lead(J, b)) \in Nat
    BY LeadCard, NAssumption
  <2>1. CASE J[i] = b
    <3>2. Within(Bump(J, i), b) /\ Cardinality(Lead(Bump(J, i), b)) = Cardinality(Lead(J, b)) + 1
      BY <1>2, <2>1, LeadJoin
    <3> QED
      BY <2>0, <2>1, <3>2
  <2>2. CASE J[i] = b + 1
    <3>2. /\ Within(Bump(J, i), b + 1)
          /\ Cardinality(Lead(Bump(J, i), b + 1)) = 1
          /\ Cardinality(Lead(J, b)) = N
      BY <1>2, <2>2, LeadStart
    <3> QED
      BY <2>0, <2>2, <3>2
  <2> QED
    BY <1>2, <2>1, <2>2 DEF Within
<1>3. CASE /\ Within(J, 3 * r)
           /\ n = N * r + Cardinality(Lead(J, 3 * r)) /\ h = N * r /\ k = N * r
  <2>1. J[i] = 3 * e => Tally(Bump(J, i), n + 1, h, k)
    BY <1>0, <1>2, <1>3 DEF Tally
  <2>2. J[i] = 3 * e + 1 => Tally(Bump(J, i), n, h + 1, k)
    BY <1>0, <1>2, <1>3 DEF Tally
  <2> QED
    BY <1>2, <1>3, <2>1, <2>2
<1>4. CASE /\ Within(J, 3 * r + 1)
           /\ n = N * r + N
           /\ h = N * r + Cardinality(Lead(J, 3 * r + 1)) /\ k = N * r
  <2>1. J[i] = 3 * e + 1 => Tally(Bump(J, i), n, h + 1, k)
    BY <1>0, <1>2, <1>4 DEF Tally
  <2>2. J[i] = 3 * e + 2 => Tally(Bump(J, i), n, h, k + 1)
    BY <1>0, <1>2, <1>4 DEF Tally
  <2> QED
    BY <1>2, <1>4, <2>1, <2>2
<1>5. CASE /\ Within(J, 3 * r + 2)
           /\ n = N * r + N /\ h = N * r + N
           /\ k = N * r + Cardinality(Lead(J, 3 * r + 2))
  <2>1. J[i] = 3 * e + 2 => Tally(Bump(J, i), n, h, k + 1)
    BY <1>0, <1>2, <1>5 DEF Tally
  <2>2. J[i] = 3 * e => Tally(Bump(J, i), n + 1, h, k)
    <3>1. SUFFICES ASSUME J[i] = 3 * e PROVE Tally(Bump(J, i), n + 1, h, k)
      OBVIOUS
    <3>2. J[i] # 3 * r + 2
      BY <3>1
    <3>3. /\ Within(Bump(J, i), (3 * r + 2) + 1)
          /\ Cardinality(Lead(Bump(J, i), (3 * r + 2) + 1)) = 1
          /\ Cardinality(Lead(J, 3 * r + 2)) = N
      BY <1>2, <1>5, <3>2
    <3>4. (3 * r + 2) + 1 = 3 * (r + 1)
      OBVIOUS
    <3>5. Within(Bump(J, i), 3 * (r + 1)) /\ Cardinality(Lead(Bump(J, i), 3 * (r + 1))) = 1
      BY <3>3, <3>4
    <3>6. n + 1 = N * (r + 1) + 1 /\ h = N * (r + 1) /\ k = N * (r + 1)
      BY <1>0, <1>5, <3>3
    <3> QED
      BY <3>5, <3>6 DEF Tally
  <2> QED
    BY <1>2, <1>5, <2>1, <2>2
<1> QED
  BY <1>1, <1>3, <1>4, <1>5

-----------------------------------------------------------------------------
(* The inductive invariant.                                                *)

InNoop == BeforeReset \cup AfterReset

\* A thread inside a no-op has delivered one.
NoopCounted == \A i \in Streams : pc[i] \in InNoop => epoch[i] >= 1

\* Nobody has left a barrier that somebody has not joined.
NobodyBehind == \A i, j \in Streams : Passed(i) <= joined[j]

BarrierInv ==
    /\ TypeOK
    /\ NoopCounted
    /\ NobodyBehind
    /\ Tally(joined, noops_cnt, noops_cnt_hole, noops_cnt_init)

LEMMA JoinedType == TypeOK /\ NoopCounted => joined \in [Streams -> Nat]
<1> SUFFICES ASSUME TypeOK, NoopCounted, NEW i \in Streams
             PROVE  3 * epoch[i] - Ahead(pc[i]) \in Nat
  BY DEF joined
<1>1. epoch[i] \in Nat
  BY MaxNoopsAssumption DEF TypeOK, HistoryType
<1>2. Ahead(pc[i]) \in {0, 1, 2} /\ (Ahead(pc[i]) # 0 => pc[i] \in InNoop)
  BY DEF Ahead, InNoop, BeforeReset, AfterReset
<1> QED
  BY <1>1, <1>2 DEF NoopCounted

LEMMA BarrierInit == Init => BarrierInv
<1> SUFFICES ASSUME Init PROVE BarrierInv
  OBVIOUS
<1>1. TypeOK
  BY InitType
<1>2. NoopCounted
  BY DEF Init, NoopCounted, InNoop, BeforeReset, AfterReset, CutPlaces
<1>3. \A i \in Streams : joined[i] = 0 /\ Passed(i) = 0
  BY DEF Init, joined, Passed, Ahead, Waits, CutPlaces
<1>4. NobodyBehind
  BY <1>3 DEF NobodyBehind
<1>5. Tally(joined, 0, 0, 0)
  <2>1. Within(joined, 0)
    BY <1>3 DEF Within
  <2>2. Lead(joined, 0) = {}
    BY <1>3 DEF Lead
  <2>3. Cardinality(Lead(joined, 0)) = 0
    BY <2>2, FS_EmptySet
  <2>4. 3 * 0 = 0 /\ N * 0 = 0 /\ 0 \in Nat
    BY NAssumption
  <2> QED
    BY <2>1, <2>3, <2>4 DEF Tally
<1> QED
  BY <1>1, <1>2, <1>4, <1>5 DEF BarrierInv, Init

\* Steps that touch neither the threads' places nor the barriers.
LEMMA Elsewhere ==
  ASSUME BarrierInv, TypeOK', pc' = pc, epoch' = epoch, UNCHANGED counters
  PROVE  BarrierInv'
<1>1. joined' = joined
  BY DEF joined
<1>2. NobodyBehind'
  BY <1>1 DEF BarrierInv, NobodyBehind, Passed
<1> QED
  BY <1>1, <1>2 DEF BarrierInv, NoopCounted, counters

\* Steps of a thread between two barriers.
LEMMA Between ==
  ASSUME BarrierInv, TypeOK', NEW i \in Streams, NEW p,
         pc' = [pc EXCEPT ![i] = p], epoch' = epoch, UNCHANGED counters,
         Ahead(p) = Ahead(pc[i]), ~Waits(p), ~Waits(pc[i]),
         p \in InNoop => pc[i] \in InNoop
  PROVE  BarrierInv'
<1>0. pc \in [Streams -> Places]
  BY DEF BarrierInv, TypeOK, ThreadType
<1>1. \A j \in Streams : /\ Ahead(pc'[j]) = Ahead(pc[j])
                         /\ Waits(pc'[j]) <=> Waits(pc[j])
  BY <1>0
<1>2. joined' = joined
  BY <1>1 DEF joined
<1>3. \A j \in Streams : Passed(j)' = Passed(j)
  BY <1>1, <1>2 DEF Passed
<1>4. NobodyBehind'
  BY <1>2, <1>3 DEF BarrierInv, NobodyBehind
<1>5. NoopCounted'
  BY <1>0 DEF BarrierInv, NoopCounted
<1> QED
  BY <1>2, <1>4, <1>5 DEF BarrierInv, counters

\* A thread leaves a barrier.
LEMMA Leave ==
  ASSUME BarrierInv, TypeOK', NEW i \in Streams, NEW p,
         pc' = [pc EXCEPT ![i] = p], epoch' = epoch, UNCHANGED counters,
         Ahead(p) = Ahead(pc[i]), ~Waits(p),
         \/ pc[i] = "b1" /\ noops_cnt % N = 0
         \/ pc[i] = "b2" /\ noops_cnt_hole % N = 0
         \/ pc[i] = "b3" /\ noops_cnt_init % N = 0
  PROVE  BarrierInv'
<1>0. pc \in [Streams -> Places] /\ joined \in [Streams -> Nat]
  BY JoinedType DEF BarrierInv, TypeOK, ThreadType
<1>1. \A j \in Streams : Ahead(pc'[j]) = Ahead(pc[j])
  BY <1>0
<1>2. joined' = joined
  BY <1>1 DEF joined
<1>3. epoch[i] \in Nat /\ epoch[i] >= 1
  BY MaxNoopsAssumption DEF BarrierInv, TypeOK, HistoryType, NoopCounted, InNoop,
                            BeforeReset, AfterReset
<1>4. \A j \in Streams : joined[i] <= joined[j]
  <2> DEFINE e == epoch[i] - 1
  <2>1. e \in Nat /\ epoch[i] = e + 1
    BY <1>3
  <2> HIDE DEF e
  <2>2. /\ pc[i] = "b1" => joined[i] = 3 * e + 1
        /\ pc[i] = "b2" => joined[i] = 3 * e + 2
        /\ pc[i] = "b3" => joined[i] = 3 * e + 3
    BY <2>1 DEF joined, Ahead, CutPlaces
  <2> QED
    BY <1>0, <2>1, <2>2, TallyPass DEF BarrierInv
<1>5. NobodyBehind'
  <2> SUFFICES ASSUME NEW a \in Streams, NEW b \in Streams
               PROVE  Passed(a)' <= joined'[b]
    BY DEF NobodyBehind
  <2>1. CASE a = i
    BY <1>0, <1>2, <1>4, <2>1 DEF Passed
  <2>2. CASE a # i
    BY <1>0, <1>2, <2>2 DEF Passed, BarrierInv, NobodyBehind
  <2> QED
    BY <2>1, <2>2
<1>6. NoopCounted'
  BY <1>0, <1>3 DEF BarrierInv, NoopCounted
<1> QED
  BY <1>2, <1>5, <1>6 DEF BarrierInv, counters

\* A thread joins a barrier.
LEMMA Join ==
  ASSUME BarrierInv, TypeOK', NoopCounted', NEW i \in Streams, NEW p,
         pc' = [pc EXCEPT ![i] = p], ~Waits(pc[i]), Waits(p),
         \A j \in Streams : j # i => epoch'[j] = epoch[j],
         3 * epoch'[i] - Ahead(p) = 3 * epoch[i] - Ahead(pc[i]) + 1,
         \/ /\ p = "b1" /\ noops_cnt' = noops_cnt + 1
            /\ UNCHANGED <<noops_cnt_hole, noops_cnt_init>>
         \/ /\ p = "b2" /\ noops_cnt_hole' = noops_cnt_hole + 1
            /\ UNCHANGED <<noops_cnt, noops_cnt_init>>
         \/ /\ p = "b3" /\ noops_cnt_init' = noops_cnt_init + 1
            /\ UNCHANGED <<noops_cnt, noops_cnt_hole>>
  PROVE  BarrierInv'
<1>0. /\ pc \in [Streams -> Places] /\ joined \in [Streams -> Nat]
      /\ pc' \in [Streams -> Places] /\ joined' \in [Streams -> Nat]
      /\ epoch'[i] \in Nat
  <2>1. joined \in [Streams -> Nat]
    BY JoinedType DEF BarrierInv
  <2>2. joined' \in [Streams -> Nat]
    <3>1. (TypeOK /\ NoopCounted)' => (joined \in [Streams -> Nat])'
      BY JoinedType, PTL
    <3> QED
      BY <3>1
  <2>3. pc \in [Streams -> Places] /\ pc' \in [Streams -> Places]
    BY DEF BarrierInv, TypeOK, ThreadType
  <2>4. epoch'[i] \in Nat
    BY MaxNoopsAssumption DEF TypeOK, HistoryType
  <2> QED
    BY <2>1, <2>2, <2>3, <2>4
<1>1. joined'[i] = joined[i] + 1
  BY <1>0 DEF joined
<1>2. \A j \in Streams : j # i => joined'[j] = joined[j] /\ Passed(j)' = Passed(j)
  BY <1>0 DEF joined, Passed
<1>3. joined' = Bump(joined, i)
  BY <1>0, <1>1, <1>2 DEF Bump
<1>4. Passed(i)' = Passed(i) /\ Passed(i) = joined[i]
  BY <1>0, <1>1 DEF Passed
<1>5. NobodyBehind'
  <2> SUFFICES ASSUME NEW a \in Streams, NEW b \in Streams
               PROVE  Passed(a)' <= joined'[b]
    BY DEF NobodyBehind
  <2>1. Passed(a)' = Passed(a) /\ Passed(a) \in Int
    BY <1>0, <1>2, <1>4 DEF Passed
  <2>2. joined'[b] >= joined[b] /\ Passed(a) <= joined[b]
    BY <1>0, <1>1, <1>2 DEF BarrierInv, NobodyBehind
  <2> QED
    BY <1>0, <2>1, <2>2
<1>6. Tally(joined', noops_cnt', noops_cnt_hole', noops_cnt_init')
  <2>1. \A j \in Streams : joined[i] <= joined[j]
    BY <1>4 DEF BarrierInv, NobodyBehind
  <2>2. epoch'[i] >= 1
    BY <1>0 DEF NoopCounted, InNoop, BeforeReset, AfterReset, Waits
  <2> DEFINE e == epoch'[i] - 1
  <2>3. e \in Nat /\ epoch'[i] = e + 1
    BY <1>0, <2>2
  <2> HIDE DEF e
  <2>4. /\ p = "b1" => joined'[i] = 3 * e + 1
        /\ p = "b2" => joined'[i] = 3 * e + 2
        /\ p = "b3" => joined'[i] = 3 * e + 3
    BY <1>0, <2>3 DEF joined, Ahead, CutPlaces
  <2>5. /\ p = "b1" => joined[i] = 3 * e
        /\ p = "b2" => joined[i] = 3 * e + 1
        /\ p = "b3" => joined[i] = 3 * e + 2
    BY <1>0, <1>1, <2>3, <2>4
  <2>6. Tally(joined, noops_cnt, noops_cnt_hole, noops_cnt_init)
    BY DEF BarrierInv
  <2>7. CASE p = "b1"
    BY <1>0, <1>3, <2>1, <2>3, <2>5, <2>6, <2>7, TallyJoin
  <2>8. CASE p = "b2"
    BY <1>0, <1>3, <2>1, <2>3, <2>5, <2>6, <2>8, TallyJoin
  <2>9. CASE p = "b3"
    BY <1>0, <1>3, <2>1, <2>3, <2>5, <2>6, <2>9, TallyJoin
  <2> QED
    BY <2>7, <2>8, <2>9
<1> QED
  BY <1>5, <1>6 DEF BarrierInv

-----------------------------------------------------------------------------
(* Every step keeps the invariant.                                         *)

LEMMA BarrierNext == BarrierInv /\ [Next]_vars => BarrierInv'
<1> SUFFICES ASSUME BarrierInv, [Next]_vars PROVE BarrierInv'
  OBVIOUS
<1>1. TypeOK /\ TypeOK'
  BY NextType DEF BarrierInv
<1>2. pc \in [Streams -> Places]
  BY <1>1 DEF TypeOK, ThreadType
<1>3. \A i \in Streams : epoch[i] \in Nat
  BY <1>1, MaxNoopsAssumption DEF TypeOK, HistoryType
<1> USE DEF CutPlaces, BeforeReset, AfterReset, InNoop, Ahead, Waits
<1>4. CASE Advancer
  BY <1>1, <1>4, Elsewhere DEF Advancer, AdvTop, AdvRead, AdvReread, AdvStore,
                               shared, history, counters
<1>5. CASE Shutdown \/ UNCHANGED vars
  BY <1>1, <1>5, Elsewhere DEF Shutdown, vars, shared, history, counters
<1>6. ASSUME NEW i \in Streams, Deliver(i) PROVE BarrierInv'
  <2>1. CASE RecvBatch(i)
    BY <1>1, <2>1, Between DEF RecvBatch, Goto
  <2>2. CASE RecvNoop(i)
    <3>1. /\ pc' = [pc EXCEPT ![i] = "b1"] /\ pc[i] = "idle"
          /\ noops_cnt' = noops_cnt + 1
          /\ UNCHANGED <<noops_cnt_hole, noops_cnt_init>>
      BY <2>2 DEF RecvNoop, Goto
    <3>2. epoch'[i] = epoch[i] + 1 /\ \A j \in Streams : j # i => epoch'[j] = epoch[j]
      BY <1>1, <2>2 DEF RecvNoop, TypeOK, HistoryType
    <3>3. NoopCounted'
      BY <1>2, <1>3, <3>1, <3>2 DEF NoopCounted, BarrierInv
    <3>4. 3 * epoch'[i] - Ahead("b1") = 3 * epoch[i] - Ahead(pc[i]) + 1
      BY <1>3, <3>1, <3>2
    <3> QED
      BY <1>1, <3>1, <3>2, <3>3, <3>4, Join
  <2>3. CASE RecvEnd(i)
    BY <1>1, <2>3, Between DEF RecvEnd, Goto, shared, counters
  <2> QED
    BY <1>6, <2>1, <2>2, <2>3 DEF Deliver
<1>7. ASSUME NEW i \in Streams, ThreadStep(i) PROVE BarrierInv'
  <2>1. CASE CheckBatch(i) \/ DrainBatch(i)
    BY <1>1, <2>1, Between DEF CheckBatch, DrainBatch, Goto, shared, counters
  <2>2. CASE CutScan(i) \/ FinalScan(i)
    BY <1>1, <2>2, Between, Elsewhere DEF CutScan, FinalScan, ScanStep, Goto,
                                          shared, history, counters
  <2>3. CASE CutStore(i) \/ CutLoad(i) \/ ResetCg(i) \/ FinalStore(i)
    BY <1>1, <2>3, Between DEF CutStore, CutLoad, ResetCg, FinalStore, Goto,
                               shared, history, counters
  <2>4. CASE Barrier1(i) \/ Barrier2(i) \/ Barrier3(i)
    BY <1>1, <2>4, Leave DEF Barrier1, Barrier2, Barrier3, Goto,
                             shared, history, counters
  <2>5. CASE IncHole(i)
    <3>1. /\ pc' = [pc EXCEPT ![i] = "b2"] /\ pc[i] = "hole" /\ epoch' = epoch
          /\ noops_cnt_hole' = noops_cnt_hole + 1
          /\ UNCHANGED <<noops_cnt, noops_cnt_init>>
      BY <2>5 DEF IncHole, Goto, history
    <3>2. NoopCounted'
      BY <1>2, <3>1 DEF NoopCounted, BarrierInv
    <3>3. 3 * epoch'[i] - Ahead("b2") = 3 * epoch[i] - Ahead(pc[i]) + 1
      BY <1>3, <3>1
    <3>4. Waits("b2") /\ ~Waits(pc[i])
      BY <3>1
    <3> HIDE DEF Ahead, Waits
    <3> QED
      BY <1>1, <3>1, <3>2, <3>3, <3>4, Join
  <2>6. CASE IncInit(i)
    <3>1. /\ pc' = [pc EXCEPT ![i] = "b3"] /\ pc[i] = "init" /\ epoch' = epoch
          /\ noops_cnt_init' = noops_cnt_init + 1
          /\ UNCHANGED <<noops_cnt, noops_cnt_hole>>
      BY <2>6 DEF IncInit, Goto, history
    <3>2. NoopCounted'
      BY <1>2, <3>1 DEF NoopCounted, BarrierInv
    <3>3. 3 * epoch'[i] - Ahead("b3") = 3 * epoch[i] - Ahead(pc[i]) + 1
      BY <1>3, <3>1
    <3>4. Waits("b3") /\ ~Waits(pc[i])
      BY <3>1
    <3> HIDE DEF Ahead, Waits
    <3> QED
      BY <1>1, <3>1, <3>2, <3>3, <3>4, Join
  <2>7. CASE EndStore(i) \/ LagDone(i)
    BY <1>1, <2>7, Between DEF EndStore, LagDone, Goto, shared, history, counters
  <2>8. CASE LagReplay(i)
    BY <1>1, <2>8, Elsewhere DEF LagReplay, shared, counters
  <2> QED
    BY <1>7, <2>1, <2>2, <2>3, <2>4, <2>5, <2>6, <2>7, <2>8 DEF ThreadStep
<1> QED
  BY <1>4, <1>5, <1>6, <1>7 DEF Next

\* The inductive invariant of the barriers holds throughout.
THEOREM BarrierCorrect == Spec => []BarrierInv
<1> QED
  BY BarrierInit, BarrierNext, PTL DEF Spec

-----------------------------------------------------------------------------
\* What the invariant says of the threads' places.
LEMMA Separated == BarrierInv => BarriersSeparate
<1> SUFFICES ASSUME BarrierInv, NEW i \in Streams, NEW j \in Streams
             PROVE  /\ pc[i] \in CutPlaces =>
                         /\ epoch[j] = epoch[i]
                         /\ pc[j] \in CutPlaces \cup {"b1", "b2"}
                    /\ pc[i] \in {"reset", "init"} =>
                         /\ epoch[j] = epoch[i]
                         /\ pc[j] \in {"b2", "reset", "init", "b3"}
                    /\ epoch[j] < epoch[i] =>
                         /\ epoch[i] = epoch[j] + 1
                         /\ pc[i] = "b1"
                         /\ pc[j] \notin BeforeReset \cup {"init"}
  BY DEF BarriersSeparate
<1>1. epoch[i] \in Nat /\ epoch[j] \in Nat
  BY MaxNoopsAssumption DEF BarrierInv, TypeOK, HistoryType
<1>2. /\ joined[i] = 3 * epoch[i] - Ahead(pc[i])
      /\ joined[j] = 3 * epoch[j] - Ahead(pc[j])
  BY DEF joined
<1>3. Passed(i) <= joined[j] /\ Passed(j) <= joined[i]
  BY DEF BarrierInv, NobodyBehind
<1>4. /\ Ahead(pc[i]) \in {0, 1, 2} /\ Ahead(pc[j]) \in {0, 1, 2}
      /\ Passed(i) = IF Waits(pc[i]) THEN joined[i] - 1 ELSE joined[i]
      /\ Passed(j) = IF Waits(pc[j]) THEN joined[j] - 1 ELSE joined[j]
  BY DEF Ahead, Passed
<1>5. CASE epoch[j] = epoch[i]
  BY <1>1, <1>2, <1>3, <1>4, <1>5 DEF Ahead, Waits, CutPlaces
<1>6. CASE epoch[j] < epoch[i]
  <2>1. epoch[i] = epoch[j] + 1 /\ Ahead(pc[i]) = 2 /\ Waits(pc[i])
        /\ Ahead(pc[j]) = 0
    BY <1>1, <1>2, <1>3, <1>4, <1>6
  <2> QED
    BY <1>1, <1>6, <2>1 DEF Ahead, Waits, CutPlaces, BeforeReset
<1>7. CASE epoch[j] > epoch[i]
  <2>1. Ahead(pc[i]) = 0
    BY <1>1, <1>2, <1>3, <1>4, <1>7
  <2> QED
    BY <1>1, <1>7, <2>1 DEF Ahead, Waits, CutPlaces
<1> QED
  BY <1>1, <1>5, <1>6, <1>7

\* The barriers separate the stages of a no-op, for any number of streams and
\* of failovers: BarriersSeparate, about the three counters that the replay
\* callback compares with 0 modulo nthreads.
THEOREM BarriersSeparateAlways == Spec => []BarriersSeparate
<1> QED
  BY BarrierCorrect, Separated, PTL

-----------------------------------------------------------------------------
(* The watermark.                                                          *)

\* The cut's minimum so far bounds the streams it has read.
CutLow == \A i, j \in Streams :
            \/ pc[i] = "cscan" /\ j < idx[i]
            \/ pc[i] = "cstore"
            => low[i] <= cg[j]

\* The advancer's minimum so far bounds the streams it has read, provided all
\* had started when it began.
AdvLow == /\ adv.at = "store" => adv.i = N
          /\ adv.fresh => \A j \in Streams : j < adv.i => adv.min <= cg[j]

\* A scan is fresh, and a watermark warm, only while every stream has started.
AllStarted == (warm \/ adv.fresh) => \A j \in Streams : cg[j] > 0

\* A stream that has reset its cg_ delivers nothing before it leaves the no-op.
ResetStays == \A i \in Streams : pc[i] \in AfterReset => cg[i] = 0

\* computeG starts at the first stream.
ScanIdle == \A i \in Streams : pc[i] \notin {"cscan", "gscan"} => idx[i] = 0

WatermarkInv == /\ BarrierInv /\ ScanIdle
                /\ CutLow /\ AdvLow /\ AllStarted /\ ResetStays /\ WatermarkSafe

-----------------------------------------------------------------------------
\* While a stream is at the cut, none changes its cg_.
LEMMA CutStep ==
  BarrierInv /\ [Next]_vars => ((\E i \in Streams : pc[i] \in CutPlaces) => UNCHANGED cg)
<1> SUFFICES ASSUME BarrierInv, [Next]_vars, NEW c \in Streams, pc[c] \in CutPlaces
             PROVE  cg' = cg
  OBVIOUS
<1>1. \A j \in Streams : pc[j] \in CutPlaces \cup {"b1", "b2"}
  BY Separated DEF BarriersSeparate
<1>2. \A j \in Streams : pc[j] \notin {"idle", "reset", "endstore"}
  BY <1>1 DEF CutPlaces
<1>3. CASE Advancer
  BY <1>3 DEF Advancer, AdvTop, AdvRead, AdvReread, AdvStore, shared
<1>4. CASE Shutdown \/ UNCHANGED vars
  BY <1>4 DEF Shutdown, vars, shared
<1>5. ASSUME NEW i \in Streams, Deliver(i) PROVE cg' = cg
  BY <1>2, <1>5 DEF Deliver, RecvBatch, RecvNoop, RecvEnd
<1>6. ASSUME NEW i \in Streams, ThreadStep(i) PROVE cg' = cg
  <2>1. ~ResetCg(i) /\ ~EndStore(i)
    BY <1>2 DEF ResetCg, EndStore
  <2> QED
    BY <1>6, <2>1 DEF ThreadStep, CheckBatch, DrainBatch, Barrier1, CutScan,
       ScanStep, CutStore, CutLoad, IncHole, Barrier2, IncInit, Barrier3,
       FinalScan, FinalStore, LagReplay, LagDone, shared
<1> QED
  BY <1>3, <1>4, <1>5, <1>6 DEF Next

\* CutStable, for any number of streams: between computing the cut and having
\* applied it, no stream delivers, resets or ends, so all cut alike.
THEOREM CutStableAlways == Spec => CutStable
<1> QED
  BY BarrierCorrect, CutStep, PTL DEF CutStable, Spec

-----------------------------------------------------------------------------
(* WatermarkInv is inductive.                                              *)

LEMMA CgNat ==
  ASSUME TypeOK, NEW j \in Streams
  PROVE  cg[j] \in Nat
<1>1. cg[j] \in 0 .. UMax
  BY CgRange DEF TypeOK
<1> QED
  BY <1>1, UMaxAssumption

LEMMA WatermarkInit == Init => WatermarkInv
<1> SUFFICES ASSUME Init PROVE WatermarkInv
  OBVIOUS
<1>1. BarrierInv
  BY BarrierInit
<1>2. \A i \in Streams : pc[i] = "idle"
  BY DEF Init
<1>3. CutLow /\ ResetStays
  BY <1>2 DEF CutLow, ResetStays, AfterReset
<1>4. AdvLow /\ AllStarted /\ WatermarkSafe
  BY DEF Init, AdvIdle, AdvLow, AllStarted, WatermarkSafe
<1>5. ScanIdle
  BY DEF Init, ScanIdle
<1> QED
  BY <1>1, <1>3, <1>4, <1>5 DEF WatermarkInv

\* No cg_ shrinks, no cut is in the middle of its scan by this step, and no
\* stream enters the time after its reset.
Harmless(j) ==
    /\ cg'[j] >= cg[j]
    /\ pc'[j] \in {"cscan", "cstore"} =>
         pc'[j] = pc[j] \/ (pc'[j] = "cscan" /\ idx[j] = 0)
    /\ pc'[j] \in AfterReset => pc[j] \in AfterReset /\ cg'[j] = cg[j]

\* Steps that leave the watermark, the advancer and the cut's scan alone.
LEMMA CgGrows ==
  ASSUME WatermarkInv, TypeOK', G' = G, warm' = warm, adv' = adv,
         idx' = idx, low' = low,
         \A j \in Streams : Harmless(j)
  PROVE  CutLow' /\ AdvLow' /\ AllStarted' /\ ResetStays' /\ WatermarkSafe'
<1> USE DEF Harmless
<1>0. TypeOK /\ \A j \in Streams : cg[j] \in Nat
  BY CgNat DEF WatermarkInv, BarrierInv
<1>1. \A j \in Streams : cg'[j] \in Nat
  <2>1. cg' \in [Streams -> 0 .. MaxTs \cup {UMax}]
    BY DEF TypeOK, SharedType
  <2> QED
    BY <2>1, UMaxAssumption, MaxTsAssumption
<1>2. /\ G \in Nat /\ adv.min \in Nat
      /\ \A j \in Streams : low[j] \in Nat /\ idx[j] \in Nat
  <2>1. G \in Nat
    BY <1>0, UMaxAssumption DEF TypeOK, SharedType
  <2>2. adv.min \in Nat
    BY <1>0, UMaxAssumption DEF TypeOK, AdvType
  <2>3. \A j \in Streams : low[j] \in Nat /\ idx[j] \in Nat
    BY <1>0, UMaxAssumption, NAssumption DEF TypeOK, ThreadType
  <2> QED
    BY <2>1, <2>2, <2>3
<1>3. CutLow'
  <2> SUFFICES ASSUME NEW i \in Streams, NEW j \in Streams,
                      (pc'[i] = "cscan" /\ j < idx'[i]) \/ pc'[i] = "cstore"
               PROVE  low'[i] <= cg'[j]
    BY DEF CutLow
  <2>1. j \in Nat /\ idx'[i] = idx[i] /\ low'[i] = low[i]
    BY NAssumption DEF Streams
  <2>2. low[i] <= cg[j]
    BY <2>1 DEF WatermarkInv, CutLow
  <2> QED
    BY <1>0, <1>1, <1>2, <2>1, <2>2
<1>4. AdvLow'
  BY <1>0, <1>1, <1>2 DEF WatermarkInv, AdvLow
<1>5. AllStarted'
  BY <1>0, <1>1 DEF WatermarkInv, AllStarted
<1>6. ResetStays'
  BY DEF WatermarkInv, ResetStays
<1>7. WatermarkSafe'
  BY <1>0, <1>1, <1>2 DEF WatermarkInv, WatermarkSafe
<1> QED
  BY <1>3, <1>4, <1>5, <1>6, <1>7

LEMMA AdvancerWatermark ==
  WatermarkInv /\ TypeOK' /\ Advancer =>
    CutLow' /\ AdvLow' /\ AllStarted' /\ ResetStays' /\ WatermarkSafe'
<1> SUFFICES ASSUME WatermarkInv, TypeOK', Advancer
             PROVE  CutLow' /\ AdvLow' /\ AllStarted' /\ ResetStays' /\ WatermarkSafe'
  OBVIOUS
<1>1. UNCHANGED <<cg, pc, idx, low>>
  BY DEF Advancer, AdvTop, AdvRead, AdvReread, AdvStore, shared, scanVars
<1>2. CutLow' /\ ResetStays'
  BY <1>1 DEF WatermarkInv, CutLow, ResetStays
<1>3. TypeOK /\ \A j \in Streams : cg[j] \in Nat /\ j \in Nat /\ j < N
  BY CgNat, NAssumption DEF WatermarkInv, BarrierInv, Streams
<1>4. adv.i \in 0 .. N /\ adv.min \in Nat
      /\ adv \in [at : AdvPlaces, i : 0 .. N, min : 0 .. UMax, fresh : BOOLEAN]
  BY <1>3, UMaxAssumption DEF TypeOK, AdvType
<1>5. CASE AdvTop
  <2>1. UNCHANGED <<G, warm>>
    BY <1>5 DEF AdvTop, shared, history
  <2>2. AdvLow'
    BY <1>1, <1>3, <1>4, <1>5 DEF AdvTop, AdvLow, WatermarkInv
  <2>3. AllStarted' /\ WatermarkSafe'
    BY <1>1, <1>4, <1>5, <2>1 DEF AdvTop, AllStarted, WatermarkSafe, WatermarkInv
  <2> QED
    BY <1>2, <2>2, <2>3
<1>6. CASE AdvRead
  <2>1. UNCHANGED <<G, warm>> /\ adv'.fresh = adv.fresh /\ adv'.min = adv.min
    BY <1>4, <1>6 DEF AdvRead, shared, history
  <2>2. AdvLow'
    <3>1. CASE adv.i = N
      BY <1>1, <1>4, <1>6, <2>1, <3>1 DEF AdvRead, AdvLow, WatermarkInv
    <3>2. CASE adv.i # N /\ cg[adv.i] > 0
      BY <1>1, <1>4, <1>6, <2>1, <3>2 DEF AdvRead, AdvLow, WatermarkInv
    <3>3. CASE adv.i # N /\ ~(cg[adv.i] > 0)
      <4>1. ~adv.fresh
        BY <1>4, <3>3, NAssumption DEF WatermarkInv, AllStarted, Streams
      <4>2. adv'.at = "read"
        BY <1>4, <1>6, <3>3 DEF AdvRead
      <4> QED
        BY <2>1, <4>1, <4>2 DEF AdvLow
    <3> QED
      BY <3>1, <3>2, <3>3
  <2>3. AllStarted' /\ WatermarkSafe'
    BY <1>1, <2>1 DEF AllStarted, WatermarkSafe, WatermarkInv
  <2> QED
    BY <1>2, <2>2, <2>3
<1>7. CASE AdvReread
  <2>1. UNCHANGED <<G, warm>> /\ adv'.fresh = adv.fresh /\ adv'.i = adv.i + 1
        /\ adv'.min = Min2(adv.min, cg[adv.i]) /\ adv'.at = "read" /\ adv.i < N
    BY <1>3, <1>4, <1>7 DEF AdvReread, shared, history, TypeOK, AdvType
  <2>2. adv.i \in Streams /\ cg[adv.i] \in Nat
    BY <1>3, <1>4, <2>1, NAssumption DEF Streams
  <2>3. AdvLow'
    <3> SUFFICES ASSUME adv'.fresh, NEW j \in Streams, j < adv'.i
                 PROVE  adv'.min <= cg'[j]
      BY <2>1 DEF AdvLow
    <3>1. CASE j = adv.i
      BY <1>1, <1>4, <2>1, <2>2, <3>1 DEF Min2
    <3>2. CASE j < adv.i
      <4>1. adv.min <= cg[j]
        BY <2>1, <3>2 DEF WatermarkInv, AdvLow
      <4> QED
        BY <1>1, <1>3, <1>4, <2>1, <2>2, <4>1 DEF Min2
    <3> QED
      BY <1>3, <1>4, <2>1, <3>1, <3>2
  <2>4. AllStarted' /\ WatermarkSafe'
    BY <1>1, <2>1 DEF AllStarted, WatermarkSafe, WatermarkInv
  <2> QED
    BY <1>2, <2>3, <2>4
<1>8. CASE AdvStore
  <2>1. G' = adv.min /\ warm' = adv.fresh /\ adv' = AdvIdle /\ adv.i = N
    BY <1>8 DEF AdvStore, WatermarkInv, AdvLow
  <2>2. AdvLow'
    BY <2>1 DEF AdvIdle, AdvLow
  <2>3. AllStarted'
    BY <1>1, <2>1 DEF AllStarted, WatermarkInv, AdvIdle
  <2>4. WatermarkSafe'
    BY <1>1, <1>3, <2>1 DEF WatermarkSafe, WatermarkInv, AdvLow
  <2> QED
    BY <1>2, <2>2, <2>3, <2>4
<1> QED
  BY <1>5, <1>6, <1>7, <1>8 DEF Advancer

\* The only step that lowers a cg_: the barriers keep it away from every cut.
LEMMA ResetWatermark ==
  ASSUME WatermarkInv, TypeOK', NEW i \in Streams, ResetCg(i)
  PROVE  CutLow' /\ AdvLow' /\ AllStarted' /\ ResetStays' /\ WatermarkSafe'
<1>1. /\ pc[i] = "reset" /\ pc' = [pc EXCEPT ![i] = "init"]
      /\ cg' = [cg EXCEPT ![i] = 0]
      /\ pc \in [Streams -> Places] /\ cg \in [Streams -> 0 .. MaxTs \cup {UMax}]
  BY DEF ResetCg, Goto, WatermarkInv, BarrierInv, TypeOK, ThreadType, SharedType
<1>2. \A j \in Streams : pc'[j] \notin {"cscan", "cstore"}
  BY <1>1, Separated DEF WatermarkInv, BarriersSeparate
<1>3. CutLow'
  BY <1>2 DEF CutLow
<1>4. ~warm' /\ ~adv'.fresh /\ adv'.at = adv.at /\ adv'.i = adv.i
  BY DEF ResetCg, WatermarkInv, BarrierInv, TypeOK, AdvType
<1>5. AdvLow' /\ AllStarted' /\ WatermarkSafe'
  BY <1>4 DEF AdvLow, AllStarted, WatermarkSafe, WatermarkInv
<1>6. ResetStays'
  BY <1>1 DEF ResetStays, WatermarkInv
<1> QED
  BY <1>3, <1>5, <1>6

\* computeG for the cut: its reads, and its store into the watermark.
LEMMA CutWatermark ==
  ASSUME WatermarkInv, TypeOK', NEW i \in Streams, CutScan(i) \/ CutStore(i)
  PROVE  CutLow' /\ AdvLow' /\ AllStarted' /\ ResetStays' /\ WatermarkSafe'
<1>1. UNCHANGED <<cg, warm, adv>>
  BY DEF CutScan, ScanStep, CutStore, shared, history
<1>2. /\ pc \in [Streams -> Places] /\ low \in [Streams -> 0 .. UMax]
      /\ idx \in [Streams -> 0 .. N]
  BY DEF WatermarkInv, BarrierInv, TypeOK, ThreadType
<1>3. \A j \in Streams : cg[j] \in Nat /\ j \in Nat /\ j < N
  BY CgNat, NAssumption DEF WatermarkInv, BarrierInv, Streams
<1>4. AdvLow' /\ AllStarted'
  BY <1>1 DEF AdvLow, AllStarted, WatermarkInv
<1>5. \A j \in Streams : pc'[j] \in AfterReset => pc[j] \in AfterReset
  BY <1>2 DEF CutScan, ScanStep, CutStore, Goto, AfterReset
<1>6. ResetStays'
  BY <1>1, <1>5 DEF ResetStays, WatermarkInv
<1>7. CASE CutScan(i)
  <2>1. G' = G
    BY <1>7 DEF CutScan, ScanStep, shared
  <2>2. CutLow'
    <3> SUFFICES ASSUME NEW k \in Streams, NEW j \in Streams,
                        (pc'[k] = "cscan" /\ j < idx'[k]) \/ pc'[k] = "cstore"
                 PROVE  low'[k] <= cg[j]
      BY <1>1 DEF CutLow
    <3>1. CASE k # i
      <4>1. pc'[k] = pc[k] /\ idx'[k] = idx[k] /\ low'[k] = low[k]
        BY <1>2, <1>7, <3>1 DEF CutScan, ScanStep, Goto
      <4> QED
        BY <4>1 DEF CutLow, WatermarkInv
    <3>2. CASE k = i /\ idx[i] = N
      <4>1. low'[i] = low[i] /\ j < idx[i] /\ pc[i] = "cscan"
        BY <1>2, <1>3, <1>7, <3>2 DEF CutScan, ScanStep
      <4> QED
        BY <3>2, <4>1 DEF CutLow, WatermarkInv
    <3>3. CASE k = i /\ idx[i] # N
      <4>1. /\ pc[i] = "cscan" /\ pc'[i] = "cscan" /\ idx'[i] = idx[i] + 1
            /\ low'[i] = Min2(low[i], cg[idx[i]]) /\ idx[i] \in Streams
        BY <1>2, <1>7, <3>3, NAssumption DEF CutScan, ScanStep, Streams
      <4>2. low[i] \in Nat /\ cg[idx[i]] \in Nat /\ idx[i] \in Nat
        BY <1>2, <1>3, <4>1, UMaxAssumption
      <4>3. CASE j = idx[i]
        BY <3>3, <4>1, <4>2, <4>3 DEF Min2
      <4>4. CASE j < idx[i]
        <5>1. low[i] <= cg[j]
          BY <4>1, <4>4 DEF CutLow, WatermarkInv
        <5> QED
          BY <1>3, <3>3, <4>1, <4>2, <5>1 DEF Min2
      <4> QED
        BY <1>3, <3>3, <4>1, <4>2, <4>3, <4>4
    <3> QED
      BY <3>1, <3>2, <3>3
  <2>3. WatermarkSafe'
    BY <1>1, <2>1 DEF WatermarkSafe, WatermarkInv
  <2> QED
    BY <1>4, <1>6, <2>2, <2>3
<1>8. CASE CutStore(i)
  <2>1. /\ G' = low[i] /\ pc[i] = "cstore" /\ pc' = [pc EXCEPT ![i] = "cload"]
        /\ low' = [low EXCEPT ![i] = UMax] /\ idx' = idx
    BY <1>8 DEF CutStore, StoreG, Goto
  <2>2. CutLow'
    BY <1>1, <1>2, <2>1 DEF CutLow, WatermarkInv
  <2>3. WatermarkSafe'
    BY <1>1, <2>1 DEF WatermarkSafe, CutLow, WatermarkInv
  <2> QED
    BY <1>4, <1>6, <2>2, <2>3
<1> QED
  BY <1>7, <1>8

\* computeG after the reset: its stream has cg_ 0, so the watermark is cold.
LEMMA FinalWatermark ==
  ASSUME WatermarkInv, TypeOK', NEW i \in Streams, FinalScan(i) \/ FinalStore(i)
  PROVE  CutLow' /\ AdvLow' /\ AllStarted' /\ ResetStays' /\ WatermarkSafe'
<1>1. UNCHANGED <<cg, warm, adv>> /\ pc[i] \in {"gscan", "gstore"}
  BY DEF FinalScan, ScanStep, FinalStore, shared, history
<1>2. /\ pc \in [Streams -> Places] /\ low \in [Streams -> 0 .. UMax]
      /\ idx \in [Streams -> 0 .. N]
  BY DEF WatermarkInv, BarrierInv, TypeOK, ThreadType
<1>3. AdvLow' /\ AllStarted'
  BY <1>1 DEF AdvLow, AllStarted, WatermarkInv
<1>4. /\ pc'[i] \notin {"cscan", "cstore"}
      /\ \A j \in Streams : j # i => /\ pc'[j] = pc[j] /\ idx'[j] = idx[j]
                                     /\ low'[j] = low[j]
  BY <1>1, <1>2 DEF FinalScan, ScanStep, FinalStore, StoreG, Goto
<1>5. CutLow'
  BY <1>1, <1>4 DEF CutLow, WatermarkInv
<1>6. ResetStays'
  BY <1>1, <1>4 DEF ResetStays, WatermarkInv, AfterReset
<1>7. ~warm
  <2>1. cg[i] = 0
    BY <1>1 DEF ResetStays, WatermarkInv, AfterReset
  <2> QED
    BY <2>1 DEF AllStarted, WatermarkInv
<1> QED
  BY <1>1, <1>3, <1>5, <1>6, <1>7 DEF WatermarkSafe

LEMMA ScanIdleStep == TypeOK /\ ScanIdle /\ [Next]_vars => ScanIdle'
<1> SUFFICES ASSUME TypeOK, ScanIdle, [Next]_vars PROVE ScanIdle'
  OBVIOUS
<1>1. pc \in [Streams -> Places] /\ idx \in [Streams -> 0 .. N]
  BY DEF TypeOK, ThreadType
<1>2. CASE Advancer \/ Shutdown \/ UNCHANGED vars
  BY <1>2 DEF Advancer, AdvTop, AdvRead, AdvReread, AdvStore, Shutdown, vars,
              scanVars, ScanIdle
<1>3. ASSUME NEW i \in Streams, Deliver(i) PROVE ScanIdle'
  BY <1>1, <1>3 DEF Deliver, RecvBatch, RecvNoop, RecvEnd, Goto, scanVars, ScanIdle
<1>4. ASSUME NEW i \in Streams, ThreadStep(i) PROVE ScanIdle'
  <2>1. CASE CutScan(i) \/ FinalScan(i)
    BY <1>1, <2>1 DEF CutScan, FinalScan, ScanStep, Goto, ScanIdle
  <2>2. CASE CheckBatch(i) \/ DrainBatch(i) \/ Barrier1(i) \/ CutStore(i) \/ CutLoad(i)
    BY <1>1, <2>2 DEF CheckBatch, DrainBatch, Barrier1, CutStore, CutLoad, Goto,
                      scanVars, ScanIdle
  <2>3. CASE IncHole(i) \/ Barrier2(i) \/ ResetCg(i) \/ IncInit(i) \/ Barrier3(i)
    BY <1>1, <2>3 DEF IncHole, Barrier2, ResetCg, IncInit, Barrier3, Goto,
                      scanVars, ScanIdle
  <2>4. CASE FinalStore(i) \/ EndStore(i) \/ LagReplay(i) \/ LagDone(i)
    BY <1>1, <2>4 DEF FinalStore, EndStore, LagReplay, LagDone, Goto, scanVars,
                      ScanIdle
  <2> QED
    BY <1>4, <2>1, <2>2, <2>3, <2>4 DEF ThreadStep
<1> QED
  BY <1>2, <1>3, <1>4 DEF Next

LEMMA WatermarkNext == WatermarkInv /\ [Next]_vars => WatermarkInv'
<1> SUFFICES ASSUME WatermarkInv, [Next]_vars PROVE WatermarkInv'
  OBVIOUS
<1> DEFINE Rest == CutLow /\ AdvLow /\ AllStarted /\ ResetStays /\ WatermarkSafe
<1>1. BarrierInv' /\ TypeOK /\ TypeOK' /\ ScanIdle'
  BY BarrierNext, NextType, ScanIdleStep DEF WatermarkInv, BarrierInv
<1>2. /\ pc \in [Streams -> Places] /\ cg \in [Streams -> 0 .. MaxTs \cup {UMax}]
      /\ \A j \in Streams : cg[j] \in Nat /\ cg[j] <= UMax
  BY <1>1, CgRange, UMaxAssumption DEF TypeOK, ThreadType, SharedType
<1> SUFFICES Rest'
  BY <1>1 DEF WatermarkInv
<1>3. CASE Advancer
  BY <1>1, <1>3, AdvancerWatermark
<1>4. CASE Shutdown \/ UNCHANGED vars
  <2>1. UNCHANGED <<G, cg, warm, adv, idx, low, pc>>
    BY <1>4 DEF Shutdown, vars, shared, scanVars, history
  <2>2. \A j \in Streams : Harmless(j)
    BY <1>2, <2>1 DEF Harmless
  <2> QED
    BY <1>1, <2>1, <2>2, CgGrows
<1>5. ASSUME NEW i \in Streams, Deliver(i) PROVE Rest'
  <2>1. UNCHANGED <<G, warm, adv, idx, low>>
    BY <1>5 DEF Deliver, RecvBatch, RecvNoop, RecvEnd, shared, scanVars
  <2>2. \A j \in Streams : cg'[j] >= cg[j] /\ (j # i => cg'[j] = cg[j])
    BY <1>2, <1>5, MaxTsAssumption DEF Deliver, RecvBatch, RecvNoop, RecvEnd, shared
  <2>3. \A j \in Streams : /\ j # i => pc'[j] = pc[j]
                           /\ pc'[i] \in {"check", "b1", "endstore"}
    BY <1>2, <1>5 DEF Deliver, RecvBatch, RecvNoop, RecvEnd, Goto
  <2>4. \A j \in Streams : Harmless(j)
    BY <2>2, <2>3 DEF Harmless, AfterReset
  <2> QED
    BY <1>1, <2>1, <2>4, CgGrows
<1>6. ASSUME NEW i \in Streams, ThreadStep(i) PROVE Rest'
  <2>1. CASE ResetCg(i)
    BY <1>1, <2>1, ResetWatermark
  <2>2. CASE CutScan(i) \/ CutStore(i)
    BY <1>1, <2>2, CutWatermark
  <2>3. CASE FinalScan(i) \/ FinalStore(i)
    BY <1>1, <2>3, FinalWatermark
  <2>4. CASE Barrier1(i)
    <3>1. /\ UNCHANGED <<G, cg, warm, adv, idx, low>>
          /\ pc' = [pc EXCEPT ![i] = "cscan"] /\ pc[i] = "b1"
      BY <2>4 DEF Barrier1, Goto, shared, scanVars, history
    <3>2. idx[i] = 0
      BY <3>1 DEF WatermarkInv, ScanIdle
    <3>3. \A j \in Streams : j # i => pc'[j] = pc[j]
      BY <1>2, <3>1
    <3>4. \A j \in Streams : Harmless(j)
      BY <1>2, <3>1, <3>2, <3>3 DEF Harmless, AfterReset
    <3> QED
      BY <1>1, <3>1, <3>4, CgGrows
  <2>5. CASE EndStore(i)
    <3>1. /\ UNCHANGED <<G, warm, adv, idx, low>> /\ cg' = [cg EXCEPT ![i] = UMax]
          /\ pc' = [pc EXCEPT ![i] = "lag"]
      BY <2>5 DEF EndStore, Goto, scanVars, history
    <3>2. \A j \in Streams : cg'[j] >= cg[j] /\ (j # i => cg'[j] = cg[j])
      BY <1>2, <3>1, UMaxAssumption
    <3>3. \A j \in Streams : j # i => pc'[j] = pc[j]
      BY <1>2, <3>1
    <3>4. \A j \in Streams : Harmless(j)
      BY <1>2, <3>1, <3>2, <3>3 DEF Harmless, AfterReset
    <3> QED
      BY <1>1, <3>1, <3>4, CgGrows
  <2>6. CASE CheckBatch(i) \/ DrainBatch(i) \/ CutLoad(i) \/ LagReplay(i) \/ LagDone(i)
    <3>1. UNCHANGED <<G, cg, warm, adv, idx, low>>
      BY <2>6 DEF CheckBatch, DrainBatch, CutLoad, LagReplay, LagDone, shared,
                  scanVars, history
    <3>2. \A j \in Streams : pc'[j] = pc[j] \/ pc'[j] \in {"idle", "drain", "hole"}
      BY <1>2, <2>6 DEF CheckBatch, DrainBatch, CutLoad, LagReplay, LagDone, Goto
    <3>3. \A j \in Streams : Harmless(j)
      BY <1>2, <3>1, <3>2 DEF Harmless, AfterReset
    <3> QED
      BY <1>1, <3>1, <3>3, CgGrows
  <2>7. CASE IncHole(i) \/ Barrier2(i) \/ IncInit(i) \/ Barrier3(i)
    <3>1. UNCHANGED <<G, cg, warm, adv, idx, low>>
      BY <2>7 DEF IncHole, Barrier2, IncInit, Barrier3, shared, scanVars, history
    <3>2. \A j \in Streams : \/ pc'[j] = pc[j] \/ pc'[j] \in {"b2", "reset"}
                             \/ pc[j] \in AfterReset /\ pc'[j] \in {"b3", "gscan"}
      BY <1>2, <2>7 DEF IncHole, Barrier2, IncInit, Barrier3, Goto, AfterReset
    <3>3. \A j \in Streams : Harmless(j)
      BY <1>2, <3>1, <3>2 DEF Harmless, AfterReset
    <3> QED
      BY <1>1, <3>1, <3>3, CgGrows
  <2> QED
    BY <1>6, <2>1, <2>2, <2>3, <2>4, <2>5, <2>6, <2>7 DEF ThreadStep
<1> QED
  BY <1>3, <1>4, <1>5, <1>6 DEF Next

\* The inductive invariant of the watermark holds throughout.
THEOREM WatermarkCorrect == Spec => []WatermarkInv
<1> QED
  BY WatermarkInit, WatermarkNext, PTL DEF Spec

\* WatermarkSafe, for any number of streams: whatever the advancer's and
\* computeG's unsynchronised stores interleave to, G is at most every cg_.
THEOREM WatermarkSafeAlways == Spec => []WatermarkSafe
<1>1. WatermarkInv => WatermarkSafe
  BY DEF WatermarkInv
<1> QED
  BY <1>1, WatermarkCorrect, PTL

-----------------------------------------------------------------------------
\* What one step replays is at most the watermark, at each place that replays.
LEMMA ReplayBelowG ==
  ASSUME TypeOK, [Next]_vars, NEW i \in Streams, NEW e \in applied'[i] \ applied[i]
  PROVE  e.cid <= G
<1>1. /\ applied \in [Streams -> SUBSET LogEntry]
      /\ queue \in [Streams -> Seq(LogEntry)]
      /\ hold \in [Streams -> LogEntry \cup {NoEntry}]
      /\ \A k \in Streams : pc[k] = "check" => hold[k] # NoEntry
  BY DEF TypeOK, HistoryType, ThreadType
<1>2. G \in Nat /\ \A f \in LogEntry : f.cid \in Nat
  BY UMaxAssumption, MaxTsAssumption DEF TypeOK, SharedType, LogEntry
<1>3. applied' # applied
  OBVIOUS
<1>4. PICK k \in Streams : CheckBatch(k) \/ DrainBatch(k) \/ CutLoad(k)
                           \/ ResetCg(k) \/ LagReplay(k)
  <2>1. ~Advancer /\ ~Shutdown /\ ~UNCHANGED vars
    BY <1>3 DEF Advancer, AdvTop, AdvRead, AdvReread, AdvStore, Shutdown, vars,
                history, ledger
  <2>2. \A k \in Streams : ~Deliver(k)
    BY <1>3 DEF Deliver, RecvBatch, RecvNoop, RecvEnd, ledger
  <2>3. PICK k \in Streams : ThreadStep(k)
    BY <2>1, <2>2 DEF Next
  <2> QED
    BY <1>3, <2>3 DEF ThreadStep, Barrier1, CutScan, ScanStep, CutStore, IncHole,
       Barrier2, IncInit, Barrier3, FinalScan, FinalStore, EndStore, LagDone, history
<1>5. CASE CheckBatch(k)
  <2>1. i = k /\ e = hold[k] /\ ~(hold[k].cid > G) /\ hold[k] \in LogEntry
    BY <1>1, <1>5 DEF CheckBatch
  <2> QED
    BY <1>2, <2>1
<1>6. CASE DrainBatch(k)
  BY <1>1, <1>6 DEF DrainBatch, Ready
<1>7. CASE CutLoad(k)
  BY <1>1, <1>7 DEF CutLoad
<1>8. CASE ResetCg(k)
  BY <1>1, <1>8 DEF ResetCg
<1>9. CASE LagReplay(k)
  BY <1>1, <1>9 DEF LagReplay
<1> QED
  BY <1>4, <1>5, <1>6, <1>7, <1>8, <1>9

LEMMA ReplayStep ==
  WatermarkInv /\ [Next]_vars =>
    (warm => \A i, j \in Streams :
               \A e \in applied'[i] \ applied[i] : e.cid <= cg[j])
<1> SUFFICES ASSUME WatermarkInv, [Next]_vars, warm, NEW i \in Streams,
                    NEW j \in Streams, NEW e \in applied'[i] \ applied[i]
             PROVE  e.cid <= cg[j]
  OBVIOUS
<1>1. TypeOK /\ TypeOK' /\ G <= cg[j] /\ cg[j] \in Nat
  BY CgNat, NextType DEF WatermarkInv, BarrierInv, WatermarkSafe
<1>2. e.cid <= G
  BY <1>1, ReplayBelowG
<1>3. e \in LogEntry
  BY <1>1 DEF TypeOK, HistoryType
<1>4. e.cid \in Nat /\ G \in Nat
  BY <1>1, <1>3, MaxTsAssumption, UMaxAssumption DEF LogEntry, TypeOK, SharedType
<1> QED
  BY <1>1, <1>2, <1>4

\* ReplaySafe, for any number of streams: nothing the callback replays, in the
\* safety check, in either drain loop or in the lag stage, is above what any
\* stream has delivered.
THEOREM ReplaySafeAlways == Spec => ReplaySafe
<1> QED
  BY WatermarkCorrect, ReplayStep, PTL DEF ReplaySafe, Spec
=============================================================================
