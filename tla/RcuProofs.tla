----------------------------- MODULE RcuProofs -----------------------------
(***************************************************************************)
(* Proofs about the epoch clock and the reclamation built on it (modules   *)
(* Ticker and Rcu), for any number of cores, objects, slots and ticks.     *)
(*                                                                         *)
(* The argument.  ClockInv says where every core's guard may stand while   *)
(* tickerloop() visits the slots: a visited core is in the current tick or *)
(* outside, any other at most one tick behind.  It is inductive together   *)
(* with the types; it gives that no guard stands in a completed tick, and  *)
(* that Ticker implements EpochClock.  ReclaimInv adds that whoever holds  *)
(* a queued object entered its region no later than the tick the object is *)
(* queued under, which NoUseAfterFree follows from.                        *)
(***************************************************************************)
EXTENDS Rcu, TLAPS

\* tickerloop() is past slot c, or is not visiting.
Visited(c) == tpc \in {"bump", "publish"} \/ c < slot

SlotInv(c) ==
  /\ tick_[c] \in {current_tick_ - 1, current_tick_}
  /\ seen[c] \in {0, current_tick_ - 1, current_tick_}
  /\ Visited(c) => tick_[c] = current_tick_ /\ seen[c] \in {0, current_tick_}
  /\ seen[c] # 0 <=> gpc[c] \in {"store", "in"}
  /\ gpc[c] \in {"read", "store", "in"} => lock_[c] = c
  /\ gpc[c] = "store" => tick_[c] <= seen[c]
  /\ gpc[c] = "in" => tick_[c] = seen[c]

LoopInv ==
  /\ tpc = "bump" => current_tick_ = last_tick_inclusive_ + 1
  /\ tpc # "bump" => current_tick_ = last_tick_inclusive_ + 2
  /\ tpc = "store" => lock_[slot] = TICKER

ClockInv == LoopInv /\ \A c \in Cores : SlotInv(c)

ControlType == gpc \in [Cores -> {"out", "read", "store", "in", "cleanup", "reap"}]

RcuType ==
  /\ ptr \in [Slots -> Objects \union {null}]
  /\ objst \in [Objects -> {"free", "live", "retired"}]
  /\ held \in [Cores -> SUBSET Objects]
  /\ queue_ \in [Cores -> Seq(Entry)]
  /\ scratch_ \in [Cores -> Seq(Entry)]
  /\ last_reaped_epoch_ \in [Cores -> Nat]
  /\ reaping \in [Cores -> BOOLEAN]

\* What do_cleanup() does to the clock's variables: only the core's own control.
CleanupStep(c) ==
  /\ gpc[c] = "cleanup"
  /\ \E to \in {"out", "reap"} : gpc' = [gpc EXCEPT ![c] = to]
  /\ UNCHANGED <<current_tick_, last_tick_inclusive_, tick_, lock_, depth_, seen, tpc, slot>>

\* What a step of Rcu is to the clock.
GuardStep(c) ==
  \/ GuardLock(c, "out") \/ GuardLock(c, "reap") \/ GuardRead(c) \/ GuardStore(c)
  \/ GuardNested(c) \/ GuardPop(c) \/ GuardEnd(c, "cleanup") \/ CleanupStep(c)

\* A step of Rcu is a step of tickerloop(), of one guard, or none of the clock's.
LEMMA StepOfClock ==
  ASSUME [Next]_vars
  PROVE TickerLoop \/ (\E c \in Cores : GuardStep(c)) \/ UNCHANGED tickerVars
<1>1. CASE Ticking BY <1>1 DEF Ticking
<1>2. ASSUME NEW c \in Cores, Region(c) PROVE GuardStep(c) \/ UNCHANGED tickerVars
  <2>1. CASE CleanupSkip(c) BY <2>1 DEF CleanupSkip, GuardStep, CleanupStep
  <2>2. CASE Cleanup(c) BY <2>2 DEF Cleanup, GuardStep, CleanupStep
  <2>3. CASE RunDeleter(c) BY <2>3 DEF RunDeleter
  <2>4. CASE RegionEnd(c) BY <2>4 DEF RegionEnd, GuardStep
  <2> QED BY <1>2, <2>1, <2>2, <2>3, <2>4 DEF Region, Enter, GuardStep
<1>3. ASSUME NEW c \in Cores, Client(c) PROVE UNCHANGED tickerVars
  BY <1>3 DEF Client, Load, Unlink, Alloc
<1>4. CASE UNCHANGED vars BY <1>4 DEF vars
<1> QED BY <1>1, <1>2, <1>3, <1>4 DEF Next

LEMMA TypeParts == TypeOK <=> TickerTypeOK /\ ControlType /\ RcuType
  BY DEF TypeOK, ControlType, RcuType

-----------------------------------------------------------------------------
(* Division by EpochTimeMultiplier.                                        *)

LEMMA DivBounds ==
  ASSUME NEW a \in Nat, NEW m \in Nat \ {0}
  PROVE /\ a \div m \in Nat
        /\ m * (a \div m) <= a
        /\ a < m * ((a \div m) + 1)
  BY SMT

LEMMA TimesMonotone ==
  ASSUME NEW p \in Nat, NEW q \in Nat, NEW m \in Nat \ {0}, p >= q + 1
  PROVE m * p >= m * (q + 1)
  BY SMT

LEMMA DivMonotone ==
  ASSUME NEW a \in Nat, NEW b \in Nat, NEW m \in Nat \ {0}, a <= b
  PROVE a \div m <= b \div m
<1> DEFINE p == a \div m
           q == b \div m
<1>1. /\ p \in Nat /\ m * p <= a
      /\ q \in Nat /\ b < m * (q + 1)
  BY DivBounds
<1>2. SUFFICES ASSUME p >= q + 1 PROVE FALSE
  BY <1>1
<1>3. m * p >= m * (q + 1)
  BY <1>1, <1>2, TimesMonotone
<1> HIDE DEF p, q
<1>4. m * p \in Int /\ m * (q + 1) \in Int
  BY <1>1
<1> QED BY <1>1, <1>3, <1>4

-----------------------------------------------------------------------------
LEMMA ClockInit == Init => TickerTypeOK /\ ControlType /\ ClockInv
  BY TickerAssumption
     DEF Cores, Init, TickerInit, TickerTypeOK, ControlType, ClockInv, LoopInv, SlotInv, Visited,
         Free, TICKER, PERSISTER

LEMMA LoopKeepsClock ==
  ASSUME TickerTypeOK, ControlType, ClockInv, TickerLoop
  PROVE TickerTypeOK' /\ ControlType' /\ ClockInv'
<1> USE DEF TickerTypeOK, ControlType
<1>0. 1 \in Cores /\ slot \in Int /\ (slot < NCores => slot + 1 \in Cores)
  BY TickerAssumption DEF Cores
<1>a. /\ \A d \in Cores : d \in Int /\ d >= 1 /\ d <= NCores
      /\ MaxTick \in Int /\ NCores \in Int
  BY TickerAssumption DEF Cores
<1>1. CASE TickBump
  <2>1. TickerTypeOK' /\ ControlType'
    BY <1>0, <1>a, <1>1 DEF TickBump
  <2>2. LoopInv'
    BY <1>0, <1>a, <1>1 DEF TickBump, ClockInv, LoopInv, SlotInv, Visited
  <2>3. ASSUME NEW d \in Cores PROVE SlotInv(d)'
    <3>1. SlotInv(d) /\ SlotInv(slot) /\ LoopInv BY DEF ClockInv
    <3> QED BY <1>0, <1>a, <1>1, <3>1 DEF TickBump, LoopInv, SlotInv, Visited
  <2> QED BY <2>1, <2>2, <2>3 DEF ClockInv
<1>2. CASE TickVisit
  <2>1. CASE tick_[slot] = current_tick_ /\ slot < NCores
    <3>1. TickerTypeOK' /\ ControlType'
      BY <1>0, <1>a, <1>2, <2>1 DEF TickVisit, NextSlot
    <3>2. LoopInv'
      BY <1>0, <1>a, <1>2, <2>1 DEF TickVisit, NextSlot, ClockInv, LoopInv, SlotInv, Visited
    <3>3. ASSUME NEW d \in Cores PROVE SlotInv(d)'
      <4>1. SlotInv(d) /\ SlotInv(slot) /\ LoopInv BY DEF ClockInv
      <4> QED BY <1>0, <1>a, <1>2, <2>1, <4>1 DEF TickVisit, NextSlot, LoopInv, SlotInv, Visited
    <3> QED BY <3>1, <3>2, <3>3 DEF ClockInv
  <2>2. CASE tick_[slot] = current_tick_ /\ ~(slot < NCores)
    <3>1. TickerTypeOK' /\ ControlType'
      BY <1>0, <1>a, <1>2, <2>2 DEF TickVisit, NextSlot
    <3>2. LoopInv'
      BY <1>0, <1>a, <1>2, <2>2 DEF TickVisit, NextSlot, ClockInv, LoopInv, SlotInv, Visited
    <3>3. ASSUME NEW d \in Cores PROVE SlotInv(d)'
      <4>1. SlotInv(d) /\ SlotInv(slot) /\ LoopInv BY DEF ClockInv
      <4> QED BY <1>0, <1>a, <1>2, <2>2, <4>1 DEF TickVisit, NextSlot, LoopInv, SlotInv, Visited
    <3> QED BY <3>1, <3>2, <3>3 DEF ClockInv
  <2>3. CASE tick_[slot] # current_tick_
    <3>1. TickerTypeOK' /\ ControlType'
      BY <1>0, <1>a, <1>2, <2>3 DEF TickVisit
    <3>2. LoopInv'
      BY <1>0, <1>a, <1>2, <2>3 DEF TickVisit, ClockInv, LoopInv, SlotInv, Visited
    <3>3. ASSUME NEW d \in Cores PROVE SlotInv(d)'
      <4>1. SlotInv(d) /\ SlotInv(slot) /\ LoopInv BY DEF ClockInv
      <4> QED BY <1>0, <1>a, <1>2, <2>3, <4>1 DEF TickVisit, LoopInv, SlotInv, Visited
    <3> QED BY <3>1, <3>2, <3>3 DEF ClockInv
  <2> QED BY <2>1, <2>2, <2>3
<1>3. CASE TickLock
  <2>1. TickerTypeOK' /\ ControlType'
    BY <1>0, <1>a, <1>3 DEF TickLock, Free, TICKER, PERSISTER
  <2>2. LoopInv'
    BY <1>0, <1>a, <1>3 DEF TickLock, Free, TICKER, PERSISTER, ClockInv, LoopInv, SlotInv, Visited
  <2>3. ASSUME NEW d \in Cores PROVE SlotInv(d)'
    <3>1. SlotInv(d) /\ SlotInv(slot) /\ LoopInv BY DEF ClockInv
    <3> QED BY <1>0, <1>a, <1>3, <3>1 DEF TickLock, Free, TICKER, PERSISTER, LoopInv, SlotInv, Visited
  <2> QED BY <2>1, <2>2, <2>3 DEF ClockInv
<1>4. CASE TickStore
  <2>1. CASE slot < NCores
    <3>1. TickerTypeOK' /\ ControlType'
      BY <1>0, <1>a, <1>4, <2>1 DEF TickStore, NextSlot, Free, TICKER, PERSISTER
    <3>2. LoopInv'
      BY <1>0, <1>a, <1>4, <2>1 DEF TickStore, NextSlot, Free, TICKER, PERSISTER, ClockInv, LoopInv, SlotInv, Visited
    <3>3. ASSUME NEW d \in Cores PROVE SlotInv(d)'
      <4>1. SlotInv(d) /\ SlotInv(slot) /\ LoopInv BY DEF ClockInv
      <4> QED BY <1>0, <1>a, <1>4, <2>1, <4>1 DEF TickStore, NextSlot, Free, TICKER, PERSISTER, LoopInv, SlotInv, Visited
    <3> QED BY <3>1, <3>2, <3>3 DEF ClockInv
  <2>2. CASE ~(slot < NCores)
    <3>1. TickerTypeOK' /\ ControlType'
      BY <1>0, <1>a, <1>4, <2>2 DEF TickStore, NextSlot, Free, TICKER, PERSISTER
    <3>2. LoopInv'
      BY <1>0, <1>a, <1>4, <2>2 DEF TickStore, NextSlot, Free, TICKER, PERSISTER, ClockInv, LoopInv, SlotInv, Visited
    <3>3. ASSUME NEW d \in Cores PROVE SlotInv(d)'
      <4>1. SlotInv(d) /\ SlotInv(slot) /\ LoopInv BY DEF ClockInv
      <4> QED BY <1>0, <1>a, <1>4, <2>2, <4>1 DEF TickStore, NextSlot, Free, TICKER, PERSISTER, LoopInv, SlotInv, Visited
    <3> QED BY <3>1, <3>2, <3>3 DEF ClockInv
  <2> QED BY <2>1, <2>2
<1>5. CASE TickPublish
  <2>1. TickerTypeOK' /\ ControlType'
    BY <1>0, <1>a, <1>5 DEF TickPublish
  <2>2. LoopInv'
    BY <1>0, <1>a, <1>5 DEF TickPublish, ClockInv, LoopInv, SlotInv, Visited
  <2>3. ASSUME NEW d \in Cores PROVE SlotInv(d)'
    <3>1. SlotInv(d) /\ SlotInv(slot) /\ LoopInv BY DEF ClockInv
    <3> QED BY <1>0, <1>a, <1>5, <3>1 DEF TickPublish, LoopInv, SlotInv, Visited
  <2> QED BY <2>1, <2>2, <2>3 DEF ClockInv
<1> QED BY <1>1, <1>2, <1>3, <1>4, <1>5 DEF TickerLoop

LEMMA GuardKeepsClock ==
  ASSUME TickerTypeOK, ControlType, ClockInv, NEW c \in Cores, GuardStep(c)
  PROVE TickerTypeOK' /\ ControlType' /\ ClockInv'
<1> USE DEF TickerTypeOK, ControlType
<1>a. /\ \A d \in Cores : d \in Int /\ d >= 1
      /\ MaxTick \in Nat /\ MaxDepth \in Nat \ {0}
  BY TickerAssumption DEF Cores
<1>1. ASSUME NEW from \in {"out", "reap"}, GuardLock(c, from)
      PROVE TickerTypeOK' /\ ControlType' /\ ClockInv'
  <2>1. TickerTypeOK' /\ ControlType'
    BY <1>a, <1>1 DEF GuardLock, Free, TICKER, PERSISTER
  <2>2. LoopInv'
    BY <1>a, <1>1 DEF GuardLock, Free, TICKER, PERSISTER, ClockInv, LoopInv, SlotInv, Visited
  <2>3. ASSUME NEW d \in Cores PROVE SlotInv(d)'
    <3>1. SlotInv(d) /\ SlotInv(slot) /\ LoopInv BY DEF ClockInv
    <3> QED BY <1>a, <1>1, <3>1 DEF GuardLock, Free, TICKER, PERSISTER, LoopInv, SlotInv, Visited
  <2> QED BY <2>1, <2>2, <2>3 DEF ClockInv
<1>2. CASE GuardRead(c)
  <2>1. TickerTypeOK' /\ ControlType'
    BY <1>a, <1>2 DEF GuardRead
  <2>2. LoopInv'
    BY <1>a, <1>2 DEF GuardRead, ClockInv, LoopInv, SlotInv, Visited
  <2>3. ASSUME NEW d \in Cores PROVE SlotInv(d)'
    <3>1. SlotInv(d) /\ SlotInv(slot) /\ LoopInv BY DEF ClockInv
    <3> QED BY <1>a, <1>2, <3>1 DEF GuardRead, LoopInv, SlotInv, Visited
  <2> QED BY <2>1, <2>2, <2>3 DEF ClockInv
<1>3. CASE GuardStore(c)
  <2>1. TickerTypeOK' /\ ControlType'
    BY <1>a, <1>3 DEF GuardStore, ClockInv, SlotInv
  <2>2. LoopInv'
    BY <1>a, <1>3 DEF GuardStore, ClockInv, LoopInv, SlotInv, Visited
  <2>3. ASSUME NEW d \in Cores PROVE SlotInv(d)'
    <3>1. SlotInv(d) /\ SlotInv(slot) /\ LoopInv BY DEF ClockInv
    <3> QED BY <1>a, <1>3, <3>1 DEF GuardStore, LoopInv, SlotInv, Visited
  <2> QED BY <2>1, <2>2, <2>3 DEF ClockInv
<1>4. CASE GuardNested(c) \/ GuardPop(c)
  <2>1. TickerTypeOK' /\ ControlType'
    BY <1>a, <1>4 DEF GuardNested, GuardPop, InRegion
  <2>2. LoopInv'
    BY <1>a, <1>4 DEF GuardNested, GuardPop, InRegion, ClockInv, LoopInv, SlotInv, Visited
  <2>3. ASSUME NEW d \in Cores PROVE SlotInv(d)'
    <3>1. SlotInv(d) /\ SlotInv(slot) /\ LoopInv BY DEF ClockInv
    <3> QED BY <1>a, <1>4, <3>1 DEF GuardNested, GuardPop, InRegion, LoopInv, SlotInv, Visited
  <2> QED BY <2>1, <2>2, <2>3 DEF ClockInv
<1>5. CASE GuardEnd(c, "cleanup")
  <2>1. TickerTypeOK' /\ ControlType'
    BY <1>a, <1>5 DEF GuardEnd, InRegion, Free, TICKER, PERSISTER
  <2>2. LoopInv'
    BY <1>a, <1>5 DEF GuardEnd, InRegion, Free, TICKER, PERSISTER, ClockInv, LoopInv, SlotInv, Visited
  <2>3. ASSUME NEW d \in Cores PROVE SlotInv(d)'
    <3>1. SlotInv(d) /\ SlotInv(slot) /\ LoopInv BY DEF ClockInv
    <3> QED BY <1>a, <1>5, <3>1 DEF GuardEnd, InRegion, Free, TICKER, PERSISTER, LoopInv, SlotInv, Visited
  <2> QED BY <2>1, <2>2, <2>3 DEF ClockInv
<1>6. CASE CleanupStep(c)
  <2>1. TickerTypeOK' /\ ControlType'
    BY <1>a, <1>6 DEF CleanupStep
  <2>2. LoopInv'
    BY <1>a, <1>6 DEF CleanupStep, ClockInv, LoopInv, SlotInv, Visited
  <2>3. ASSUME NEW d \in Cores PROVE SlotInv(d)'
    <3>1. SlotInv(d) /\ SlotInv(slot) /\ LoopInv BY DEF ClockInv
    <3> QED BY <1>a, <1>6, <3>1 DEF CleanupStep, LoopInv, SlotInv, Visited
  <2> QED BY <2>1, <2>2, <2>3 DEF ClockInv
<1> QED BY <1>1, <1>2, <1>3, <1>4, <1>5, <1>6 DEF GuardStep

LEMMA ClockStep ==
  ASSUME TickerTypeOK, ControlType, ClockInv, [Next]_vars
  PROVE TickerTypeOK' /\ ControlType' /\ ClockInv'
<1>1. CASE UNCHANGED tickerVars
  BY <1>1 DEF tickerVars, TickerTypeOK, ControlType, ClockInv, LoopInv, SlotInv, Visited
<1> QED BY <1>1, StepOfClock, LoopKeepsClock, GuardKeepsClock

LEMMA RcuTypeInit == Init => RcuType
  BY DEF Init, RcuInit, RcuType

LEMMA RcuTypeStep ==
  ASSUME RcuType, TickerTypeOK, [Next]_vars
  PROVE RcuType'
<1> USE DEF RcuType
<1>1. CASE UNCHANGED rcuVars BY <1>1 DEF rcuVars
<1>2. ASSUME NEW c \in Cores, NEW s \in Slots, Load(c, s) PROVE RcuType'
  BY <1>2 DEF Load
<1>3. ASSUME NEW c \in Cores, NEW s \in Slots, Unlink(c, s) PROVE RcuType'
  <2>1. RetireTick(c) \in Nat
    BY RcuAssumption, TickerAssumption, DivBounds, tick_[c] + 1 \in Nat
       DEF RetireTick, to_rcu_ticks, TickerTypeOK
  <2>2. [obj |-> ptr[s], tick |-> RetireTick(c)] \in Entry
    BY <1>3, <2>1 DEF Unlink, Entry
  <2> QED BY <1>3, <2>2 DEF Unlink
<1>4. ASSUME NEW c \in Cores, NEW s \in Slots, NEW o \in Objects, Alloc(c, s, o) PROVE RcuType'
  BY <1>4 DEF Alloc
<1>5. ASSUME NEW c \in Cores, RegionEnd(c) PROVE RcuType'
  BY <1>5 DEF RegionEnd
<1>6. ASSUME NEW c \in Cores, Cleanup(c) PROVE RcuType'
  <2>1. cleaning_rcu_tick_exclusive \in Nat
    BY RcuAssumption, TickerAssumption, DivBounds, last_tick_inclusive_ + 1 \in Nat
       DEF cleaning_rcu_tick_exclusive, global_last_tick_exclusive, to_rcu_ticks, TickerTypeOK
  <2>2. cleaning_rcu_tick_exclusive - 1 \in Nat
    BY <1>6, <2>1 DEF Cleanup
  <2>3. PICK n \in 0..Len(queue_[c]) :
          /\ scratch_' = [scratch_ EXCEPT ![c] = SubSeq(queue_[c], 1, n)]
          /\ queue_' = [queue_ EXCEPT ![c] = SubSeq(queue_[c], n + 1, Len(queue_[c]))]
          /\ reaping' = [reaping EXCEPT ![c] = n > 0]
    BY <1>6 DEF Cleanup
  <2>4. queue_[c] \in Seq(Entry) OBVIOUS
  <2>5. /\ SubSeq(queue_[c], 1, n) \in Seq(Entry)
        /\ SubSeq(queue_[c], n + 1, Len(queue_[c])) \in Seq(Entry)
    BY <2>4
  <2>6. reaping' \in [Cores -> BOOLEAN]
    BY <2>3
  <2> QED BY <1>6, <2>2, <2>3, <2>5, <2>6 DEF Cleanup
<1>7. ASSUME NEW c \in Cores, RunDeleter(c) PROVE RcuType'
  <2>1. scratch_[c] \in Seq(Entry) /\ scratch_[c] # << >>
    BY <1>7 DEF RunDeleter
  <2>2. Tail(scratch_[c]) \in Seq(Entry)
    BY <2>1
  <2> QED BY <1>7, <2>2 DEF RunDeleter
<1>8. ASSUME NEW c \in Cores, CleanupSkip(c) PROVE RcuType'
  BY <1>1, <1>8 DEF CleanupSkip
<1>9. CASE UNCHANGED vars BY <1>1, <1>9 DEF vars
<1> QED
  BY <1>1, <1>2, <1>3, <1>4, <1>5, <1>6, <1>7, <1>8, <1>9
     DEF Next, Ticking, Region, Client

LEMMA ClockInvariant == Spec => [](TypeOK /\ ClockInv)
<1>1. Init => TypeOK /\ ClockInv
  BY ClockInit, RcuTypeInit, TypeParts
<1>2. TypeOK /\ ClockInv /\ [Next]_vars => TypeOK' /\ ClockInv'
  BY ClockStep, RcuTypeStep, TypeParts DEF TypeOK, TickerTypeOK, ControlType, RcuType
<1> QED BY <1>1, <1>2, PTL DEF Spec

\* TypeOK: every variable of Ticker and Rcu keeps its type, the queues hold
\* entries with an object and an RCU tick, for any number of cores and ticks.
THEOREM TypeCorrect == Spec => []TypeOK
  BY ClockInvariant, PTL

-----------------------------------------------------------------------------
(* The epoch clock.                                                        *)

\* NoRegionInCompletedTick and OneTickApart, what ~guard() and tickerloop()
\* assert: no core is inside a guard whose tick has been declared complete, and
\* no core is more than one tick behind the clock, for any number of cores.
THEOREM ClockCorrect == Spec => [](NoRegionInCompletedTick /\ OneTickApart)
<1>1. ASSUME TypeOK, ClockInv, NEW c \in Cores
      PROVE /\ gpc[c] \in {"store", "in"} => seen[c] > last_tick_inclusive_
            /\ tick_[c] \in {current_tick_ - 1, current_tick_}
  <2>1. SlotInv(c) /\ LoopInv /\ TickerTypeOK
    BY <1>1 DEF ClockInv, TypeOK
  <2>2. /\ current_tick_ \in Int /\ last_tick_inclusive_ \in Int
        /\ tpc \in {"bump", "visit", "lock", "store", "publish"}
    BY <2>1, TickerAssumption DEF TickerTypeOK
  <2> QED BY <2>1, <2>2 DEF SlotInv, LoopInv, Visited
<1>2. TypeOK /\ ClockInv => NoRegionInCompletedTick /\ OneTickApart
  BY <1>1 DEF NoRegionInCompletedTick, OneTickApart
<1> QED BY <1>2, ClockInvariant, PTL

\* ImplementsClock: the spinlocks of the slots and the visits of tickerloop()
\* implement the clock of EpochClock, whatever the cores do with their guards.
THEOREM ClockImplemented == Spec => ImplementsClock
<1> USE DEF Clock!Cores, Cores
<1>1. Init => Clock!ClockInit
  BY DEF Init, TickerInit, Clock!ClockInit
<1>2. TypeOK /\ ClockInv /\ [Next]_vars => [Clock!ClockNext]_(Clock!clockVars)
  <2> SUFFICES ASSUME TypeOK, ClockInv, [Next]_vars
               PROVE Clock!ClockNext \/ UNCHANGED Clock!clockVars
    OBVIOUS
  <2>1. CASE UNCHANGED tickerVars
    BY <2>1 DEF tickerVars, Clock!clockVars
  <2>2. CASE TickBump
    BY <2>2 DEF TickBump, ClockInv, LoopInv, Clock!ClockNext, Clock!Clock, Clock!Advance
  <2>3. CASE TickPublish
    BY <2>3 DEF TickPublish, ClockInv, LoopInv, SlotInv, Visited,
                Clock!ClockNext, Clock!Clock, Clock!Complete
  <2>4. CASE TickVisit \/ TickLock \/ TickStore
    BY <2>4 DEF TickVisit, TickLock, TickStore, Clock!clockVars
  <2>5. ASSUME NEW c \in Cores, GuardStep(c)
        PROVE Clock!ClockNext \/ UNCHANGED Clock!clockVars
    <3>1. CASE GuardRead(c)
      <4>1. seen[c] = 0
        BY <3>1 DEF GuardRead, ClockInv, SlotInv
      <4> QED BY <3>1, <4>1 DEF GuardRead, Clock!ClockNext, Clock!Enter
    <3>2. CASE GuardEnd(c, "cleanup")
      <4>1. seen[c] # 0
        BY <3>2 DEF GuardEnd, InRegion, ClockInv, SlotInv
      <4> QED BY <3>2, <4>1 DEF GuardEnd, Clock!ClockNext, Clock!Leave
    <3>3. CASE GuardLock(c, "out") \/ GuardLock(c, "reap") \/ GuardStore(c)
      BY <3>3 DEF GuardLock, GuardStore, Clock!clockVars
    <3>4. CASE GuardNested(c) \/ GuardPop(c) \/ CleanupStep(c)
      BY <3>4 DEF GuardNested, GuardPop, CleanupStep, Clock!clockVars
    <3> QED BY <2>5, <3>1, <3>2, <3>3, <3>4 DEF GuardStep
  <2> QED BY <2>1, <2>2, <2>3, <2>4, <2>5, StepOfClock DEF TickerLoop
<1> QED BY <1>1, <1>2, ClockInvariant, PTL DEF Spec, ImplementsClock, Clock!ClockSpec

-----------------------------------------------------------------------------
(* Reclamation.                                                            *)

\* The objects of q are queued, and whoever holds one entered its region in a
\* tick no later than the one the object is queued under.
Guarded(q) ==
  \A i \in DOMAIN q :
    /\ objst[q[i].obj] = "retired"
    /\ \A h \in Cores : q[i].obj \in held[h] => to_rcu_ticks(seen[h]) <= q[i].tick

Single(q) == \A i, j \in DOMAIN q : q[i].obj = q[j].obj => i = j
Apart(q, r) == \A i \in DOMAIN q, j \in DOMAIN r : q[i].obj # r[j].obj

\* Every queued object is in one place.
OnePlace ==
  /\ \A c \in Cores : Single(queue_[c]) /\ Single(scratch_[c])
  /\ \A c, d \in Cores : Apart(queue_[c], scratch_[d])
  /\ \A c, d \in Cores : c # d => /\ Apart(queue_[c], queue_[d])
                                  /\ Apart(scratch_[c], scratch_[d])

QueueInv == \A c \in Cores : Guarded(queue_[c]) /\ Guarded(scratch_[c])

\* What the deleters run on is old enough.
ScratchInv ==
  \A c \in Cores : \A i \in DOMAIN scratch_[c] :
    scratch_[c][i].tick < cleaning_rcu_tick_exclusive

\* The shared pointers lead to linked objects, one each.
LinkInv ==
  /\ \A s \in Slots : ptr[s] # null => objst[ptr[s]] = "live"
  /\ \A s, t \in Slots : ptr[s] = ptr[t] /\ ptr[s] # null => s = t

\* A core holds pointers only inside its region.
HeldInv == \A c \in Cores : held[c] # {} => gpc[c] = "in"

ReclaimInv == OnePlace /\ QueueInv /\ ScratchInv /\ LinkInv /\ HeldInv /\ NoUseAfterFree

LEMMA ReclaimInit == Init => ReclaimInv
<1> SUFFICES ASSUME Init PROVE ReclaimInv OBVIOUS
<1>1. \A c \in Cores : queue_[c] = << >> /\ scratch_[c] = << >> /\ held[c] = {}
  BY DEF Init, RcuInit
<1>2. OnePlace BY <1>1 DEF OnePlace, Single, Apart
<1>3. QueueInv /\ ScratchInv BY <1>1 DEF QueueInv, Guarded, ScratchInv
<1>4. LinkInv BY DEF Init, RcuInit, LinkInv
<1>5. HeldInv /\ NoUseAfterFree BY <1>1 DEF HeldInv, NoUseAfterFree
<1> QED BY <1>2, <1>3, <1>4, <1>5 DEF ReclaimInv

\* The RCU tick that may be cleaned never goes back.
LEMMA RcuTicksMonotone ==
  ASSUME NEW a \in Nat, NEW b \in Nat, a <= b
  PROVE /\ to_rcu_ticks(a) \in Nat
        /\ to_rcu_ticks(b) \in Nat
        /\ to_rcu_ticks(a) <= to_rcu_ticks(b)
<1>1. a \div EpochTimeMultiplier \in Nat /\ b \div EpochTimeMultiplier \in Nat
  BY RcuAssumption, DivBounds
<1>2. a \div EpochTimeMultiplier <= b \div EpochTimeMultiplier
  BY RcuAssumption, DivMonotone
<1> QED BY <1>1, <1>2 DEF to_rcu_ticks

LEMMA CleaningMonotone ==
  ASSUME TypeOK, TypeOK', last_tick_inclusive_' >= last_tick_inclusive_
  PROVE /\ cleaning_rcu_tick_exclusive \in Nat
        /\ cleaning_rcu_tick_exclusive' \in Nat
        /\ cleaning_rcu_tick_exclusive <= cleaning_rcu_tick_exclusive'
<1>1. ASSUME NEW a \in Nat, NEW b \in Nat, b >= a
      PROVE /\ to_rcu_ticks(a + 1) \in Nat
            /\ to_rcu_ticks(b + 1) \in Nat
            /\ to_rcu_ticks(a + 1) <= to_rcu_ticks(b + 1)
  <2>1. a + 1 \in Nat /\ b + 1 \in Nat /\ a + 1 <= b + 1 BY <1>1
  <2> QED BY <2>1, RcuTicksMonotone
<1>2. last_tick_inclusive_ \in 0..MaxTick /\ MaxTick \in Nat
  BY TickerAssumption DEF TypeOK, TickerTypeOK
<1>3. last_tick_inclusive_' \in 0..MaxTick BY DEF TypeOK, TickerTypeOK
<1>4. last_tick_inclusive_ \in Nat BY <1>2
<1>5. last_tick_inclusive_' \in Nat BY <1>2, <1>3
<1>6. /\ to_rcu_ticks(last_tick_inclusive_ + 1) \in Nat
      /\ to_rcu_ticks(last_tick_inclusive_' + 1) \in Nat
      /\ to_rcu_ticks(last_tick_inclusive_ + 1) <= to_rcu_ticks(last_tick_inclusive_' + 1)
  BY <1>1, <1>4, <1>5
<1> QED BY <1>6 DEF cleaning_rcu_tick_exclusive, global_last_tick_exclusive

LEMMA ClockForward ==
  ASSUME TypeOK, ClockInv, [Next]_vars
  PROVE last_tick_inclusive_' >= last_tick_inclusive_
<1>0. current_tick_ \in Int /\ last_tick_inclusive_ \in Int /\ LoopInv
  BY TickerAssumption DEF TypeOK, TickerTypeOK, ClockInv
<1>1. CASE TickPublish BY <1>0, <1>1 DEF TickPublish, LoopInv
<1>2. CASE TickBump \/ TickVisit \/ TickLock \/ TickStore
  BY <1>0, <1>2 DEF TickBump, TickVisit, TickLock, TickStore
<1>3. ASSUME NEW c \in Cores, GuardStep(c) PROVE last_tick_inclusive_' = last_tick_inclusive_
  BY <1>3 DEF GuardStep, GuardLock, GuardRead, GuardStore, GuardNested, GuardPop,
              GuardEnd, CleanupStep
<1>4. CASE UNCHANGED tickerVars BY <1>0, <1>4 DEF tickerVars
<1> QED BY <1>0, <1>1, <1>2, <1>3, <1>4, StepOfClock DEF TickerLoop

\* A step that queues and frees nothing, where every core keeps what it holds
\* and the tick it entered in, or holds nothing.
LEMMA QuietStep ==
  ASSUME TypeOK, TypeOK', ReclaimInv, UNCHANGED <<ptr, objst, queue_, scratch_>>,
         last_tick_inclusive_' >= last_tick_inclusive_, HeldInv',
         \A h \in Cores : held'[h] = {} \/ (held'[h] = held[h] /\ seen'[h] = seen[h])
  PROVE ReclaimInv'
<1>1. OnePlace' BY DEF ReclaimInv, OnePlace, Single, Apart
<1>2. ASSUME NEW q, Guarded(q) PROVE Guarded(q)'
  BY <1>2 DEF Guarded, to_rcu_ticks
<1>3. QueueInv' BY <1>2 DEF ReclaimInv, QueueInv
<1>4. ScratchInv'
  <2>1. ASSUME NEW c \in Cores, NEW i \in DOMAIN scratch_[c]
        PROVE scratch_[c][i].tick < cleaning_rcu_tick_exclusive'
    <3>1. scratch_[c][i].tick < cleaning_rcu_tick_exclusive BY DEF ReclaimInv, ScratchInv
    <3>2. scratch_[c] \in Seq(Entry) BY DEF TypeOK
    <3>3. scratch_[c][i] \in Entry BY <3>2
    <3>4. scratch_[c][i].tick \in Nat BY <3>3 DEF Entry
    <3> QED BY <3>1, <3>4, CleaningMonotone
  <2> QED BY <2>1 DEF ScratchInv
<1>5. LinkInv' BY DEF ReclaimInv, LinkInv
<1>6. NoUseAfterFree' BY DEF ReclaimInv, NoUseAfterFree
<1> QED BY <1>1, <1>3, <1>4, <1>5, <1>6 DEF ReclaimInv

LEMMA ClockKeepsReclaim ==
  ASSUME TypeOK, TypeOK', ClockInv, ReclaimInv, [Next]_vars,
         UNCHANGED <<ptr, objst, queue_, scratch_>>,
         \A h \in Cores : held'[h] = held[h] \/ held'[h] = {},
         \A h \in Cores : gpc[h] = "in" /\ gpc'[h] # "in" => held'[h] = {}
  PROVE ReclaimInv'
<1>0. /\ \A h \in Cores : held[h] # {} => gpc[h] = "in"
      /\ gpc \in [Cores -> {"out", "read", "store", "in", "cleanup", "reap"}]
      /\ seen \in [Cores -> 0..MaxTick]
  BY DEF ReclaimInv, HeldInv, TypeOK, TickerTypeOK
<1>1. ASSUME NEW h \in Cores
      PROVE /\ held'[h] = {} \/ (held'[h] = held[h] /\ seen'[h] = seen[h])
            /\ held'[h] # {} => gpc'[h] = "in"
  <2>1. CASE TickerLoop
    BY <1>0, <2>1 DEF TickerLoop, TickBump, TickVisit, TickLock, TickStore, TickPublish
  <2>2. CASE UNCHANGED tickerVars BY <1>0, <2>2 DEF tickerVars
  <2>3. ASSUME NEW c \in Cores, GuardStep(c)
        PROVE /\ held'[h] = {} \/ (held'[h] = held[h] /\ seen'[h] = seen[h])
              /\ held'[h] # {} => gpc'[h] = "in"
    <3>1. CASE GuardLock(c, "out") \/ GuardLock(c, "reap")
      BY <1>0, <3>1 DEF GuardLock
    <3>2. CASE GuardRead(c) BY <1>0, <3>2 DEF GuardRead
    <3>3. CASE GuardStore(c) BY <1>0, <3>3 DEF GuardStore
    <3>4. CASE GuardNested(c) \/ GuardPop(c) BY <1>0, <3>4 DEF GuardNested, GuardPop
    <3>5. CASE GuardEnd(c, "cleanup") BY <1>0, <3>5 DEF GuardEnd, InRegion
    <3>6. CASE CleanupStep(c) BY <1>0, <3>6 DEF CleanupStep
    <3> QED BY <2>3, <3>1, <3>2, <3>3, <3>4, <3>5, <3>6 DEF GuardStep
  <2> QED BY <2>1, <2>2, <2>3, StepOfClock
<1>2. HeldInv' BY <1>1 DEF HeldInv
<1> QED BY <1>1, <1>2, QuietStep, ClockForward

\* A pointer that can be loaded leads to an object nobody has queued.
LEMMA LoadKeepsReclaim ==
  ASSUME TypeOK, ReclaimInv, NEW c \in Cores, NEW s \in Slots, Load(c, s)
  PROVE ReclaimInv'
<1>0. /\ UNCHANGED <<tickerVars, ptr, objst, queue_, scratch_>>
      /\ held' = [held EXCEPT ![c] = @ \union {ptr[s]}]
      /\ gpc[c] = "in" /\ held \in [Cores -> SUBSET Objects]
      /\ objst[ptr[s]] = "live"
  BY DEF Load, Working, InRegion, TypeOK, ReclaimInv, LinkInv
<1>1. OnePlace' BY <1>0 DEF ReclaimInv, OnePlace, Single, Apart
<1>2. ASSUME NEW q, Guarded(q) PROVE Guarded(q)'
  <2>1. ASSUME NEW i \in DOMAIN q, NEW h \in Cores, q[i].obj \in held'[h]
        PROVE to_rcu_ticks(seen[h]) <= q[i].tick
    <3>1. q[i].obj # ptr[s] BY <1>0, <1>2 DEF Guarded
    <3>2. q[i].obj \in held[h] BY <1>0, <2>1, <3>1
    <3> QED BY <1>2, <3>2 DEF Guarded
  <2> QED BY <1>0, <1>2, <2>1 DEF Guarded, tickerVars, to_rcu_ticks
<1>3. QueueInv' BY <1>0, <1>2 DEF ReclaimInv, QueueInv
<1>4. ScratchInv'
  BY <1>0 DEF ReclaimInv, ScratchInv, cleaning_rcu_tick_exclusive, global_last_tick_exclusive,
              to_rcu_ticks, tickerVars
<1>5. LinkInv' BY <1>0 DEF ReclaimInv, LinkInv
<1>6. HeldInv' BY <1>0 DEF ReclaimInv, HeldInv, tickerVars
<1>7. NoUseAfterFree'
  <2>1. ASSUME NEW h \in Cores, NEW o \in held'[h] PROVE objst[o] # "free"
    BY <1>0, <2>1 DEF ReclaimInv, NoUseAfterFree
  <2> QED BY <1>0, <2>1 DEF NoUseAfterFree
<1> QED BY <1>1, <1>3, <1>4, <1>5, <1>6, <1>7 DEF ReclaimInv

\* What is allocated is in no queue and no slot.
LEMMA AllocKeepsReclaim ==
  ASSUME TypeOK, ReclaimInv, NEW c \in Cores, NEW s \in Slots, NEW o \in Objects, Alloc(c, s, o)
  PROVE ReclaimInv'
<1>0. /\ UNCHANGED <<tickerVars, held, queue_, scratch_>>
      /\ ptr' = [ptr EXCEPT ![s] = o] /\ objst' = [objst EXCEPT ![o] = "live"]
      /\ objst[o] = "free"
      /\ ptr \in [Slots -> Objects \union {null}]
      /\ objst \in [Objects -> {"free", "live", "retired"}]
  BY DEF Alloc, TypeOK
<1>1. OnePlace' BY <1>0 DEF ReclaimInv, OnePlace, Single, Apart
<1>2. ASSUME NEW q \in Seq(Entry), Guarded(q) PROVE Guarded(q)'
  <2>1. ASSUME NEW i \in DOMAIN q PROVE objst'[q[i].obj] = "retired"
    <3>1. objst[q[i].obj] = "retired" BY <1>2 DEF Guarded
    <3> QED BY <1>0, <3>1
  <2> QED BY <1>0, <1>2, <2>1 DEF Guarded, tickerVars, to_rcu_ticks
<1>3. QueueInv' BY <1>0, <1>2 DEF ReclaimInv, QueueInv, TypeOK
<1>4. ScratchInv'
  BY <1>0 DEF ReclaimInv, ScratchInv, cleaning_rcu_tick_exclusive, global_last_tick_exclusive,
              to_rcu_ticks, tickerVars
<1>5. LinkInv' BY <1>0 DEF ReclaimInv, LinkInv
<1>6. HeldInv' BY <1>0 DEF ReclaimInv, HeldInv, tickerVars
<1>7. NoUseAfterFree' BY <1>0 DEF ReclaimInv, NoUseAfterFree, TypeOK
<1> QED BY <1>1, <1>3, <1>4, <1>5, <1>6, <1>7 DEF ReclaimInv

\* r is q with e at its end.
Grown(r, q, e) ==
  \E n : /\ n \notin DOMAIN q
         /\ \A i \in DOMAIN r : (i \in DOMAIN q /\ r[i] = q[i]) \/ (i = n /\ r[i] = e)

\* No entry of q is about object o.
Without(q, o) == \A i \in DOMAIN q : q[i].obj # o

LEMMA GrownAppend ==
  ASSUME NEW q \in Seq(Entry), NEW e \in Entry
  PROVE Grown(Append(q, e), q, e)
<1>1. Len(q) + 1 \notin DOMAIN q OBVIOUS
<1>2. ASSUME NEW i \in DOMAIN Append(q, e)
      PROVE \/ i \in DOMAIN q /\ Append(q, e)[i] = q[i]
            \/ i = Len(q) + 1 /\ Append(q, e)[i] = e
  OBVIOUS
<1> QED BY <1>1, <1>2 DEF Grown

LEMMA GrownFacts ==
  ASSUME NEW r, NEW q, NEW e, Grown(r, q, e), Without(q, e.obj)
  PROVE /\ Single(q) => Single(r)
        /\ \A p : Apart(q, p) /\ Without(p, e.obj) => Apart(r, p)
        /\ \A p : Apart(p, q) /\ Without(p, e.obj) => Apart(p, r)
  BY DEF Grown, Without, Single, Apart

\* The object is queued under a tick that no core is past yet.
LEMMA UnlinkKeepsReclaim ==
  ASSUME TypeOK, TypeOK', ClockInv, ReclaimInv, NEW c \in Cores, NEW s \in Slots, Unlink(c, s)
  PROVE ReclaimInv'
<1> DEFINE p == ptr[s]
           e == [obj |-> p, tick |-> RetireTick(c)]
<1>0. /\ UNCHANGED <<tickerVars, held, scratch_>>
      /\ ptr' = [ptr EXCEPT ![s] = null] /\ objst' = [objst EXCEPT ![p] = "retired"]
      /\ queue_' = [queue_ EXCEPT ![c] = Append(@, e)]
      /\ objst[p] = "live" /\ p # null /\ p \in Objects
      /\ ptr \in [Slots -> Objects \union {null}]
      /\ objst \in [Objects -> {"free", "live", "retired"}]
      /\ queue_ \in [Cores -> Seq(Entry)]
  BY DEF Unlink, TypeOK, ReclaimInv, LinkInv
<1>a. ASSUME NEW h \in Cores, p \in held[h]
      PROVE to_rcu_ticks(seen[h]) <= RetireTick(c)
  <2>1. SlotInv(h) /\ SlotInv(c) BY DEF ClockInv
  <2>2. seen[h] \in 0..MaxTick /\ tick_[c] \in 1..MaxTick /\ current_tick_ \in 1..MaxTick
        /\ MaxTick \in Nat
    BY TickerAssumption DEF TypeOK, TickerTypeOK
  <2>3. seen[h] \in Nat /\ tick_[c] + 1 \in Nat /\ seen[h] <= tick_[c] + 1
    BY <2>1, <2>2 DEF SlotInv
  <2> QED BY <2>3, RcuTicksMonotone DEF RetireTick
<1>b. ASSUME NEW d \in Cores PROVE Without(queue_[d], p) /\ Without(scratch_[d], p)
  BY <1>0 DEF ReclaimInv, QueueInv, Guarded, Without
<1>c. Grown(queue_'[c], queue_[c], e) /\ e.obj = p /\ e.tick = RetireTick(c)
  <2>1. RetireTick(c) \in Nat
    <3>1. tick_[c] \in 1..MaxTick /\ MaxTick \in Nat
      BY TickerAssumption DEF TickerTypeOK, TypeOK
    <3>2. tick_[c] + 1 \in Nat BY <3>1
    <3> QED BY <3>2, RcuTicksMonotone, tick_[c] + 1 <= tick_[c] + 1 DEF RetireTick
  <2>2. e \in Entry BY <1>0, <2>1 DEF Entry
  <2> QED BY <1>0, <2>2, GrownAppend
<1>d. \A d \in Cores : d # c => queue_'[d] = queue_[d] BY <1>0
<1> HIDE DEF p, e
<1>1. OnePlace'
  <2>1. \A d \in Cores : Single(queue_'[d]) /\ Single(scratch_'[d])
    BY <1>0, <1>b, <1>c, <1>d, GrownFacts DEF ReclaimInv, OnePlace
  <2>2. \A d, f \in Cores : Apart(queue_'[d], scratch_'[f])
    BY <1>0, <1>b, <1>c, <1>d, GrownFacts DEF ReclaimInv, OnePlace
  <2>3. \A d, f \in Cores : d # f => Apart(queue_'[d], queue_'[f])
    BY <1>b, <1>c, <1>d, GrownFacts DEF ReclaimInv, OnePlace
  <2>4. \A d, f \in Cores : d # f => Apart(scratch_'[d], scratch_'[f])
    BY <1>0 DEF ReclaimInv, OnePlace
  <2> QED BY <2>1, <2>2, <2>3, <2>4 DEF OnePlace, Single, Apart
<1> DEFINE G(r) == \A i \in DOMAIN r :
                     /\ objst'[r[i].obj] = "retired"
                     /\ \A h \in Cores : r[i].obj \in held'[h]
                                           => to_rcu_ticks(seen'[h]) <= r[i].tick
<1>2. ASSUME NEW q, Guarded(q), Without(q, p) PROVE G(q)
  BY <1>0, <1>2 DEF Guarded, Without, tickerVars
<1>3. ASSUME NEW r, NEW q, Grown(r, q, e), G(q) PROVE G(r)
  <2>1. ASSUME NEW h \in Cores, e.obj \in held'[h]
        PROVE to_rcu_ticks(seen'[h]) <= e.tick
    BY <1>0, <1>a, <1>c, <2>1 DEF tickerVars
  <2>2. objst'[e.obj] = "retired" BY <1>0, <1>c
  <2> QED BY <1>3, <2>1, <2>2 DEF Grown
<1>4. ASSUME NEW d \in Cores PROVE G(queue_'[d]) /\ G(scratch_'[d])
  <2>1. Guarded(queue_[d]) /\ Guarded(scratch_[d]) BY DEF ReclaimInv, QueueInv
  <2>2. G(queue_[d]) /\ G(scratch_[d]) BY <1>2, <1>b, <2>1
  <2>3. scratch_'[d] = scratch_[d] BY <1>0
  <2> HIDE DEF G
  <2> QED BY <1>3, <1>c, <1>d, <2>2, <2>3
<1>5. QueueInv' BY <1>4 DEF QueueInv, Guarded, to_rcu_ticks
<1>6. ScratchInv'
  BY <1>0 DEF ReclaimInv, ScratchInv, cleaning_rcu_tick_exclusive, global_last_tick_exclusive,
              to_rcu_ticks, tickerVars
<1>7. LinkInv' BY <1>0 DEF ReclaimInv, LinkInv, p
<1>8. HeldInv' BY <1>0 DEF ReclaimInv, HeldInv, tickerVars
<1>9. NoUseAfterFree' BY <1>0 DEF ReclaimInv, NoUseAfterFree, TypeOK
<1> QED BY <1>1, <1>5, <1>6, <1>7, <1>8, <1>9 DEF ReclaimInv

\* The entries of r are entries of q, each once.
Part(r, q) ==
  \E f : \A i \in DOMAIN r :
    /\ f[i] \in DOMAIN q /\ r[i] = q[f[i]]
    /\ \A j \in DOMAIN r : f[i] = f[j] => i = j

LEMMA PartFacts ==
  ASSUME NEW r, NEW q, Part(r, q)
  PROVE /\ Guarded(q) => Guarded(r)
        /\ Single(q) => Single(r)
        /\ \A p : Apart(q, p) => Apart(r, p)
        /\ \A p : Apart(p, q) => Apart(p, r)
<1>1. PICK f : \A i \in DOMAIN r :
        /\ f[i] \in DOMAIN q /\ r[i] = q[f[i]]
        /\ \A j \in DOMAIN r : f[i] = f[j] => i = j
  BY DEF Part
<1>2. Guarded(q) => Guarded(r) BY <1>1 DEF Guarded
<1>3. Single(q) => Single(r) BY <1>1 DEF Single
<1>4. \A p : (Apart(q, p) => Apart(r, p)) /\ (Apart(p, q) => Apart(p, r)) BY <1>1 DEF Apart
<1> QED BY <1>2, <1>3, <1>4

LEMMA PartShift ==
  ASSUME NEW q \in Seq(Entry), NEW r \in Seq(Entry), NEW k \in Nat,
         \A i \in DOMAIN r : k + i \in DOMAIN q /\ r[i] = q[k + i]
  PROVE Part(r, q)
<1> DEFINE f == [i \in DOMAIN r |-> k + i]
<1>1. ASSUME NEW i \in DOMAIN r
      PROVE /\ f[i] \in DOMAIN q /\ r[i] = q[f[i]]
            /\ \A j \in DOMAIN r : f[i] = f[j] => i = j
  OBVIOUS
<1> HIDE DEF f
<1> QED BY <1>1 DEF Part

LEMMA SplitFacts ==
  ASSUME NEW q \in Seq(Entry), NEW n \in 0..Len(q)
  PROVE LET a == SubSeq(q, 1, n)
            b == SubSeq(q, n + 1, Len(q))
        IN  /\ Part(a, q) /\ Part(b, q)
            /\ Single(q) => Apart(b, a)
            /\ \A i \in DOMAIN a : i \in 1..n /\ a[i] = q[i]
<1> DEFINE a == SubSeq(q, 1, n)
           b == SubSeq(q, n + 1, Len(q))
<1>0. Len(q) \in Nat /\ n \in Nat /\ n <= Len(q) OBVIOUS
<1>1. a \in Seq(Entry) /\ DOMAIN a = 1..n /\ \A i \in 1..n : a[i] = q[i]
  BY <1>0
<1>2. b \in Seq(Entry) /\ DOMAIN b = 1..(Len(q) - n) /\ \A i \in 1..(Len(q) - n) : b[i] = q[n + i]
  BY <1>0
<1> HIDE DEF a, b
<1>3. Part(a, q)
  <2>1. \A i \in DOMAIN a : 0 + i \in DOMAIN q /\ a[i] = q[0 + i] BY <1>0, <1>1
  <2> QED BY <1>1, <2>1, PartShift
<1>4. Part(b, q)
  <2>1. \A i \in DOMAIN b : n + i \in DOMAIN q /\ b[i] = q[n + i] BY <1>0, <1>2
  <2> QED BY <1>0, <1>2, <2>1, PartShift
<1>5. ASSUME Single(q) PROVE Apart(b, a)
  <2>1. ASSUME NEW i \in DOMAIN b, NEW j \in DOMAIN a PROVE b[i].obj # a[j].obj
    <3>1. /\ n + i \in DOMAIN q /\ j \in DOMAIN q /\ n + i # j
          /\ b[i] = q[n + i] /\ a[j] = q[j]
      BY <1>0, <1>1, <1>2
    <3> QED BY <1>5, <3>1 DEF Single
  <2> QED BY <2>1 DEF Apart
<1> QED BY <1>1, <1>3, <1>4, <1>5 DEF a, b

\* What do_cleanup() moves is older than the tick it cleans.
LEMMA CleanupKeepsReclaim ==
  ASSUME TypeOK, ReclaimInv, NEW c \in Cores, Cleanup(c)
  PROVE ReclaimInv'
<1> DEFINE q == queue_[c]
<1>0. /\ UNCHANGED <<ptr, objst, held, seen, last_tick_inclusive_>>
      /\ gpc[c] = "cleanup" /\ \E to : gpc' = [gpc EXCEPT ![c] = to]
      /\ q \in Seq(Entry) /\ Single(q) /\ Guarded(q)
      /\ queue_ \in [Cores -> Seq(Entry)] /\ scratch_ \in [Cores -> Seq(Entry)]
      /\ gpc \in [Cores -> {"out", "read", "store", "in", "cleanup", "reap"}]
  BY DEF Cleanup, TypeOK, ReclaimInv, OnePlace, QueueInv
<1>1. PICK n \in 0..Len(q) :
        /\ Accepted(q, cleaning_rcu_tick_exclusive - 1, n)
        /\ scratch_' = [scratch_ EXCEPT ![c] = SubSeq(q, 1, n)]
        /\ queue_' = [queue_ EXCEPT ![c] = SubSeq(q, n + 1, Len(q))]
  BY DEF Cleanup
<1> DEFINE a == SubSeq(q, 1, n)
           b == SubSeq(q, n + 1, Len(q))
<1>2. /\ Part(a, q) /\ Part(b, q) /\ Apart(b, a)
      /\ \A i \in DOMAIN a : i \in 1..n /\ a[i] = q[i]
  BY <1>0, SplitFacts
<1>3. /\ queue_'[c] = b /\ scratch_'[c] = a
      /\ \A d \in Cores : d # c => queue_'[d] = queue_[d] /\ scratch_'[d] = scratch_[d]
  BY <1>0, <1>1
<1> HIDE DEF a, b
<1>4. OnePlace'
  <2>1. \A d \in Cores : Single(queue_'[d]) /\ Single(scratch_'[d])
    BY <1>0, <1>2, <1>3, PartFacts DEF ReclaimInv, OnePlace
  <2>2. \A d, f \in Cores : Apart(queue_'[d], scratch_'[f])
    <3>1. \A f \in Cores : f # c => Apart(b, scratch_[f])
      BY <1>2, PartFacts DEF ReclaimInv, OnePlace
    <3>2. \A d \in Cores : d # c => Apart(queue_[d], a)
      BY <1>2, PartFacts DEF ReclaimInv, OnePlace
    <3> QED BY <1>2, <1>3, <3>1, <3>2 DEF ReclaimInv, OnePlace
  <2>3. \A d, f \in Cores : d # f => Apart(queue_'[d], queue_'[f])
    BY <1>2, <1>3, PartFacts DEF ReclaimInv, OnePlace
  <2>4. \A d, f \in Cores : d # f => Apart(scratch_'[d], scratch_'[f])
    <3>1. \A f \in Cores : f # c => Apart(a, scratch_[f])
      BY <1>2, PartFacts DEF ReclaimInv, OnePlace
    <3>2. \A f \in Cores : f # c => Apart(scratch_[f], a)
      BY <3>1 DEF Apart
    <3> QED BY <1>3, <3>1, <3>2 DEF ReclaimInv, OnePlace
  <2> QED BY <2>1, <2>2, <2>3, <2>4 DEF OnePlace, Single, Apart
<1>5. QueueInv'
  <2>1. \A d \in Cores : Guarded(queue_'[d]) /\ Guarded(scratch_'[d])
    BY <1>0, <1>2, <1>3, PartFacts DEF ReclaimInv, QueueInv
  <2> QED BY <1>0, <2>1 DEF QueueInv, Guarded, to_rcu_ticks
<1>6. ScratchInv'
  <2>1. cleaning_rcu_tick_exclusive' = cleaning_rcu_tick_exclusive
    BY <1>0 DEF cleaning_rcu_tick_exclusive, global_last_tick_exclusive, to_rcu_ticks
  <2>2. cleaning_rcu_tick_exclusive \in Nat
    <3>1. last_tick_inclusive_ \in 0..MaxTick /\ MaxTick \in Nat
      BY TickerAssumption DEF TickerTypeOK, TypeOK
    <3>2. last_tick_inclusive_ + 1 \in Nat BY <3>1
    <3> QED BY <3>2, RcuTicksMonotone, last_tick_inclusive_ + 1 <= last_tick_inclusive_ + 1
            DEF cleaning_rcu_tick_exclusive, global_last_tick_exclusive
  <2>3. ASSUME NEW i \in DOMAIN a PROVE a[i].tick < cleaning_rcu_tick_exclusive
    <3>1. a[i] = q[i] /\ i \in DOMAIN q /\ q[i] \in Entry BY <1>0, <1>2
    <3>2. q[i].tick <= cleaning_rcu_tick_exclusive - 1 BY <1>1, <1>2 DEF Accepted
    <3>3. q[i].tick \in Nat BY <3>1 DEF Entry
    <3> QED BY <2>2, <3>1, <3>2, <3>3
  <2> QED BY <1>3, <2>1, <2>3 DEF ReclaimInv, ScratchInv
<1>7. LinkInv' BY <1>0 DEF ReclaimInv, LinkInv
<1>8. HeldInv' BY <1>0 DEF ReclaimInv, HeldInv
<1>9. NoUseAfterFree' BY <1>0 DEF ReclaimInv, NoUseAfterFree
<1> QED BY <1>4, <1>5, <1>6, <1>7, <1>8, <1>9 DEF ReclaimInv

\* A deleter runs on an object that nobody holds any more.
LEMMA DeleterKeepsReclaim ==
  ASSUME TypeOK, ClockInv, ReclaimInv, NEW c \in Cores, RunDeleter(c)
  PROVE ReclaimInv'
<1> DEFINE q == scratch_[c]
           r == Tail(scratch_[c])
           o == Head(scratch_[c]).obj
<1>0. /\ UNCHANGED <<tickerVars, ptr, held, queue_>>
      /\ objst' = [objst EXCEPT ![o] = "free"]
      /\ scratch_' = [scratch_ EXCEPT ![c] = r]
      /\ q \in Seq(Entry) /\ q # << >> /\ Single(q) /\ Guarded(q)
      /\ scratch_ \in [Cores -> Seq(Entry)]
      /\ objst \in [Objects -> {"free", "live", "retired"}]
  BY DEF RunDeleter, TypeOK, ReclaimInv, OnePlace, QueueInv
<1>1. /\ 1 \in DOMAIN q /\ o = q[1].obj /\ q[1] \in Entry
      /\ r \in Seq(Entry)
      /\ \A i \in DOMAIN r : 1 + i \in DOMAIN q /\ r[i] = q[1 + i] /\ 1 + i # 1
  BY <1>0
<1>2. Part(r, q) BY <1>0, <1>1, PartShift
<1>3. /\ scratch_'[c] = r
      /\ \A d \in Cores : d # c => scratch_'[d] = scratch_[d]
  BY <1>0
<1>4. /\ Without(r, o)
      /\ \A d \in Cores : Without(queue_[d], o)
      /\ \A d \in Cores : d # c => Without(scratch_[d], o)
  <2>1. Without(r, o) BY <1>0, <1>1 DEF Without, Single
  <2>2. \A d \in Cores : Without(queue_[d], o)
    BY <1>1 DEF Without, ReclaimInv, OnePlace, Apart
  <2>3. \A d \in Cores : d # c => Without(scratch_[d], o)
    BY <1>1 DEF Without, ReclaimInv, OnePlace, Apart
  <2> QED BY <2>1, <2>2, <2>3
<1>5. o \in Objects /\ objst[o] = "retired" BY <1>0, <1>1 DEF Guarded, Entry
<1>6. ASSUME NEW h \in Cores PROVE o \notin held[h]
  <2> SUFFICES ASSUME o \in held[h] PROVE FALSE OBVIOUS
  <2>1. gpc[h] = "in" BY DEF ReclaimInv, HeldInv
  <2>2. SlotInv(h) /\ LoopInv BY DEF ClockInv
  <2>3. /\ last_tick_inclusive_ \in 0..MaxTick /\ current_tick_ \in 1..MaxTick
        /\ seen[h] \in 0..MaxTick /\ MaxTick \in Nat
        /\ tpc \in {"bump", "visit", "lock", "store", "publish"}
    BY TickerAssumption DEF TickerTypeOK, TypeOK
  <2>4. last_tick_inclusive_ + 1 <= seen[h]
    BY <2>1, <2>2, <2>3 DEF SlotInv, LoopInv, Visited
  <2>5. last_tick_inclusive_ + 1 \in Nat /\ seen[h] \in Nat BY <2>3
  <2>6. /\ to_rcu_ticks(last_tick_inclusive_ + 1) \in Nat
        /\ to_rcu_ticks(seen[h]) \in Nat
        /\ to_rcu_ticks(last_tick_inclusive_ + 1) <= to_rcu_ticks(seen[h])
    BY <2>4, <2>5, RcuTicksMonotone
  <2>7. q[1].tick < to_rcu_ticks(last_tick_inclusive_ + 1)
    BY <1>1 DEF ReclaimInv, ScratchInv, cleaning_rcu_tick_exclusive, global_last_tick_exclusive
  <2>8. to_rcu_ticks(seen[h]) <= q[1].tick BY <1>0, <1>1 DEF Guarded
  <2>9. q[1].tick \in Nat BY <1>1 DEF Entry
  <2> QED BY <2>6, <2>7, <2>8, <2>9
<1> HIDE DEF q, r, o
<1>7. OnePlace'
  <2>1. \A d \in Cores : Single(queue_'[d]) /\ Single(scratch_'[d])
    BY <1>0, <1>2, <1>3, PartFacts DEF ReclaimInv, OnePlace, q
  <2>2. \A d, f \in Cores : Apart(queue_'[d], scratch_'[f])
    BY <1>0, <1>2, <1>3, PartFacts DEF ReclaimInv, OnePlace, q
  <2>3. \A d, f \in Cores : d # f => Apart(queue_'[d], queue_'[f])
    BY <1>0 DEF ReclaimInv, OnePlace
  <2>4. \A d, f \in Cores : d # f => Apart(scratch_'[d], scratch_'[f])
    BY <1>2, <1>3, PartFacts DEF ReclaimInv, OnePlace, q
  <2> QED BY <2>1, <2>2, <2>3, <2>4 DEF OnePlace, Single, Apart
<1>8. QueueInv'
  <2> DEFINE G(p) == \A i \in DOMAIN p :
                       /\ objst'[p[i].obj] = "retired"
                       /\ \A h \in Cores : p[i].obj \in held'[h]
                                             => to_rcu_ticks(seen'[h]) <= p[i].tick
  <2>1. ASSUME NEW p, Guarded(p), Without(p, o) PROVE G(p)
    BY <1>0, <2>1 DEF Guarded, Without, tickerVars
  <2>2. Guarded(r) BY <1>0, <1>2, PartFacts
  <2> HIDE DEF G
  <2>3. \A d \in Cores : G(queue_'[d]) /\ G(scratch_'[d])
    BY <1>0, <1>3, <1>4, <2>1, <2>2 DEF ReclaimInv, QueueInv
  <2> QED BY <2>3 DEF QueueInv, Guarded, to_rcu_ticks, G
<1>9. ScratchInv'
  <2>1. cleaning_rcu_tick_exclusive' = cleaning_rcu_tick_exclusive
    BY <1>0 DEF cleaning_rcu_tick_exclusive, global_last_tick_exclusive, to_rcu_ticks, tickerVars
  <2>2. ASSUME NEW i \in DOMAIN r PROVE r[i].tick < cleaning_rcu_tick_exclusive
    BY <1>1, <2>2 DEF ReclaimInv, ScratchInv, q
  <2> QED BY <1>3, <2>1, <2>2 DEF ReclaimInv, ScratchInv
<1>10. LinkInv' BY <1>0, <1>5 DEF ReclaimInv, LinkInv, TypeOK
<1>11. HeldInv' BY <1>0 DEF ReclaimInv, HeldInv, tickerVars
<1>12. NoUseAfterFree' BY <1>0, <1>6 DEF ReclaimInv, NoUseAfterFree, TypeOK
<1> QED BY <1>7, <1>8, <1>9, <1>10, <1>11, <1>12 DEF ReclaimInv

LEMMA ReclaimStep ==
  ASSUME TypeOK, TypeOK', ClockInv, ReclaimInv, [Next]_vars
  PROVE ReclaimInv'
<1>0. gpc \in [Cores -> {"out", "read", "store", "in", "cleanup", "reap"}]
      /\ held \in [Cores -> SUBSET Objects]
  BY DEF TypeOK
<1>1. ASSUME UNCHANGED rcuVars, \A h \in Cores : gpc[h] = "in" => gpc'[h] = "in"
      PROVE ReclaimInv'
  BY <1>1, ClockKeepsReclaim DEF rcuVars
<1>2. CASE Ticking
  BY <1>1, <1>2 DEF Ticking, TickerLoop, TickBump, TickVisit, TickLock, TickStore, TickPublish
<1>3. CASE UNCHANGED vars BY <1>1, <1>3 DEF vars, tickerVars
<1>4. ASSUME NEW c \in Cores, Region(c) PROVE ReclaimInv'
  <2>1. CASE Enter(c) /\ UNCHANGED rcuVars
    BY <1>0, <1>1, <2>1 DEF Enter, GuardLock, GuardRead, GuardStore
  <2>2. CASE (GuardNested(c) \/ GuardPop(c)) /\ UNCHANGED rcuVars
    BY <1>1, <2>2 DEF GuardNested, GuardPop
  <2>3. CASE RegionEnd(c)
    <3>1. /\ UNCHANGED <<ptr, objst, queue_, scratch_>>
          /\ held' = [held EXCEPT ![c] = {}]
          /\ gpc' = [gpc EXCEPT ![c] = "cleanup"]
      BY <2>3 DEF RegionEnd, GuardEnd
    <3>2. \A h \in Cores : held'[h] = held[h] \/ held'[h] = {} BY <1>0, <3>1
    <3>3. \A h \in Cores : gpc[h] = "in" /\ gpc'[h] # "in" => held'[h] = {} BY <1>0, <3>1
    <3> QED BY <3>1, <3>2, <3>3, ClockKeepsReclaim
  <2>4. CASE CleanupSkip(c) BY <1>0, <1>1, <2>4 DEF CleanupSkip
  <2> QED BY <1>4, <2>1, <2>2, <2>3, <2>4, CleanupKeepsReclaim, DeleterKeepsReclaim DEF Region
<1>5. ASSUME NEW c \in Cores, Client(c) PROVE ReclaimInv'
  BY <1>5, LoadKeepsReclaim, UnlinkKeepsReclaim, AllocKeepsReclaim DEF Client
<1> QED BY <1>2, <1>3, <1>4, <1>5 DEF Next

\* NoUseAfterFree: whatever the cores load, unlink, allocate and nest, an object
\* that some core can still dereference has not been handed back to the
\* allocator by do_cleanup(), for any number of cores and any multiplier.
THEOREM Reclamation == Spec => []NoUseAfterFree
<1>1. Init => ReclaimInv BY ReclaimInit
<1>2. TypeOK /\ TypeOK' /\ ClockInv /\ ReclaimInv /\ [Next]_vars => ReclaimInv'
  BY ReclaimStep
<1>3. ReclaimInv => NoUseAfterFree BY DEF ReclaimInv
<1> QED BY <1>1, <1>2, <1>3, ClockInvariant, PTL DEF Spec

-----------------------------------------------------------------------------
(* What last_reaped_epoch_ stands for.                                     *)

Ordered(q) == \A i, j \in DOMAIN q : i < j => q[i].tick <= q[j].tick

Bounded(q, t) == \A i \in DOMAIN q : q[i].tick <= t

Beyond(q, e) == e = 0 \/ \A i \in DOMAIN q : q[i].tick > e

\* A core's ticks never go back, so it queues in the order of the ticks, and a
\* prefix is all that do_cleanup() has to look at.
ReapedInv(c) ==
  /\ Ordered(queue_[c])
  /\ Bounded(queue_[c], RetireTick(c))
  /\ last_reaped_epoch_[c] < cleaning_rcu_tick_exclusive \/ last_reaped_epoch_[c] = 0
  /\ Beyond(queue_[c], last_reaped_epoch_[c])

AllReaped == \A c \in Cores : ReapedInv(c)

LEMMA ReapedInit == Init => AllReaped
<1> SUFFICES ASSUME Init, NEW c \in Cores PROVE ReapedInv(c) BY DEF AllReaped
<1>1. queue_[c] = << >> /\ last_reaped_epoch_[c] = 0 BY DEF Init, RcuInit
<1> QED BY <1>1 DEF ReapedInv, Ordered, Bounded, Beyond

\* Neither guard() nor tickerloop() sets a slot's tick back.
LEMMA TickForward ==
  ASSUME TypeOK, ClockInv, [Next]_vars, NEW c \in Cores
  PROVE tick_'[c] >= tick_[c]
<1>0. /\ current_tick_ \in Int /\ tick_ \in [Cores -> 1..MaxTick] /\ tick_[c] \in Int
      /\ \A d \in Cores : SlotInv(d)
      /\ slot \in Cores
  BY TickerAssumption DEF TypeOK, TickerTypeOK, ClockInv
<1>1. CASE TickStore
  <2>1. tick_[c] <= current_tick_ BY <1>0 DEF SlotInv
  <2> QED BY <1>0, <1>1, <2>1 DEF TickStore
<1>2. CASE TickPublish \/ TickBump \/ TickVisit \/ TickLock
  BY <1>0, <1>2 DEF TickPublish, TickBump, TickVisit, TickLock
<1>3. ASSUME NEW d \in Cores, GuardStore(d) PROVE tick_'[c] >= tick_[c]
  <2>1. tick_[d] <= seen[d] BY <1>0, <1>3 DEF GuardStore, SlotInv
  <2> QED BY <1>0, <1>3, <2>1 DEF GuardStore
<1>4. ASSUME NEW d \in Cores, GuardStep(d) PROVE tick_'[c] >= tick_[c]
  BY <1>0, <1>3, <1>4 DEF GuardStep, GuardLock, GuardRead, GuardNested, GuardPop,
                          GuardEnd, CleanupStep
<1>5. CASE UNCHANGED tickerVars BY <1>0, <1>5 DEF tickerVars
<1> QED BY <1>1, <1>2, <1>4, <1>5, StepOfClock DEF TickerLoop

LEMMA RetireForward ==
  ASSUME TypeOK, TypeOK', ClockInv, [Next]_vars, NEW c \in Cores
  PROVE RetireTick(c) \in Nat /\ RetireTick(c)' \in Nat /\ RetireTick(c) <= RetireTick(c)'
<1>1. ASSUME NEW a \in Nat, NEW b \in Nat, b >= a
      PROVE /\ to_rcu_ticks(a + 1) \in Nat
            /\ to_rcu_ticks(b + 1) \in Nat
            /\ to_rcu_ticks(a + 1) <= to_rcu_ticks(b + 1)
  <2>1. a + 1 \in Nat /\ b + 1 \in Nat /\ a + 1 <= b + 1 BY <1>1
  <2> QED BY <2>1, RcuTicksMonotone
<1>2. tick_[c] \in Nat
  <2>1. tick_[c] \in 1..MaxTick BY DEF TypeOK, TickerTypeOK
  <2> QED BY <2>1, TickerAssumption
<1>3. tick_'[c] \in Nat
  <2>1. tick_' \in [Cores -> 1..MaxTick] BY DEF TypeOK, TickerTypeOK
  <2>2. tick_'[c] \in 1..MaxTick BY <2>1
  <2> QED BY <2>2, TickerAssumption
<1>4. tick_'[c] >= tick_[c] BY TickForward
<1>5. /\ to_rcu_ticks(tick_[c] + 1) \in Nat
      /\ to_rcu_ticks(tick_'[c] + 1) \in Nat
      /\ to_rcu_ticks(tick_[c] + 1) <= to_rcu_ticks(tick_'[c] + 1)
  BY <1>1, <1>2, <1>3, <1>4
<1> QED BY <1>5 DEF RetireTick

\* The clock may be cleaned no further than the core's own next tick.
LEMMA CleaningBelowRetire ==
  ASSUME TypeOK, ClockInv, NEW c \in Cores
  PROVE /\ cleaning_rcu_tick_exclusive \in Nat /\ RetireTick(c) \in Nat
        /\ cleaning_rcu_tick_exclusive <= RetireTick(c)
<1>1. /\ tick_[c] \in Nat /\ last_tick_inclusive_ \in Nat /\ current_tick_ \in Nat
      /\ LoopInv /\ SlotInv(c)
  BY TickerAssumption DEF TypeOK, TickerTypeOK, ClockInv
<1>2. last_tick_inclusive_ + 1 <= tick_[c] + 1
  BY <1>1 DEF LoopInv, SlotInv
<1>3. last_tick_inclusive_ + 1 \in Nat /\ tick_[c] + 1 \in Nat BY <1>1
<1> QED BY <1>2, <1>3, RcuTicksMonotone
        DEF cleaning_rcu_tick_exclusive, global_last_tick_exclusive, RetireTick

LEMMA BoundedUp ==
  ASSUME NEW q \in Seq(Entry), NEW t \in Nat, NEW u \in Nat, t <= u, Bounded(q, t)
  PROVE Bounded(q, u)
<1> SUFFICES ASSUME NEW i \in DOMAIN q PROVE q[i].tick <= u BY DEF Bounded
<1>1. q[i] \in Entry OBVIOUS
<1>2. q[i].tick \in Nat /\ q[i].tick <= t BY <1>1 DEF Entry, Bounded
<1> QED BY <1>2

LEMMA ReapedFrame ==
  ASSUME TypeOK, TypeOK', ClockInv, [Next]_vars, NEW c \in Cores, ReapedInv(c),
         queue_'[c] = queue_[c], last_reaped_epoch_'[c] = last_reaped_epoch_[c]
  PROVE ReapedInv(c)'
<1>1. queue_[c] \in Seq(Entry) /\ last_reaped_epoch_[c] \in Nat BY DEF TypeOK
<1>2. Bounded(queue_[c], RetireTick(c)') BY <1>1, RetireForward, BoundedUp DEF ReapedInv
<1>3. last_reaped_epoch_[c] < cleaning_rcu_tick_exclusive' \/ last_reaped_epoch_[c] = 0
  BY <1>1, CleaningMonotone, ClockForward DEF ReapedInv
<1> QED BY <1>2, <1>3 DEF ReapedInv, Ordered, Bounded, Beyond

LEMMA UnlinkReaped ==
  ASSUME TypeOK, ClockInv, NEW c \in Cores, NEW s \in Slots, Unlink(c, s), ReapedInv(c)
  PROVE ReapedInv(c)'
<1> DEFINE e == [obj |-> ptr[s], tick |-> RetireTick(c)]
           q == queue_[c]
           r == Append(q, e)
<1>1. /\ queue_'[c] = r /\ last_reaped_epoch_'[c] = last_reaped_epoch_[c]
      /\ UNCHANGED tickerVars
      /\ q \in Seq(Entry) /\ last_reaped_epoch_[c] \in Nat
      /\ ptr[s] \in Objects
  BY DEF Unlink, TypeOK
<1>2. /\ cleaning_rcu_tick_exclusive \in Nat /\ RetireTick(c) \in Nat
      /\ cleaning_rcu_tick_exclusive <= RetireTick(c)
  BY CleaningBelowRetire
<1>3. e \in Entry /\ e.tick = RetireTick(c) BY <1>1, <1>2 DEF Entry
<1> HIDE DEF e
<1>4. /\ DOMAIN q = 1..Len(q) /\ Len(q) \in Nat /\ DOMAIN r = 1..(Len(q) + 1)
      /\ \A i \in 1..Len(q) : r[i] = q[i] /\ q[i] \in Entry
      /\ r[Len(q) + 1] = e
  BY <1>1, <1>3
<1> HIDE DEF q, r
<1>5. \A i \in 1..Len(q) : q[i].tick \in Nat /\ q[i].tick <= RetireTick(c)
  BY <1>4 DEF Entry, ReapedInv, Bounded, q
<1>6. ASSUME NEW i \in 1..(Len(q) + 1)
      PROVE \/ i \in 1..Len(q) /\ r[i].tick = q[i].tick
            \/ i = Len(q) + 1 /\ r[i].tick = RetireTick(c)
  BY <1>3, <1>4
<1>7. Ordered(r)
  <2> SUFFICES ASSUME NEW i \in 1..(Len(q) + 1), NEW j \in 1..(Len(q) + 1), i < j
               PROVE r[i].tick <= r[j].tick
    BY <1>4 DEF Ordered
  <2>1. i \in 1..Len(q) BY <1>4
  <2>2. r[i].tick = q[i].tick BY <1>4, <2>1
  <2>3. CASE j \in 1..Len(q) BY <1>4, <2>1, <2>2, <2>3 DEF ReapedInv, Ordered, q
  <2>4. CASE j = Len(q) + 1 BY <1>3, <1>4, <1>5, <2>1, <2>2, <2>4
  <2> QED BY <1>6, <2>3, <2>4
<1>8. Bounded(r, RetireTick(c)) BY <1>2, <1>4, <1>5, <1>6 DEF Bounded
<1>9. Beyond(r, last_reaped_epoch_[c])
  <2> SUFFICES ASSUME last_reaped_epoch_[c] # 0, NEW i \in 1..(Len(q) + 1)
               PROVE r[i].tick > last_reaped_epoch_[c]
    BY <1>4 DEF Beyond
  <2>1. last_reaped_epoch_[c] < RetireTick(c) BY <1>1, <1>2 DEF ReapedInv
  <2>2. \A k \in 1..Len(q) : q[k].tick > last_reaped_epoch_[c]
    BY <1>4 DEF ReapedInv, Beyond, q
  <2> QED BY <1>6, <2>1, <2>2
<1>10. UNCHANGED <<RetireTick(c), cleaning_rcu_tick_exclusive>>
  BY <1>1 DEF tickerVars, RetireTick, cleaning_rcu_tick_exclusive, to_rcu_ticks,
              global_last_tick_exclusive
<1> QED BY <1>1, <1>7, <1>8, <1>9, <1>10 DEF ReapedInv

LEMMA CleanupReaped ==
  ASSUME TypeOK, ClockInv, NEW c \in Cores, Cleanup(c), ReapedInv(c)
  PROVE ReapedInv(c)'
<1> DEFINE q == queue_[c]
           t == cleaning_rcu_tick_exclusive - 1
<1>0. q \in Seq(Entry) /\ Len(q) \in Nat /\ DOMAIN q = 1..Len(q) BY DEF TypeOK
<1>1. PICK n \in 0..Len(q) :
        /\ Accepted(q, t, n)
        /\ queue_' = [queue_ EXCEPT ![c] = SubSeq(q, n + 1, Len(q))]
  BY DEF Cleanup
<1> DEFINE b == SubSeq(q, n + 1, Len(q))
<1>2. /\ queue_'[c] = b /\ last_reaped_epoch_'[c] = t
      /\ cleaning_rcu_tick_exclusive # 0
      /\ UNCHANGED <<tick_, last_tick_inclusive_>>
  BY <1>1 DEF Cleanup, TypeOK
<1>3. n \in Nat /\ n <= Len(q) BY <1>0
<1>4. DOMAIN b = 1..(Len(q) - n) /\ \A i \in 1..(Len(q) - n) : b[i] = q[n + i]
  BY <1>0, <1>3
<1> HIDE DEF b, q
<1>5. cleaning_rcu_tick_exclusive \in Nat /\ t \in Nat /\ t < cleaning_rcu_tick_exclusive
  <2>1. cleaning_rcu_tick_exclusive \in Nat BY CleaningBelowRetire
  <2> QED BY <1>2, <2>1
<1> HIDE DEF t
<1>6. \A i \in 1..(Len(q) - n) : n + i \in 1..Len(q) BY <1>0, <1>3
<1>7. \A i \in 1..Len(q) : q[i].tick \in Nat
  <2>1. \A i \in 1..Len(q) : q[i] \in Entry BY <1>0
  <2> QED BY <2>1 DEF Entry
<1>8. Ordered(b)
  <2> SUFFICES ASSUME NEW i \in 1..(Len(q) - n), NEW j \in 1..(Len(q) - n), i < j
               PROVE b[i].tick <= b[j].tick
    BY <1>4 DEF Ordered
  <2>1. n + i < n + j BY <1>0, <1>3
  <2>2. q[n + i].tick <= q[n + j].tick BY <1>0, <1>6, <2>1 DEF ReapedInv, Ordered, q
  <2> QED BY <1>4, <2>2
<1>9. Bounded(b, RetireTick(c))
  BY <1>0, <1>4, <1>6 DEF ReapedInv, Bounded, q
<1>10. Beyond(b, t)
  <2> SUFFICES ASSUME NEW i \in 1..(Len(q) - n) PROVE b[i].tick > t
    BY <1>4 DEF Beyond
  <2>1. n < Len(q) /\ n + 1 \in 1..Len(q) /\ (n + 1 = n + i \/ n + 1 < n + i)
    BY <1>0, <1>3
  <2>2. q[n + 1].tick > t BY <1>1, <2>1 DEF Accepted
  <2>3. q[n + 1].tick <= q[n + i].tick
    BY <1>0, <1>6, <1>7, <2>1 DEF ReapedInv, Ordered, q
  <2> QED BY <1>4, <1>5, <1>6, <1>7, <2>1, <2>2, <2>3
<1>11. UNCHANGED <<RetireTick(c), cleaning_rcu_tick_exclusive>>
  BY <1>2 DEF RetireTick, cleaning_rcu_tick_exclusive, to_rcu_ticks,
              global_last_tick_exclusive
<1> QED BY <1>2, <1>5, <1>8, <1>9, <1>10, <1>11 DEF ReapedInv

LEMMA ReapedStep ==
  ASSUME TypeOK, TypeOK', ClockInv, AllReaped, [Next]_vars
  PROVE AllReaped'
<1> SUFFICES ASSUME NEW c \in Cores PROVE ReapedInv(c)' BY DEF AllReaped
<1>1. ReapedInv(c) BY DEF AllReaped
<1>2. \/ queue_'[c] = queue_[c] /\ last_reaped_epoch_'[c] = last_reaped_epoch_[c]
      \/ \E s \in Slots : Unlink(c, s)
      \/ Cleanup(c)
  <2>0. queue_ \in [Cores -> Seq(Entry)] /\ last_reaped_epoch_ \in [Cores -> Nat]
    BY DEF TypeOK
  <2>1. CASE UNCHANGED <<queue_, last_reaped_epoch_>> BY <2>1
  <2>2. CASE Ticking BY <2>1, <2>2 DEF Ticking, rcuVars
  <2>3. CASE UNCHANGED vars BY <2>1, <2>3 DEF vars, rcuVars
  <2>4. ASSUME NEW d \in Cores, Cleanup(d)
        PROVE d # c => queue_'[c] = queue_[c] /\ last_reaped_epoch_'[c] = last_reaped_epoch_[c]
    BY <2>0, <2>4 DEF Cleanup
  <2>5. ASSUME NEW d \in Cores, NEW s \in Slots, Unlink(d, s)
        PROVE d # c => queue_'[c] = queue_[c] /\ last_reaped_epoch_'[c] = last_reaped_epoch_[c]
    BY <2>0, <2>5 DEF Unlink
  <2>6. ASSUME NEW d \in Cores, Region(d), ~Cleanup(d)
        PROVE UNCHANGED <<queue_, last_reaped_epoch_>>
    BY <2>6 DEF Region, RegionEnd, CleanupSkip, RunDeleter, rcuVars
  <2>7. ASSUME NEW d \in Cores, NEW s \in Slots, NEW o \in Objects, Load(d, s) \/ Alloc(d, s, o)
        PROVE UNCHANGED <<queue_, last_reaped_epoch_>>
    BY <2>7 DEF Load, Alloc
  <2>8. ASSUME NEW d \in Cores, NEW s \in Slots, Load(d, s)
        PROVE UNCHANGED <<queue_, last_reaped_epoch_>>
    BY <2>8 DEF Load
  <2>9. ASSUME NEW d \in Cores, Region(d) \/ Client(d)
        PROVE \/ queue_'[c] = queue_[c] /\ last_reaped_epoch_'[c] = last_reaped_epoch_[c]
              \/ \E s \in Slots : Unlink(c, s)
              \/ Cleanup(c)
    BY <2>1, <2>4, <2>5, <2>6, <2>7, <2>8, <2>9 DEF Client
  <2> QED BY <2>2, <2>3, <2>9 DEF Next
<1>3. CASE queue_'[c] = queue_[c] /\ last_reaped_epoch_'[c] = last_reaped_epoch_[c]
  BY <1>1, <1>3, ReapedFrame
<1> QED BY <1>1, <1>2, <1>3, UnlinkReaped, CleanupReaped

\* NothingLeftBehind: do_cleanup()'s assertion last_reaped_epoch_ <= clean_tick
\* holds, and its early return is right: what it skips was reaped, because a
\* core queues in the order of its ticks and never below the reaped one.
THEOREM Reaped == Spec => []NothingLeftBehind
<1>1. TypeOK /\ TypeOK' /\ ClockInv /\ AllReaped /\ [Next]_vars => AllReaped'
  BY ReapedStep
<1>2. AllReaped => NothingLeftBehind
  BY DEF AllReaped, ReapedInv, Beyond, NothingLeftBehind
<1> QED BY <1>1, <1>2, ReapedInit, ClockInvariant, PTL DEF Spec
=============================================================================
