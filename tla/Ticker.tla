------------------------------- MODULE Ticker -------------------------------
(***************************************************************************)
(* The epoch clock of the storage engine (ticker.h, spinlock.h).           *)
(*                                                                         *)
(* One daemon thread, tickerloop(), bumps a global tick and then visits    *)
(* every core until the core has left the previous tick.  A core is inside *)
(* a tick while it holds a ticker::guard, that is, while it holds the      *)
(* spinlock of its own slot.  RCU reclamation, the garbage collection of   *)
(* versions, the read-only snapshots and the logger's sync epoch are all   *)
(* computed from last_tick_inclusive_, which promises that no core is      *)
(* still inside a tick <= last_tick_inclusive_.                            *)
(*                                                                         *)
(* Every shared load and store is a step of its own; a spinlock that is    *)
(* taken is a disabled step.  Memory is sequentially consistent: the code  *)
(* uses acquire loads, release stores and locked instructions on x86.      *)
(*                                                                         *)
(* Module Rcu extends this one with what the cores do inside and between   *)
(* their guards; EpochClock is the abstraction the other modules use.      *)
(***************************************************************************)
EXTENDS Integers

CONSTANTS
  NCores,       \* number of slots of ticks_
  MaxTick,      \* bound: tickerloop() stops bumping at this tick
  MaxDepth      \* bound: how deep guards nest on one core

ASSUME TickerAssumption ==
  /\ NCores \in Nat \ {0}
  /\ MaxTick \in Nat \ {0}
  /\ MaxDepth \in Nat \ {0}

Cores == 1..NCores

\* Owners of a slot's spinlock besides the core itself.
Free == 0
TICKER == -1
PERSISTER == -2

VARIABLES
  current_tick_,         \* which tick are we currently on
  last_tick_inclusive_,  \* every core has completed the ticks <= this one
  tick_,                 \* ticks_[c].current_tick_
  lock_,                 \* ticks_[c].lock_: its owner
  depth_,                \* ticks_[c].depth_
  seen,                  \* guard::tick_, the tick the core's guard has read
  gpc,                   \* where core c is in its guard
  tpc,                   \* where tickerloop() is
  slot                   \* the slot tickerloop() is visiting

tickerVars == <<current_tick_, last_tick_inclusive_, tick_, lock_, depth_,
                seen, gpc, tpc, slot>>

TickerInit ==
  /\ current_tick_ = 1
  /\ last_tick_inclusive_ = 0
  /\ tick_ = [c \in Cores |-> 1]
  /\ lock_ = [c \in Cores |-> Free]
  /\ depth_ = [c \in Cores |-> 0]
  /\ seen = [c \in Cores |-> 0]
  /\ gpc = [c \in Cores |-> "out"]
  /\ tpc = "bump"
  /\ slot = 1

global_last_tick_exclusive == last_tick_inclusive_ + 1

\* The core runs inside a guard and has published its tick.
InRegion(c) == gpc[c] = "in"

-----------------------------------------------------------------------------
(* The constructor and the destructor of guard.                            *)

\* The outermost guard bumps the depth, which only its own core reads, and
\* takes the slot's lock.
GuardLock(c, from) ==
  /\ gpc[c] = from
  /\ lock_[c] = Free
  /\ depth_' = [depth_ EXCEPT ![c] = 1]
  /\ lock_' = [lock_ EXCEPT ![c] = c]
  /\ gpc' = [gpc EXCEPT ![c] = "read"]
  /\ UNCHANGED <<current_tick_, last_tick_inclusive_, tick_, seen, tpc, slot>>

GuardRead(c) ==
  /\ gpc[c] = "read"
  /\ seen' = [seen EXCEPT ![c] = current_tick_]
  /\ gpc' = [gpc EXCEPT ![c] = "store"]
  /\ UNCHANGED <<current_tick_, last_tick_inclusive_, tick_, lock_, depth_, tpc, slot>>

GuardStore(c) ==
  /\ gpc[c] = "store"
  /\ tick_' = [tick_ EXCEPT ![c] = seen[c]]
  /\ gpc' = [gpc EXCEPT ![c] = "in"]
  /\ UNCHANGED <<current_tick_, last_tick_inclusive_, lock_, depth_, seen, tpc, slot>>

\* A guard inside a guard only counts.
GuardNested(c) ==
  /\ InRegion(c)
  /\ depth_[c] < MaxDepth
  /\ depth_' = [depth_ EXCEPT ![c] = @ + 1]
  /\ UNCHANGED <<current_tick_, last_tick_inclusive_, tick_, lock_, seen, gpc, tpc, slot>>

\* Mutant: the destructor counts down without asking whether it is the last.
GuardPopAlways(c) ==
  /\ InRegion(c)
  /\ depth_' = [depth_ EXCEPT ![c] = @ - 1]
  /\ UNCHANGED <<current_tick_, last_tick_inclusive_, tick_, lock_, seen, gpc, tpc, slot>>

GuardPop(c) ==
  /\ InRegion(c)
  /\ depth_[c] > 1
  /\ depth_' = [depth_ EXCEPT ![c] = @ - 1]
  /\ UNCHANGED <<current_tick_, last_tick_inclusive_, tick_, lock_, seen, gpc, tpc, slot>>

\* The outermost guard ends; the core continues at the point `to`.
GuardEnd(c, to) ==
  /\ InRegion(c)
  /\ depth_[c] = 1
  /\ depth_' = [depth_ EXCEPT ![c] = 0]
  /\ lock_' = [lock_ EXCEPT ![c] = Free]
  /\ seen' = [seen EXCEPT ![c] = 0]
  /\ gpc' = [gpc EXCEPT ![c] = to]
  /\ UNCHANGED <<current_tick_, last_tick_inclusive_, tick_, tpc, slot>>

-----------------------------------------------------------------------------
(* tickerloop().                                                           *)

TickBump ==
  /\ tpc = "bump"
  /\ current_tick_ < MaxTick
  /\ current_tick_' = current_tick_ + 1
  /\ tpc' = "visit"
  /\ slot' = 1
  /\ UNCHANGED <<last_tick_inclusive_, tick_, lock_, depth_, seen, gpc>>

\* Where the visit of the slots goes on after this one.
NextSlot == IF slot < NCores THEN tpc' = "visit" /\ slot' = slot + 1
                             ELSE tpc' = "publish" /\ slot' = 1

\* Mutant: a slot whose lock is taken is passed over, as try_lock() would.
TickVisitTries ==
  /\ tpc = "visit"
  /\ IF tick_[slot] = current_tick_ \/ lock_[slot] # Free
       THEN NextSlot
       ELSE tpc' = "lock" /\ UNCHANGED slot
  /\ UNCHANGED <<current_tick_, last_tick_inclusive_, tick_, lock_, depth_, seen, gpc>>

\* The unlocked look at the slot: a core already in the new tick is skipped.
TickVisit ==
  /\ tpc = "visit"
  /\ IF tick_[slot] = current_tick_ THEN NextSlot
                                    ELSE tpc' = "lock" /\ UNCHANGED slot
  /\ UNCHANGED <<current_tick_, last_tick_inclusive_, tick_, lock_, depth_, seen, gpc>>

TickLock ==
  /\ tpc = "lock"
  /\ lock_[slot] = Free
  /\ lock_' = [lock_ EXCEPT ![slot] = TICKER]
  /\ tpc' = "store"
  /\ UNCHANGED <<current_tick_, last_tick_inclusive_, tick_, depth_, seen, gpc, slot>>

TickStore ==
  /\ tpc = "store"
  /\ tick_' = [tick_ EXCEPT ![slot] = current_tick_]
  /\ lock_' = [lock_ EXCEPT ![slot] = Free]
  /\ NextSlot
  /\ UNCHANGED <<current_tick_, last_tick_inclusive_, depth_, seen, gpc>>

TickPublish ==
  /\ tpc = "publish"
  /\ last_tick_inclusive_' = current_tick_ - 1
  /\ tpc' = "bump"
  /\ UNCHANGED <<current_tick_, tick_, lock_, depth_, seen, gpc, slot>>

TickerLoop == TickBump \/ TickVisit \/ TickLock \/ TickStore \/ TickPublish

-----------------------------------------------------------------------------
TickerTypeOK ==
  /\ current_tick_ \in 1..MaxTick
  /\ last_tick_inclusive_ \in 0..MaxTick
  /\ tick_ \in [Cores -> 1..MaxTick]
  /\ lock_ \in [Cores -> Cores \union {Free, TICKER, PERSISTER}]
  /\ depth_ \in [Cores -> 0..MaxDepth]
  /\ seen \in [Cores -> 0..MaxTick]
  /\ tpc \in {"bump", "visit", "lock", "store", "publish"}
  /\ slot \in Cores

\* What ~guard() asserts, INVARIANT(tick_ > global_last_tick_inclusive()), and
\* what "all threads have *completed* ticks <= last_tick_inclusive_" (ticker.h)
\* promises: no core is inside a guard whose tick has been declared complete.
NoRegionInCompletedTick ==
  \A c \in Cores : gpc[c] \in {"store", "in"} => seen[c] > last_tick_inclusive_

\* What tickerloop() asserts of every slot it visits: while the clock waits for
\* tick t to drain, no core is more than one tick behind it.
OneTickApart ==
  \A c \in Cores : tick_[c] \in {current_tick_ - 1, current_tick_}

Clock == INSTANCE EpochClock WITH inside <- seen

\* The locks and the loop above implement the clock that EpochClock promises: a
\* guard enters its tick when it reads current_tick_, and TickPublish() declares
\* a tick complete only when every guard of it has ended.
ImplementsClock == Clock!ClockSpec
=============================================================================
