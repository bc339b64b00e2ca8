----------------------------- MODULE EpochClock -----------------------------
(***************************************************************************)
(* What the epoch clock of ticker.h promises to the code built on it: a    *)
(* tick is declared complete only when no core is inside it any more, and  *)
(* the clock never runs more than two ticks ahead of the completed ones.   *)
(* Module Ticker has the locks and the loop that implement it; the theorem *)
(* ClockImplemented of RcuProofs and the run rcu show that they do.        *)
(* The modules SiloLogger and SnapshotGC extend this one.                  *)
(***************************************************************************)
EXTENDS Integers

CONSTANTS
  NCores,   \* number of cores
  MaxTick   \* bound: the clock stops at this tick

ASSUME ClockAssumption ==
  /\ NCores \in Nat \ {0}
  /\ MaxTick \in Nat \ {0}

Cores == 1..NCores

VARIABLES
  current_tick_,
  last_tick_inclusive_,
  inside               \* the tick core c's guard runs in, 0 when it has none

clockVars == <<current_tick_, last_tick_inclusive_, inside>>

ClockInit ==
  /\ current_tick_ = 1
  /\ last_tick_inclusive_ = 0
  /\ inside = [c \in Cores |-> 0]

global_last_tick_exclusive == last_tick_inclusive_ + 1

\* guard(): the core takes its lock and reads the current tick.
Enter(c) ==
  /\ inside[c] = 0
  /\ inside' = [inside EXCEPT ![c] = current_tick_]
  /\ UNCHANGED <<current_tick_, last_tick_inclusive_>>

\* ~guard()
Leave(c) ==
  /\ inside[c] # 0
  /\ inside' = [inside EXCEPT ![c] = 0]
  /\ UNCHANGED <<current_tick_, last_tick_inclusive_>>

\* tickerloop() starts a tick when the one before the last is complete,
Advance ==
  /\ current_tick_ = last_tick_inclusive_ + 1
  /\ current_tick_ < MaxTick
  /\ current_tick_' = current_tick_ + 1
  /\ UNCHANGED <<last_tick_inclusive_, inside>>

\* and declares the previous tick complete when every core has left it.
Complete ==
  /\ current_tick_ = last_tick_inclusive_ + 2
  /\ \A c \in Cores : inside[c] \in {0, current_tick_}
  /\ last_tick_inclusive_' = current_tick_ - 1
  /\ UNCHANGED <<current_tick_, inside>>

Clock == Advance \/ Complete

ClockNext == Clock \/ \E c \in Cores : Enter(c) \/ Leave(c)

ClockSpec == ClockInit /\ [][ClockNext]_clockVars

ClockTypeOK ==
  /\ current_tick_ \in 1..MaxTick
  /\ last_tick_inclusive_ \in 0..MaxTick
  /\ inside \in [Cores -> 0..MaxTick]
=============================================================================
