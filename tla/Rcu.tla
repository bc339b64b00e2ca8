-------------------------------- MODULE Rcu --------------------------------
(***************************************************************************)
(* Epoch based reclamation (rcu.h, rcu.cc, the queue of pxqueue.h) on top  *)
(* of the epoch clock of module Ticker.                                    *)
(*                                                                         *)
(* A core loads shared pointers inside a scoped_rcu_region, unlinks        *)
(* objects and queues them with free_with_fn() under the RCU tick that     *)
(* must pass first.  When its outermost region ends it runs do_cleanup(),  *)
(* which moves what is old enough to scratch_ and runs the deleters inside *)
(* a region of their own; the end of that region calls do_cleanup() again. *)
(*                                                                         *)
(* The clients are those of rcu_stress_test(): every slot holds a pointer  *)
(* that some core swaps out, frees and later replaces.  An object that was *)
(* freed is allocated again, so a late reader would see somebody else's    *)
(* object.  free_with_fn() and empty_accept_from() only touch the core's   *)
(* own queues and are one step with the access that precedes them.         *)
(***************************************************************************)
EXTENDS Ticker, Sequences, FiniteSets

CONSTANTS
  Objects,               \* what the cores allocate, share and free
  Slots,                 \* the shared pointers
  EpochTimeMultiplier    \* ticks per RCU tick

ASSUME RcuAssumption == EpochTimeMultiplier \in Nat \ {0}

null == "null"

VARIABLES
  ptr,                   \* the object a slot points to, or null
  objst,                 \* "free", "live" (linked) or "retired" (queued)
  held,                  \* pointers the core has loaded in its current region
  queue_,                \* sync::queue_, a sequence of [obj, tick]
  scratch_,              \* sync::scratch_
  last_reaped_epoch_,
  reaping                \* the core's region is the one of do_cleanup()

rcuVars == <<ptr, objst, held, queue_, scratch_, last_reaped_epoch_, reaping>>
vars == <<tickerVars, rcuVars>>

Entry == [obj : Objects, tick : Nat]

RcuInit ==
  /\ ptr = [s \in Slots |-> null]
  /\ objst = [o \in Objects |-> "free"]
  /\ held = [c \in Cores |-> {}]
  /\ queue_ = [c \in Cores |-> << >>]
  /\ scratch_ = [c \in Cores |-> << >>]
  /\ last_reaped_epoch_ = [c \in Cores |-> 0]
  /\ reaping = [c \in Cores |-> FALSE]

Init == TickerInit /\ RcuInit

to_rcu_ticks(t) == t \div EpochTimeMultiplier

cleaning_rcu_tick_exclusive == to_rcu_ticks(global_last_tick_exclusive)

\* Mutant: the unlinking core's own tick, although others may be one ahead.
RetireTickOwn(c) == to_rcu_ticks(tick_[c])

\* The tick an object unlinked by core c is queued under: the other cores may
\* be one tick ahead.
RetireTick(c) == to_rcu_ticks(tick_[c] + 1)

-----------------------------------------------------------------------------
(* What a client does inside its region.                                   *)

Working(c) == InRegion(c) /\ ~reaping[c]

Load(c, s) ==
  /\ Working(c)
  /\ ptr[s] # null
  /\ held' = [held EXCEPT ![c] = @ \union {ptr[s]}]
  /\ UNCHANGED <<tickerVars, ptr, objst, queue_, scratch_, last_reaped_epoch_, reaping>>

\* Swap the object out and hand it to free_with_fn() (or dealloc_rcu()).
Unlink(c, s) ==
  /\ Working(c)
  /\ ptr[s] # null
  /\ ptr' = [ptr EXCEPT ![s] = null]
  /\ objst' = [objst EXCEPT ![ptr[s]] = "retired"]
  /\ queue_' = [queue_ EXCEPT ![c] = Append(@, [obj |-> ptr[s], tick |-> RetireTick(c)])]
  /\ UNCHANGED <<tickerVars, held, scratch_, last_reaped_epoch_, reaping>>

\* Allocate an object and publish it.
Alloc(c, s, o) ==
  /\ Working(c)
  /\ ptr[s] = null
  /\ objst[o] = "free"
  /\ ptr' = [ptr EXCEPT ![s] = o]
  /\ objst' = [objst EXCEPT ![o] = "live"]
  /\ UNCHANGED <<tickerVars, held, queue_, scratch_, last_reaped_epoch_, reaping>>

-----------------------------------------------------------------------------
(* ~scoped_rcu_base() and do_cleanup().                                    *)

\* The outermost region ends; every pointer loaded in it is out of scope.
RegionEnd(c) ==
  /\ GuardEnd(c, "cleanup")
  /\ reaping[c] => scratch_[c] = << >>
  /\ held' = [held EXCEPT ![c] = {}]
  /\ reaping' = [reaping EXCEPT ![c] = FALSE]
  /\ UNCHANGED <<ptr, objst, queue_, scratch_, last_reaped_epoch_>>

\* Mutant: < for <=, so the youngest group that could go stays.
AcceptedOlder(q, tick, n) ==
  /\ \A i \in 1..n : q[i].tick < tick
  /\ n < Len(q) => q[n + 1].tick >= tick

\* empty_accept_from(): the longest prefix of q whose entries are <= tick has n.
Accepted(q, tick, n) ==
  /\ \A i \in 1..n : q[i].tick <= tick
  /\ n < Len(q) => q[n + 1].tick > tick

\* Nothing to clean yet, or this RCU tick was cleaned before.
CleanupSkip(c) ==
  /\ gpc[c] = "cleanup"
  /\ \/ cleaning_rcu_tick_exclusive = 0
     \/ last_reaped_epoch_[c] = cleaning_rcu_tick_exclusive - 1
  /\ gpc' = [gpc EXCEPT ![c] = "out"]
  /\ UNCHANGED <<current_tick_, last_tick_inclusive_, tick_, lock_, depth_, seen, tpc, slot>>
  /\ UNCHANGED rcuVars

\* Mutant: the epoch is marked as reaped before it can be.
CleanupMarksNext(c) ==
  LET clean_tick == cleaning_rcu_tick_exclusive - 1 IN
  /\ gpc[c] = "cleanup"
  /\ cleaning_rcu_tick_exclusive # 0
  /\ last_reaped_epoch_[c] # clean_tick
  /\ last_reaped_epoch_' = [last_reaped_epoch_ EXCEPT ![c] = clean_tick + 1]
  /\ \E n \in 0..Len(queue_[c]) :
       /\ Accepted(queue_[c], clean_tick, n)
       /\ scratch_' = [scratch_ EXCEPT ![c] = SubSeq(queue_[c], 1, n)]
       /\ queue_' = [queue_ EXCEPT ![c] = SubSeq(queue_[c], n + 1, Len(queue_[c]))]
       /\ reaping' = [reaping EXCEPT ![c] = n > 0]
       /\ gpc' = [gpc EXCEPT ![c] = IF n > 0 THEN "reap" ELSE "out"]
  /\ UNCHANGED <<current_tick_, last_tick_inclusive_, tick_, lock_, depth_, seen, tpc, slot,
                 ptr, objst, held>>

\* Move what is old enough to scratch_; if that is anything, enter the region
\* the deleters run in.
Cleanup(c) ==
  LET clean_tick == cleaning_rcu_tick_exclusive - 1 IN
  /\ gpc[c] = "cleanup"
  /\ cleaning_rcu_tick_exclusive # 0
  /\ last_reaped_epoch_[c] # clean_tick
  /\ last_reaped_epoch_' = [last_reaped_epoch_ EXCEPT ![c] = clean_tick]
  /\ \E n \in 0..Len(queue_[c]) :
       /\ Accepted(queue_[c], clean_tick, n)
       /\ scratch_' = [scratch_ EXCEPT ![c] = SubSeq(queue_[c], 1, n)]
       /\ queue_' = [queue_ EXCEPT ![c] = SubSeq(queue_[c], n + 1, Len(queue_[c]))]
       /\ reaping' = [reaping EXCEPT ![c] = n > 0]
       /\ gpc' = [gpc EXCEPT ![c] = IF n > 0 THEN "reap" ELSE "out"]
  /\ UNCHANGED <<current_tick_, last_tick_inclusive_, tick_, lock_, depth_, seen, tpc, slot,
                 ptr, objst, held>>

\* delete_entry::run(): the memory may be handed out again.
RunDeleter(c) ==
  /\ InRegion(c)
  /\ reaping[c]
  /\ scratch_[c] # << >>
  /\ objst' = [objst EXCEPT ![Head(scratch_[c]).obj] = "free"]
  /\ scratch_' = [scratch_ EXCEPT ![c] = Tail(@)]
  /\ UNCHANGED <<tickerVars, ptr, held, queue_, last_reaped_epoch_, reaping>>

-----------------------------------------------------------------------------
\* The constructor of scoped_rcu_region, in a client or in do_cleanup().
Enter(c) == GuardLock(c, "out") \/ GuardLock(c, "reap") \/ GuardRead(c) \/ GuardStore(c)

Region(c) ==
  \/ Enter(c) /\ UNCHANGED rcuVars
  \/ (GuardNested(c) \/ GuardPop(c)) /\ UNCHANGED rcuVars
  \/ RegionEnd(c)
  \/ CleanupSkip(c)
  \/ Cleanup(c)
  \/ RunDeleter(c)

Client(c) ==
  \E s \in Slots : \/ Load(c, s)
                   \/ Unlink(c, s)
                   \/ \E o \in Objects : Alloc(c, s, o)

Ticking == TickerLoop /\ UNCHANGED rcuVars

Next == Ticking \/ \E c \in Cores : Region(c) \/ Client(c)

\* What a core does on the way out of its region and through do_cleanup().
Leave(c) == (GuardPop(c) /\ UNCHANGED rcuVars) \/ RegionEnd(c)
Finish(c) == CleanupSkip(c) \/ Cleanup(c) \/ RunDeleter(c)

(***************************************************************************)
(* A core's code runs to its end and regions are entered again and again.  *)
(* A region that nests and unnests guards for ever, and a slot's spinlock  *)
(* that is free again and again but never obtained by tickerloop(), are    *)
(* excluded by strong fairness.                                            *)
(***************************************************************************)
Fairness ==
  /\ WF_vars(Ticking)
  /\ SF_vars(TickLock /\ UNCHANGED rcuVars)
  /\ \A c \in Cores :
       /\ WF_vars(Enter(c) /\ UNCHANGED rcuVars)
       /\ SF_vars(RegionEnd(c))
       /\ WF_vars(Leave(c))
       /\ WF_vars(Finish(c))

Spec == Init /\ [][Next]_vars /\ Fairness

-----------------------------------------------------------------------------
\* The type invariant of the clock and of the reclamation: a core that is through
\* with its region is on its way through do_cleanup(), and no pointer but null
\* leads outside Objects.
TypeOK ==
  /\ TickerTypeOK
  /\ gpc \in [Cores -> {"out", "read", "store", "in", "cleanup", "reap"}]
  /\ ptr \in [Slots -> Objects \union {null}]
  /\ objst \in [Objects -> {"free", "live", "retired"}]
  /\ held \in [Cores -> SUBSET Objects]
  /\ queue_ \in [Cores -> Seq(Entry)]
  /\ scratch_ \in [Cores -> Seq(Entry)]
  /\ last_reaped_epoch_ \in [Cores -> Nat]
  /\ reaping \in [Cores -> BOOLEAN]

\* An object that some core can still dereference is never handed back to the
\* allocator: the deleters run only after every region that was open when
\* free_with_fn() was called has ended.
NoUseAfterFree == \A c \in Cores : \A o \in held[c] : objst[o] # "free"

\* What do_cleanup() asserts: INVARIANT(last_reaped_epoch_ <= clean_tick), and
\* its early return relies on: everything up to the last reaped epoch is gone
\* from the queue, so nothing is left to wait for an epoch that never returns.
NothingLeftBehind ==
  \A c \in Cores :
    /\ last_reaped_epoch_[c] < cleaning_rcu_tick_exclusive \/ last_reaped_epoch_[c] = 0
    /\ \A i \in DOMAIN queue_[c] :
         queue_[c][i].tick > last_reaped_epoch_[c] \/ last_reaped_epoch_[c] = 0

\* The last RCU tick that the bounded clock lets the cores clean.
LastClean == to_rcu_ticks(MaxTick) - 1

\* Memory is reclaimed: an object queued early enough for the bounded clock to
\* pass its tick is freed in the end, whatever the other cores do.
EventuallyReclaimed ==
  \A c \in Cores :
    (\E i \in DOMAIN queue_[c] : queue_[c][i].tick <= LastClean)
      ~> (\A i \in DOMAIN queue_[c] : queue_[c][i].tick > LastClean)
=============================================================================
