--------------------------- MODULE FollowerReplay ---------------------------
(***************************************************************************)
(* One Rolis follower replaying its Paxos streams under the watermark.     *)
(*                                                                         *)
(* Every worker thread of the leader has a Paxos stream of its own; on a   *)
(* follower one thread per stream receives the committed entries in slot   *)
(* order (PaxosWorker::Next) and hands each one to the replay callback     *)
(* that dbtest.cc registers.  A log entry is replayed when its commit      *)
(* timestamp is at most the watermark G, else it waits in the stream's     *)
(* queue un_replay_logs_.  G is computed by a background thread, the       *)
(* advancer (sync_util.hh), as the minimum of the latest timestamps cg_    *)
(* of the streams.                                                         *)
(*                                                                         *)
(* An entry is one of: a batch of transactions, the no-op by which a new   *)
(* leader ends the old epoch, the empty log that ends the stream.  On a    *)
(* no-op the streams meet at three counting barriers: all have received    *)
(* it, all have cut their queues at the final watermark, all have reset    *)
(* their cg_.                                                              *)
(*                                                                         *)
(* One action is one access to a variable the threads share, together      *)
(* with the thread-local work around it.                                   *)
(***************************************************************************)
EXTENDS Naturals, Sequences, FiniteSets

CONSTANTS
    N,          \* nthreads: the number of streams
    UMax,       \* numeric_limits<uint64_t>::max()
    MaxTs,      \* bound: timestamps of log entries are 1..MaxTs
    MaxNoops,   \* bound: failovers (no-ops per stream)
    FailWhileEnding  \* may the leader fail after it sent an ending signal?

ASSUME NAssumption == N \in Nat \ {0}
ASSUME UMaxAssumption == UMax \in Nat
ASSUME MaxTsAssumption == MaxTs \in Nat /\ MaxTs < UMax
ASSUME MaxNoopsAssumption == MaxNoops \in Nat
ASSUME FailWhileEndingAssumption == FailWhileEnding \in BOOLEAN

Streams == 0 .. N - 1

VARIABLES
    G,          \* G_: the watermark
    cg,         \* cg_[i]: latest timestamp delivered on stream i, 0 none
    noops_cnt, noops_cnt_hole, noops_cnt_init,  \* the barrier counters
    running,    \* cleared by shutdown()
    end_recv, count,    \* main()'s view of the ended streams
    queue,      \* un_replay_logs_ of each stream
    pc,         \* where each stream's thread is in the callback
    hold,       \* the log entry the thread is handling
    idx, low,   \* computeG's loop index and min_so_far, per thread
    adv         \* the advancer thread: its place, index and min_so_far

VARIABLES       \* history, read by no guard of the code's own steps
    epoch,      \* epoch[i]: no-ops stream i has delivered
    ended,      \* ended[i]: stream i has delivered its ending signal
    got, applied, dropped,  \* log entries of stream i since its last reset:
                            \* delivered, replayed, discarded
    warm        \* G comes from a scan begun with every stream started

shared == <<G, cg, noops_cnt, noops_cnt_hole, noops_cnt_init>>
counters == <<noops_cnt, noops_cnt_hole, noops_cnt_init>>
mainVars == <<running, end_recv, count>>
scanVars == <<idx, low>>
ledger == <<got, applied, dropped>>
history == <<epoch, ended, got, applied, dropped, warm>>
vars == <<G, cg, noops_cnt, noops_cnt_hole, noops_cnt_init, running,
          end_recv, count, queue, pc, hold, idx, low, adv, history>>

-----------------------------------------------------------------------------
\* A log entry: its timestamp (the cid divided by 1000) and the epoch that the
\* cid carries in its last three digits.
LogEntry == [cid : 1 .. MaxTs, ep : 0 .. MaxNoops]

\* The thread's places: a batch is checked, then the queue drained; a no-op
\* goes from the first barrier to the second computeG; an ending signal lags.
BatchPlaces == {"check", "drain"}
CutPlaces == {"cscan", "cstore", "cload", "hole"}
BeforeReset == {"b1", "b2", "reset"} \cup CutPlaces
AfterReset == {"init", "b3", "gscan", "gstore"}
EndPlaces == {"endstore", "lag"}
Places == {"idle"} \cup BatchPlaces \cup BeforeReset \cup AfterReset
                   \cup EndPlaces

AdvPlaces == {"top", "read", "reread", "store", "stopped"}

\* The advancer between two scans: its locals are gone.
AdvIdle == [at |-> "top", i |-> 0, min |-> UMax, fresh |-> FALSE]

NoEntry == [cid |-> 0, ep |-> 0]

Elements(s) == {s[k] : k \in DOMAIN s}

Min2(a, b) == IF a <= b THEN a ELSE b

\* The minimum G is documented to be: over all streams.
MinCg == CHOOSE c \in {cg[i] : i \in Streams} : \A i \in Streams : c <= cg[i]

-----------------------------------------------------------------------------
\* sync_logger::Init, and the static initialisers.
Init ==
    /\ G = 0
    /\ cg = [i \in Streams |-> 0]
    /\ noops_cnt = 0 /\ noops_cnt_hole = 0 /\ noops_cnt_init = 0
    /\ running = TRUE
    /\ end_recv = FALSE /\ count = 0
    /\ queue = [i \in Streams |-> <<>>]
    /\ pc = [i \in Streams |-> "idle"]
    /\ hold = [i \in Streams |-> NoEntry]
    /\ idx = [i \in Streams |-> 0]
    /\ low = [i \in Streams |-> UMax]
    /\ adv = AdvIdle
    /\ epoch = [i \in Streams |-> 0]
    /\ ended = [i \in Streams |-> FALSE]
    /\ got = [i \in Streams |-> {}]
    /\ applied = [i \in Streams |-> {}]
    /\ dropped = [i \in Streams |-> {}]
    /\ warm = FALSE

Goto(i, place) == pc' = [pc EXCEPT ![i] = place]

-----------------------------------------------------------------------------
(* The advancer thread: while(running) { scan; store; sleep }.             *)

AdvTop ==
    /\ adv.at = "top"
    /\ adv' = IF running
              THEN [at |-> "read", i |-> 0, min |-> UMax,
                    fresh |-> \A j \in Streams : cg[j] > 0]
              ELSE [adv EXCEPT !.at = "stopped"]
    /\ UNCHANGED <<shared, mainVars, queue, pc, hold, scanVars, history>>

\* Slip for AdvRead: the loop stops one stream short.
AdvReadShort ==
    /\ adv.at = "read"
    /\ adv' = IF adv.i = N - 1 THEN [adv EXCEPT !.at = "store"]
              ELSE IF cg[adv.i] > 0 THEN [adv EXCEPT !.at = "reread"]
              ELSE [adv EXCEPT !.i = @ + 1]
    /\ UNCHANGED <<shared, mainVars, queue, pc, hold, scanVars, history>>

\* The first load of cg_[i]: a stream that has delivered nothing is skipped.
AdvRead ==
    /\ adv.at = "read"
    /\ adv' = IF adv.i = N THEN [adv EXCEPT !.at = "store"]
              ELSE IF cg[adv.i] > 0 THEN [adv EXCEPT !.at = "reread"]
              ELSE [adv EXCEPT !.i = @ + 1]
    /\ UNCHANGED <<shared, mainVars, queue, pc, hold, scanVars, history>>

\* The second load, the one that enters the minimum.
AdvReread ==
    /\ adv.at = "reread"
    /\ adv' = [adv EXCEPT !.at = "read", !.i = @ + 1,
                          !.min = Min2(@, cg[adv.i])]
    /\ UNCHANGED <<shared, mainVars, queue, pc, hold, scanVars, history>>

\* Slip for AdvStore: the thread does not come round again.
AdvStoreOnce ==
    /\ adv.at = "store"
    /\ G' = adv.min
    /\ warm' = adv.fresh
    /\ adv' = [AdvIdle EXCEPT !.at = "stopped"]
    /\ UNCHANGED <<cg, counters, mainVars, queue, pc, hold, scanVars,
                   epoch, ended, ledger>>

AdvStore ==
    /\ adv.at = "store"
    /\ G' = adv.min
    /\ warm' = adv.fresh
    /\ adv' = AdvIdle
    /\ UNCHANGED <<cg, counters, mainVars, queue, pc, hold, scanVars,
                   epoch, ended, ledger>>

Advancer == AdvTop \/ AdvRead \/ AdvReread \/ AdvStore

-----------------------------------------------------------------------------
(* A batch of transactions on stream i.                                    *)

RecvBatch(i) ==
    /\ pc[i] = "idle" /\ ~ended[i]
    /\ \E c \in cg[i] + 1 .. MaxTs :
         LET e == [cid |-> c, ep |-> epoch[i]] IN
         /\ cg' = [cg EXCEPT ![i] = c]
         /\ hold' = [hold EXCEPT ![i] = e]
         /\ got' = [got EXCEPT ![i] = @ \cup {e}]
    /\ Goto(i, "check")
    /\ UNCHANGED <<G, counters, mainVars, queue, scanVars, adv,
                   epoch, ended, applied, dropped, warm>>

\* Slip for CheckBatch: the entry is replayed and its status stays 3.
CheckBatchKeepsStatus(i) ==
    /\ pc[i] = "check"
    /\ applied' = IF hold[i].cid > G THEN applied
                  ELSE [applied EXCEPT ![i] = @ \cup {hold[i]}]
    /\ Goto(i, "drain")
    /\ UNCHANGED <<shared, mainVars, queue, hold, scanVars, adv,
                   epoch, ended, got, dropped, warm>>

\* Slip for CheckBatch: the check admits the entry just above the watermark.
CheckBatchOffByOne(i) ==
    /\ pc[i] = "check"
    /\ IF hold[i].cid > G + 1
       THEN UNCHANGED <<hold, applied>>
       ELSE /\ applied' = [applied EXCEPT ![i] = @ \cup {hold[i]}]
            /\ hold' = [hold EXCEPT ![i] = NoEntry]
    /\ Goto(i, "drain")
    /\ UNCHANGED <<shared, mainVars, queue, scanVars, adv,
                   epoch, ended, got, dropped, warm>>

\* The safety check: status 4 replays the entry at once, status 3 keeps it.
CheckBatch(i) ==
    /\ pc[i] = "check"
    /\ IF hold[i].cid > G
       THEN UNCHANGED <<hold, applied>>
       ELSE /\ applied' = [applied EXCEPT ![i] = @ \cup {hold[i]}]
            /\ hold' = [hold EXCEPT ![i] = NoEntry]
    /\ Goto(i, "drain")
    /\ UNCHANGED <<shared, mainVars, queue, scanVars, adv,
                   epoch, ended, got, dropped, warm>>

\* The drain loop takes the first n entries of stream i's queue under
\* watermark g: it stops at the first one above g.
Ready(i, g, n) == /\ \A k \in 1 .. n : queue[i][k].cid <= g
                  /\ n < Len(queue[i]) => queue[i][n + 1].cid > g

\* Slip for PushHeld: Next pushes whatever the status is.
PushAlways(i, rest) == Append(rest, hold[i])

\* PaxosWorker::Next: an entry that came back with status 3 joins the queue.
PushHeld(i, rest) ==
    IF hold[i] = NoEntry THEN rest ELSE Append(rest, hold[i])

\* retrieveG, drain the queue, return to PaxosWorker::Next.
DrainBatch(i) ==
    /\ pc[i] = "drain"
    /\ \E n \in 0 .. Len(queue[i]) :
         LET rest == SubSeq(queue[i], n + 1, Len(queue[i])) IN
         /\ Ready(i, G, n)
         /\ applied' = [applied EXCEPT ![i] =
                          @ \cup {queue[i][k] : k \in 1 .. n}]
         /\ queue' = [queue EXCEPT ![i] = PushHeld(i, rest)]
    /\ hold' = [hold EXCEPT ![i] = NoEntry]
    /\ Goto(i, "idle")
    /\ UNCHANGED <<shared, mainVars, scanVars, adv,
                   epoch, ended, got, dropped, warm>>

-----------------------------------------------------------------------------
(* A no-op on stream i.                                                    *)

\* The environment's part of the guard: streams end only with the benchmark,
\* so no failover follows an ending signal unless FailWhileEnding.
NoopMayCome(i) == FailWhileEnding \/ \A j \in Streams : ~ended[j]

RecvNoop(i) ==
    /\ pc[i] = "idle" /\ epoch[i] < MaxNoops /\ NoopMayCome(i)
    /\ epoch' = [epoch EXCEPT ![i] = @ + 1]
    /\ noops_cnt' = noops_cnt + 1
    /\ Goto(i, "b1")
    /\ UNCHANGED <<G, cg, noops_cnt_hole, noops_cnt_init, mainVars, queue,
                   hold, scanVars, adv, ended, ledger, warm>>

\* Slip for Barrier1: nobody waits.
Barrier1Open(i) ==
    /\ pc[i] = "b1"
    /\ Goto(i, "cscan")
    /\ UNCHANGED <<shared, mainVars, queue, hold, scanVars, adv, history>>

\* Slip for Barrier1: the counter is compared with nthreads, not reduced by it.
Barrier1Once(i) ==
    /\ pc[i] = "b1" /\ noops_cnt = N
    /\ Goto(i, "cscan")
    /\ UNCHANGED <<shared, mainVars, queue, hold, scanVars, adv, history>>

Barrier1(i) ==
    /\ pc[i] = "b1" /\ noops_cnt % N = 0
    /\ Goto(i, "cscan")
    /\ UNCHANGED <<shared, mainVars, queue, hold, scanVars, adv, history>>

\* One iteration of computeG's loop; it leaves for "done" after the last.  Its
\* locals are 0 and UMax whenever the thread is not in computeG.
ScanStep(i, done) ==
    /\ IF idx[i] = N
       THEN /\ Goto(i, done)
            /\ idx' = [idx EXCEPT ![i] = 0]
            /\ UNCHANGED low
       ELSE /\ low' = [low EXCEPT ![i] = Min2(@, cg[idx[i]])]
            /\ idx' = [idx EXCEPT ![i] = @ + 1]
            /\ UNCHANGED pc
    /\ UNCHANGED <<shared, mainVars, queue, hold, adv, history>>

StoreG(i) == G' = low[i] /\ low' = [low EXCEPT ![i] = UMax]

CutScan(i) == pc[i] = "cscan" /\ ScanStep(i, "cstore")

CutStore(i) ==
    /\ pc[i] = "cstore"
    /\ StoreG(i)
    /\ Goto(i, "cload")
    /\ UNCHANGED <<cg, counters, mainVars, queue, hold, idx, adv, history>>

\* Slip for CutLoad: the loop breaks at the first entry above the watermark, as
\* the loop for batches does.
CutLoadKeepsRest(i) ==
    /\ pc[i] = "cload"
    /\ \E n \in 0 .. Len(queue[i]) :
         /\ Ready(i, G, n)
         /\ applied' = [applied EXCEPT ![i] =
                          @ \cup {queue[i][k] : k \in 1 .. n}]
         /\ queue' = [queue EXCEPT ![i] =
                        SubSeq(@, n + 1, Len(@))]
    /\ Goto(i, "hole")
    /\ UNCHANGED <<shared, mainVars, hold, scanVars, adv,
                   epoch, ended, got, dropped, warm>>

\* computeG returns a second load of G; under it the loop replays the entries
\* up to the watermark and throws the others away.
CutLoad(i) ==
    /\ pc[i] = "cload"
    /\ applied' = [applied EXCEPT ![i] = @ \cup
                     {e \in Elements(queue[i]) : e.cid <= G}]
    /\ dropped' = [dropped EXCEPT ![i] = @ \cup
                     {e \in Elements(queue[i]) : e.cid > G}]
    /\ queue' = [queue EXCEPT ![i] = <<>>]
    /\ Goto(i, "hole")
    /\ UNCHANGED <<shared, mainVars, hold, scanVars, adv,
                   epoch, ended, got, warm>>

IncHole(i) ==
    /\ pc[i] = "hole"
    /\ noops_cnt_hole' = noops_cnt_hole + 1
    /\ Goto(i, "b2")
    /\ UNCHANGED <<G, cg, noops_cnt, noops_cnt_init, mainVars, queue, hold,
                   scanVars, adv, history>>

\* Slip for Barrier2: the thread waits at the counter of the first barrier.
Barrier2WrongCounter(i) ==
    /\ pc[i] = "b2" /\ noops_cnt % N = 0
    /\ Goto(i, "reset")
    /\ UNCHANGED <<shared, mainVars, queue, hold, scanVars, adv, history>>

Barrier2(i) ==
    /\ pc[i] = "b2" /\ noops_cnt_hole % N = 0
    /\ Goto(i, "reset")
    /\ UNCHANGED <<shared, mainVars, queue, hold, scanVars, adv, history>>

ResetCg(i) ==
    /\ pc[i] = "reset"
    /\ cg' = [cg EXCEPT ![i] = 0]
    /\ warm' = FALSE
    /\ adv' = [adv EXCEPT !.fresh = FALSE]
    /\ got' = [got EXCEPT ![i] = {}]
    /\ applied' = [applied EXCEPT ![i] = {}]
    /\ dropped' = [dropped EXCEPT ![i] = {}]
    /\ Goto(i, "init")
    /\ UNCHANGED <<G, counters, mainVars, queue, hold, scanVars, epoch, ended>>

IncInit(i) ==
    /\ pc[i] = "init"
    /\ noops_cnt_init' = noops_cnt_init + 1
    /\ Goto(i, "b3")
    /\ UNCHANGED <<G, cg, noops_cnt, noops_cnt_hole, mainVars, queue, hold,
                   scanVars, adv, history>>

Barrier3(i) ==
    /\ pc[i] = "b3" /\ noops_cnt_init % N = 0
    /\ Goto(i, "gscan")
    /\ UNCHANGED <<shared, mainVars, queue, hold, scanVars, adv, history>>

FinalScan(i) == pc[i] = "gscan" /\ ScanStep(i, "gstore")

FinalStore(i) ==
    /\ pc[i] = "gstore"
    /\ StoreG(i)
    /\ Goto(i, "idle")
    /\ UNCHANGED <<cg, counters, mainVars, queue, hold, idx, adv, history>>

-----------------------------------------------------------------------------
(* The ending signal on stream i.                                          *)

\* Unless FailWhileEnding, a stream whose peer has a no-op gets it first.
EndMayCome(i) ==
    FailWhileEnding \/ \A j \in Streams : epoch[j] <= epoch[i]

RecvEnd(i) ==
    /\ pc[i] = "idle" /\ ~ended[i] /\ EndMayCome(i)
    /\ ended' = [ended EXCEPT ![i] = TRUE]
    /\ end_recv' = TRUE
    /\ count' = count + 1
    /\ Goto(i, "endstore")
    /\ UNCHANGED <<shared, running, queue, hold, scanVars, adv,
                   epoch, ledger, warm>>

EndStore(i) ==
    /\ pc[i] = "endstore"
    /\ cg' = [cg EXCEPT ![i] = UMax]
    /\ Goto(i, "lag")
    /\ UNCHANGED <<G, counters, mainVars, queue, hold, scanVars, adv,
                   history>>

\* The lag stage: one round of the loop that drains the queue.
LagReplay(i) ==
    /\ pc[i] = "lag" /\ queue[i] # <<>> /\ Head(queue[i]).cid <= G
    /\ applied' = [applied EXCEPT ![i] = @ \cup {Head(queue[i])}]
    /\ queue' = [queue EXCEPT ![i] = Tail(@)]
    /\ UNCHANGED <<shared, mainVars, pc, hold, scanVars, adv,
                   epoch, ended, got, dropped, warm>>

LagDone(i) ==
    /\ pc[i] = "lag" /\ queue[i] = <<>>
    /\ Goto(i, "idle")
    /\ UNCHANGED <<shared, mainVars, queue, hold, scanVars, adv, history>>

\* main() sees that every stream has ended and calls shutdown().
Shutdown ==
    /\ count = N /\ end_recv /\ running
    /\ running' = FALSE
    /\ UNCHANGED <<shared, end_recv, count, queue, pc, hold, scanVars, adv,
                   history>>

-----------------------------------------------------------------------------
\* What the stream's thread does by itself; entries arrive from Paxos.
ThreadStep(i) ==
    \/ CheckBatch(i) \/ DrainBatch(i)
    \/ Barrier1(i) \/ CutScan(i) \/ CutStore(i) \/ CutLoad(i) \/ IncHole(i)
    \/ Barrier2(i) \/ ResetCg(i) \/ IncInit(i) \/ Barrier3(i)
    \/ FinalScan(i) \/ FinalStore(i)
    \/ EndStore(i) \/ LagReplay(i) \/ LagDone(i)

Deliver(i) == RecvBatch(i) \/ RecvNoop(i) \/ RecvEnd(i)

Next == \/ Advancer
        \/ Shutdown
        \/ \E i \in Streams : Deliver(i) \/ ThreadStep(i)

Spec == Init /\ [][Next]_vars

\* Threads are scheduled: the advancer and every stream's thread keep running,
\* and Paxos goes on delivering to an idle thread until its stream has ended.
\* When main() polls is not under fairness.
FairSpec == /\ Spec
            /\ WF_vars(Advancer)
            /\ \A i \in Streams : WF_vars(ThreadStep(i)) /\ WF_vars(Deliver(i))

-----------------------------------------------------------------------------
(* Properties.                                                             *)

SharedType ==
    /\ G \in 0 .. UMax
    /\ cg \in [Streams -> 0 .. MaxTs \cup {UMax}]
    /\ noops_cnt \in Nat /\ noops_cnt_hole \in Nat /\ noops_cnt_init \in Nat

MainType == running \in BOOLEAN /\ end_recv \in BOOLEAN /\ count \in Nat

ThreadType ==
    /\ queue \in [Streams -> Seq(LogEntry)]
    /\ pc \in [Streams -> Places]
    /\ hold \in [Streams -> LogEntry \cup {NoEntry}]
    /\ \A i \in Streams : pc[i] = "check" => hold[i] # NoEntry
    /\ idx \in [Streams -> 0 .. N]
    /\ low \in [Streams -> 0 .. UMax]

AdvType ==
    /\ adv \in [at : AdvPlaces, i : 0 .. N, min : 0 .. UMax, fresh : BOOLEAN]
    /\ adv.at = "reread" => adv.i < N

HistoryType ==
    /\ epoch \in [Streams -> 0 .. MaxNoops]
    /\ ended \in [Streams -> BOOLEAN]
    /\ got \in [Streams -> SUBSET LogEntry]
    /\ applied \in [Streams -> SUBSET LogEntry]
    /\ dropped \in [Streams -> SUBSET LogEntry]
    /\ warm \in BOOLEAN

\* Types of all variables: G and cg_ stay within uint64, the queues hold log
\* entries only, the scans' indices stay within the streams.
TypeOK == SharedType /\ MainType /\ ThreadType /\ AdvType /\ HistoryType

InHand(i) == IF hold[i] = NoEntry THEN {} ELSE {hold[i]}

\* Every delivered log entry has exactly one fate: replayed, discarded by a
\* no-op, waiting in the queue, or in the thread's hands.  The callback's
\* status codes, the drain loops and PaxosWorker::Next's push lose nothing
\* and replay nothing twice.
ExactlyOnce ==
    \A i \in Streams :
      /\ got[i] = applied[i] \cup dropped[i] \cup Elements(queue[i])
                   \cup InHand(i)
      /\ applied[i] \cap dropped[i] = {}
      /\ (applied[i] \cup dropped[i]) \cap Elements(queue[i]) = {}
      /\ (applied[i] \cup dropped[i] \cup Elements(queue[i]))
           \cap InHand(i) = {}
      /\ \A a, b \in DOMAIN queue[i] : a # b => queue[i][a] # queue[i][b]

\* No log entry of an old epoch outlives the no-op that ends the epoch: once
\* the thread has cut its queue, only entries of the new epoch are in it, in
\* timestamp order and none above the stream's own cg_.
EpochFence ==
    \A i \in Streams :
      /\ \A k \in DOMAIN queue[i] :
           /\ queue[i][k].ep =
                IF pc[i] \in {"b1", "cscan", "cstore", "cload"}
                THEN epoch[i] - 1 ELSE epoch[i]
           /\ queue[i][k].cid <= cg[i]
      /\ \A a, b \in DOMAIN queue[i] : a < b => queue[i][a].cid < queue[i][b].cid

\* The three barriers separate the stages of a no-op: while one stream cuts
\* its queue all are between the first and the second barrier; none resets
\* its cg_ before all have cut; none takes an entry of the new epoch before
\* all have reset.
BarriersSeparate ==
    \A i, j \in Streams :
      /\ pc[i] \in CutPlaces =>
           /\ epoch[j] = epoch[i]
           /\ pc[j] \in CutPlaces \cup {"b1", "b2"}
      /\ pc[i] \in {"reset", "init"} =>
           /\ epoch[j] = epoch[i]
           /\ pc[j] \in {"b2", "reset", "init", "b3"}
      /\ epoch[j] < epoch[i] =>
           /\ epoch[i] = epoch[j] + 1
           /\ pc[i] = "b1"
           /\ pc[j] \notin BeforeReset \cup {"init"}

\* The watermark never passes a stream: once every stream has delivered an
\* entry of the epoch, and a scan of the advancer has begun after that, G is
\* at most every cg_, whatever the advancer and computeG interleave.
WatermarkSafe == warm => \A i \in Streams : G <= cg[i]

\* What is replayed then is below what every stream has delivered (or the
\* stream has ended), in the check, in both drain loops and in the lag stage.
ReplaySafe ==
    [][warm => \A i, j \in Streams :
                 \A e \in applied'[i] \ applied[i] : e.cid <= cg[j]]_vars

\* While any stream is between computing the cut and having applied it, no
\* stream's cg_ moves, so all streams cut at the same timestamps.
CutStable ==
    [][(\E i \in Streams : pc[i] \in CutPlaces) => UNCHANGED cg]_vars

\* Under fair scheduling, and as long as main() has not stopped the advancer,
\* every stream comes to its end with nothing left in its queue: the watermark
\* catches up with every entry that no failover cuts off.
FollowerDrains ==
    []running => <>(\A i \in Streams : /\ ended[i] /\ pc[i] = "idle"
                                       /\ queue[i] = <<>>)

\* A no-op that has reached every stream is finished by every stream: nobody
\* is left behind at a barrier, whichever thread leaves it first.
NoopFinishes ==
    \A r \in 1 .. MaxNoops :
      (\A i \in Streams : epoch[i] >= r) ~>
        \A i \in Streams : epoch[i] > r \/ pc[i] \notin BeforeReset \cup AfterReset

-----------------------------------------------------------------------------
(* What comments of the code say, and the code does not guarantee.         *)

\* sync_util.hh: "G = min(cg_{0}, cg_{1}, cg_{2}, ..., cg_{n})".  Read as: nothing is
\* replayed above the minimum over all streams.
ReplayBelowMin ==
    [][\A i \in Streams :
         \A e \in applied'[i] \ applied[i] : e.cid <= MinCg]_vars

\* sync_util.hh: "compute G immediately and strictly".  The cut of a no-op
\* discards only entries above the minimum.
CutIsStrict ==
    [][warm => \A i \in Streams :
                 \A e \in dropped'[i] \ dropped[i] : e.cid > MinCg]_vars

\* dbtest.cc: "at this stage, make sure all logs have to be replayed".
LagStageReplaysAll ==
    \A i \in Streams : pc[i] = "lag" ~> queue[i] = <<>>
=============================================================================
