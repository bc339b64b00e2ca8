------------------------------ MODULE Election ------------------------------
(***************************************************************************)
(* Leader election among the machines of a Rolis cluster.                  *)
(*                                                                         *)
(* Each machine has one ElectionState es (paxos_worker.h), an election     *)
(* thread (electionMonitor) and a heartbeat thread (heartbeatMonitor),     *)
(* both in paxos_main_helper.cc, and the handlers of paxos/server.cc.  A   *)
(* machine that has not seen a leader raises its epoch and broadcasts one  *)
(* BulkPrepare for all its Paxos streams; a quorum of consents makes it    *)
(* the leader.  A leader broadcasts heartbeats.                            *)
(*                                                                         *)
(* Of the Paxos streams only what their handlers do to es and to the epoch *)
(* of the PaxosServers is here (StreamTest, StreamRetest, StreamStore);    *)
(* slots and values are not.  The servers of one machine are one server.   *)
(*                                                                         *)
(* One action is one critical section of es, or one step of a thread or    *)
(* coroutine between two of them.  RPCs between two machines arrive in     *)
(* order (one TCP connection), late, and not at all once an end is down.   *)
(***************************************************************************)
EXTENDS Naturals, Sequences, FiniteSets

CONSTANTS
    Machines,       \* machine ids; machine 0 is the first leader
    Electors,       \* machines whose election timeout may expire
    Faulty,         \* machines that may crash
    MaxEpoch,       \* bound: no epoch above it is started
    FalseSuspicion, \* may a timeout expire while a leader is up?
    WaitFirst,      \* does the election thread reach its wait before the job
                    \* it waits for ends?
    MaxStream       \* bound on the stream requests that pass the epoch test

ASSUME MachinesAssumption == Machines \subseteq Nat /\ 0 \in Machines
                             /\ IsFiniteSet(Machines)
ASSUME ElectorsAssumption == Electors \subseteq Machines
ASSUME FaultyAssumption == Faulty \subseteq Machines
ASSUME MaxEpochAssumption == MaxEpoch \in Nat /\ MaxEpoch >= 2
ASSUME MaxStreamAssumption == MaxStream \in Nat
ASSUME SwitchesAssumption == {FalseSuspicion, WaitFirst} \subseteq BOOLEAN

Epochs == 0 .. MaxEpoch

VARIABLES
    up,             \* the process runs
    cur_epoch, cur_state, leader_id,    \* es; cur_state 0 follower, 1 leader
    ps_epoch,       \* cur_epoch of the machine's PaxosServers
    seen_ballot,    \* the last prepare they consented to
    hnd,            \* the stream request a PaxosServer is handling
    streams,        \* how many there have been (for the bound)
    pc,             \* where electionMonitor is
    send_epoch,     \* its local variable
    prep, beat,     \* the coroutines of SendBulkPrepare and SendHeartBeat
    req,            \* req[p][m]: requests on their way from p to m
    rep             \* rep[m]: replies on their way to m

VARIABLES           \* history
    ruled,          \* ruled[m]: epochs m has entered as the leader
    clash           \* machines that a verify(0) has stopped, and in which handler

esVars == <<cur_epoch, cur_state, leader_id>>
monVars == <<pc, send_epoch>>
rpcVars == <<prep, beat, req, rep>>
hist == <<ruled, clash>>
psVars == <<ps_epoch, seen_ballot, hnd, streams>>
electionVars == <<up, esVars, psVars, monVars, rpcVars, hist>>

-----------------------------------------------------------------------------
\* commo.cc: n is the size of the partition, k the quorum it asks for.
n == Cardinality(Machines)
k == IF n % 2 = 0 THEN n \div 2 ELSE n \div 2 + 1

\* A quorum event: the machines that said yes and no, and received_epoch, the
\* epoch of a refusal (0 stands for its initial -1: no refusal carries it).
Tally == [open : BOOLEAN, yes : SUBSET Machines, no : SUBSET Machines,
          received : Epochs]
NoVotes == [open |-> TRUE, yes |-> {}, no |-> {}, received |-> 0]
Closed == [NoVotes EXCEPT !.open = FALSE]

\* A stream request being handled: its sender and epoch, and the test it has
\* passed (raise: the second one, which found the servers' epoch older).
Handled == [from : Machines, epoch : Epochs,
            at : {"none", "tested", "same", "raise"}]
Nothing == [from |-> 0, epoch |-> 0, at |-> "none"]

Yes(t) == Cardinality(t.yes) >= k
No(t) == Cardinality(t.no) > n - k
Ready(t) == Yes(t) \/ No(t)

\* The callback of a broadcast: the answer r is counted in t, and a refusal
\* leaves b in received_epoch.
FeedResponse(t, r, b) ==
    IF r.valid THEN [t EXCEPT !.yes = @ \cup {r.from}]
    ELSE [t EXCEPT !.no = @ \cup {r.from}, !.received = b]

Request == [kind : {"prepare", "heartbeat"}, epoch : Epochs]
Reply == [kind : {"prepare", "heartbeat"}, epoch : Epochs, from : Machines,
          valid : BOOLEAN, ballot : Epochs]

Prepare(e) == [kind |-> "prepare", epoch |-> e]
HeartBeat(e) == [kind |-> "heartbeat", epoch |-> e]
Answer(r, m, ok, b) == [kind |-> r.kind, epoch |-> r.epoch, from |-> m,
                        valid |-> ok, ballot |-> b]

Arrived(p, m, kind) ==
    up[m] /\ req[p][m] # <<>> /\ Head(req[p][m]).kind = kind

\* m's proxies include m itself; nothing reaches a machine that is down.
Broadcast(m, r) ==
    req' = [req EXCEPT ![m] = [d \in Machines |->
              IF up[d] THEN Append(@[d], r) ELSE @[d]]]

Received(p, m) == req' = [req EXCEPT ![p][m] = Tail(@)]

Send(p, answer) ==
    rep' = IF up[p] THEN [rep EXCEPT ![p] = @ \cup {answer}] ELSE rep

Lengths(m) == UNION {0 .. Len(req[m][d]) : d \in Machines}

\* m stops: what is on its way to m is lost, and the tail of what m has sent.
Stop(m) ==
    /\ up' = [up EXCEPT ![m] = FALSE]
    /\ \E sent \in [Machines -> Lengths(m)] :
         /\ \A d \in Machines : sent[d] <= Len(req[m][d])
         /\ req' = [p \in Machines |-> [d \in Machines |->
                      IF d = m THEN <<>>
                      ELSE IF p = m THEN SubSeq(req[m][d], 1, sent[d])
                      ELSE req[p][d]]]
    /\ rep' = [rep EXCEPT ![m] = {}]

-----------------------------------------------------------------------------
\* setup2: machine 0 starts as the leader of epoch 2.
Init ==
    /\ up = [m \in Machines |-> TRUE]
    /\ cur_epoch = [m \in Machines |-> IF m = 0 THEN 2 ELSE 0]
    /\ cur_state = [m \in Machines |-> IF m = 0 THEN 1 ELSE 0]
    /\ leader_id = [m \in Machines |-> 0]
    /\ ps_epoch = [m \in Machines |-> 0]
    /\ seen_ballot = [m \in Machines |-> 0]
    /\ hnd = [m \in Machines |-> Nothing]
    /\ streams = 0
    /\ pc = [m \in Machines |-> "loop"]
    /\ send_epoch = [m \in Machines |-> 0]
    /\ prep = [m \in Machines |-> Closed]
    /\ beat = [m \in Machines |-> Closed]
    /\ req = [p \in Machines |-> [m \in Machines |-> <<>>]]
    /\ rep = [m \in Machines |-> {}]
    /\ ruled = [m \in Machines |-> IF m = 0 THEN {2} ELSE {}]
    /\ clash = {}

-----------------------------------------------------------------------------
(* The election thread.                                                    *)

\* electionMonitor sleeps 5 seconds first, for the startup: by then every
\* machine has heard from the first leader.
Heard(m) == /\ ps_epoch[m] >= 2 /\ cur_epoch[m] >= 2
            /\ hnd[m].at = "raise" => hnd[m].epoch > 2
Started == \A m \in Machines : up[m] => Heard(m)

Leads(m) == up[m] /\ cur_state[m] = 1

Suspicious(m) == /\ m \in Electors /\ Started
                 /\ FalseSuspicion \/ \A p \in Machines : ~Leads(p)

\* did_not_see_leader: raise the epoch and send_bulk_prep.
Suspect(m) ==
    /\ up[m] /\ pc[m] = "loop" /\ cur_state[m] = 0 /\ Suspicious(m)
    /\ cur_epoch[m] < MaxEpoch
    /\ cur_epoch' = [cur_epoch EXCEPT ![m] = @ + 1]
    /\ send_epoch' = [send_epoch EXCEPT ![m] = cur_epoch[m] + 1]
    /\ prep' = [prep EXCEPT ![m] = NoVotes]
    /\ Broadcast(m, Prepare(cur_epoch[m] + 1))
    /\ pc' = [pc EXCEPT ![m] = IF WaitFirst THEN "waiting" ELSE "sent"]
    /\ UNCHANGED <<up, cur_state, leader_id, psVars, beat, rep, hist>>

\* The thread reaches election_cond.wait.
Wait(m) ==
    /\ up[m] /\ pc[m] = "sent"
    /\ pc' = [pc EXCEPT ![m] = "waiting"]
    /\ UNCHANGED <<up, esVars, psVars, send_epoch, rpcVars, hist>>

\* It wakes and looks at the epoch.
Woken(m) ==
    /\ up[m] /\ pc[m] = "woken"
    /\ pc' = [pc EXCEPT ![m] =
                IF send_epoch[m] = cur_epoch[m] THEN "elected" ELSE "loop"]
    /\ UNCHANGED <<up, esVars, psVars, send_epoch, rpcVars, hist>>

\* stuff_todo_leader_election, up to state_unlock.
TakeOver(m) ==
    /\ up[m] /\ pc[m] = "elected"
    /\ cur_state' = [cur_state EXCEPT ![m] = 1]
    /\ ruled' = [ruled EXCEPT ![m] = @ \cup {cur_epoch[m]}]
    /\ pc' = [pc EXCEPT ![m] = "recover"]
    /\ UNCHANGED <<up, cur_epoch, leader_id, psVars, send_epoch, rpcVars, clash>>

\* The rest of it (recovery of the streams) and leader_callback_: es is left
\* alone.
Recovered(m) ==
    /\ up[m] /\ pc[m] = "recover"
    /\ pc' = [pc EXCEPT ![m] = "loop"]
    /\ UNCHANGED <<up, esVars, psVars, send_epoch, rpcVars, hist>>

-----------------------------------------------------------------------------
(* BulkPrepare.                                                            *)

Consents(m, p, e) == e > cur_epoch[m] \/ (e = cur_epoch[m] /\ p = m)

\* The effect of a consent but for the servers' epoch, for the two slips below.
Consented(p, m, leader) ==
    LET e == Head(req[p][m]).epoch IN
    /\ Arrived(p, m, "prepare") /\ Consents(m, p, e)
    /\ cur_epoch' = [cur_epoch EXCEPT ![m] = e]
    /\ cur_state' = IF p = m THEN cur_state ELSE [cur_state EXCEPT ![m] = 0]
    /\ leader_id' = [leader_id EXCEPT ![m] = leader]
    /\ Send(p, Answer(Head(req[p][m]), m, TRUE, e))
    /\ Received(p, m)
    /\ UNCHANGED <<up, seen_ballot, hnd, streams, monVars, prep, beat, hist>>

\* Slip: the epoch is taken for the leader's id.
OnBulkPrepareSwapped(p, m) ==
    /\ Arrived(p, m, "prepare") /\ Consented(p, m, Head(req[p][m]).epoch)
    /\ ps_epoch' = [ps_epoch EXCEPT ![m] = Head(req[p][m]).epoch]

\* Slip: the streams' servers do not learn the epoch.
OnBulkPrepareKeepsStreams(p, m) == Consented(p, m, p) /\ UNCHANGED ps_epoch

OnBulkPrepare(p, m) ==
    /\ Arrived(p, m, "prepare")
    /\ LET r == Head(req[p][m]) IN
       IF ~Consents(m, p, r.epoch)
       THEN /\ Send(p, Answer(r, m, FALSE, cur_epoch[m]))
            /\ Received(p, m)
            /\ UNCHANGED <<up, esVars, ps_epoch, seen_ballot, clash>>
       ELSE IF seen_ballot[m] > r.epoch                     \* verify(0)
       THEN /\ Stop(m)
            /\ clash' = clash \cup {<<m, "OnBulkPrepare">>}
            /\ UNCHANGED <<esVars, ps_epoch, seen_ballot>>
       ELSE /\ cur_epoch' = [cur_epoch EXCEPT ![m] = r.epoch]
            /\ ps_epoch' = [ps_epoch EXCEPT ![m] = r.epoch]
            /\ seen_ballot' = [seen_ballot EXCEPT ![m] = r.epoch]
            /\ cur_state' = IF p = m THEN cur_state
                            ELSE [cur_state EXCEPT ![m] = 0]
            /\ leader_id' = [leader_id EXCEPT ![m] = p]
            /\ Send(p, Answer(r, m, TRUE, r.epoch))
            /\ Received(p, m)
            /\ UNCHANGED <<up, clash>>
    /\ UNCHANGED <<hnd, streams, monVars, prep, beat, ruled>>

Larger(a, b) == IF a >= b THEN a ELSE b

\* The callback of BroadcastBulkPrepare.  Answers to an earlier prepare feed
\* that one's event; those that come after the event has been waited for feed
\* nobody (they write received_epoch, a variable that is gone).
PrepareReply(m) ==
    \E r \in rep[m] :
      /\ up[m] /\ r.kind = "prepare"
      /\ prep' = IF prep[m].open /\ r.epoch = send_epoch[m]
                 THEN [prep EXCEPT ![m] =
                         FeedResponse(@, r, Larger(@.received, r.ballot))]
                 ELSE prep
      /\ rep' = [rep EXCEPT ![m] = @ \ {r}]
      /\ UNCHANGED <<up, esVars, psVars, monVars, beat, req, hist>>

\* election_cond.bcast: wakes the thread if it waits, else is lost.
Wake(m) == pc' = [pc EXCEPT ![m] = IF @ = "waiting" THEN "woken" ELSE @]

\* Slip: the wake-up is on the refused path only.
PrepareDoneSilent(m) ==
    /\ up[m] /\ prep[m].open /\ Yes(prep[m])
    /\ prep' = [prep EXCEPT ![m] = Closed]
    /\ UNCHANGED <<up, esVars, psVars, monVars, beat, req, rep, hist>>

\* The job of send_bulk_prep, once its event is ready.
PrepareDone(m) ==
    /\ up[m] /\ prep[m].open /\ Ready(prep[m])
    /\ IF Yes(prep[m])
       THEN UNCHANGED <<cur_epoch, cur_state>>
       ELSE /\ cur_state' = [cur_state EXCEPT ![m] = 0]
            /\ cur_epoch' = [cur_epoch EXCEPT ![m] = prep[m].received]
    /\ prep' = [prep EXCEPT ![m] = Closed]
    /\ Wake(m)
    /\ UNCHANGED <<up, leader_id, psVars, send_epoch, beat, req, rep, hist>>

-----------------------------------------------------------------------------
(* Heartbeats.                                                             *)

\* Bound: a leader's next heartbeat waits until nothing of its last one is on
\* its way.
BeatInFlight(m) ==
    \/ \E d \in Machines : \E i \in DOMAIN req[m][d] :
         req[m][d][i].kind = "heartbeat"
    \/ \E r \in rep[m] : r.kind = "heartbeat"
    \/ beat[m].open /\ Ready(beat[m])

\* Slip: only the first leader's heartbeat thread runs.
BeatFirstOnly(m) ==
    /\ m = 0 /\ Leads(m) /\ ~BeatInFlight(m)
    /\ beat' = [beat EXCEPT ![m] = NoVotes]
    /\ Broadcast(m, HeartBeat(cur_epoch[m]))
    /\ UNCHANGED <<up, esVars, psVars, monVars, prep, rep, hist>>

Beat(m) ==
    /\ Leads(m) /\ ~BeatInFlight(m)
    /\ beat' = [beat EXCEPT ![m] = NoVotes]
    /\ Broadcast(m, HeartBeat(cur_epoch[m]))
    /\ UNCHANGED <<up, esVars, psVars, monVars, prep, rep, hist>>

OnHeartbeat(p, m) ==
    /\ Arrived(p, m, "heartbeat")
    /\ LET r == Head(req[p][m]) IN
       \/ /\ r.epoch < cur_epoch[m]
          /\ Send(p, Answer(r, m, FALSE, cur_epoch[m]))
          /\ Received(p, m)
          /\ UNCHANGED <<up, esVars, ps_epoch, clash>>
       \/ /\ r.epoch = cur_epoch[m] /\ p = leader_id[m]
          /\ cur_state' = IF p = m THEN cur_state
                          ELSE [cur_state EXCEPT ![m] = 0]
          /\ Send(p, Answer(r, m, TRUE, 0))
          /\ Received(p, m)
          /\ UNCHANGED <<up, cur_epoch, leader_id, ps_epoch, clash>>
       \/ /\ r.epoch = cur_epoch[m] /\ p # leader_id[m]  \* verify(0)
          /\ Stop(m)
          /\ clash' = clash \cup {<<m, "OnHeartbeat">>}
          /\ UNCHANGED <<esVars, ps_epoch>>
       \/ /\ r.epoch > cur_epoch[m]
          /\ cur_state' = [cur_state EXCEPT ![m] = 0]
          /\ cur_epoch' = [cur_epoch EXCEPT ![m] = r.epoch]
          /\ ps_epoch' = [ps_epoch EXCEPT ![m] = r.epoch]
          /\ leader_id' = [leader_id EXCEPT ![m] = p]
          /\ Send(p, Answer(r, m, TRUE, 0))
          /\ Received(p, m)
          /\ UNCHANGED <<up, clash>>
    /\ UNCHANGED <<seen_ballot, hnd, streams, monVars, prep, beat, ruled>>

BeatReply(m) ==
    \E r \in rep[m] :
      /\ up[m] /\ r.kind = "heartbeat"
      /\ beat' = IF beat[m].open
                 THEN [beat EXCEPT ![m] = FeedResponse(@, r, r.ballot)]
                 ELSE beat
      /\ rep' = [rep EXCEPT ![m] = @ \ {r}]
      /\ UNCHANGED <<up, esVars, psVars, monVars, prep, req, hist>>

\* The job of heartbeatMonitor: refused heartbeats end the leadership.
BeatDone(m) ==
    /\ up[m] /\ beat[m].open /\ Ready(beat[m])
    /\ IF Yes(beat[m])
       THEN UNCHANGED <<cur_epoch, cur_state>>
       ELSE /\ cur_state' = [cur_state EXCEPT ![m] = 0]
            /\ cur_epoch' = [cur_epoch EXCEPT ![m] = beat[m].received]
    /\ beat' = [beat EXCEPT ![m] = Closed]
    /\ UNCHANGED <<up, leader_id, psVars, monVars, prep, req, rep, hist>>

-----------------------------------------------------------------------------
(* What OnBulkAccept, OnBulkCommit and OnSyncCommit do to es and to the     *)
(* servers' epoch, for a request that p submitted in an epoch it ruled.     *)

\* The first epoch test, under mtx_, and what it does to es.
StreamTest(p, m) ==
    /\ up[m] /\ hnd[m] = Nothing /\ streams < MaxStream
    /\ \E b \in ruled[p] :
         /\ b >= ps_epoch[m]
         /\ hnd' = [hnd EXCEPT ![m] = [from |-> p, epoch |-> b, at |-> "tested"]]
    /\ streams' = streams + 1
    /\ cur_state' = IF p = m THEN cur_state ELSE [cur_state EXCEPT ![m] = 0]
    /\ UNCHANGED <<up, cur_epoch, leader_id, ps_epoch, seen_ballot, monVars, rpcVars,
                   hist>>

\* The test of the slot: a newer epoch ends the request.
StreamRetest(m) ==
    /\ up[m] /\ hnd[m].at = "tested"
    /\ hnd' = [hnd EXCEPT ![m] =
                 IF ps_epoch[m] > hnd[m].epoch THEN Nothing
                 ELSE [@ EXCEPT !.at = IF ps_epoch[m] < hnd[m].epoch
                                       THEN "raise" ELSE "same"]]
    /\ UNCHANGED <<up, esVars, ps_epoch, seen_ballot, streams, monVars, rpcVars, hist>>

\* mtx_ has been released: what follows from the test is done whatever has
\* happened since.
StreamStore(m) ==
    /\ up[m] /\ hnd[m].at \in {"same", "raise"}
    /\ ps_epoch' = IF hnd[m].at = "same" THEN ps_epoch
                   ELSE [ps_epoch EXCEPT ![m] = hnd[m].epoch]
    /\ leader_id' = [leader_id EXCEPT ![m] = hnd[m].from]
    /\ hnd' = [hnd EXCEPT ![m] = Nothing]
    /\ UNCHANGED <<up, cur_epoch, cur_state, seen_ballot, streams, monVars, rpcVars,
                   hist>>

\* Bound: nothing crashes during the startup.
Crash(m) ==
    /\ m \in Faulty /\ up[m] /\ Started
    /\ Stop(m)
    /\ UNCHANGED <<esVars, psVars, monVars, prep, beat, hist>>

-----------------------------------------------------------------------------
Monitor(m) == Suspect(m) \/ Wait(m) \/ Woken(m) \/ TakeOver(m)
Jobs(m) == PrepareReply(m) \/ PrepareDone(m) \/ BeatReply(m) \/ BeatDone(m)
Handler(p, m) == OnBulkPrepare(p, m) \/ OnHeartbeat(p, m)

Next == \E m \in Machines :
          \/ Monitor(m) \/ Recovered(m) \/ Jobs(m) \/ Beat(m) \/ Crash(m)
          \/ StreamRetest(m) \/ StreamStore(m)
          \/ \E p \in Machines : Handler(p, m) \/ StreamTest(p, m)

Spec == Init /\ [][Next]_electionVars

\* Threads are scheduled, RPCs between running machines arrive, and a machine
\* that sees no leader times out; nothing is assumed of crashes, of the streams
\* or of their recovery.
FairSpec ==
    /\ Spec
    /\ \A m \in Machines :
         /\ WF_electionVars(Monitor(m)) /\ WF_electionVars(Beat(m))
         /\ WF_electionVars(Jobs(m))
         /\ \A p \in Machines : WF_electionVars(Handler(p, m))

-----------------------------------------------------------------------------
(* Properties.                                                             *)

\* Types of es, of the servers' epoch, of the threads and of the RPCs; leader_id
\* and cur_epoch are both ints in the code, and are not mixed up.
TypeOK ==
    /\ up \in [Machines -> BOOLEAN]
    /\ cur_epoch \in [Machines -> Epochs]
    /\ cur_state \in [Machines -> {0, 1}]
    /\ leader_id \in [Machines -> Machines]
    /\ ps_epoch \in [Machines -> Epochs]
    /\ seen_ballot \in [Machines -> Epochs]
    /\ hnd \in [Machines -> Handled] /\ streams \in 0 .. MaxStream
    /\ pc \in [Machines ->
                {"loop", "sent", "waiting", "woken", "elected", "recover"}]
    /\ send_epoch \in [Machines -> Epochs]
    /\ prep \in [Machines -> Tally] /\ beat \in [Machines -> Tally]
    /\ req \in [Machines -> [Machines -> Seq(Request)]]
    /\ rep \in [Machines -> SUBSET Reply]
    /\ ruled \in [Machines -> SUBSET Epochs]
    /\ clash \subseteq Machines \X {"OnBulkPrepare", "OnHeartbeat"}

\* server.cc, OnHeartbeat: two leaders in the same epoch "should not happen";
\* stuff_todo_leader_election enters an epoch on one machine only.
OneLeaderPerEpoch ==
    \A p, m \in Machines : p # m => ruled[p] \cap ruled[m] = {}

\* A machine that has run stuff_todo_leader_election has fenced off the older
\* leaders: the PaxosServers of at least k machines have moved to its epoch or
\* beyond and stay there, so that OnBulkAccept refuses what an older leader
\* still sends on one machine of every quorum.
LeaderFences ==
    \A m \in Machines \ {0} : \A e \in ruled[m] :
      Cardinality({p \in Machines : ps_epoch[p] >= e}) >= k

\* The verify(0) of OnHeartbeat (a heartbeat of the machine's own epoch from
\* another than its leader_id) is never reached.
NoClash == \A m \in Machines : <<m, "OnHeartbeat">> \notin clash

\* The verify(0) of OnBulkPrepare (a prepare older than the last one consented
\* to) is never reached: the test of es->cur_epoch before it catches those.
OlderPreparesCaught == \A m \in Machines : <<m, "OnBulkPrepare">> \notin clash

\* However many machines came to think they lead (cur_state 1), in the end at
\* most one that is up still does: heartbeatMonitor, the refusals it gets and
\* the verify(0) of OnHeartbeat end every dispute.
DisputesEnd ==
    <>[](\A p, m \in Machines : Leads(p) /\ Leads(m) => p = m)

\* The candidates refused each other and the machine that would decide is
\* down: the quorum event of a prepare has no time-out, and none is ready.
SplitVote ==
    \A m \in Electors : up[m] => /\ pc[m] = "waiting" /\ ~Ready(prep[m])
                                 /\ prep[m].no # {}

\* When the first leader is down, electionMonitor brings another machine to
\* lead.  What can keep it from that is a verify(0) of a handler that stops a
\* machine, or a split vote.
FailoverCompletes ==
    ~up[0] ~> (clash # {} \/ SplitVote \/ \E m \in Machines : Leads(m))
=============================================================================
