---------------------------- MODULE StreamPaxos ----------------------------
(***************************************************************************)
(* One MultiPaxos stream of Rolis and its recovery after the leader's      *)
(* crash: PaxosWorker::Submit and BulkSubmit, BulkCoordinatorMultiPaxos,   *)
(* the stream's RPC handlers (PaxosServer::OnBulkAccept, OnBulkCommit,     *)
(* OnSyncCommit), and what the elected machine does in                     *)
(* stuff_todo_leader_election (SyncLog, SyncCommit, SyncNoOps, the mark).  *)
(*                                                                         *)
(* Machine 0 leads epoch FirstEpoch; at most one other machine is elected, *)
(* for NextEpoch (the contention of electors is the module Election).      *)
(*                                                                         *)
(* Threads.  The handlers of a stream run one after another in the poll    *)
(* thread of the stream's server, and each tests the epoch under mtx_ and  *)
(* acts after releasing it: Receive and Apply are separate steps.  The     *)
(* handlers of the election's messages (OnBulkPrepare, OnSyncLog,          *)
(* OnSyncNoOps) run in the poll thread of another server of the same       *)
(* machine, so they fall between the two.                                  *)
(*                                                                         *)
(* The network is TCP: one queue per stream and ordered pair of machines,  *)
(* another for the election's messages.  What a machine sent before it     *)
(* crashed may or may not be delivered; what goes to it then is dropped.   *)
(***************************************************************************)
EXTENDS Integers, Sequences, FiniteSets, SequencesExt

CONSTANTS
    Machines,       \* the replicas; 0 is the configured leader
    Electors,       \* those that may be elected: 1 stands for any of the others
    OldEntries,     \* bound: entries submitted by machine 0
    NewEntries,     \* bound: entries submitted by the elected machine
    MaxCrashes,     \* bound: machines that crash by themselves
    FalseSuspicion  \* whether a machine may be elected while 0 is up

ASSUME StreamAssumption ==
    /\ IsFiniteSet(Machines) /\ Machines \subseteq Nat /\ 0 \in Machines
    /\ Electors \subseteq Machines \ {0}
    /\ OldEntries \in Nat /\ NewEntries \in Nat /\ MaxCrashes \in Nat
    /\ FalseSuspicion \in BOOLEAN

FirstEpoch == 2
NextEpoch == 3
Epochs == {0, FirstEpoch, NextEpoch}

\* The slots that the bounds let a leader open: every entry, and the mark.
MaxSlot == OldEntries + NewEntries + 1
Slots == 1..MaxSlot

\* BroadcastBulkAccept and the other broadcasts: n = |Machines|, k the quorum.
Quorum ==
    LET n == Cardinality(Machines) IN IF n % 2 = 0 THEN n \div 2 ELSE n \div 2 + 1

(***************************************************************************)
(* What a slot may hold: nothing, the empty LogEntry of OnSyncNoOps, or a  *)
(* log <<machine that submitted it, number>>, number 0 being the mark      *)
(* "no-ops:epoch" of send_no_ops_for_mark.                                 *)
(***************************************************************************)
None == <<>>
NoOp == <<"no-op">>
Mark(m) == <<m, 0>>
Logs == Machines \X (0..(OldEntries + NewEntries))
Commands == Logs \cup {None, NoOp}

VARIABLES
    up,         \* [Machines -> BOOLEAN]
    cur_epoch,  \* PaxosServer::cur_epoch of the stream
    leads,      \* PaxosWorker::cur_epoch if is_leader, else 0
    accepted,   \* instance->accepted_cmd_, by machine and slot
    ballot,     \* instance->max_ballot_accepted_
    committed,  \* instance->committed_cmd_
    max_committed_slot,
    max_executed_slot,
    cur_open_slot,
    submitted,  \* entries handed to add_log_to_nc on each machine
    executed,   \* what app_next_ was given, in order
    jobs,       \* the OneTimeJobs waiting in the PollMgr: <<slot, log>>
    accepts,    \* the coordinators in Accept(): the slot, its log, the replies
    stream,     \* stream[m][d]: the stream's messages from m to d
    busy,       \* the message whose handler has passed the epoch test
    control,    \* the election's messages to each machine
    round,      \* where stuff_todo_leader_election of the elected machine is
    crashes,    \* machines that crashed by themselves
    late        \* history: a handler acted for an epoch older than cur_epoch

serverVars == <<cur_epoch, accepted, ballot, committed, max_committed_slot,
                max_executed_slot, cur_open_slot, executed, late>>
workerVars == <<leads, submitted, jobs, accepts>>
netVars == <<stream, busy, control>>
vars == <<up, serverVars, workerVars, netVars, round, crashes>>

Up == {m \in Machines : up[m]}
Idle == [kind |-> "idle"]

\* The elected machine, Machines' complement when there is none.
NoOne == -1
Elected == round.by

Init ==
    /\ up = [m \in Machines |-> TRUE]
    /\ cur_epoch = [m \in Machines |-> 0]
    /\ leads = [m \in Machines |-> IF m = 0 THEN FirstEpoch ELSE 0]
    /\ accepted = [m \in Machines |-> [s \in Slots |-> None]]
    /\ ballot = [m \in Machines |-> [s \in Slots |-> 0]]
    /\ committed = [m \in Machines |-> [s \in Slots |-> None]]
    /\ max_committed_slot = [m \in Machines |-> 0]
    /\ max_executed_slot = [m \in Machines |-> 0]
    /\ cur_open_slot = [m \in Machines |-> 1]
    /\ submitted = [m \in Machines |-> 0]
    /\ executed = [m \in Machines |-> <<>>]
    /\ jobs = [m \in Machines |-> {}]
    /\ accepts = {}
    /\ stream = [m \in Machines |-> [d \in Machines |-> <<>>]]
    /\ busy = [m \in Machines |-> Idle]
    /\ control = [m \in Machines |-> <<>>]
    /\ round = [by |-> NoOne, phase |-> "none", waits |-> FALSE, replies |-> {}]
    /\ crashes = 0
    /\ late = FALSE
-----------------------------------------------------------------------------
(***************************************************************************)
(* Crashes: by the machine itself, or at a verify(0).                      *)
(***************************************************************************)
Down(m) ==
    /\ up' = [up EXCEPT ![m] = FALSE]
    /\ jobs' = [jobs EXCEPT ![m] = {}]
    /\ busy' = [busy EXCEPT ![m] = Idle]
    /\ control' = [control EXCEPT ![m] = <<>>]
    /\ accepts' = {c \in accepts : c.by # m}
    /\ stream' = [n \in Machines |-> [stream[n] EXCEPT ![m] = <<>>]]

Crash(m) ==
    /\ up[m] /\ crashes < MaxCrashes
    /\ crashes' = crashes + 1
    /\ Down(m)
    /\ UNCHANGED <<serverVars, leads, submitted, round>>
-----------------------------------------------------------------------------
(***************************************************************************)
(* The leader's side.                                                      *)
(***************************************************************************)
ToAll(m, msg) ==
    stream' = [stream EXCEPT ![m] = [d \in Machines |->
                    IF up[d] THEN Append(stream[m][d], msg) ELSE <<>>]]

\* PaxosWorker::_Submit: the slot is taken at once, the rest is a job.
OpenSlot(m, log) ==
    /\ jobs' = [jobs EXCEPT ![m] = @ \cup {<<cur_open_slot[m], log>>}]
    /\ cur_open_slot' = [cur_open_slot EXCEPT ![m] = @ + 1]

(***************************************************************************)
(* add_log_to_nc, called by the transaction threads.  On the elected       *)
(* machine they start in leader_callback_, after the mark is submitted.    *)
(***************************************************************************)
add_log_to_nc(m) ==
    /\ up[m] /\ leads[m] # 0
    /\ m = 0 \/ round.phase = "done"
    /\ submitted[m] < (IF m = 0 THEN OldEntries ELSE NewEntries)
    /\ cur_open_slot[m] \in Slots
    /\ submitted' = [submitted EXCEPT ![m] = @ + 1]
    /\ OpenSlot(m, <<m, submitted[m] + 1>>)
    /\ UNCHANGED <<up, cur_epoch, accepted, ballot, committed, executed,
                   max_committed_slot, max_executed_slot, late, leads, accepts,
                   netVars, round, crashes>>

(***************************************************************************)
(* BulkSubmit, run as a job: the reactor keeps its jobs in a set ordered   *)
(* by address, so they run in any order.  The epoch is read now, and       *)
(* BulkCoordinatorMultiPaxos::Accept sends the log to every machine.       *)
(***************************************************************************)
BulkSubmit(m) ==
    /\ up[m]
    /\ \E j \in jobs[m] :
        /\ jobs' = [jobs EXCEPT ![m] = @ \ {j}]
        /\ accepts' = accepts \cup {[by |-> m, slot |-> j[1], ballot |-> leads[m],
                                     yes |-> {}, refused |-> FALSE]}
        /\ ToAll(m, [kind |-> "accept", by |-> m, slot |-> j[1],
                     ballot |-> leads[m], cmd |-> j[2]])
    /\ UNCHANGED <<up, serverVars, leads, submitted, busy, control, round, crashes>>

(***************************************************************************)
(* Accept() has its quorum: "slot is committed".  Commit() broadcasts the  *)
(* decision without waiting for it and calls commit_callback_.             *)
(***************************************************************************)
Commit(c) ==
    /\ up[c.by] /\ Cardinality(c.yes) >= Quorum
    /\ accepts' = accepts \ {c}
    /\ ToAll(c.by, [kind |-> "commit", by |-> c.by, slot |-> c.slot, ballot |-> c.ballot])
    /\ UNCHANGED <<up, serverVars, leads, submitted, jobs, busy, control, round, crashes>>

\* A refusal that comes while Accept() waits: the callback's verify(0).
AcceptRefused(c) ==
    /\ up[c.by] /\ c.refused
    /\ Down(c.by)
    /\ UNCHANGED <<serverVars, leads, submitted, round, crashes>>
-----------------------------------------------------------------------------
(***************************************************************************)
(* The stream's handlers on machine d.                                     *)
(***************************************************************************)
\* The coordinator of msg, if it still waits in Accept(), has a reply.
Reply(msg, d, valid) ==
    {IF c.by = msg.by /\ c.slot = msg.slot /\ c.ballot = msg.ballot
     THEN [c EXCEPT !.yes = IF valid THEN @ \cup {d} ELSE @, !.refused = @ \/ ~valid]
     ELSE c : c \in accepts}

\* Mutant: the handlers do not test the epoch.
ReceiveAny(d) ==
    /\ up[d] /\ busy[d] = Idle
    /\ \E m \in Machines :
        /\ stream[m][d] # <<>>
        /\ stream' = [stream EXCEPT ![m][d] = Tail(@)]
        /\ busy' = [busy EXCEPT ![d] = [kind |-> "msg", msg |-> Head(stream[m][d]),
                                        epoch |-> cur_epoch[d]]]
    /\ UNCHANGED <<up, serverVars, workerVars, control, round, crashes>>

(***************************************************************************)
(* The tests of the epoch that OnBulkAccept, OnBulkCommit and OnSyncCommit *)
(* make under mtx_ (twice, with nothing in between but es->set_lastseen    *)
(* and es->set_state).  Only a refused Accept is noticed by the sender:    *)
(* Commit() has left in_commit by then.                                    *)
(***************************************************************************)
Receive(d) ==
    /\ up[d] /\ busy[d] = Idle
    /\ \E m \in Machines :
        /\ stream[m][d] # <<>>
        /\ stream' = [stream EXCEPT ![m][d] = Tail(@)]
        /\ LET msg == Head(stream[m][d])
               valid == msg.ballot >= cur_epoch[d]
           IN /\ busy' = IF valid
                         THEN [busy EXCEPT ![d] = [kind |-> "msg", msg |-> msg,
                                                   epoch |-> cur_epoch[d]]]
                         ELSE busy
              /\ accepts' = IF ~valid /\ msg.kind = "accept" THEN Reply(msg, d, FALSE)
                            ELSE accepts
    /\ UNCHANGED <<up, serverVars, leads, submitted, jobs, control, round, crashes>>

\* The epoch, if the test found it lower, is written to every server of the
\* machine after mtx_ was released; OnBulkPrepare may have raised it meanwhile.
RaiseEpoch(d) ==
    LET b == busy[d].msg.ballot IN
    /\ cur_epoch' = IF b > busy[d].epoch THEN [cur_epoch EXCEPT ![d] = b] ELSE cur_epoch
    /\ late' = (late \/ (busy[d].epoch <= b /\ b < cur_epoch[d]))

(***************************************************************************)
(* The loop over max_executed_slot_ + 1 .. max_committed_slot_ that stops  *)
(* at the first slot not committed: the last slot it executes.             *)
(***************************************************************************)
\* Mutant: the loop does not stop at a hole.
LastExecutedSkips(coms, from, max) == max

LastExecuted(coms, from, max) ==
    CHOOSE s \in from..max :
        /\ \A t \in (from + 1)..s : coms[t] # None
        /\ s < max => coms[s + 1] = None

\* Mutant: the slots given to app_next_ are counted from the first one.
ExecuteAgain(d, coms, last) ==
    /\ max_executed_slot' = [max_executed_slot EXCEPT ![d] = last]
    /\ executed' = [executed EXCEPT
            ![d] = @ \o [i \in 1..(last - max_executed_slot[d]) |-> coms[i]]]

\* Executes up to slot last: app_next_ for each, in the order of the slots.
Execute(d, coms, last) ==
    /\ max_executed_slot' = [max_executed_slot EXCEPT ![d] = last]
    /\ executed' = [executed EXCEPT
            ![d] = @ \o [i \in 1..(last - max_executed_slot[d]) |->
                            coms[max_executed_slot[d] + i]]]

OnBulkAccept(d) ==
    /\ up[d] /\ busy[d] # Idle
    /\ LET msg == busy[d].msg IN
        /\ msg.kind = "accept"
        /\ RaiseEpoch(d)
        /\ accepted' = [accepted EXCEPT ![d][msg.slot] = msg.cmd]
        /\ ballot' = [ballot EXCEPT ![d][msg.slot] = msg.ballot]
        /\ accepts' = Reply(msg, d, TRUE)
    /\ busy' = [busy EXCEPT ![d] = Idle]
    /\ UNCHANGED <<up, committed, max_committed_slot, max_executed_slot, cur_open_slot,
                   executed, leads, submitted, jobs, stream, control, round, crashes>>

\* Commits coms on d, whose slots reach top, and executes what it can.
CommitAll(d, coms, top) ==
    LET max == IF top > max_committed_slot[d] THEN top ELSE max_committed_slot[d]
        last == LastExecuted(coms, max_executed_slot[d], max)
    IN /\ committed' = [committed EXCEPT ![d] = coms]
       /\ max_committed_slot' = [max_committed_slot EXCEPT ![d] = max]
       /\ Execute(d, coms, last)

OnBulkCommit(d) ==
    /\ up[d] /\ busy[d] # Idle
    /\ LET msg == busy[d].msg IN
        /\ msg.kind = "commit"
        /\ RaiseEpoch(d)
        /\ IF ballot[d][msg.slot] = msg.ballot    \* verify(...)
           THEN /\ CommitAll(d, [committed[d] EXCEPT ![msg.slot] = accepted[d][msg.slot]],
                             msg.slot)
                /\ busy' = [busy EXCEPT ![d] = Idle]
                /\ UNCHANGED <<up, jobs, accepts, stream, control>>
           ELSE /\ Down(d)
                /\ UNCHANGED <<committed, max_committed_slot, max_executed_slot, executed>>
    /\ UNCHANGED <<accepted, ballot, cur_open_slot, leads, submitted, round, crashes>>

OnSyncCommit(d) ==
    /\ up[d] /\ busy[d] # Idle
    /\ LET msg == busy[d].msg
           slots == DOMAIN msg.cmds
       IN /\ msg.kind = "sync"
          /\ RaiseEpoch(d)
          /\ IF \A s \in slots : ballot[d][s] <= msg.ballot    \* verify(...)
             THEN /\ ballot' = [ballot EXCEPT ![d] =
                        [s \in Slots |-> IF s \in slots THEN msg.ballot ELSE @[s]]]
                  /\ CommitAll(d, [s \in Slots |-> IF s \in slots THEN msg.cmds[s]
                                                   ELSE committed[d][s]],
                               CHOOSE s \in slots : \A t \in slots : t <= s)
                  /\ busy' = [busy EXCEPT ![d] = Idle]
                  /\ round' = [round EXCEPT !.replies =
                        IF round.phase = "commit" THEN @ \cup {[from |-> d]} ELSE @]
                  /\ UNCHANGED <<up, jobs, accepts, stream, control>>
             ELSE /\ Down(d)
                  /\ UNCHANGED <<ballot, committed, max_committed_slot, max_executed_slot,
                                 executed, round>>
    /\ UNCHANGED <<accepted, cur_open_slot, leads, submitted, crashes>>
-----------------------------------------------------------------------------
(***************************************************************************)
(* The election and the recovery of the stream.                            *)
(***************************************************************************)
ToControl(msg) == control' = [d \in Machines |->
                    IF up[d] THEN Append(control[d], msg) ELSE control[d]]

\* The next round of the elected machine: the message goes out as a job, and
\* the election's thread goes to wait on a condition (Wait).
Ask(phase, msg) ==
    /\ round' = [by |-> round.by, phase |-> phase, waits |-> FALSE, replies |-> {}]
    /\ ToControl(msg)

\* electionMonitor has missed the leader's heartbeats: send_bulk_prep.
SendBulkPrep(m) ==
    /\ up[m] /\ m \in Electors /\ Elected = NoOne
    /\ up[0] => FalseSuspicion
    /\ round' = [by |-> m, phase |-> "prepare", waits |-> TRUE, replies |-> {}]
    /\ ToControl([kind |-> "prepare"])
    /\ UNCHANGED <<up, serverVars, workerVars, stream, busy, crashes>>

\* Mutant: the elected machine, whose own epoch is already the new one, refuses
\* its own message.
OnBulkPrepareButOwn(d) ==
    /\ up[d] /\ control[d] # <<>> /\ Head(control[d]).kind = "prepare"
    /\ control' = [control EXCEPT ![d] = Tail(@)]
    /\ cur_epoch' = IF d = Elected THEN cur_epoch
                    ELSE [cur_epoch EXCEPT ![d] = NextEpoch]
    /\ round' = [round EXCEPT !.replies =
            IF round.phase = "prepare" /\ d # Elected THEN @ \cup {[from |-> d]} ELSE @]
    /\ UNCHANGED <<up, accepted, ballot, committed, max_committed_slot, max_executed_slot,
                   cur_open_slot, executed, late, workerVars, stream, busy, crashes>>

\* OnBulkPrepare: no other machine has asked for this epoch, so the tests of the
\* epoch pass.
OnBulkPrepare(d) ==
    /\ up[d] /\ control[d] # <<>> /\ Head(control[d]).kind = "prepare"
    /\ control' = [control EXCEPT ![d] = Tail(@)]
    /\ cur_epoch' = [cur_epoch EXCEPT ![d] = NextEpoch]
    /\ round' = [round EXCEPT !.replies =
            IF round.phase = "prepare" THEN @ \cup {[from |-> d]} ELSE @]
    /\ UNCHANGED <<up, accepted, ballot, committed, max_committed_slot, max_executed_slot,
                   cur_open_slot, executed, late, workerVars, stream, busy, crashes>>

\* The committed slots the elected machine does not have, and the slots below
\* sync_commit_slot that d has not.
OnSyncLog(d) ==
    /\ up[d] /\ control[d] # <<>> /\ Head(control[d]).kind = "synclog"
    /\ control' = [control EXCEPT ![d] = Tail(@)]
    /\ LET slot == Head(control[d]).slot
           has == {s \in slot..max_committed_slot[d] : committed[d][s] # None}
           missing == {s \in max_executed_slot[d]..(slot - 1) :
                            s \in Slots /\ committed[d][s] = None}
       IN round' = [round EXCEPT !.replies =
            IF round.phase = "synclog"
            THEN @ \cup {[from |-> d, cmds |-> [s \in has |-> committed[d][s]],
                          missing |-> missing]}
            ELSE @]
    /\ UNCHANGED <<up, serverVars, workerVars, stream, busy, crashes>>

(***************************************************************************)
(* OnSyncNoOps: the holes get no-ops; the loop that executes what is left  *)
(* has a verify(0) for a slot not committed and for a no-op.               *)
(***************************************************************************)
OnSyncNoOps(d) ==
    /\ up[d] /\ control[d] # <<>> /\ Head(control[d]).kind = "noops"
    /\ LET slot == Head(control[d]).slot
           max == max_committed_slot[d]
           coms == [s \in Slots |-> IF s \in slot..max /\ committed[d][s] = None
                                    THEN NoOp ELSE committed[d][s]]
       IN IF /\ slot > max_executed_slot[d]
             /\ \A s \in (max_executed_slot[d] + 1)..max : coms[s] \notin {None, NoOp}
          THEN /\ Execute(d, coms, max)
               /\ cur_open_slot' = [cur_open_slot EXCEPT ![d] = max + 1]
               /\ control' = [control EXCEPT ![d] = Tail(@)]
               /\ round' = [round EXCEPT !.replies =
                    IF round.phase = "noops" THEN @ \cup {[from |-> d]} ELSE @]
               /\ UNCHANGED <<up, jobs, busy, accepts, stream>>
          ELSE Down(d) /\ UNCHANGED <<executed, max_executed_slot, cur_open_slot, round>>
    /\ UNCHANGED <<cur_epoch, accepted, ballot, committed, max_committed_slot, late,
                   leads, submitted, crashes>>

\* The election's thread begins to wait for the answer to its message.
Wait ==
    /\ Elected # NoOne /\ up[Elected] /\ ~round.waits
    /\ round.phase \in {"synclog", "commit", "synced", "noops"}
    /\ round' = [round EXCEPT !.waits = TRUE]
    /\ UNCHANGED <<up, serverVars, workerVars, netVars, crashes>>

\* A quorum of replies to the current message.
Answers == {q \in SUBSET round.replies : Cardinality(q) >= Quorum}

\* stuff_todo_leader_election up to send_sync_logs.
BecomeLeader ==
    /\ round.phase = "prepare" /\ up[Elected] /\ Answers # {}
    /\ leads' = [leads EXCEPT ![Elected] = NextEpoch]
    /\ cur_open_slot' = [cur_open_slot EXCEPT ![Elected] = max_committed_slot[Elected] + 1]
    /\ Ask("synclog", [kind |-> "synclog", slot |-> max_executed_slot[Elected] + 1])
    /\ UNCHANGED <<up, cur_epoch, accepted, ballot, committed, max_committed_slot, executed,
                   max_executed_slot, late, submitted, jobs, accepts, stream, busy, crashes>>

\* Everything a quorum has committed and the elected machine or the replying
\* one lacks; one slot told twice takes either command.
Merged(q) ==
    LET told == UNION {DOMAIN r.cmds : r \in q}
        lacking == {s \in UNION {r.missing : r \in q} : committed[Elected][s] # None}
        Told(s) == IF s \in lacking THEN {committed[Elected][s]}
                      ELSE {r.cmds[s] : r \in {x \in q : s \in DOMAIN x.cmds}}
    IN {f \in [told \cup lacking -> Logs \cup {NoOp}] :
            \A s \in told \cup lacking : f[s] \in Told(s)}

\* SendSyncLog has its quorum: SyncCommit goes out on the stream's connections,
\* unless there is nothing to send.
SendSyncCommit ==
    /\ round.phase = "synclog" /\ up[Elected]
    /\ \E q \in Answers : \E cmds \in Merged(q) :
        LET empty == DOMAIN cmds = {} IN
        /\ round' = [round EXCEPT !.phase = IF empty THEN "synced" ELSE "commit",
                                  !.replies = {}]
        /\ IF empty THEN UNCHANGED stream
           ELSE ToAll(Elected, [kind |-> "sync", by |-> Elected, ballot |-> NextEpoch,
                                cmds |-> cmds])
    /\ UNCHANGED <<up, serverVars, workerVars, busy, control, crashes>>

\* SendSyncLog has returned and broadcasts the condition.
Synced == round.phase = "synced" \/ (round.phase = "commit" /\ Answers # {})

\* send_no_ops_to_all_workers.
SendSyncNoOps ==
    /\ Synced /\ up[Elected] /\ round.waits
    /\ Ask("noops", [kind |-> "noops", slot |-> max_executed_slot[Elected] + 1])
    /\ UNCHANGED <<up, serverVars, workerVars, stream, busy, crashes>>

\* send_no_ops_for_mark.
SendMark ==
    /\ round.phase = "noops" /\ up[Elected] /\ round.waits /\ Answers # {}
    /\ round' = [round EXCEPT !.phase = "done", !.waits = FALSE, !.replies = {}]
    /\ OpenSlot(Elected, Mark(Elected))
    /\ UNCHANGED <<up, cur_epoch, accepted, ballot, committed, max_committed_slot,
                   max_executed_slot, executed, late, leads, submitted, accepts,
                   stream, busy, control, crashes>>

\* The job broadcasts before the thread waits: the thread is never woken.
WakeUpLost ==
    /\ Synced \/ (round.phase = "noops" /\ Answers # {})
    /\ up[Elected] /\ ~round.waits
    /\ round' = [round EXCEPT !.phase = "stuck"]
    /\ UNCHANGED <<up, serverVars, workerVars, netVars, crashes>>
-----------------------------------------------------------------------------
Handle(m) ==
    \/ Receive(m) \/ OnBulkAccept(m) \/ OnBulkCommit(m) \/ OnSyncCommit(m)
    \/ OnBulkPrepare(m) \/ OnSyncLog(m) \/ OnSyncNoOps(m)

Coordinate == \E c \in accepts : Commit(c) \/ AcceptRefused(c)

Recover == Wait \/ BecomeLeader \/ SendSyncCommit \/ SendSyncNoOps \/ SendMark

Next ==
    \/ \E m \in Machines :
        Crash(m) \/ add_log_to_nc(m) \/ BulkSubmit(m) \/ Handle(m) \/ SendBulkPrep(m)
    \/ Coordinate \/ Recover \/ WakeUpLost

Spec == Init /\ [][Next]_vars

(***************************************************************************)
(* The poll threads and the election's threads keep running; nothing makes *)
(* a machine crash, a transaction thread submit, or a wake-up get lost.    *)
(***************************************************************************)
Fairness ==
    /\ \A m \in Machines : WF_vars(BulkSubmit(m)) /\ WF_vars(Handle(m))
    /\ WF_vars(\E m \in Machines : SendBulkPrep(m))
    /\ WF_vars(Coordinate) /\ WF_vars(Recover)

FairSpec == Spec /\ Fairness
-----------------------------------------------------------------------------
\* A message of the stream.
IsMessage(msg) ==
    /\ msg.by \in Machines /\ msg.ballot \in Epochs
    /\ \/ msg.kind = "accept" /\ msg.slot \in Slots /\ msg.cmd \in Logs
       \/ msg.kind = "commit" /\ msg.slot \in Slots
       \/ msg.kind = "sync" /\ DOMAIN msg.cmds \subseteq Slots

\* The type invariant: slots and epochs stay in their ranges, a no-op is never
\* left in a slot of a machine that is up, and nothing is executed twice or
\* out of the order of the slots.
TypeOK ==
    /\ up \in [Machines -> BOOLEAN]
    /\ cur_epoch \in [Machines -> Epochs]
    /\ leads \in [Machines -> Epochs]
    /\ accepted \in [Machines -> [Slots -> Commands]]
    /\ ballot \in [Machines -> [Slots -> Epochs]]
    /\ committed \in [Machines -> [Slots -> Commands \ {NoOp}]]
    /\ max_committed_slot \in [Machines -> Slots \cup {0}]
    /\ max_executed_slot \in [Machines -> Slots \cup {0}]
    /\ cur_open_slot \in [Machines -> 1..(MaxSlot + 1)]
    /\ submitted \in [Machines -> 0..(OldEntries + NewEntries)]
    /\ \A m \in Machines : \A j \in jobs[m] : j[1] \in Slots /\ j[2] \in Logs
    /\ \A c \in accepts : /\ c.by \in Machines /\ c.slot \in Slots
                          /\ c.ballot \in Epochs /\ c.yes \subseteq Machines
    /\ \A m, d \in Machines : \A i \in DOMAIN stream[m][d] : IsMessage(stream[m][d][i])
    /\ \A m \in Machines : busy[m] # Idle => IsMessage(busy[m].msg)
    /\ round.phase \in {"none", "prepare", "synclog", "commit", "synced", "noops",
                        "done", "stuck"}
    /\ \A m \in Machines :
        /\ Range(executed[m]) \subseteq Logs
        /\ Len(executed[m]) = max_executed_slot[m]
        /\ max_executed_slot[m] <= max_committed_slot[m]
    /\ late \in BOOLEAN

\* The machines that are up have executed the same logs in the same order, one
\* possibly further than another: across the crash of the leader, the recovery
\* and the jobs that run out of order.  late excepts the executions in which a
\* handler tested the epoch before OnBulkPrepare raised it and acted after.
SurvivorsAgree ==
    late \/ \A m, d \in Up : IsPrefix(executed[m], executed[d])
                              \/ IsPrefix(executed[d], executed[m])

\* On each machine that is up the mark of the new epoch separates the logs of
\* the old leader from those of the new one, which is what the followers'
\* replay (FollowerReplay, dbtest.cc) takes for granted of each stream.
MarkSeparates ==
    late \/ \A m \in Up : \A i \in DOMAIN executed[m] :
        executed[m][i][1] # 0 =>
            \E k \in 1..i : /\ executed[m][k] = Mark(executed[m][i][1])
                            /\ \A j \in DOMAIN executed[m] : executed[m][j][1] = 0 <=> j < k

\* Once a machine is elected the recovery comes to an end: the mark is executed
\* on every machine that is up, or a verify(0) or a crash has left no quorum,
\* or the condition variable's wake-up was lost, or a handler was late.
RecoveryCompletes ==
    Elected # NoOne ~>
        \/ \A m \in Up : Mark(Elected) \in Range(executed[m])
        \/ Cardinality(Up) < Quorum \/ Elected \notin Up
        \/ round.phase = "stuck" \/ late

\* "Accept: slot %d is committed": what the old leader executed, and so
\* reported to its watermark, is executed by a machine that goes on to the new
\* epoch.
ExecutedSurvives ==
    \A m \in Machines \ {0} : \A i \in DOMAIN executed[m] :
        executed[m][i][1] # 0 => Range(executed[0]) \subseteq Range(executed[m])
=============================================================================
