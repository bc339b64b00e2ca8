--------------------------- MODULE ElectionProofs ---------------------------
(***************************************************************************)
(* Proofs about Election.                                                  *)
(*                                                                         *)
(* TypeCorrect holds for every value of the constants.                     *)
(*                                                                         *)
(* LeaderAlwaysFences is about one change of leader (OneElection), the     *)
(* only case in which LeaderFences holds.  The argument, EInv: epoch 3 is  *)
(* sticky, because every refusal that a PrepareDone or BeatDone could copy *)
(* carries 3; the servers' epoch is sticky too, because since the startup  *)
(* nobody has a stream request of epoch 2 left to store.  So a machine     *)
(* that has consented stays with the candidate.  While the prepares are    *)
(* open there is no heartbeat of epoch 3, each machine is asked once, and  *)
(* only the old leader can have come to epoch 3 in another way: at most it *)
(* refuses.  One refusal does not end the event, so what wakes the thread  *)
(* is a quorum of consents.                                                *)
(***************************************************************************)
EXTENDS Election, FiniteSetTheorems, SequenceTheorems, TLAPS

-----------------------------------------------------------------------------
(***************************************************************************)
(* Requests on their way.                                                  *)
(***************************************************************************)

\* What a step that sends nothing does to the connections: it takes the first
\* s requests of each, and perhaps loses some of the last.
Shrinks ==
  \A p, d \in Machines : \E s \in Nat : \A i \in DOMAIN req'[p][d] :
    i + s \in DOMAIN req[p][d] /\ req'[p][d][i] = req[p][d][i + s]

\* What Broadcast does to them.
Grows(m, r) ==
  \A p, d \in Machines : \A i \in DOMAIN req'[p][d] :
    \/ i \in DOMAIN req[p][d] /\ req'[p][d][i] = req[p][d][i]
    \/ p = m /\ i = Len(req[p][d]) + 1 /\ req'[p][d][i] = r

\* How TypeOK types the connections and the replies.
Connections == req \in [Machines -> [Machines -> Seq(Request)]]
Replies == rep \in [Machines -> SUBSET Reply]

LEMMA HeadFacts ==
  ASSUME Connections, NEW p \in Machines, NEW m \in Machines, req[p][m] # <<>>
  PROVE  /\ req[p][m] \in Seq(Request) /\ 1 \in DOMAIN req[p][m]
         /\ Head(req[p][m]) = req[p][m][1]
         /\ Head(req[p][m]) \in Request
         /\ Head(req[p][m]).epoch \in Epochs
         /\ Head(req[p][m]).kind \in {"prepare", "heartbeat"}
<1>1. req[p][m] \in Seq(Request) BY DEF Connections
<1>2. Head(req[p][m]) = req[p][m][1] /\ 1 \in DOMAIN req[p][m] BY <1>1
<1>3. Head(req[p][m]) \in Request BY <1>1, <1>2
<1> QED BY <1>1, <1>2, <1>3 DEF Request

LEMMA ReceivedFacts ==
  ASSUME Connections, NEW p \in Machines, NEW m \in Machines, req[p][m] # <<>>,
         Received(p, m)
  PROVE  /\ Connections' /\ Shrinks
         /\ \A i \in DOMAIN req'[p][m] :
              i + 1 \in DOMAIN req[p][m] /\ req'[p][m][i] = req[p][m][i + 1]
<1>1. req[p][m] \in Seq(Request) BY DEF Connections
<1>2. Tail(req[p][m]) \in Seq(Request) BY <1>1
<1>3. req' = [req EXCEPT ![p][m] = Tail(@)] BY DEF Received
<1>4. Connections' BY <1>2, <1>3 DEF Connections
<1>5. req'[p][m] = Tail(req[p][m]) BY <1>3 DEF Connections
<1>6. \A i \in DOMAIN req'[p][m] :
         i + 1 \in DOMAIN req[p][m] /\ req'[p][m][i] = req[p][m][i + 1]
  BY <1>1, <1>5
<1>7. ASSUME NEW a \in Machines, NEW d \in Machines, ~(a = p /\ d = m)
      PROVE  req'[a][d] = req[a][d]
  BY <1>3, <1>7 DEF Connections
<1>8. ASSUME NEW a \in Machines, NEW d \in Machines
      PROVE  \E s \in Nat : \A i \in DOMAIN req'[a][d] :
               i + s \in DOMAIN req[a][d] /\ req'[a][d][i] = req[a][d][i + s]
  <2>1. CASE a = p /\ d = m BY <2>1, <1>6
  <2>2. CASE ~(a = p /\ d = m)
    <3>1. req'[a][d] = req[a][d] BY <2>2, <1>7
    <3>2. req[a][d] \in Seq(Request) BY DEF Connections
    <3>3. \A i \in DOMAIN req[a][d] : i + 0 = i BY <3>2
    <3> QED BY <3>1, <3>3
  <2> QED BY <2>1, <2>2
<1> QED BY <1>4, <1>6, <1>8 DEF Shrinks

LEMMA StopFacts ==
  ASSUME Connections, Replies, NEW m \in Machines, Stop(m)
  PROVE  /\ Connections' /\ Shrinks
         /\ Replies' /\ \A p \in Machines : rep'[p] \subseteq rep[p]
         /\ up' = [up EXCEPT ![m] = FALSE]
<1>1. PICK sent \in [Machines -> Lengths(m)] :
        /\ \A d \in Machines : sent[d] <= Len(req[m][d])
        /\ req' = [p \in Machines |-> [d \in Machines |->
                     IF d = m THEN <<>>
                     ELSE IF p = m THEN SubSeq(req[m][d], 1, sent[d])
                     ELSE req[p][d]]]
  BY DEF Stop
<1>2. ASSUME NEW p \in Machines, NEW d \in Machines
      PROVE  /\ req'[p][d] \in Seq(Request)
             /\ \A i \in DOMAIN req'[p][d] :
                  /\ i + 0 \in DOMAIN req[p][d]
                  /\ req'[p][d][i] = req[p][d][i + 0]
  <2>1. req[p][d] \in Seq(Request) /\ req[m][d] \in Seq(Request) BY DEF Connections
  <2>2. req'[p][d] = IF d = m THEN <<>>
                     ELSE IF p = m THEN SubSeq(req[m][d], 1, sent[d])
                     ELSE req[p][d]
    BY <1>1
  <2>3. CASE d = m
    <3>1. req'[p][d] = <<>> BY <2>2, <2>3
    <3>2. << >> \in Seq(Request) /\ DOMAIN << >> = {} BY EmptySeq
    <3> QED BY <3>1, <3>2
  <2>4. CASE d # m /\ p = m
    <3>1. sent[d] \in Nat
      <4>1. sent[d] \in Lengths(m) BY <1>1
      <4>2. PICK x \in Machines : sent[d] \in 0 .. Len(req[m][x])
        BY <4>1 DEF Lengths
      <4>3. Len(req[m][x]) \in Nat BY DEF Connections
      <4> QED BY <4>2, <4>3
    <3>2. sent[d] <= Len(req[m][d]) BY <1>1
    <3>3. req'[p][d] = SubSeq(req[p][d], 1, sent[d]) BY <2>2, <2>4
    <3>4. SubSeq(req[p][d], 1, sent[d]) \in Seq(Request)
      BY <2>1, <3>1, <3>2, <2>4
    <3>5. /\ Len(SubSeq(req[p][d], 1, sent[d])) = sent[d]
          /\ \A i \in 1 .. sent[d] : SubSeq(req[p][d], 1, sent[d])[i] = req[p][d][i]
      BY <2>1, <3>1, <3>2, <2>4
    <3> QED BY <2>1, <2>4, <3>1, <3>2, <3>3, <3>4, <3>5
  <2>5. CASE d # m /\ p # m
    <3>1. req'[p][d] = req[p][d] BY <2>2, <2>5
    <3> QED BY <3>1, <2>1
  <2> QED BY <2>3, <2>4, <2>5
<1>3. Connections' BY <1>1, <1>2 DEF Connections
<1>4. Shrinks BY <1>2 DEF Shrinks
<1>5. rep' = [rep EXCEPT ![m] = {}] BY DEF Stop
<1>6. Replies' /\ \A p \in Machines : rep'[p] \subseteq rep[p]
  BY <1>5 DEF Replies
<1> QED BY <1>3, <1>4, <1>6 DEF Stop

LEMMA BroadcastFacts ==
  ASSUME Connections, NEW m \in Machines, NEW r \in Request, Broadcast(m, r)
  PROVE  Connections' /\ Grows(m, r)
<1>1. req' = [req EXCEPT ![m] = [d \in Machines |->
                IF up[d] THEN Append(req[m][d], r) ELSE req[m][d]]]
  BY DEF Broadcast, Connections
<1>2. ASSUME NEW p \in Machines, NEW d \in Machines
      PROVE  /\ req'[p][d] \in Seq(Request)
             /\ \A i \in DOMAIN req'[p][d] :
                  \/ i \in DOMAIN req[p][d] /\ req'[p][d][i] = req[p][d][i]
                  \/ p = m /\ i = Len(req[p][d]) + 1 /\ req'[p][d][i] = r
  <2>1. req[p][d] \in Seq(Request) BY DEF Connections
  <2>2. \/ req'[p][d] = req[p][d]
        \/ p = m /\ req'[p][d] = Append(req[p][d], r)
    BY <1>1 DEF Connections
  <2>3. CASE req'[p][d] = req[p][d] BY <2>1, <2>3
  <2>4. CASE p = m /\ req'[p][d] = Append(req[p][d], r)
    <3>1. Append(req[p][d], r) \in Seq(Request) BY <2>1
    <3>2. /\ Len(Append(req[p][d], r)) = Len(req[p][d]) + 1
          /\ \A i \in 1 .. Len(req[p][d]) : Append(req[p][d], r)[i] = req[p][d][i]
          /\ Append(req[p][d], r)[Len(req[p][d]) + 1] = r
      BY <2>1
    <3> QED BY <2>1, <2>4, <3>1, <3>2
  <2> QED BY <2>2, <2>3, <2>4
<1>3. Connections' BY <1>1, <1>2 DEF Connections
<1> QED BY <1>2, <1>3 DEF Grows

LEMMA SendFacts ==
  ASSUME Replies, NEW p \in Machines, NEW a \in Reply, Send(p, a)
  PROVE  /\ Replies'
         /\ \A m \in Machines : \A r \in rep'[m] : r \in rep[m] \/ (m = p /\ r = a)
BY DEF Replies, Send

LEMMA AnswerTyped ==
  ASSUME NEW r \in Request, NEW m \in Machines, NEW ok \in BOOLEAN, NEW b \in Epochs
  PROVE  Answer(r, m, ok, b) \in Reply
BY DEF Answer, Reply, Request

-----------------------------------------------------------------------------
(***************************************************************************)
(* Types.                                                                  *)
(***************************************************************************)

LEMMA EpochFacts ==
  /\ MaxEpoch \in Nat /\ 0 \in Epochs /\ 2 \in Epochs
  /\ \A e : e \in Epochs <=> e \in Nat /\ e <= MaxEpoch
BY MaxEpochAssumption DEF Epochs

LEMMA TallyFacts ==
  /\ NoVotes \in Tally /\ Closed \in Tally
  /\ NoVotes.open /\ NoVotes.yes = {} /\ NoVotes.no = {}
  /\ ~Closed.open /\ Closed.yes = {} /\ Closed.no = {}
<1>1. NoVotes \in Tally BY EpochFacts DEF NoVotes, Tally
<1>2. Closed \in Tally BY <1>1 DEF Closed, Tally
<1>3. ~Closed.open /\ Closed.yes = NoVotes.yes /\ Closed.no = NoVotes.no
  BY <1>1 DEF Closed, Tally
<1> QED BY <1>1, <1>2, <1>3 DEF NoVotes

LEMMA RequestMade ==
  ASSUME NEW e \in Epochs
  PROVE  /\ Prepare(e) \in Request /\ HeartBeat(e) \in Request
         /\ Prepare(e).kind = "prepare" /\ Prepare(e).epoch = e
         /\ HeartBeat(e).kind = "heartbeat" /\ HeartBeat(e).epoch = e
BY DEF Prepare, HeartBeat, Request

LEMMA NothingIsHandled ==
  Nothing \in Handled /\ Nothing.at = "none" /\ Nothing.epoch = 0
<1>1. 0 \in Machines BY MachinesAssumption
<1> QED BY <1>1, EpochFacts DEF Nothing, Handled

LEMMA InitType == Init => TypeOK
<1> SUFFICES ASSUME Init PROVE TypeOK OBVIOUS
<1>1. 0 \in Machines BY MachinesAssumption
<1>2. << >> \in Seq(Request) BY EmptySeq
<1>3. req \in [Machines -> [Machines -> Seq(Request)]] BY <1>2 DEF Init
<1>4. prep \in [Machines -> Tally] /\ beat \in [Machines -> Tally]
  BY TallyFacts DEF Init
<1>5. hnd \in [Machines -> Handled] /\ streams \in 0 .. MaxStream
  BY NothingIsHandled, MaxStreamAssumption DEF Init
<1>6. ruled \in [Machines -> SUBSET Epochs] /\ rep \in [Machines -> SUBSET Reply]
  BY EpochFacts DEF Init
<1>7. /\ cur_epoch \in [Machines -> Epochs] /\ ps_epoch \in [Machines -> Epochs]
      /\ seen_ballot \in [Machines -> Epochs] /\ send_epoch \in [Machines -> Epochs]
  BY EpochFacts DEF Init
<1> QED BY <1>1, <1>3, <1>4, <1>5, <1>6, <1>7 DEF Init, TypeOK

LEMMA MonitorTypes ==
  ASSUME TypeOK, NEW m \in Machines,
         Suspect(m) \/ Wait(m) \/ Woken(m) \/ TakeOver(m) \/ Recovered(m)
  PROVE  TypeOK'
<1>0. cur_epoch[m] \in Epochs BY DEF TypeOK
<1>1. CASE Suspect(m)
  <2>1. cur_epoch[m] + 1 \in Epochs BY <1>0, <1>1, EpochFacts DEF Suspect
  <2>2. Connections'
    BY <1>1, <2>1, RequestMade, BroadcastFacts DEF Suspect, TypeOK, Connections
  <2>3. cur_epoch' \in [Machines -> Epochs] /\ send_epoch' \in [Machines -> Epochs]
    BY <1>1, <2>1 DEF Suspect, TypeOK
  <2>4. prep' \in [Machines -> Tally] BY <1>1, TallyFacts DEF Suspect, TypeOK
  <2> QED
    BY <1>1, <2>2, <2>3, <2>4 DEF Suspect, TypeOK, Connections, psVars, hist
<1>2. CASE Wait(m)
  BY <1>2 DEF Wait, TypeOK, esVars, psVars, rpcVars, hist
<1>3. CASE Woken(m)
  BY <1>3 DEF Woken, TypeOK, esVars, psVars, rpcVars, hist
<1>4. CASE TakeOver(m)
  BY <1>0, <1>4 DEF TakeOver, TypeOK, psVars, rpcVars
<1>5. CASE Recovered(m)
  BY <1>5 DEF Recovered, TypeOK, esVars, psVars, rpcVars, hist
<1> QED BY <1>1, <1>2, <1>3, <1>4, <1>5

LEMMA OnBulkPrepareTypes ==
  ASSUME TypeOK, NEW p \in Machines, NEW m \in Machines, OnBulkPrepare(p, m)
  PROVE  TypeOK'
<1> DEFINE r == Head(req[p][m])
<1>0. Connections /\ Replies /\ up[m] /\ req[p][m] # <<>>
  BY DEF TypeOK, Connections, Replies, OnBulkPrepare, Arrived
<1>1. r \in Request /\ r.epoch \in Epochs BY <1>0, HeadFacts
<1>2. cur_epoch[m] \in Epochs BY DEF TypeOK
<1>3. UNCHANGED <<hnd, streams, pc, send_epoch, prep, beat, ruled>>
  BY DEF OnBulkPrepare, monVars
<1>4. CASE ~Consents(m, p, r.epoch)
  <2>1. /\ Send(p, Answer(r, m, FALSE, cur_epoch[m])) /\ Received(p, m)
        /\ UNCHANGED <<up, esVars, ps_epoch, seen_ballot, clash>>
    BY <1>4 DEF OnBulkPrepare
  <2>2. Replies' BY <2>1, <1>0, <1>1, <1>2, SendFacts, AnswerTyped
  <2>3. Connections' BY <2>1, <1>0, ReceivedFacts
  <2> QED BY <2>1, <2>2, <2>3, <1>3 DEF TypeOK, Connections, Replies, esVars
<1>5. CASE Consents(m, p, r.epoch) /\ seen_ballot[m] > r.epoch
  <2>1. /\ Stop(m) /\ clash' = clash \cup {<<m, "OnBulkPrepare">>}
        /\ UNCHANGED <<esVars, ps_epoch, seen_ballot>>
    BY <1>5 DEF OnBulkPrepare
  <2>2. Connections' /\ Replies' /\ up' = [up EXCEPT ![m] = FALSE]
    BY <2>1, <1>0, StopFacts
  <2> QED BY <2>1, <2>2, <1>3 DEF TypeOK, Connections, Replies, esVars
<1>6. CASE Consents(m, p, r.epoch) /\ ~(seen_ballot[m] > r.epoch)
  <2>1. /\ cur_epoch' = [cur_epoch EXCEPT ![m] = r.epoch]
        /\ ps_epoch' = [ps_epoch EXCEPT ![m] = r.epoch]
        /\ seen_ballot' = [seen_ballot EXCEPT ![m] = r.epoch]
        /\ cur_state' = IF p = m THEN cur_state
                        ELSE [cur_state EXCEPT ![m] = 0]
        /\ leader_id' = [leader_id EXCEPT ![m] = p]
        /\ Send(p, Answer(r, m, TRUE, r.epoch)) /\ Received(p, m)
        /\ UNCHANGED <<up, clash>>
    BY <1>6 DEF OnBulkPrepare
  <2>2. Replies' BY <2>1, <1>0, <1>1, SendFacts, AnswerTyped
  <2>3. Connections' BY <2>1, <1>0, ReceivedFacts
  <2> HIDE DEF r
  <2> QED BY <2>1, <2>2, <2>3, <1>1, <1>3 DEF TypeOK, Connections, Replies
<1> QED BY <1>4, <1>5, <1>6

\* The four ways through OnHeartbeat, for the request r.
Refuses(p, m, r) ==
  /\ r.epoch < cur_epoch[m]
  /\ Send(p, Answer(r, m, FALSE, cur_epoch[m])) /\ Received(p, m)
  /\ UNCHANGED <<up, cur_epoch, cur_state, leader_id, ps_epoch, clash>>
Follows(p, m, r) ==
  /\ r.epoch = cur_epoch[m]
  /\ cur_state' = IF p = m THEN cur_state ELSE [cur_state EXCEPT ![m] = 0]
  /\ Send(p, Answer(r, m, TRUE, 0)) /\ Received(p, m)
  /\ UNCHANGED <<up, cur_epoch, leader_id, ps_epoch, clash>>
Clashes(m) ==
  /\ Stop(m) /\ clash' = clash \cup {<<m, "OnHeartbeat">>}
  /\ UNCHANGED <<cur_epoch, cur_state, leader_id, ps_epoch>>
Adopts(p, m, r) ==
  /\ r.epoch > cur_epoch[m]
  /\ cur_state' = [cur_state EXCEPT ![m] = 0]
  /\ cur_epoch' = [cur_epoch EXCEPT ![m] = r.epoch]
  /\ ps_epoch' = [ps_epoch EXCEPT ![m] = r.epoch]
  /\ leader_id' = [leader_id EXCEPT ![m] = p]
  /\ Send(p, Answer(r, m, TRUE, 0)) /\ Received(p, m)
  /\ UNCHANGED <<up, clash>>

LEMMA HeartbeatCases ==
  ASSUME TypeOK, NEW p \in Machines, NEW m \in Machines, OnHeartbeat(p, m)
  PROVE  \E r \in Request :
         /\ r = Head(req[p][m]) /\ r = req[p][m][1] /\ 1 \in DOMAIN req[p][m]
         /\ up[m] /\ req[p][m] # <<>> /\ r.kind = "heartbeat" /\ r.epoch \in Epochs
         /\ UNCHANGED <<seen_ballot, hnd, streams, pc, send_epoch, prep, beat, ruled>>
         /\ Refuses(p, m, r) \/ Follows(p, m, r) \/ Clashes(m) \/ Adopts(p, m, r)
<1> DEFINE r == Head(req[p][m])
<1>1. /\ up[m] /\ req[p][m] # <<>> /\ r.kind = "heartbeat"
      /\ UNCHANGED <<seen_ballot, hnd, streams, pc, send_epoch, prep, beat, ruled>>
  BY DEF OnHeartbeat, Arrived, monVars
<1>2. Connections BY DEF TypeOK, Connections
<1>3. r \in Request /\ r.epoch \in Epochs /\ r = req[p][m][1] /\ 1 \in DOMAIN req[p][m]
  BY <1>1, <1>2, HeadFacts
<1>4. Refuses(p, m, r) \/ Follows(p, m, r) \/ Clashes(m) \/ Adopts(p, m, r)
  BY DEF OnHeartbeat, esVars, Refuses, Follows, Clashes, Adopts
<1> HIDE DEF r
<1>5. r = Head(req[p][m]) BY DEF r
<1> QED BY <1>1, <1>3, <1>4, <1>5

LEMMA OnHeartbeatTypes ==
  ASSUME TypeOK, NEW p \in Machines, NEW m \in Machines, OnHeartbeat(p, m)
  PROVE  TypeOK'
<1>1. PICK r \in Request :
         /\ req[p][m] # <<>> /\ r.epoch \in Epochs
         /\ UNCHANGED <<seen_ballot, hnd, streams, pc, send_epoch, prep, beat, ruled>>
         /\ Refuses(p, m, r) \/ Follows(p, m, r) \/ Clashes(m) \/ Adopts(p, m, r)
  BY HeartbeatCases
<1>0. Connections /\ Replies BY DEF TypeOK, Connections, Replies
<1>2. cur_epoch[m] \in Epochs /\ 0 \in Epochs BY EpochFacts DEF TypeOK
<1>3. /\ Answer(r, m, FALSE, cur_epoch[m]) \in Reply
      /\ Answer(r, m, TRUE, 0) \in Reply
  BY <1>1, <1>2, AnswerTyped
<1>4. CASE Refuses(p, m, r)
  <2>1. Replies' BY <1>4, <1>0, <1>3, SendFacts DEF Refuses
  <2>2. Connections' BY <1>4, <1>0, <1>1, ReceivedFacts DEF Refuses
  <2> QED BY <2>1, <2>2, <1>4, <1>1 DEF TypeOK, Connections, Replies, Refuses
<1>5. CASE Follows(p, m, r)
  <2>1. Replies' BY <1>5, <1>0, <1>3, SendFacts DEF Follows
  <2>2. Connections' BY <1>5, <1>0, <1>1, ReceivedFacts DEF Follows
  <2> QED BY <2>1, <2>2, <1>5, <1>1 DEF TypeOK, Connections, Replies, Follows
<1>6. CASE Clashes(m)
  <2>1. Connections' /\ Replies' /\ up' = [up EXCEPT ![m] = FALSE]
    BY <1>6, <1>0, StopFacts DEF Clashes
  <2> QED BY <2>1, <1>6, <1>1 DEF TypeOK, Connections, Replies, Clashes
<1>7. CASE Adopts(p, m, r)
  <2>1. Replies' BY <1>7, <1>0, <1>3, SendFacts DEF Adopts
  <2>2. Connections' BY <1>7, <1>0, <1>1, ReceivedFacts DEF Adopts
  <2> QED BY <2>1, <2>2, <1>7, <1>1 DEF TypeOK, Connections, Replies, Adopts
<1> QED BY <1>1, <1>4, <1>5, <1>6, <1>7

LEMMA FeedFacts ==
  ASSUME NEW t \in Tally, NEW r \in Reply, NEW b \in Epochs
  PROVE  LET f == FeedResponse(t, r, b) IN
         /\ f \in Tally /\ f.open = t.open
         /\ r.valid => f.yes = t.yes \cup {r.from} /\ f.no = t.no /\ f.received = t.received
         /\ ~r.valid => f.yes = t.yes /\ f.no = t.no \cup {r.from} /\ f.received = b
<1>1. r.from \in Machines BY DEF Reply
<1> QED BY <1>1 DEF FeedResponse, Tally

LEMMA PrepareReplyTypes ==
  ASSUME TypeOK, NEW m \in Machines, PrepareReply(m)
  PROVE  TypeOK'
<1>1. PICK r \in rep[m] :
        /\ prep' = IF prep[m].open /\ r.epoch = send_epoch[m]
                   THEN [prep EXCEPT ![m] =
                           FeedResponse(prep[m], r, Larger(prep[m].received, r.ballot))]
                   ELSE prep
        /\ rep' = [rep EXCEPT ![m] = @ \ {r}]
        /\ UNCHANGED <<up, esVars, psVars, monVars, beat, req, hist>>
  BY DEF PrepareReply, TypeOK
<1>2. r \in Reply /\ prep[m] \in Tally BY DEF TypeOK
<1>3. Larger(prep[m].received, r.ballot) \in Epochs
  BY <1>2 DEF Larger, Tally, Reply
<1>4. prep' \in [Machines -> Tally]
  BY <1>1, <1>2, <1>3, FeedFacts DEF TypeOK
<1>5. rep' \in [Machines -> SUBSET Reply] BY <1>1 DEF TypeOK
<1> QED BY <1>1, <1>4, <1>5 DEF TypeOK, esVars, psVars, monVars, hist

LEMMA BeatReplyTypes ==
  ASSUME TypeOK, NEW m \in Machines, BeatReply(m)
  PROVE  TypeOK'
<1>1. PICK r \in rep[m] :
        /\ beat' = IF beat[m].open
                   THEN [beat EXCEPT ![m] = FeedResponse(beat[m], r, r.ballot)]
                   ELSE beat
        /\ rep' = [rep EXCEPT ![m] = @ \ {r}]
        /\ UNCHANGED <<up, esVars, psVars, monVars, prep, req, hist>>
  BY DEF BeatReply, TypeOK
<1>2. r \in Reply /\ beat[m] \in Tally /\ r.ballot \in Epochs BY DEF TypeOK, Reply
<1>4. beat' \in [Machines -> Tally]
  BY <1>1, <1>2, FeedFacts DEF TypeOK
<1>5. rep' \in [Machines -> SUBSET Reply] BY <1>1 DEF TypeOK
<1> QED BY <1>1, <1>4, <1>5 DEF TypeOK, esVars, psVars, monVars, hist

LEMMA DoneTypes ==
  ASSUME TypeOK, NEW m \in Machines, PrepareDone(m) \/ BeatDone(m)
  PROVE  TypeOK'
<1>1. prep[m].received \in Epochs /\ beat[m].received \in Epochs
  BY DEF TypeOK, Tally
<1>2. CASE PrepareDone(m)
  BY <1>1, <1>2, TallyFacts DEF PrepareDone, Wake, TypeOK, psVars, hist
<1>3. CASE BeatDone(m)
  BY <1>1, <1>3, TallyFacts DEF BeatDone, TypeOK, psVars, monVars, hist
<1> QED BY <1>2, <1>3

LEMMA BeatTypes ==
  ASSUME TypeOK, NEW m \in Machines, Beat(m)
  PROVE  TypeOK'
<1>1. cur_epoch[m] \in Epochs /\ HeartBeat(cur_epoch[m]) \in Request
  BY RequestMade DEF TypeOK
<1>2. Connections' BY <1>1, BroadcastFacts DEF Beat, TypeOK, Connections
<1> QED
  BY <1>2, TallyFacts DEF Beat, TypeOK, Connections, esVars, psVars, monVars, hist

LEMMA StreamTypes ==
  ASSUME TypeOK, NEW m \in Machines, NEW p \in Machines,
         StreamTest(p, m) \/ StreamRetest(m) \/ StreamStore(m)
  PROVE  TypeOK'
<1>0. hnd[m] \in Handled BY DEF TypeOK
<1>1. CASE StreamTest(p, m)
  <2>1. PICK b \in ruled[p] :
          hnd' = [hnd EXCEPT ![m] = [from |-> p, epoch |-> b, at |-> "tested"]]
    BY <1>1 DEF StreamTest
  <2>2. [from |-> p, epoch |-> b, at |-> "tested"] \in Handled
    BY DEF TypeOK, Handled
  <2>3. streams' \in 0 .. MaxStream
    BY <1>1, MaxStreamAssumption DEF StreamTest, TypeOK
  <2> QED BY <1>1, <2>1, <2>2, <2>3 DEF StreamTest, TypeOK, monVars, rpcVars, hist
<1>2. CASE StreamRetest(m)
  <2>1. /\ [hnd[m] EXCEPT !.at = "raise"] \in Handled
        /\ [hnd[m] EXCEPT !.at = "same"] \in Handled
    BY <1>0 DEF Handled
  <2>2. hnd' \in [Machines -> Handled]
    BY <1>2, <2>1, NothingIsHandled DEF StreamRetest, TypeOK
  <2> QED BY <1>2, <2>2 DEF StreamRetest, TypeOK, esVars, monVars, rpcVars, hist
<1>3. CASE StreamStore(m)
  <2>1. hnd[m].epoch \in Epochs /\ hnd[m].from \in Machines BY <1>0 DEF Handled
  <2> QED
    BY <1>3, <2>1, NothingIsHandled DEF StreamStore, TypeOK, monVars, rpcVars, hist
<1> QED BY <1>1, <1>2, <1>3

LEMMA CrashTypes ==
  ASSUME TypeOK, NEW m \in Machines, Crash(m)
  PROVE  TypeOK'
<1>1. Connections /\ Replies /\ Stop(m) BY DEF Crash, TypeOK, Connections, Replies
<1>2. Connections' /\ Replies' /\ up' = [up EXCEPT ![m] = FALSE] BY <1>1, StopFacts
<1> QED
  BY <1>2 DEF Crash, TypeOK, Connections, Replies, esVars, psVars, monVars, hist

LEMMA NextTypes == TypeOK /\ [Next]_electionVars => TypeOK'
<1> SUFFICES ASSUME TypeOK, [Next]_electionVars PROVE TypeOK' OBVIOUS
<1>1. CASE UNCHANGED electionVars
  BY <1>1 DEF electionVars, esVars, psVars, monVars, rpcVars, hist, TypeOK
<1>2. ASSUME NEW m \in Machines, Monitor(m) \/ Recovered(m) PROVE TypeOK'
  BY <1>2, MonitorTypes DEF Monitor
<1>3. ASSUME NEW m \in Machines, Jobs(m) PROVE TypeOK'
  BY <1>3, PrepareReplyTypes, BeatReplyTypes, DoneTypes DEF Jobs
<1>4. ASSUME NEW m \in Machines, Beat(m) \/ Crash(m) PROVE TypeOK'
  BY <1>4, BeatTypes, CrashTypes
<1>5. ASSUME NEW m \in Machines, StreamRetest(m) \/ StreamStore(m) PROVE TypeOK'
  BY <1>5, StreamTypes
<1>6. ASSUME NEW m \in Machines, NEW p \in Machines, Handler(p, m) \/ StreamTest(p, m)
      PROVE  TypeOK'
  BY <1>6, OnBulkPrepareTypes, OnHeartbeatTypes, StreamTypes DEF Handler
<1> QED BY <1>1, <1>2, <1>3, <1>4, <1>5, <1>6 DEF Next

\* For any number of machines, electors, epochs and crashes, with false
\* suspicion and lost wake-ups: the epochs that PrepareDone and BeatDone copy out
\* of refusals, that the handlers copy out of requests and that StreamStore
\* copies out of a stream request stay epochs, and leader_id stays a machine.
THEOREM TypeCorrect == Spec => []TypeOK
<1>1. Init => TypeOK BY InitType
<1>2. TypeOK /\ [Next]_electionVars => TypeOK' BY NextTypes
<1> QED BY <1>1, <1>2, PTL DEF Spec

-----------------------------------------------------------------------------
(***************************************************************************)
(* The quorum.                                                             *)
(***************************************************************************)

LEMMA QuorumFacts ==
  /\ n \in Nat /\ k \in Nat /\ n >= 1 /\ k <= n
  /\ n >= 2 => k <= n - 1
<1>1. n \in Nat BY MachinesAssumption, FS_CardinalityType DEF n
<1>2. n >= 1
  <2>1. {0} \subseteq Machines BY MachinesAssumption
  <2>2. Cardinality({0}) = 1 BY FS_Singleton
  <2>3. Cardinality({0}) <= Cardinality(Machines)
    BY <2>1, MachinesAssumption, FS_Subset
  <2> QED BY <2>2, <2>3, <1>1 DEF n
<1> QED BY <1>1, <1>2 DEF k

LEMMA TwoMachines ==
  ASSUME NEW m \in Machines, m # 0
  PROVE  n >= 2
<1>1. {0, m} \subseteq Machines BY MachinesAssumption
<1>2. IsFiniteSet({0}) /\ Cardinality({0}) = 1 BY FS_Singleton
<1>3. Cardinality({0} \cup {m}) = Cardinality({0}) + 1
  BY <1>2, FS_AddElement
<1>4. {0} \cup {m} = {0, m} OBVIOUS
<1>5. Cardinality({0, m}) = 2 BY <1>2, <1>3, <1>4
<1>6. Cardinality({0, m}) <= Cardinality(Machines)
  BY <1>1, MachinesAssumption, FS_Subset
<1> QED BY <1>5, <1>6 DEF n

\* An event that ends in a refusal has had one.
LEMMA RefusedBySome ==
  ASSUME NEW t \in Tally, No(t)
  PROVE  t.no # {}
<1>1. SUFFICES ASSUME t.no = {} PROVE FALSE OBVIOUS
<1>2. Cardinality(t.no) = 0 BY <1>1, FS_EmptySet
<1> QED BY <1>2, QuorumFacts DEF No

\* One refusal does not end it, where there are two machines.
LEMMA OneIsNotEnough ==
  ASSUME NEW t \in Tally, t.no \subseteq {0}, n >= 2
  PROVE  ~No(t)
<1>1. IsFiniteSet({0}) /\ Cardinality({0}) = 1 BY FS_Singleton
<1>2. IsFiniteSet(t.no) /\ Cardinality(t.no) <= 1 BY <1>1, FS_Subset
<1>3. Cardinality(t.no) \in Nat BY <1>2, FS_CardinalityType
<1> QED BY <1>2, <1>3, QuorumFacts DEF No

-----------------------------------------------------------------------------
(***************************************************************************)
(* One change of leader.                                                   *)
(***************************************************************************)

\* One change of leader: one machine may time out, once.
OneElection == MaxEpoch = 3 /\ \A x, y \in Electors : x = y

\* m has sent its prepares.
Candidate(m) == send_epoch[m] # 0
Begun == \E m \in Machines : Candidate(m)

\* Nobody is in epoch 3 before there is a candidate.
QuietInv ==
  \A m \in Machines :
    cur_epoch[m] = 3 \/ ps_epoch[m] = 3 \/ hnd[m].epoch = 3 => Begun

\* Once there is one, every machine that is up has heard of epoch 2, and its
\* servers do not go back to it.
HeardInv == Begun => \A m \in Machines : up[m] => Heard(m)

\* The election thread: the candidate stays in epoch 3, whatever refusals it
\* has had, and does not lead while its prepares are open.
ThreadInv ==
  \A m \in Machines :
    /\ Candidate(m) => m \in Electors /\ send_epoch[m] = 3 /\ cur_epoch[m] = 3
    /\ pc[m] # "loop" => Candidate(m)
    /\ prep[m].open => pc[m] \in {"sent", "waiting"} /\ cur_state[m] = 0

\* Who leads, and in which epoch.
LeadInv ==
  \A m \in Machines :
    /\ cur_state[m] = 1 => /\ cur_epoch[m] >= 2 /\ (m = 0 \/ Candidate(m))
                           /\ cur_epoch[m] = 3 => Candidate(m)
    /\ beat[m].open => m = 0 \/ Candidate(m)
    /\ \A e \in ruled[m] : (m = 0 /\ e = 2) \/ (Candidate(m) /\ e = 3)

\* What is on its way: prepares of the candidate, and heartbeats, of epoch 3
\* only after its prepares have been decided.
NetInv ==
  \A m, d \in Machines : \A i \in DOMAIN req[m][d] :
    /\ req[m][d][i].epoch >= 2
    /\ req[m][d][i].epoch = 3 => Candidate(m)
    /\ req[m][d][i].kind = "prepare" => req[m][d][i].epoch = 3
    /\ req[m][d][i].kind = "heartbeat" /\ req[m][d][i].epoch = 3 => ~prep[m].open

\* A refusal carries epoch 3.
RefuseInv ==
  \A m \in Machines :
    /\ \A r \in rep[m] : /\ ~r.valid => r.ballot = 3 /\ Begun
                         /\ r.kind = "prepare" => Candidate(m)
    /\ prep[m].no # {} => prep[m].received = 3
    /\ beat[m].no # {} => beat[m].received = 3 /\ Begun

\* The servers of a machine that has consented are in epoch 3.
ConsentInv ==
  \A m \in Machines :
    /\ \A r \in rep[m] : r.kind = "prepare" /\ r.valid => ps_epoch[r.from] = 3
    /\ \A p \in prep[m].yes : ps_epoch[p] = 3

\* A machine is asked once.
AskedOnce ==
  \A m, d \in Machines : \A i, j \in DOMAIN req[m][d] :
    req[m][d][i].kind = "prepare" /\ req[m][d][j].kind = "prepare" => i = j

\* While the prepares are open nobody but the candidate and machine 0, whose
\* own heartbeats may have been refused, can be in epoch 3 before it is asked:
\* only machine 0 can refuse.
PendingInv ==
  \A m \in Machines : prep[m].open =>
    /\ \A d \in Machines \ {0, m} : \A i \in DOMAIN req[m][d] :
         req[m][d][i].kind = "prepare" => cur_epoch[d] # 3
    /\ \A r \in rep[m] : r.kind = "prepare" /\ ~r.valid => r.from = 0
    /\ prep[m].no \subseteq {0}

\* A quorum of machines has its servers in epoch 3.
Fenced == Cardinality({p \in Machines : ps_epoch[p] >= 3}) >= k

FenceInv ==
  \A m \in Machines \ {0} :
    pc[m] \in {"woken", "elected"} \/ 3 \in ruled[m] => Fenced

EInv == /\ QuietInv /\ HeardInv /\ ThreadInv /\ LeadInv /\ NetInv /\ RefuseInv
        /\ ConsentInv /\ AskedOnce /\ PendingInv /\ FenceInv

LEMMA ThreeFacts ==
  ASSUME OneElection
  PROVE  3 \in Epochs /\ \A e \in Epochs : e \in Nat /\ e <= 3
BY EpochFacts DEF OneElection

LEMMA RequestTyped ==
  ASSUME Connections, NEW p \in Machines, NEW d \in Machines, NEW i \in DOMAIN req[p][d]
  PROVE  /\ i \in Nat /\ req[p][d][i] \in Request /\ req[p][d][i].epoch \in Epochs
         /\ req[p][d][i].kind \in {"prepare", "heartbeat"}
<1>1. req[p][d] \in Seq(Request) BY DEF Connections
<1>2. i \in Nat /\ req[p][d][i] \in Request BY <1>1
<1> QED BY <1>2 DEF Request

LEMMA InitE == ASSUME OneElection, Init PROVE EInv
<1>1. ASSUME NEW m \in Machines
      PROVE  /\ send_epoch[m] = 0 /\ cur_epoch[m] <= 2 /\ cur_epoch[m] \in Nat
             /\ ps_epoch[m] = 0 /\ hnd[m].epoch = 0 /\ rep[m] = {}
             /\ pc[m] = "loop" /\ prep[m] = Closed /\ beat[m] = Closed
             /\ \A d \in Machines : DOMAIN req[m][d] = {}
             /\ ruled[m] = IF m = 0 THEN {2} ELSE {}
             /\ cur_state[m] = IF m = 0 THEN 1 ELSE 0
             /\ m = 0 => cur_epoch[m] = 2
  <2>1. DOMAIN << >> = {} BY EmptySeq
  <2>2. \A d \in Machines : req[m][d] = << >> BY DEF Init
  <2> QED BY <2>1, <2>2, NothingIsHandled DEF Init
<1>2. ~Begun BY <1>1 DEF Begun, Candidate
<1>3. QuietInv /\ HeardInv BY <1>1, <1>2 DEF QuietInv, HeardInv
<1>4. ThreadInv BY <1>1, TallyFacts DEF ThreadInv, Candidate
<1>5. LeadInv BY <1>1, TallyFacts DEF LeadInv
<1>6. NetInv /\ AskedOnce BY <1>1 DEF NetInv, AskedOnce
<1>7. RefuseInv /\ ConsentInv /\ PendingInv
  BY <1>1, TallyFacts DEF RefuseInv, ConsentInv, PendingInv
<1>8. FenceInv BY <1>1 DEF FenceInv
<1> QED BY <1>3, <1>4, <1>5, <1>6, <1>7, <1>8 DEF EInv

(* A part whose variables a step leaves alone.                             *)
LEMMA SameQuiet ==
  ASSUME QuietInv, UNCHANGED <<send_epoch, cur_epoch, ps_epoch, hnd>> PROVE QuietInv'
BY DEF QuietInv, Begun, Candidate
LEMMA SameHeard ==
  ASSUME HeardInv, UNCHANGED <<send_epoch, up, cur_epoch, ps_epoch, hnd>> PROVE HeardInv'
BY DEF HeardInv, Heard, Begun, Candidate
LEMMA SameThread ==
  ASSUME ThreadInv, UNCHANGED <<send_epoch, cur_epoch, pc, prep, cur_state>>
  PROVE  ThreadInv'
BY DEF ThreadInv, Candidate
LEMMA SameLead ==
  ASSUME LeadInv, UNCHANGED <<send_epoch, cur_epoch, cur_state, beat, ruled>> PROVE LeadInv'
BY DEF LeadInv, Candidate
LEMMA SameNet ==
  ASSUME NetInv, UNCHANGED <<req, send_epoch, prep>> PROVE NetInv'
BY DEF NetInv, Candidate
LEMMA SameRefuse ==
  ASSUME RefuseInv, UNCHANGED <<rep, send_epoch, prep, beat>> PROVE RefuseInv'
BY DEF RefuseInv, Begun, Candidate
LEMMA SameConsent ==
  ASSUME ConsentInv, UNCHANGED <<rep, prep, ps_epoch>> PROVE ConsentInv'
BY DEF ConsentInv
LEMMA SameAsked == ASSUME AskedOnce, UNCHANGED req PROVE AskedOnce'
BY DEF AskedOnce
LEMMA SamePending ==
  ASSUME PendingInv, UNCHANGED <<prep, req, cur_epoch, rep>> PROVE PendingInv'
BY DEF PendingInv
LEMMA SameFence ==
  ASSUME FenceInv, UNCHANGED <<pc, ruled, ps_epoch>> PROVE FenceInv'
BY DEF FenceInv, Fenced

LEMMA SameE == ASSUME EInv, UNCHANGED electionVars PROVE EInv'
<1> USE DEF electionVars, esVars, psVars, monVars, rpcVars, hist
<1>1. QuietInv' /\ HeardInv' BY SameQuiet, SameHeard DEF EInv
<1>2. ThreadInv' /\ LeadInv' BY SameThread, SameLead DEF EInv
<1>3. NetInv' /\ RefuseInv' /\ ConsentInv' BY SameNet, SameRefuse, SameConsent DEF EInv
<1>4. AskedOnce' /\ PendingInv' /\ FenceInv' BY SameAsked, SamePending, SameFence DEF EInv
<1> QED BY <1>1, <1>2, <1>3, <1>4 DEF EInv

(* The election thread.                                                    *)

LEMMA QuietMonitorE ==
  ASSUME OneElection, TypeOK, EInv, NEW m \in Machines,
         Wait(m) \/ Woken(m) \/ Recovered(m)
  PROVE  EInv'
<1>1. /\ UNCHANGED <<up, esVars, psVars, send_epoch, rpcVars, hist>>
      /\ pc[m] # "loop"
      /\ \A x \in Machines :
           \/ pc'[x] = pc[x]
           \/ x = m /\ pc'[x] = "waiting" /\ pc[x] = "sent"
           \/ x = m /\ pc[x] = "woken" /\ pc'[x] \in {"elected", "loop"}
           \/ x = m /\ pc[x] = "recover" /\ pc'[x] = "loop"
  BY DEF Wait, Woken, Recovered, TypeOK
<1> USE DEF esVars, psVars, rpcVars, hist
<1>2. QuietInv' /\ HeardInv' BY <1>1, SameQuiet, SameHeard DEF EInv
<1>3. LeadInv' BY <1>1, SameLead DEF EInv
<1>4. NetInv' /\ RefuseInv' /\ ConsentInv'
  BY <1>1, SameNet, SameRefuse, SameConsent DEF EInv
<1>5. AskedOnce' /\ PendingInv' BY <1>1, SameAsked, SamePending DEF EInv
<1>6. ThreadInv' BY <1>1 DEF EInv, ThreadInv, Candidate
<1>7. FenceInv' BY <1>1 DEF EInv, FenceInv, Fenced
<1> QED BY <1>2, <1>3, <1>4, <1>5, <1>6, <1>7 DEF EInv

LEMMA TakeOverE ==
  ASSUME OneElection, TypeOK, EInv, NEW m \in Machines, TakeOver(m)
  PROVE  EInv'
<1>1. /\ UNCHANGED <<up, cur_epoch, leader_id, psVars, send_epoch, rpcVars, clash>>
      /\ pc[m] = "elected" /\ pc' = [pc EXCEPT ![m] = "recover"]
      /\ cur_state' = [cur_state EXCEPT ![m] = 1]
      /\ ruled' = [ruled EXCEPT ![m] = @ \cup {cur_epoch[m]}]
  BY DEF TakeOver
<1>2. Candidate(m) /\ cur_epoch[m] = 3 /\ ~prep[m].open
  BY <1>1 DEF EInv, ThreadInv
<1> USE DEF psVars, rpcVars
<1>3. QuietInv' /\ HeardInv' BY <1>1, SameQuiet, SameHeard DEF EInv
<1>4. NetInv' /\ RefuseInv' /\ ConsentInv'
  BY <1>1, SameNet, SameRefuse, SameConsent DEF EInv
<1>5. AskedOnce' /\ PendingInv' BY <1>1, SameAsked, SamePending DEF EInv
<1>6. ThreadInv' BY <1>1, <1>2 DEF EInv, ThreadInv, Candidate, TypeOK
<1>7. LeadInv' BY <1>1, <1>2 DEF EInv, LeadInv, Candidate, TypeOK
<1>8. FenceInv' BY <1>1, <1>2 DEF EInv, FenceInv, Fenced, TypeOK
<1> QED BY <1>3, <1>4, <1>5, <1>6, <1>7, <1>8 DEF EInv

\* The step that makes m the candidate.
LEMMA SuspectE ==
  ASSUME OneElection, TypeOK, TypeOK', EInv, NEW m \in Machines, Suspect(m)
  PROVE  EInv'
<1>1. /\ up[m] /\ pc[m] = "loop" /\ cur_state[m] = 0 /\ Suspicious(m)
      /\ cur_epoch[m] < MaxEpoch
      /\ cur_epoch' = [cur_epoch EXCEPT ![m] = cur_epoch[m] + 1]
      /\ send_epoch' = [send_epoch EXCEPT ![m] = cur_epoch[m] + 1]
      /\ prep' = [prep EXCEPT ![m] = NoVotes]
      /\ Broadcast(m, Prepare(cur_epoch[m] + 1))
      /\ pc' = [pc EXCEPT ![m] = IF WaitFirst THEN "waiting" ELSE "sent"]
      /\ UNCHANGED <<up, cur_state, leader_id, psVars, beat, rep, hist>>
  BY DEF Suspect, TypeOK
<1>2. cur_epoch[m] = 2 /\ m \in Electors /\ Started
  <2>1. Started /\ m \in Electors BY <1>1 DEF Suspicious
  <2>2. cur_epoch[m] >= 2 BY <1>1, <2>1 DEF Started, Heard
  <2>3. cur_epoch[m] \in Nat BY EpochFacts DEF TypeOK
  <2> QED BY <1>1, <2>1, <2>2, <2>3 DEF OneElection
<1>3. /\ cur_epoch' = [cur_epoch EXCEPT ![m] = 3]
      /\ send_epoch' = [send_epoch EXCEPT ![m] = 3]
      /\ Broadcast(m, Prepare(3))
  BY <1>1, <1>2
<1>4. ~Candidate(m) BY <1>2 DEF EInv, ThreadInv
<1>5. ~Begun
  BY <1>2, <1>4 DEF EInv, ThreadInv, Begun, OneElection
<1>6. Grows(m, Prepare(3))
  BY <1>3, ThreeFacts, RequestMade, BroadcastFacts DEF TypeOK, Connections
<1>7. Prepare(3).kind = "prepare" /\ Prepare(3).epoch = 3 BY ThreeFacts, RequestMade
<1>8. \A x \in Machines : Candidate(x)' <=> x = m
  BY <1>3, <1>5 DEF Candidate, Begun, TypeOK
<1>9. Begun' BY <1>8 DEF Begun
<1> USE DEF psVars, hist
<1>10. QuietInv' BY <1>9 DEF QuietInv
<1>11. HeardInv'
  <2>1. \A x \in Machines : up[x] => Heard(x) BY <1>2 DEF Started
  <2> QED BY <1>1, <1>3, <2>1 DEF HeardInv, Heard, TypeOK
<1>a. \A x \in Machines : x # m => pc'[x] = pc[x] /\ prep'[x] = prep[x]
  BY <1>1 DEF TypeOK
<1>b. \A x \in Machines : pc[x] = "loop" /\ ~prep[x].open
  <2>1. \A x \in Machines : pc[x] = "loop" BY <1>5 DEF EInv, ThreadInv, Begun
  <2> QED BY <2>1 DEF EInv, ThreadInv
<1>12. ThreadInv'
  <2>1. \A x \in Machines : x # m => pc'[x] = "loop" /\ ~prep'[x].open
    BY <1>a, <1>b
  <2>2. /\ pc'[m] \in {"sent", "waiting"} /\ cur_state'[m] = 0
        /\ send_epoch'[m] = 3 /\ cur_epoch'[m] = 3
    BY <1>1, <1>3 DEF TypeOK
  <2> QED BY <1>2, <1>8, <2>1, <2>2 DEF ThreadInv
<1>13. LeadInv'
  <2>1. \A x \in Machines : x # m => cur_epoch'[x] = cur_epoch[x]
    BY <1>3 DEF TypeOK
  <2>2. \A x \in Machines : ~Candidate(x) BY <1>5 DEF Begun
  <2> QED BY <1>1, <1>8, <2>1, <2>2 DEF EInv, LeadInv
<1>14. \A p, d \in Machines : \A i \in DOMAIN req[p][d] :
         /\ req[p][d][i].kind = "heartbeat" /\ req[p][d][i].epoch # 3
         /\ req[p][d][i].epoch >= 2
  <2> SUFFICES ASSUME NEW p \in Machines, NEW d \in Machines, NEW i \in DOMAIN req[p][d]
               PROVE  /\ req[p][d][i].kind = "heartbeat" /\ req[p][d][i].epoch # 3
                      /\ req[p][d][i].epoch >= 2
    OBVIOUS
  <2>1. req[p][d][i].kind \in {"prepare", "heartbeat"}
    BY RequestTyped DEF TypeOK, Connections
  <2>2. ~Candidate(p) BY <1>5 DEF Begun
  <2> QED BY <2>1, <2>2 DEF EInv, NetInv
<1>15. NetInv'
  <2> SUFFICES ASSUME NEW p \in Machines, NEW d \in Machines, NEW i \in DOMAIN req'[p][d]
               PROVE  /\ req'[p][d][i].epoch >= 2
                      /\ req'[p][d][i].epoch = 3 => Candidate(p)'
                      /\ req'[p][d][i].kind = "prepare" => req'[p][d][i].epoch = 3
                      /\ req'[p][d][i].kind = "heartbeat" /\ req'[p][d][i].epoch = 3
                           => ~prep'[p].open
    BY DEF NetInv
  <2>1. \/ i \in DOMAIN req[p][d] /\ req'[p][d][i] = req[p][d][i]
        \/ p = m /\ req'[p][d][i] = Prepare(3)
    BY <1>6 DEF Grows
  <2>2. CASE i \in DOMAIN req[p][d] /\ req'[p][d][i] = req[p][d][i]
    BY <2>2, <1>14
  <2>3. CASE p = m /\ req'[p][d][i] = Prepare(3)
    BY <2>3, <1>7, <1>8
  <2> QED BY <2>1, <2>2, <2>3
<1>16. RefuseInv'
  BY <1>1, <1>8, <1>5, <1>9, TallyFacts DEF EInv, RefuseInv, Begun, TypeOK
<1>17. ConsentInv' BY <1>1, TallyFacts DEF EInv, ConsentInv, TypeOK
<1>18. AskedOnce'
  <2> SUFFICES ASSUME NEW p \in Machines, NEW d \in Machines,
                      NEW i \in DOMAIN req'[p][d], NEW j \in DOMAIN req'[p][d],
                      req'[p][d][i].kind = "prepare", req'[p][d][j].kind = "prepare"
               PROVE  i = j
    BY DEF AskedOnce
  <2>1. i = Len(req[p][d]) + 1 BY <1>6, <1>14 DEF Grows
  <2>2. j = Len(req[p][d]) + 1 BY <1>6, <1>14 DEF Grows
  <2> QED BY <2>1, <2>2
<1>19. PendingInv'
  <2>1. \A x \in Machines : prep'[x].open => x = m
    BY <1>a, <1>b
  <2>2. prep'[m].no = {} BY <1>1, TallyFacts DEF TypeOK
  <2>3. \A r \in rep'[m] : r.kind # "prepare" BY <1>1, <1>4 DEF EInv, RefuseInv
  <2>4. \A d \in Machines \ {0, m} : cur_epoch'[d] # 3
    BY <1>3, <1>5 DEF EInv, QuietInv, TypeOK
  <2> QED BY <2>1, <2>2, <2>3, <2>4 DEF PendingInv
<1>20. FenceInv'
  <2>1. pc'[m] \in {"waiting", "sent"} BY <1>1 DEF TypeOK
  <2>2. \A x \in Machines : pc'[x] \notin {"woken", "elected"} BY <1>a, <1>b, <2>1
  <2>3. Fenced => Fenced' BY <1>1 DEF Fenced
  <2> QED BY <1>1, <2>2, <2>3 DEF EInv, FenceInv
<1> QED
  BY <1>10, <1>11, <1>12, <1>13, <1>15, <1>16, <1>17, <1>18, <1>19, <1>20 DEF EInv

(* Steps that send no request.                                             *)

LEMMA OneCandidate ==
  ASSUME OneElection, ThreadInv, NEW x \in Machines, NEW y \in Machines,
         Candidate(x), Candidate(y)
  PROVE  x = y
BY DEF OneElection, ThreadInv

LEMMA OpenIsCandidate ==
  ASSUME ThreadInv, NEW x \in Machines, prep[x].open
  PROVE  Candidate(x) /\ pc[x] \in {"sent", "waiting"} /\ cur_state[x] = 0
BY DEF ThreadInv

LEMMA SameShrinks == ASSUME Connections, UNCHANGED req PROVE Shrinks
<1>1. ASSUME NEW p \in Machines, NEW d \in Machines, NEW i \in DOMAIN req[p][d]
      PROVE  i + 0 = i
  BY RequestTyped
<1> QED BY <1>1 DEF Shrinks

LEMMA ShrinkNet ==
  ASSUME NetInv, Shrinks, UNCHANGED send_epoch,
         \A x \in Machines : prep'[x].open => prep[x].open
  PROVE  NetInv'
<1> SUFFICES ASSUME NEW p \in Machines, NEW d \in Machines, NEW i \in DOMAIN req'[p][d]
             PROVE  /\ req'[p][d][i].epoch >= 2
                    /\ req'[p][d][i].epoch = 3 => Candidate(p)'
                    /\ req'[p][d][i].kind = "prepare" => req'[p][d][i].epoch = 3
                    /\ req'[p][d][i].kind = "heartbeat" /\ req'[p][d][i].epoch = 3
                         => ~prep'[p].open
  BY DEF NetInv
<1>1. PICK j \in DOMAIN req[p][d] : req'[p][d][i] = req[p][d][j] BY DEF Shrinks
<1>2. Candidate(p)' <=> Candidate(p) BY DEF Candidate
<1> QED BY <1>1, <1>2 DEF NetInv

LEMMA ShrinkAsked ==
  ASSUME Connections', AskedOnce, Shrinks
  PROVE  AskedOnce'
<1> SUFFICES ASSUME NEW p \in Machines, NEW d \in Machines,
                    NEW i \in DOMAIN req'[p][d], NEW j \in DOMAIN req'[p][d],
                    req'[p][d][i].kind = "prepare", req'[p][d][j].kind = "prepare"
             PROVE  i = j
  BY DEF AskedOnce
<1>1. PICK s \in Nat : \A x \in DOMAIN req'[p][d] :
         x + s \in DOMAIN req[p][d] /\ req'[p][d][x] = req[p][d][x + s]
  BY DEF Shrinks
<1>2. i + s = j + s BY <1>1 DEF AskedOnce
<1>3. i \in Nat /\ j \in Nat
  <2>1. req'[p][d] \in Seq(Request) BY DEF Connections
  <2> QED BY <2>1
<1> QED BY <1>2, <1>3

LEMMA ShrinkPending ==
  ASSUME OneElection, ThreadInv, PendingInv, Shrinks, UNCHANGED prep,
         \A x \in Machines : \A r \in rep'[x] :
           r.kind = "prepare" /\ ~r.valid => r \in rep[x],
         \A d \in Machines : cur_epoch'[d] = 3 => cur_epoch[d] = 3 \/ d = 0 \/ Candidate(d)
  PROVE  PendingInv'
<1> SUFFICES ASSUME NEW m \in Machines, prep[m].open
             PROVE  /\ \A d \in Machines \ {0, m} : \A i \in DOMAIN req'[m][d] :
                         req'[m][d][i].kind = "prepare" => cur_epoch'[d] # 3
                    /\ \A r \in rep'[m] : r.kind = "prepare" /\ ~r.valid => r.from = 0
                    /\ prep[m].no \subseteq {0}
  BY DEF PendingInv
<1>1. Candidate(m) BY OpenIsCandidate
<1>2. ASSUME NEW d \in Machines \ {0, m}, NEW i \in DOMAIN req'[m][d],
             req'[m][d][i].kind = "prepare"
      PROVE  cur_epoch'[d] # 3
  <2>1. PICK j \in DOMAIN req[m][d] : req'[m][d][i] = req[m][d][j] BY DEF Shrinks
  <2>2. cur_epoch[d] # 3 BY <1>2, <2>1 DEF PendingInv
  <2>3. ~Candidate(d) BY <1>1, <1>2, OneCandidate
  <2> QED BY <2>2, <2>3, <1>2
<1>3. \A r \in rep'[m] : r.kind = "prepare" /\ ~r.valid => r.from = 0
  BY DEF PendingInv
<1> QED BY <1>2, <1>3 DEF PendingInv

LEMMA StopE ==
  ASSUME OneElection, TypeOK, EInv, NEW m \in Machines, Stop(m),
         UNCHANGED <<cur_epoch, cur_state, ps_epoch, hnd, pc, send_epoch, prep, beat, ruled>>
  PROVE  EInv'
<1>1. /\ Connections' /\ Shrinks /\ \A p \in Machines : rep'[p] \subseteq rep[p]
      /\ up' = [up EXCEPT ![m] = FALSE]
  BY StopFacts DEF TypeOK, Connections, Replies
<1>2. QuietInv' /\ ThreadInv' /\ LeadInv' /\ FenceInv'
  BY SameQuiet, SameThread, SameLead, SameFence DEF EInv
<1>3. HeardInv'
  <2>1. \A x \in Machines : up'[x] => up[x] BY <1>1 DEF TypeOK
  <2>2. Begun' <=> Begun BY DEF Begun, Candidate
  <2>3. \A x \in Machines : Heard(x) => Heard(x)' BY DEF Heard
  <2> QED BY <2>1, <2>2, <2>3 DEF EInv, HeardInv
<1>4. NetInv' BY <1>1, ShrinkNet DEF EInv
<1>5. AskedOnce' BY <1>1, ShrinkAsked DEF EInv
<1>6. RefuseInv' BY <1>1 DEF EInv, RefuseInv, Begun, Candidate
<1>7. ConsentInv' BY <1>1 DEF EInv, ConsentInv
<1>8. PendingInv'
  <2>1. \A x \in Machines : \A r \in rep'[x] : r \in rep[x] BY <1>1
  <2> QED BY <1>1, <2>1, ShrinkPending DEF EInv
<1> QED BY <1>2, <1>3, <1>4, <1>5, <1>6, <1>7, <1>8 DEF EInv

LEMMA CrashE ==
  ASSUME OneElection, TypeOK, EInv, NEW m \in Machines, Crash(m)
  PROVE  EInv'
<1>1. /\ Stop(m)
      /\ UNCHANGED <<cur_epoch, cur_state, ps_epoch, hnd, pc, send_epoch, prep, beat, ruled>>
  BY DEF Crash, esVars, psVars, monVars, hist
<1> QED BY <1>1, StopE

(* Heartbeats.                                                             *)

LEMMA BeatE ==
  ASSUME OneElection, TypeOK, EInv, NEW m \in Machines, Beat(m)
  PROVE  EInv'
<1> DEFINE h == HeartBeat(cur_epoch[m])
<1>1. /\ cur_state[m] = 1 /\ beat' = [beat EXCEPT ![m] = NoVotes] /\ Broadcast(m, h)
      /\ UNCHANGED <<up, esVars, psVars, monVars, prep, rep, hist>>
  BY DEF Beat, Leads
<1>2. cur_epoch[m] \in Epochs BY DEF TypeOK
<1>3. h.kind = "heartbeat" /\ h.epoch = cur_epoch[m] /\ h \in Request
  BY <1>2, RequestMade
<1>4. Grows(m, h) BY <1>1, <1>3, BroadcastFacts DEF TypeOK, Connections
<1>5. /\ cur_epoch[m] >= 2 /\ (m = 0 \/ Candidate(m))
      /\ cur_epoch[m] = 3 => Candidate(m)
  BY <1>1 DEF EInv, LeadInv
<1>6. ~prep[m].open BY <1>1 DEF EInv, ThreadInv
<1> HIDE DEF h
<1> USE DEF esVars, psVars, monVars, hist
<1>7. QuietInv' /\ HeardInv' /\ ThreadInv' /\ ConsentInv' /\ FenceInv'
  BY <1>1, SameQuiet, SameHeard, SameThread, SameConsent, SameFence DEF EInv
<1>8. LeadInv' BY <1>1, <1>5 DEF EInv, LeadInv, Candidate, TypeOK
<1>9. NetInv'
  <2> SUFFICES ASSUME NEW p \in Machines, NEW d \in Machines, NEW i \in DOMAIN req'[p][d]
               PROVE  /\ req'[p][d][i].epoch >= 2
                      /\ req'[p][d][i].epoch = 3 => Candidate(p)
                      /\ req'[p][d][i].kind = "prepare" => req'[p][d][i].epoch = 3
                      /\ req'[p][d][i].kind = "heartbeat" /\ req'[p][d][i].epoch = 3
                           => ~prep[p].open
    BY <1>1 DEF NetInv, Candidate
  <2>1. \/ i \in DOMAIN req[p][d] /\ req'[p][d][i] = req[p][d][i]
        \/ p = m /\ req'[p][d][i] = h
    BY <1>4 DEF Grows
  <2> QED BY <2>1, <1>3, <1>5, <1>6 DEF EInv, NetInv
<1>10. RefuseInv' BY <1>1, TallyFacts DEF EInv, RefuseInv, Begun, Candidate, TypeOK
<1>11. \A p, d \in Machines : \A i \in DOMAIN req'[p][d] :
          req'[p][d][i].kind = "prepare"
            => i \in DOMAIN req[p][d] /\ req'[p][d][i] = req[p][d][i]
  BY <1>3, <1>4 DEF Grows
<1>12. AskedOnce' BY <1>11 DEF EInv, AskedOnce
<1>13. PendingInv' BY <1>1, <1>11 DEF EInv, PendingInv
<1> QED BY <1>7, <1>8, <1>9, <1>10, <1>12, <1>13 DEF EInv

LEMMA BeatReplyE ==
  ASSUME OneElection, TypeOK, EInv, NEW m \in Machines, BeatReply(m)
  PROVE  EInv'
<1>1. PICK r \in rep[m] :
        /\ beat' = IF beat[m].open
                   THEN [beat EXCEPT ![m] = FeedResponse(beat[m], r, r.ballot)]
                   ELSE beat
        /\ rep' = [rep EXCEPT ![m] = @ \ {r}]
        /\ UNCHANGED <<up, esVars, psVars, monVars, prep, req, hist>>
  BY DEF BeatReply, TypeOK
<1>2. r \in Reply /\ beat[m] \in Tally /\ r.ballot \in Epochs BY DEF TypeOK, Reply
<1> DEFINE f == FeedResponse(beat[m], r, r.ballot)
<1>3. /\ f.open = beat[m].open
      /\ r.valid => f.no = beat[m].no /\ f.received = beat[m].received
      /\ ~r.valid => f.received = r.ballot
  BY <1>2, FeedFacts
<1>4. ~r.valid => r.ballot = 3 /\ Begun BY DEF EInv, RefuseInv
<1> HIDE DEF f
<1>5. \A x \in Machines : beat'[x] = beat[x] \/ (x = m /\ beat'[x] = f)
  BY <1>1 DEF TypeOK, f
<1>6. \A x \in Machines : rep'[x] \subseteq rep[x] BY <1>1 DEF TypeOK
<1> USE DEF esVars, psVars, monVars, hist
<1>7. QuietInv' /\ HeardInv' /\ ThreadInv' /\ FenceInv' /\ NetInv' /\ AskedOnce'
  BY <1>1, SameQuiet, SameHeard, SameThread, SameFence, SameNet, SameAsked DEF EInv
<1>8. LeadInv' BY <1>1, <1>3, <1>5 DEF EInv, LeadInv, Candidate
<1>9. RefuseInv'
  <2>1. \A x \in Machines : beat'[x].no # {} => beat'[x].received = 3 /\ Begun
    BY <1>3, <1>4, <1>5 DEF EInv, RefuseInv
  <2>2. (Begun' <=> Begun) /\ \A x \in Machines : Candidate(x)' <=> Candidate(x)
    BY <1>1 DEF Begun, Candidate
  <2> QED BY <1>1, <1>6, <2>1, <2>2 DEF EInv, RefuseInv
<1>10. ConsentInv' BY <1>1, <1>6 DEF EInv, ConsentInv
<1>11. PendingInv' BY <1>1, <1>6 DEF EInv, PendingInv
<1> QED BY <1>7, <1>8, <1>9, <1>10, <1>11 DEF EInv

LEMMA BeatDoneE ==
  ASSUME OneElection, TypeOK, EInv, NEW m \in Machines, BeatDone(m)
  PROVE  EInv'
<1>1. /\ up[m] /\ beat[m].open /\ Ready(beat[m])
      /\ beat' = [beat EXCEPT ![m] = Closed]
      /\ UNCHANGED <<up, leader_id, psVars, monVars, prep, req, rep, hist>>
  BY DEF BeatDone
<1> USE DEF esVars, psVars, monVars, hist
<1>2. m = 0 \/ Candidate(m) BY <1>1 DEF EInv, LeadInv
<1>3. \/ UNCHANGED <<cur_epoch, cur_state>>
      \/ /\ cur_state' = [cur_state EXCEPT ![m] = 0]
         /\ cur_epoch' = [cur_epoch EXCEPT ![m] = 3]
         /\ Begun
  <2>1. CASE Yes(beat[m]) BY <2>1 DEF BeatDone
  <2>2. CASE ~Yes(beat[m])
    <3>1. No(beat[m]) BY <1>1, <2>2 DEF Ready
    <3>2. beat[m] \in Tally BY DEF TypeOK
    <3>3. beat[m].no # {} BY <3>1, <3>2, RefusedBySome
    <3>4. beat[m].received = 3 /\ Begun BY <3>3 DEF EInv, RefuseInv
    <3> QED BY <2>2, <3>4 DEF BeatDone
  <2> QED BY <2>1, <2>2
<1>4. \A x \in Machines :
         /\ cur_epoch'[x] = cur_epoch[x] \/ (x = m /\ cur_epoch'[x] = 3 /\ Begun)
         /\ cur_state'[x] = cur_state[x] \/ cur_state'[x] = 0
         /\ cur_epoch'[x] # cur_epoch[x] => cur_state'[x] = 0
  BY <1>3 DEF TypeOK
<1>5. (Begun' <=> Begun) /\ \A x \in Machines : Candidate(x)' <=> Candidate(x)
  BY <1>1 DEF Begun, Candidate
<1>6. QuietInv' BY <1>1, <1>4, <1>5 DEF EInv, QuietInv
<1>7. HeardInv' BY <1>1, <1>4, <1>5 DEF EInv, HeardInv, Heard
<1>8. ThreadInv' BY <1>1, <1>4, <1>5 DEF EInv, ThreadInv
<1>9. LeadInv'
  <2>1. \A x \in Machines : beat'[x] = beat[x] \/ ~beat'[x].open
    BY <1>1, TallyFacts DEF TypeOK
  <2>2. \A x \in Machines :
          cur_state'[x] = 1 => cur_state[x] = 1 /\ cur_epoch'[x] = cur_epoch[x]
    BY <1>4
  <2> QED BY <1>1, <1>5, <2>1, <2>2 DEF EInv, LeadInv
<1>10. NetInv' /\ ConsentInv' /\ AskedOnce' /\ FenceInv'
  BY <1>1, SameNet, SameConsent, SameAsked, SameFence DEF EInv
<1>11. RefuseInv'
  <2>1. \A x \in Machines : beat'[x] = beat[x] \/ beat'[x].no = {}
    BY <1>1, TallyFacts DEF TypeOK
  <2> QED BY <1>1, <1>5, <2>1 DEF EInv, RefuseInv
<1>12. PendingInv'
  <2>1. Shrinks BY <1>1, SameShrinks DEF TypeOK, Connections
  <2>2. \A d \in Machines : cur_epoch'[d] = 3 => cur_epoch[d] = 3 \/ d = 0 \/ Candidate(d)
    BY <1>2, <1>4
  <2>3. \A x \in Machines : \A r \in rep'[x] : r.kind = "prepare" /\ ~r.valid => r \in rep[x]
    BY <1>1
  <2> QED BY <1>1, <2>1, <2>2, <2>3, ShrinkPending DEF EInv
<1> QED BY <1>6, <1>7, <1>8, <1>9, <1>10, <1>11, <1>12 DEF EInv

(* The prepares' event.                                                    *)

LEMMA PrepareReplyE ==
  ASSUME OneElection, TypeOK, EInv, NEW m \in Machines, PrepareReply(m)
  PROVE  EInv'
<1>1. PICK r \in rep[m] :
        /\ r.kind = "prepare"
        /\ prep' = IF prep[m].open /\ r.epoch = send_epoch[m]
                   THEN [prep EXCEPT ![m] =
                           FeedResponse(prep[m], r, Larger(prep[m].received, r.ballot))]
                   ELSE prep
        /\ rep' = [rep EXCEPT ![m] = @ \ {r}]
        /\ UNCHANGED <<up, esVars, psVars, monVars, beat, req, hist>>
  BY DEF PrepareReply, TypeOK
<1> DEFINE b == Larger(prep[m].received, r.ballot)
           f == FeedResponse(prep[m], r, b)
<1>2. /\ r \in Reply /\ prep[m] \in Tally
      /\ r.ballot \in Epochs /\ prep[m].received \in Epochs
  BY DEF TypeOK, Reply, Tally
<1>3. b \in Epochs BY <1>2 DEF Larger
<1>4. ~r.valid => b = 3
  <2>1. ~r.valid => r.ballot = 3 BY DEF EInv, RefuseInv
  <2>2. prep[m].received \in Nat /\ prep[m].received <= 3 BY <1>2, ThreeFacts
  <2> QED BY <2>1, <2>2 DEF Larger
<1> HIDE DEF b
<1>5. /\ f.open = prep[m].open
      /\ r.valid => /\ f.yes = prep[m].yes \cup {r.from} /\ f.no = prep[m].no
                    /\ f.received = prep[m].received
      /\ ~r.valid => /\ f.yes = prep[m].yes /\ f.no = prep[m].no \cup {r.from}
                     /\ f.received = b
  BY <1>2, <1>3, FeedFacts
<1> HIDE DEF f
<1>6. \A x \in Machines : prep'[x] = prep[x] \/ (x = m /\ prep[m].open /\ prep'[x] = f)
  BY <1>1 DEF TypeOK, f, b
<1>7. \A x \in Machines : rep'[x] \subseteq rep[x] BY <1>1 DEF TypeOK
<1>8. \A x \in Machines : prep'[x].open <=> prep[x].open BY <1>5, <1>6
<1> USE DEF esVars, psVars, monVars, hist
<1>9. QuietInv' /\ HeardInv' /\ LeadInv' /\ FenceInv' /\ AskedOnce'
  BY <1>1, SameQuiet, SameHeard, SameLead, SameFence, SameAsked DEF EInv
<1>10. (Begun' <=> Begun) /\ \A x \in Machines : Candidate(x)' <=> Candidate(x)
  BY <1>1 DEF Begun, Candidate
<1>11. ThreadInv' BY <1>1, <1>8, <1>10 DEF EInv, ThreadInv
<1>12. NetInv' BY <1>1, <1>8, <1>10 DEF EInv, NetInv
<1>13. RefuseInv'
  <2>1. \A x \in Machines : prep'[x].no # {} => prep'[x].received = 3
    BY <1>4, <1>5, <1>6 DEF EInv, RefuseInv
  <2> QED BY <1>1, <1>7, <1>10, <2>1 DEF EInv, RefuseInv
<1>14. ConsentInv'
  <2>1. r.valid => ps_epoch[r.from] = 3 BY <1>1 DEF EInv, ConsentInv
  <2>2. \A x \in Machines : \A p \in prep'[x].yes :
           p \in prep[x].yes \/ (r.valid /\ p = r.from)
    BY <1>5, <1>6
  <2> QED BY <1>1, <1>7, <2>1, <2>2 DEF EInv, ConsentInv
<1>15. PendingInv'
  <2>1. prep[m].open /\ ~r.valid => r.from = 0 BY <1>1 DEF EInv, PendingInv
  <2>2. \A x \in Machines : prep'[x].open => prep'[x].no \subseteq {0}
    BY <1>5, <1>6, <1>8, <2>1 DEF EInv, PendingInv
  <2> QED BY <1>1, <1>7, <1>8, <2>2 DEF EInv, PendingInv
<1> QED BY <1>9, <1>11, <1>12, <1>13, <1>14, <1>15 DEF EInv

\* Where there is a second machine, the prepares of a machine other than 0 can
\* only be granted, and then the old leader is fenced off.
LEMMA GrantedIsFenced ==
  ASSUME OneElection, TypeOK, EInv, NEW m \in Machines, m # 0,
         prep[m].open, Ready(prep[m])
  PROVE  Yes(prep[m]) /\ Fenced
<1>1. prep[m] \in Tally /\ prep[m].no \subseteq {0} BY DEF TypeOK, EInv, PendingInv
<1>2. Yes(prep[m]) BY <1>1, TwoMachines, OneIsNotEnough DEF Ready
<1> DEFINE F == {p \in Machines : ps_epoch[p] >= 3}
<1>3. prep[m].yes \subseteq F
  <2>1. prep[m].yes \subseteq Machines BY <1>1 DEF Tally
  <2>2. \A p \in prep[m].yes : ps_epoch[p] = 3 BY DEF EInv, ConsentInv
  <2> QED BY <2>1, <2>2
<1>4. IsFiniteSet(F) BY MachinesAssumption, FS_Subset
<1>5. /\ IsFiniteSet(prep[m].yes) /\ Cardinality(prep[m].yes) <= Cardinality(F)
  BY <1>3, <1>4, FS_Subset
<1>6. Cardinality(prep[m].yes) \in Nat /\ Cardinality(F) \in Nat
  BY <1>4, <1>5, FS_CardinalityType
<1>7. Cardinality(prep[m].yes) >= k BY <1>2 DEF Yes
<1> HIDE DEF F
<1>8. Cardinality(F) >= k BY <1>5, <1>6, <1>7, QuorumFacts
<1> QED BY <1>2, <1>8 DEF Fenced, F

LEMMA PrepareDoneE ==
  ASSUME OneElection, TypeOK, EInv, NEW m \in Machines, PrepareDone(m)
  PROVE  EInv'
<1>1. /\ prep[m].open /\ Ready(prep[m])
      /\ prep' = [prep EXCEPT ![m] = Closed] /\ Wake(m)
      /\ UNCHANGED <<up, leader_id, psVars, send_epoch, beat, req, rep, hist>>
  BY DEF PrepareDone
<1>2. Candidate(m) /\ cur_epoch[m] = 3 /\ cur_state[m] = 0
  BY <1>1, OpenIsCandidate DEF EInv, ThreadInv
<1>3. UNCHANGED <<cur_epoch, cur_state>>
  <2>1. CASE Yes(prep[m]) BY <2>1 DEF PrepareDone
  <2>2. CASE ~Yes(prep[m])
    <3>1. No(prep[m]) BY <1>1, <2>2 DEF Ready
    <3>2. prep[m] \in Tally BY DEF TypeOK
    <3>3. prep[m].no # {} BY <3>1, <3>2, RefusedBySome
    <3>4. prep[m].received = 3 BY <3>3 DEF EInv, RefuseInv
    <3>5. /\ cur_state' = [cur_state EXCEPT ![m] = 0]
          /\ cur_epoch' = [cur_epoch EXCEPT ![m] = 3]
      BY <2>2, <3>4 DEF PrepareDone
    <3> QED BY <1>2, <3>5 DEF TypeOK
  <2> QED BY <2>1, <2>2
<1> USE DEF psVars, hist
<1>4. \A x \in Machines : prep'[x] = prep[x] \/ (x = m /\ prep'[x] = Closed)
  BY <1>1 DEF TypeOK
<1>5. \A x \in Machines : prep'[x].open => prep[x].open /\ prep'[x] = prep[x] /\ x # m
  <2>1. prep'[m] = Closed BY <1>1 DEF TypeOK
  <2> QED BY <1>4, <2>1, TallyFacts
<1>6. \A x \in Machines :
         /\ x # m => pc'[x] = pc[x]
         /\ pc'[x] = "loop" <=> pc[x] = "loop"
         /\ x = m /\ pc'[x] # pc[x] => pc'[x] = "woken"
  BY <1>1 DEF Wake, TypeOK
<1>7. QuietInv' /\ HeardInv' /\ LeadInv' /\ AskedOnce'
  BY <1>1, <1>3, SameQuiet, SameHeard, SameLead, SameAsked DEF EInv
<1>8. (Begun' <=> Begun) /\ \A x \in Machines : Candidate(x)' <=> Candidate(x)
  BY <1>1 DEF Begun, Candidate
<1>9. ThreadInv'
  <2>1. \A x \in Machines : pc'[x] # "loop" => Candidate(x)
    BY <1>6 DEF EInv, ThreadInv
  <2>2. \A x \in Machines :
          prep'[x].open => pc'[x] \in {"sent", "waiting"} /\ cur_state'[x] = 0
    BY <1>3, <1>5, <1>6 DEF EInv, ThreadInv
  <2> QED BY <1>1, <1>3, <1>8, <2>1, <2>2 DEF EInv, ThreadInv
<1>10. NetInv' BY <1>1, <1>5, <1>8 DEF EInv, NetInv
<1>11. RefuseInv' BY <1>1, <1>4, <1>8, TallyFacts DEF EInv, RefuseInv
<1>12. ConsentInv' BY <1>1, <1>4, TallyFacts DEF EInv, ConsentInv
<1>13. PendingInv' BY <1>1, <1>3, <1>5 DEF EInv, PendingInv
<1>14. FenceInv'
  <2>1. Fenced' <=> Fenced BY <1>1 DEF Fenced
  <2>2. m # 0 => Fenced BY <1>1, GrantedIsFenced
  <2> QED BY <1>1, <1>6, <2>1, <2>2 DEF EInv, FenceInv
<1> QED BY <1>7, <1>9, <1>10, <1>11, <1>12, <1>13, <1>14 DEF EInv

(* What stream requests do.                                                *)

\* Servers that have left epoch 2 behind stay there.
KeepsRaised == \A d \in Machines : ps_epoch[d] = 3 => ps_epoch'[d] = 3

LEMMA FencedStays ==
  ASSUME OneElection, TypeOK, TypeOK', KeepsRaised, Fenced
  PROVE  Fenced'
<1> DEFINE F == {p \in Machines : ps_epoch[p] >= 3}
           G == {p \in Machines : ps_epoch'[p] >= 3}
<1>1. F \subseteq G
  <2> SUFFICES ASSUME NEW p \in Machines, ps_epoch[p] >= 3 PROVE ps_epoch'[p] >= 3
    OBVIOUS
  <2>1. ps_epoch[p] \in Epochs BY DEF TypeOK
  <2>2. ps_epoch[p] = 3 BY <2>1, ThreeFacts
  <2> QED BY <2>2 DEF KeepsRaised
<1>2. IsFiniteSet(G) BY MachinesAssumption, FS_Subset
<1>3. IsFiniteSet(F) /\ Cardinality(F) <= Cardinality(G) BY <1>1, <1>2, FS_Subset
<1>4. Cardinality(F) \in Nat /\ Cardinality(G) \in Nat BY <1>2, <1>3, FS_CardinalityType
<1>5. Cardinality(F) >= k BY DEF Fenced
<1> HIDE DEF F, G
<1>6. Cardinality(G) >= k BY <1>3, <1>4, <1>5, QuorumFacts
<1> QED BY <1>6 DEF Fenced, G

LEMMA RaisedFence ==
  ASSUME OneElection, TypeOK, TypeOK', FenceInv, KeepsRaised, UNCHANGED <<pc, ruled>>
  PROVE  FenceInv'
BY FencedStays DEF FenceInv

LEMMA RaisedConsent ==
  ASSUME TypeOK, ConsentInv, KeepsRaised, UNCHANGED prep,
         \A x \in Machines : \A r \in rep'[x] :
           r.kind = "prepare" /\ r.valid => r \in rep[x]
  PROVE  ConsentInv'
<1> SUFFICES ASSUME NEW m \in Machines
             PROVE  /\ \A r \in rep'[m] :
                         r.kind = "prepare" /\ r.valid => ps_epoch'[r.from] = 3
                    /\ \A p \in prep[m].yes : ps_epoch'[p] = 3
  BY DEF ConsentInv
<1>1. \A r \in rep[m] : r.from \in Machines BY DEF TypeOK, Reply
<1>2. prep[m].yes \subseteq Machines BY DEF TypeOK, Tally
<1> QED BY <1>1, <1>2 DEF ConsentInv, KeepsRaised

LEMMA StreamTestE ==
  ASSUME OneElection, TypeOK, EInv, NEW p \in Machines, NEW m \in Machines,
         StreamTest(p, m)
  PROVE  EInv'
<1>1. PICK b \in ruled[p] :
         hnd' = [hnd EXCEPT ![m] = [from |-> p, epoch |-> b, at |-> "tested"]]
  BY DEF StreamTest
<1>2. /\ cur_state' = IF p = m THEN cur_state ELSE [cur_state EXCEPT ![m] = 0]
      /\ UNCHANGED <<up, cur_epoch, leader_id, ps_epoch, seen_ballot, monVars, rpcVars, hist>>
  BY DEF StreamTest
<1> USE DEF monVars, rpcVars, hist
<1>3. b = 3 => Begun BY DEF EInv, LeadInv, Begun
<1>4. \A x \in Machines :
         \/ hnd'[x] = hnd[x]
         \/ hnd'[x].epoch = b /\ hnd'[x].at = "tested"
  BY <1>1 DEF TypeOK
<1>5. \A x \in Machines : cur_state'[x] = cur_state[x] \/ cur_state'[x] = 0
  BY <1>2 DEF TypeOK
<1>6. (Begun' <=> Begun) /\ \A x \in Machines : Candidate(x)' <=> Candidate(x)
  BY <1>2 DEF Begun, Candidate
<1>7. QuietInv' BY <1>2, <1>3, <1>4, <1>6 DEF EInv, QuietInv
<1>8. HeardInv' BY <1>2, <1>4, <1>6 DEF EInv, HeardInv, Heard
<1>9. ThreadInv' BY <1>2, <1>5, <1>6 DEF EInv, ThreadInv
<1>10. LeadInv' BY <1>2, <1>5, <1>6 DEF EInv, LeadInv
<1>11. NetInv' /\ RefuseInv' /\ ConsentInv'
  BY <1>2, SameNet, SameRefuse, SameConsent DEF EInv
<1>12. AskedOnce' /\ PendingInv' /\ FenceInv'
  BY <1>2, SameAsked, SamePending, SameFence DEF EInv
<1> QED BY <1>7, <1>8, <1>9, <1>10, <1>11, <1>12 DEF EInv

LEMMA StreamRetestE ==
  ASSUME OneElection, TypeOK, EInv, NEW m \in Machines, StreamRetest(m)
  PROVE  EInv'
<1>1. /\ up[m]
      /\ hnd' = [hnd EXCEPT ![m] =
                   IF ps_epoch[m] > hnd[m].epoch THEN Nothing
                   ELSE [hnd[m] EXCEPT !.at = IF ps_epoch[m] < hnd[m].epoch
                                              THEN "raise" ELSE "same"]]
      /\ UNCHANGED <<up, esVars, ps_epoch, seen_ballot, streams, monVars, rpcVars, hist>>
  BY DEF StreamRetest, TypeOK
<1> USE DEF esVars, monVars, rpcVars, hist
<1>2. hnd[m] \in Handled /\ ps_epoch[m] \in Nat /\ hnd[m].epoch \in Nat
  BY EpochFacts DEF TypeOK, Handled
<1>3. /\ hnd'[m].epoch \in {0, hnd[m].epoch}
      /\ hnd'[m].at = "raise" => hnd'[m].epoch = hnd[m].epoch /\ ps_epoch[m] < hnd[m].epoch
  <2>1. CASE ps_epoch[m] > hnd[m].epoch
    <3>1. hnd'[m] = Nothing BY <1>1, <2>1 DEF TypeOK
    <3> QED BY <3>1, NothingIsHandled
  <2>2. CASE ~(ps_epoch[m] > hnd[m].epoch) /\ ps_epoch[m] < hnd[m].epoch
    <3>1. hnd'[m] = [hnd[m] EXCEPT !.at = "raise"] BY <1>1, <2>2 DEF TypeOK
    <3>2. hnd'[m].epoch = hnd[m].epoch BY <1>2, <3>1 DEF Handled
    <3> QED BY <2>2, <3>2
  <2>3. CASE ~(ps_epoch[m] > hnd[m].epoch) /\ ~(ps_epoch[m] < hnd[m].epoch)
    <3>1. hnd'[m] = [hnd[m] EXCEPT !.at = "same"] BY <1>1, <2>3 DEF TypeOK
    <3>2. hnd'[m].epoch = hnd[m].epoch /\ hnd'[m].at = "same"
      BY <1>2, <3>1 DEF Handled
    <3> QED BY <3>2
  <2> QED BY <2>1, <2>2, <2>3
<1>4. \A x \in Machines : x # m => hnd'[x] = hnd[x] BY <1>1 DEF TypeOK
<1>5. (Begun' <=> Begun) /\ \A x \in Machines : Candidate(x)' <=> Candidate(x)
  BY <1>1 DEF Begun, Candidate
<1>6. QuietInv' BY <1>1, <1>3, <1>4, <1>5 DEF EInv, QuietInv
<1>7. HeardInv'
  <2> SUFFICES ASSUME Begun, NEW x \in Machines, up[x] PROVE Heard(x)'
    BY <1>1, <1>5 DEF HeardInv
  <2>1. Heard(x) BY DEF EInv, HeardInv
  <2>2. CASE x # m BY <1>1, <1>4, <2>1, <2>2 DEF Heard
  <2>3. CASE x = m BY <1>1, <1>2, <1>3, <2>1, <2>3 DEF Heard
  <2> QED BY <2>2, <2>3
<1>8. ThreadInv' /\ LeadInv' BY <1>1, SameThread, SameLead DEF EInv
<1>9. NetInv' /\ RefuseInv' /\ ConsentInv'
  BY <1>1, SameNet, SameRefuse, SameConsent DEF EInv
<1>10. AskedOnce' /\ PendingInv' /\ FenceInv'
  BY <1>1, SameAsked, SamePending, SameFence DEF EInv
<1> QED BY <1>6, <1>7, <1>8, <1>9, <1>10 DEF EInv

LEMMA StreamStoreE ==
  ASSUME OneElection, TypeOK, TypeOK', EInv, NEW m \in Machines, StreamStore(m)
  PROVE  EInv'
<1>1. /\ up[m] /\ hnd[m].at \in {"same", "raise"}
      /\ ps_epoch' = IF hnd[m].at = "same" THEN ps_epoch
                     ELSE [ps_epoch EXCEPT ![m] = hnd[m].epoch]
      /\ hnd' = [hnd EXCEPT ![m] = Nothing]
      /\ UNCHANGED <<up, cur_epoch, cur_state, seen_ballot, streams, monVars, rpcVars, hist>>
  BY DEF StreamStore
<1> USE DEF monVars, rpcVars, hist
<1>2. hnd[m].epoch \in Epochs /\ hnd[m].epoch \in Nat /\ hnd[m].epoch <= 3
  BY ThreeFacts DEF TypeOK, Handled
<1>3. \A x \in Machines :
         \/ ps_epoch'[x] = ps_epoch[x]
         \/ x = m /\ hnd[m].at = "raise" /\ ps_epoch'[x] = hnd[m].epoch
  BY <1>1 DEF TypeOK
<1>4. \A x \in Machines : hnd'[x] = hnd[x] \/ (hnd'[x].epoch = 0 /\ hnd'[x].at = "none")
  BY <1>1, NothingIsHandled DEF TypeOK
<1>5. (Begun' <=> Begun) /\ \A x \in Machines : Candidate(x)' <=> Candidate(x)
  BY <1>1 DEF Begun, Candidate
<1>6. Begun /\ hnd[m].at = "raise" => hnd[m].epoch = 3
  BY <1>1, <1>2 DEF EInv, HeardInv, Heard
<1>7. KeepsRaised
  <2>1. \A x \in Machines : ps_epoch[x] = 3 => Begun BY DEF EInv, QuietInv
  <2> QED BY <1>3, <1>6, <2>1 DEF KeepsRaised
<1>8. QuietInv' BY <1>1, <1>3, <1>4, <1>5 DEF EInv, QuietInv
<1>9. HeardInv'
  <2> SUFFICES ASSUME Begun, NEW x \in Machines, up[x] PROVE Heard(x)'
    BY <1>1, <1>5 DEF HeardInv
  <2>1. Heard(x) BY DEF EInv, HeardInv
  <2>2. ps_epoch'[x] >= 2 BY <1>3, <1>6, <2>1 DEF Heard
  <2> QED BY <1>1, <1>4, <2>1, <2>2 DEF Heard
<1>10. ThreadInv' /\ LeadInv' BY <1>1, SameThread, SameLead DEF EInv
<1>11. NetInv' /\ RefuseInv' BY <1>1, SameNet, SameRefuse DEF EInv
<1>12. AskedOnce' /\ PendingInv' BY <1>1, SameAsked, SamePending DEF EInv
<1>13. ConsentInv' BY <1>1, <1>7, RaisedConsent DEF EInv
<1>14. FenceInv' BY <1>1, <1>7, RaisedFence DEF EInv
<1> QED BY <1>8, <1>9, <1>10, <1>11, <1>12, <1>13, <1>14 DEF EInv

(* The handlers.                                                           *)

LEMMA OnHeartbeatE ==
  ASSUME OneElection, TypeOK, TypeOK', EInv, NEW p \in Machines, NEW m \in Machines,
         OnHeartbeat(p, m)
  PROVE  EInv'
<1>1. PICK r \in Request :
         /\ r = Head(req[p][m]) /\ r = req[p][m][1] /\ 1 \in DOMAIN req[p][m]
         /\ up[m] /\ req[p][m] # <<>> /\ r.kind = "heartbeat" /\ r.epoch \in Epochs
         /\ UNCHANGED <<seen_ballot, hnd, streams, pc, send_epoch, prep, beat, ruled>>
         /\ Refuses(p, m, r) \/ Follows(p, m, r) \/ Clashes(m) \/ Adopts(p, m, r)
  BY HeartbeatCases
<1>2. /\ r.epoch \in Nat /\ r.epoch <= 3 /\ r.epoch >= 2
      /\ r.epoch = 3 => Candidate(p) /\ ~prep[p].open
  BY <1>1, ThreeFacts DEF EInv, NetInv
<1>3. cur_epoch[m] \in Epochs /\ cur_epoch[m] \in Nat /\ cur_epoch[m] <= 3 /\ 0 \in Epochs
  BY ThreeFacts, EpochFacts DEF TypeOK
<1>4. CASE Clashes(m) BY <1>1, <1>4, StopE DEF Clashes
<1>5. CASE Refuses(p, m, r) \/ Follows(p, m, r) \/ Adopts(p, m, r)
  <2>1. Received(p, m) /\ UNCHANGED up BY <1>5 DEF Refuses, Follows, Adopts
  <2>2. Shrinks BY <1>1, <2>1, ReceivedFacts DEF TypeOK, Connections
  <2>3. \/ UNCHANGED <<cur_epoch, ps_epoch>>
        \/ /\ r.epoch > cur_epoch[m]
           /\ cur_epoch' = [cur_epoch EXCEPT ![m] = r.epoch]
           /\ ps_epoch' = [ps_epoch EXCEPT ![m] = r.epoch]
           /\ cur_state' = [cur_state EXCEPT ![m] = 0]
    BY <1>5 DEF Refuses, Follows, Adopts
  <2>4. \A x \in Machines : cur_state'[x] = cur_state[x] \/ cur_state'[x] = 0
    BY <1>5 DEF Refuses, Follows, Adopts, TypeOK
  <2>5. \A x \in Machines : \A a \in rep'[x] :
          \/ a \in rep[x]
          \/ /\ a.kind = "heartbeat"
             /\ ~a.valid => a.ballot = cur_epoch[m] /\ r.epoch < cur_epoch[m]
    <3> DEFINE A == Answer(r, m, FALSE, cur_epoch[m])
               B == Answer(r, m, TRUE, 0)
    <3>1. A \in Reply /\ A.kind = "heartbeat" /\ A.ballot = cur_epoch[m]
      <4>1. A \in Reply BY <1>1, <1>3, AnswerTyped
      <4>2. A.kind = "heartbeat" /\ A.ballot = cur_epoch[m] BY <1>1 DEF Answer
      <4> QED BY <4>1, <4>2
    <3>2. B \in Reply /\ B.kind = "heartbeat" /\ B.valid
      <4>1. B \in Reply BY <1>1, <1>3, AnswerTyped
      <4>2. B.kind = "heartbeat" /\ B.valid BY <1>1 DEF Answer
      <4> QED BY <4>1, <4>2
    <3>3. (Send(p, A) /\ r.epoch < cur_epoch[m]) \/ Send(p, B)
      BY <1>5 DEF Refuses, Follows, Adopts
    <3> HIDE DEF A, B
    <3>4. Replies BY DEF TypeOK, Replies
    <3>5. CASE Send(p, A) /\ r.epoch < cur_epoch[m]
      <4>1. \A x \in Machines : \A a \in rep'[x] : a \in rep[x] \/ a = A
        BY <3>1, <3>4, <3>5, SendFacts
      <4> QED BY <3>1, <3>5, <4>1
    <3>6. CASE Send(p, B)
      <4>1. \A x \in Machines : \A a \in rep'[x] : a \in rep[x] \/ a = B
        BY <3>2, <3>4, <3>6, SendFacts
      <4> QED BY <3>2, <4>1
    <3> QED BY <3>3, <3>5, <3>6
  <2>6. (Begun' <=> Begun) /\ \A x \in Machines : Candidate(x)' <=> Candidate(x)
    BY <1>1 DEF Begun, Candidate
  <2>7. r.epoch = 3 => Begun BY <1>2 DEF Begun
  <2>8. \A x \in Machines :
          \/ cur_epoch'[x] = cur_epoch[x] /\ ps_epoch'[x] = ps_epoch[x]
          \/ /\ x = m /\ r.epoch > cur_epoch[m] /\ cur_state'[x] = 0
             /\ cur_epoch'[x] = r.epoch /\ ps_epoch'[x] = r.epoch
    BY <2>3 DEF TypeOK
  <2>9. Begun => \A x \in Machines :
          \/ cur_epoch'[x] = cur_epoch[x] /\ ps_epoch'[x] = ps_epoch[x]
          \/ x = m /\ r.epoch = 3 /\ cur_epoch'[x] = 3 /\ ps_epoch'[x] = 3
    <3>1. Begun => cur_epoch[m] >= 2 BY <1>1 DEF EInv, HeardInv, Heard
    <3> QED BY <1>2, <1>3, <2>8, <3>1
  <2>10. KeepsRaised
    <3>1. \A x \in Machines : ps_epoch[x] = 3 => Begun BY DEF EInv, QuietInv
    <3> QED BY <2>9, <3>1 DEF KeepsRaised
  <2>11. QuietInv' BY <1>1, <2>6, <2>7, <2>8 DEF EInv, QuietInv
  <2>12. HeardInv'
    <3> SUFFICES ASSUME Begun, NEW x \in Machines, up[x] PROVE Heard(x)'
      BY <2>1, <2>6 DEF HeardInv
    <3>1. Heard(x) BY DEF EInv, HeardInv
    <3> QED BY <1>1, <2>9, <3>1 DEF Heard
  <2>13. ThreadInv'
    <3>1. \A x \in Machines : cur_epoch[x] = 3 => cur_epoch'[x] = 3
      BY <1>2, <1>3, <2>8
    <3> QED BY <1>1, <2>4, <2>6, <3>1 DEF EInv, ThreadInv
  <2>14. LeadInv'
    <3>1. \A x \in Machines :
            cur_state'[x] = 1 => cur_state[x] = 1 /\ cur_epoch'[x] = cur_epoch[x]
      BY <2>4, <2>8
    <3> QED BY <1>1, <2>6, <3>1 DEF EInv, LeadInv
  <2>15. NetInv' BY <1>1, <2>2, ShrinkNet DEF EInv
  <2>16. AskedOnce' BY <2>2, ShrinkAsked DEF EInv, TypeOK, Connections
  <2>17. RefuseInv'
    <3>1. r.epoch < cur_epoch[m] => cur_epoch[m] = 3 /\ Begun
      BY <1>2, <1>3 DEF EInv, QuietInv
    <3>2. \A x \in Machines : \A a \in rep'[x] :
            /\ ~a.valid => a.ballot = 3 /\ Begun
            /\ a.kind = "prepare" => Candidate(x)
      BY <2>5, <3>1 DEF EInv, RefuseInv
    <3> QED BY <1>1, <2>6, <3>2 DEF EInv, RefuseInv
  <2>18. ConsentInv'
    <3>1. \A x \in Machines : \A a \in rep'[x] :
            a.kind = "prepare" /\ a.valid => a \in rep[x]
      BY <2>5
    <3> QED BY <1>1, <2>10, <3>1, RaisedConsent DEF EInv
  <2>19. PendingInv'
    <3>1. CASE cur_epoch' = cur_epoch
      <4>1. \A x \in Machines : \A a \in rep'[x] :
              a.kind = "prepare" /\ ~a.valid => a \in rep[x]
        BY <2>5
      <4> QED BY <1>1, <2>2, <3>1, <4>1, ShrinkPending DEF EInv
    <3>2. CASE cur_epoch' # cur_epoch
      <4>1. CASE r.epoch = 3
        <5>1. \A x \in Machines : ~prep[x].open
          BY <1>2, <4>1, OneCandidate, OpenIsCandidate DEF EInv
        <5> QED BY <1>1, <5>1 DEF PendingInv
      <4>2. CASE r.epoch # 3
        <5>1. \A d \in Machines : cur_epoch'[d] = 3 => cur_epoch[d] = 3
          BY <2>8, <4>2
        <5>2. \A x \in Machines : \A a \in rep'[x] :
                a.kind = "prepare" /\ ~a.valid => a \in rep[x]
          BY <2>5
        <5> QED BY <1>1, <2>2, <5>1, <5>2, ShrinkPending DEF EInv
      <4> QED BY <4>1, <4>2
    <3> QED BY <3>1, <3>2
  <2>20. FenceInv' BY <1>1, <2>10, RaisedFence DEF EInv
  <2> QED BY <2>11, <2>12, <2>13, <2>14, <2>15, <2>16, <2>17, <2>18, <2>19, <2>20 DEF EInv
<1> QED BY <1>1, <1>4, <1>5

LEMMA OnBulkPrepareE ==
  ASSUME OneElection, TypeOK, TypeOK', EInv, NEW p \in Machines, NEW m \in Machines,
         OnBulkPrepare(p, m)
  PROVE  EInv'
<1> DEFINE r == Head(req[p][m])
<1>1. /\ up[m] /\ req[p][m] # <<>> /\ r.kind = "prepare"
      /\ UNCHANGED <<hnd, streams, pc, send_epoch, prep, beat, ruled>>
  BY DEF OnBulkPrepare, Arrived, monVars
<1>2. Connections /\ Replies BY DEF TypeOK, Connections, Replies
<1>3. r \in Request /\ r = req[p][m][1] /\ 1 \in DOMAIN req[p][m]
  BY <1>1, <1>2, HeadFacts
<1>4. r.epoch = 3 /\ Candidate(p) BY <1>1, <1>3 DEF EInv, NetInv
<1>5. /\ cur_epoch[m] \in Epochs /\ cur_epoch[m] \in Nat /\ cur_epoch[m] <= 3
      /\ 3 \in Epochs
  BY ThreeFacts DEF TypeOK
<1>6. cur_epoch[p] = 3 BY <1>4 DEF EInv, ThreadInv
<1>7. Begun BY <1>4 DEF Begun
<1>8. (Begun' <=> Begun) /\ \A x \in Machines : Candidate(x)' <=> Candidate(x)
  BY <1>1 DEF Begun, Candidate
<1>9. CASE Consents(m, p, r.epoch) /\ seen_ballot[m] > r.epoch
  <2>1. Stop(m) /\ UNCHANGED <<esVars, ps_epoch, seen_ballot>>
    BY <1>9 DEF OnBulkPrepare
  <2> QED BY <1>1, <2>1, StopE DEF esVars
<1>10. CASE ~Consents(m, p, r.epoch)
  <2> DEFINE A == Answer(r, m, FALSE, cur_epoch[m])
  <2>1. /\ Send(p, A) /\ Received(p, m)
        /\ UNCHANGED <<up, esVars, ps_epoch, seen_ballot, clash>>
    BY <1>10 DEF OnBulkPrepare
  <2>2. cur_epoch[m] = 3 /\ p # m
    BY <1>4, <1>5, <1>6, <1>10 DEF Consents
  <2>3. A \in Reply /\ A.kind = "prepare" /\ A.ballot = 3 /\ A.from = m
    <3>1. A \in Reply BY <1>3, <1>5, AnswerTyped
    <3>2. A.kind = "prepare" /\ A.ballot = 3 /\ A.from = m BY <1>1, <2>2 DEF Answer
    <3> QED BY <3>1, <3>2
  <2>4. ~A.valid BY DEF Answer
  <2> HIDE DEF A, r
  <2>5. \A x \in Machines : \A a \in rep'[x] : a \in rep[x] \/ (x = p /\ a = A)
    BY <1>2, <2>1, <2>3, SendFacts
  <2>6. Shrinks BY <1>1, <1>2, <2>1, ReceivedFacts
  <2> USE DEF esVars
  <2>7. QuietInv' /\ HeardInv' /\ ThreadInv' /\ LeadInv' /\ FenceInv'
    BY <1>1, <2>1, SameQuiet, SameHeard, SameThread, SameLead, SameFence DEF EInv
  <2>8. NetInv' BY <1>1, <2>6, ShrinkNet DEF EInv
  <2>9. AskedOnce' BY <2>6, ShrinkAsked DEF EInv, TypeOK, Connections
  <2>10. RefuseInv'
    BY <1>1, <1>4, <1>7, <1>8, <2>3, <2>5 DEF EInv, RefuseInv
  <2>11. ConsentInv' BY <1>1, <2>1, <2>4, <2>5 DEF EInv, ConsentInv
  <2>12. PendingInv'
    <3> SUFFICES ASSUME NEW x \in Machines, prep[x].open
                 PROVE  /\ \A d \in Machines \ {0, x} : \A i \in DOMAIN req'[x][d] :
                             req'[x][d][i].kind = "prepare" => cur_epoch'[d] # 3
                        /\ \A a \in rep'[x] : a.kind = "prepare" /\ ~a.valid => a.from = 0
                        /\ prep[x].no \subseteq {0}
      BY <1>1 DEF PendingInv
    <3>1. x = p BY <1>4, OneCandidate, OpenIsCandidate DEF EInv
    <3>2. m = 0
      <4>1. m \notin Machines \ {0, p}
        BY <1>1, <1>3, <2>2, <3>1 DEF EInv, PendingInv
      <4> QED BY <2>2, <4>1
    <3>3. \A a \in rep'[x] : a.kind = "prepare" /\ ~a.valid => a.from = 0
      BY <2>3, <2>5, <3>2 DEF EInv, PendingInv
    <3>4. ASSUME NEW d \in Machines \ {0, x}, NEW i \in DOMAIN req'[x][d],
                 req'[x][d][i].kind = "prepare"
          PROVE  cur_epoch'[d] # 3
      <4>1. PICK j \in DOMAIN req[x][d] : req'[x][d][i] = req[x][d][j]
        BY <2>6 DEF Shrinks
      <4>2. cur_epoch[d] # 3 BY <3>4, <4>1 DEF EInv, PendingInv
      <4> QED BY <2>1, <4>2
    <3> QED BY <3>3, <3>4 DEF EInv, PendingInv
  <2> QED BY <2>7, <2>8, <2>9, <2>10, <2>11, <2>12 DEF EInv
<1>11. CASE Consents(m, p, r.epoch) /\ ~(seen_ballot[m] > r.epoch)
  <2> DEFINE A == Answer(r, m, TRUE, r.epoch)
  <2>1. /\ cur_epoch' = [cur_epoch EXCEPT ![m] = r.epoch]
        /\ ps_epoch' = [ps_epoch EXCEPT ![m] = r.epoch]
        /\ cur_state' = IF p = m THEN cur_state ELSE [cur_state EXCEPT ![m] = 0]
        /\ Send(p, A) /\ Received(p, m) /\ UNCHANGED <<up, clash>>
    BY <1>11 DEF OnBulkPrepare
  <2>2. /\ cur_epoch' = [cur_epoch EXCEPT ![m] = 3]
        /\ ps_epoch' = [ps_epoch EXCEPT ![m] = 3]
    BY <2>1, <1>4
  <2>3. A \in Reply /\ A.kind = "prepare" /\ A.from = m
    <3>1. A \in Reply BY <1>3, <1>4, <1>5, AnswerTyped
    <3>2. A.kind = "prepare" /\ A.from = m BY <1>1 DEF Answer
    <3> QED BY <3>1, <3>2
  <2>4. A.valid BY DEF Answer
  <2> HIDE DEF A, r
  <2>5. \A x \in Machines : \A a \in rep'[x] : a \in rep[x] \/ (x = p /\ a = A)
    BY <1>2, <2>1, <2>3, SendFacts
  <2>6. /\ Shrinks
        /\ \A i \in DOMAIN req'[p][m] :
             i + 1 \in DOMAIN req[p][m] /\ req'[p][m][i] = req[p][m][i + 1]
    BY <1>1, <1>2, <2>1, ReceivedFacts
  <2>7. \A x \in Machines :
          /\ x # m => /\ cur_epoch'[x] = cur_epoch[x] /\ ps_epoch'[x] = ps_epoch[x]
                      /\ cur_state'[x] = cur_state[x]
          /\ x = m => cur_epoch'[x] = 3 /\ ps_epoch'[x] = 3
          /\ x = m /\ p # m => cur_state'[x] = 0
          /\ p = m => cur_state'[x] = cur_state[x]
    <3>1. \A x \in Machines :
            /\ x # m => cur_epoch'[x] = cur_epoch[x] /\ ps_epoch'[x] = ps_epoch[x]
            /\ x = m => cur_epoch'[x] = 3 /\ ps_epoch'[x] = 3
      BY <2>2 DEF TypeOK
    <3>2. CASE p = m BY <2>1, <3>1, <3>2
    <3>3. CASE p # m
      <4>1. cur_state' = [cur_state EXCEPT ![m] = 0] BY <2>1, <3>3
      <4>2. \A x \in Machines : cur_state'[x] = IF x = m THEN 0 ELSE cur_state[x]
        BY <4>1 DEF TypeOK
      <4> QED BY <3>1, <3>3, <4>2
    <3> QED BY <3>2, <3>3
  <2>8. KeepsRaised BY <2>7 DEF KeepsRaised
  <2>9. QuietInv' BY <1>7, <1>8 DEF QuietInv
  <2>10. HeardInv'
    <3> SUFFICES ASSUME NEW x \in Machines, up[x] PROVE Heard(x)'
      BY <2>1 DEF HeardInv
    <3>1. Heard(x) BY <1>7 DEF EInv, HeardInv
    <3> QED BY <1>1, <2>7, <3>1 DEF Heard
  <2>11. ThreadInv'
    <3>1. \A x \in Machines : /\ cur_epoch[x] = 3 => cur_epoch'[x] = 3
                              /\ cur_state[x] = 0 => cur_state'[x] = 0
      BY <2>7
    <3> QED BY <1>1, <1>8, <3>1 DEF EInv, ThreadInv
  <2>12. LeadInv'
    <3>1. \A x \in Machines : cur_state'[x] = 1 =>
            /\ cur_state[x] = 1
            /\ cur_epoch'[x] = cur_epoch[x] \/ (cur_epoch'[x] = 3 /\ Candidate(x))
      BY <1>4, <2>7
    <3> QED BY <1>1, <1>8, <3>1 DEF EInv, LeadInv
  <2>13. NetInv' BY <1>1, <2>6, ShrinkNet DEF EInv
  <2>14. AskedOnce' BY <2>6, ShrinkAsked DEF EInv, TypeOK, Connections
  <2>15. RefuseInv'
    BY <1>1, <1>4, <1>8, <2>4, <2>5 DEF EInv, RefuseInv
  <2>16. ConsentInv'
    <3>1. ASSUME NEW x \in Machines, NEW a \in rep'[x], a.kind = "prepare", a.valid
          PROVE  ps_epoch'[a.from] = 3
      <4>1. CASE a = A BY <2>3, <2>7, <4>1
      <4>2. CASE a \in rep[x]
        <5>1. a.from \in Machines BY <4>2 DEF TypeOK, Reply
        <5>2. ps_epoch[a.from] = 3 BY <3>1, <4>2 DEF EInv, ConsentInv
        <5> QED BY <2>8, <5>1, <5>2 DEF KeepsRaised
      <4> QED BY <2>5, <4>1, <4>2
    <3>2. ASSUME NEW x \in Machines, NEW q \in prep[x].yes PROVE ps_epoch'[q] = 3
      <4>1. q \in Machines BY DEF TypeOK, Tally
      <4>2. ps_epoch[q] = 3 BY DEF EInv, ConsentInv
      <4> QED BY <2>8, <4>1, <4>2 DEF KeepsRaised
    <3> QED BY <1>1, <3>1, <3>2 DEF ConsentInv
  <2>17. PendingInv'
    <3> SUFFICES ASSUME NEW x \in Machines, prep[x].open
                 PROVE  /\ \A d \in Machines \ {0, x} : \A i \in DOMAIN req'[x][d] :
                             req'[x][d][i].kind = "prepare" => cur_epoch'[d] # 3
                        /\ \A a \in rep'[x] : a.kind = "prepare" /\ ~a.valid => a.from = 0
                        /\ prep[x].no \subseteq {0}
      BY <1>1 DEF PendingInv
    <3>1. x = p BY <1>4, OneCandidate, OpenIsCandidate DEF EInv
    <3>2. \A a \in rep'[x] : a.kind = "prepare" /\ ~a.valid => a.from = 0
      BY <2>4, <2>5 DEF EInv, PendingInv
    <3>3. ASSUME NEW d \in Machines \ {0, x}, NEW i \in DOMAIN req'[x][d],
                 req'[x][d][i].kind = "prepare"
          PROVE  cur_epoch'[d] # 3
      <4>1. CASE d = m
        <5>1. i + 1 \in DOMAIN req[p][m] /\ req'[p][m][i] = req[p][m][i + 1]
          BY <2>6, <3>1, <3>3, <4>1
        <5>2. req[p][m][i + 1].kind = "prepare" /\ req[p][m][1].kind = "prepare"
          BY <1>1, <1>3, <3>1, <3>3, <4>1, <5>1
        <5>3. i + 1 = 1 BY <1>3, <5>1, <5>2 DEF EInv, AskedOnce
        <5>4. i \in Nat /\ i >= 1
          <6>1. req'[p][m] \in Seq(Request) BY DEF TypeOK
          <6> QED BY <3>1, <3>3, <4>1, <6>1
        <5> QED BY <5>3, <5>4
      <4>2. CASE d # m
        <5>1. PICK j \in DOMAIN req[x][d] : req'[x][d][i] = req[x][d][j]
          BY <2>6 DEF Shrinks
        <5>2. cur_epoch[d] # 3 BY <3>3, <5>1 DEF EInv, PendingInv
        <5> QED BY <2>7, <4>2, <5>2
      <4> QED BY <4>1, <4>2
    <3> QED BY <3>2, <3>3 DEF EInv, PendingInv
  <2>18. FenceInv' BY <1>1, <2>8, RaisedFence DEF EInv
  <2> QED BY <2>9, <2>10, <2>11, <2>12, <2>13, <2>14, <2>15, <2>16, <2>17, <2>18 DEF EInv
<1> QED BY <1>9, <1>10, <1>11

-----------------------------------------------------------------------------
(* The theorem.                                                            *)

LEMMA NextE ==
  ASSUME OneElection, TypeOK, EInv, [Next]_electionVars
  PROVE  EInv'
<1>0. TypeOK' BY NextTypes
<1>1. CASE UNCHANGED electionVars BY <1>1, SameE
<1>2. ASSUME NEW m \in Machines, Monitor(m) \/ Recovered(m) PROVE EInv'
  BY <1>0, <1>2, SuspectE, QuietMonitorE, TakeOverE DEF Monitor
<1>3. ASSUME NEW m \in Machines, Jobs(m) PROVE EInv'
  BY <1>3, PrepareReplyE, PrepareDoneE, BeatReplyE, BeatDoneE DEF Jobs
<1>4. ASSUME NEW m \in Machines, Beat(m) \/ Crash(m) PROVE EInv'
  BY <1>4, BeatE, CrashE
<1>5. ASSUME NEW m \in Machines, StreamRetest(m) \/ StreamStore(m) PROVE EInv'
  BY <1>0, <1>5, StreamRetestE, StreamStoreE
<1>6. ASSUME NEW m \in Machines, NEW p \in Machines, Handler(p, m) \/ StreamTest(p, m)
      PROVE  EInv'
  BY <1>0, <1>6, OnBulkPrepareE, OnHeartbeatE, StreamTestE DEF Handler
<1> QED BY <1>1, <1>2, <1>3, <1>4, <1>5, <1>6 DEF Next

LEMMA EInvFences == ASSUME EInv PROVE LeaderFences
<1> SUFFICES ASSUME NEW m \in Machines \ {0}, NEW e \in ruled[m]
             PROVE  Cardinality({p \in Machines : ps_epoch[p] >= e}) >= k
  BY DEF LeaderFences
<1>1. e = 3 BY DEF EInv, LeadInv
<1>2. Fenced BY <1>1 DEF EInv, FenceInv
<1> QED BY <1>1, <1>2 DEF Fenced

\* For one change of leader, with any number of machines, of crashes (the
\* leader's and the candidate's too) and of stream requests, with false
\* suspicion, late replies and either order of wait and wake-up: when
\* stuff_todo_leader_election makes a machine the leader, the PaxosServers of
\* a quorum are in its epoch, and no heartbeat, late stream request or refusal
\* brings them back.  With two candidates or a second election this fails.
THEOREM LeaderAlwaysFences ==
  ASSUME OneElection
  PROVE  Spec => []LeaderFences
<1>1. Init => TypeOK /\ EInv BY InitType, InitE
<1>2. TypeOK /\ EInv /\ [Next]_electionVars => TypeOK' /\ EInv' BY NextTypes, NextE
<1>3. EInv => LeaderFences BY EInvFences
<1> QED BY <1>1, <1>2, <1>3, PTL DEF Spec

=============================================================================
