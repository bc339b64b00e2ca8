------------------------- MODULE StreamPaxosProofs -------------------------
(***************************************************************************)
(* Proofs about StreamPaxos.                                               *)
(*                                                                         *)
(* TypeCorrect holds for every value of the constants.  Its invariant,     *)
(* Types, adds to TypeOK the records of the messages and replies, and that *)
(* no slot above Top is in use: before the mark, the last slot of the old  *)
(* leader; after it, MaxSlot.                                              *)
(*                                                                         *)
(* SurvivorsAlwaysAgree and MarkAlwaysSeparates are proved for three       *)
(* replicas (a leader and two followers, as env.md and the scripts start   *)
(* it) and without false suspicion; both hypotheses are needed.  Their     *)
(* invariant is late \/ Agree.  Agree gives each slot one value, Val(s): entry s of the *)
(* old leader up to slot Base, then the mark, then the new leader's        *)
(* entries.  Base is only known once the mark is submitted, and what fixes *)
(* it is the recovery: with 0 down a quorum is both other machines, so     *)
(* after the prepares neither takes a message of the old epoch any more,   *)
(* the answers to SyncLog stay true, SyncCommit carries every slot that    *)
(* one of them lacks, and once both have answered both are Whole: they     *)
(* have committed the same slots.                                          *)
(***************************************************************************)
EXTENDS StreamPaxos, FiniteSetTheorems, NaturalsInduction, SequenceTheorems, TLAPS

-----------------------------------------------------------------------------
(***************************************************************************)
(* Types.                                                                  *)
(***************************************************************************)

\* A table of committed commands, as SyncLog and SyncCommit carry it.
Tables == UNION {[D -> Logs] : D \in SUBSET Slots}

AcceptMsg == [kind : {"accept"}, by : Machines, slot : Slots, ballot : Epochs, cmd : Logs]
CommitMsg == [kind : {"commit"}, by : Machines, slot : Slots, ballot : Epochs]
SyncMsg == [kind : {"sync"}, by : Machines, ballot : Epochs, cmds : Tables]
Message == AcceptMsg \cup CommitMsg \cup SyncMsg
Handling == [kind : {"msg"}, msg : Message, epoch : Epochs]
Control == [kind : {"prepare"}] \cup [kind : {"synclog", "noops"}, slot : Nat \ {0}]
Coordinator ==
  [by : Machines, slot : Slots, ballot : Epochs, yes : SUBSET Machines, refused : BOOLEAN]

Phases == {"none", "prepare", "synclog", "commit", "synced", "noops", "done", "stuck"}
LogReply == [from : Machines, cmds : Tables, missing : SUBSET Slots]
Plain == [from : Machines]
Rounds ==
  [by : Electors \cup {NoOne}, phase : Phases, waits : BOOLEAN,
   replies : SUBSET (LogReply \cup Plain)]

\* The last slot that may be in use: before the mark, the old leader's last.
Top == IF round.phase = "done" THEN MaxSlot ELSE submitted[0]

\* The messages on their way to d, and the one in its hands.
InFlight(d) ==
  (UNION {{stream[m][d][i] : i \in DOMAIN stream[m][d]} : m \in Machines})
    \cup (IF busy[d] = Idle THEN {} ELSE {busy[d].msg})

Entries == Logs \cup {None}

ServerTypes ==
  /\ cur_epoch \in [Machines -> Epochs]
  /\ accepted \in [Machines -> [Slots -> Entries]]
  /\ ballot \in [Machines -> [Slots -> Epochs]]
  /\ committed \in [Machines -> [Slots -> Entries]]
  /\ max_committed_slot \in [Machines -> Nat]
  /\ max_executed_slot \in [Machines -> Nat]
  /\ cur_open_slot \in [Machines -> Nat \ {0}]
  /\ executed \in [Machines -> Seq(Logs)]
  /\ late \in BOOLEAN

WorkerTypes ==
  /\ leads \in [Machines -> Epochs]
  /\ submitted \in [Machines -> 0..(OldEntries + NewEntries)]
  /\ submitted[0] <= OldEntries
  /\ jobs \in [Machines -> SUBSET (Slots \X Logs)]
  /\ accepts \subseteq Coordinator

NetTypes ==
  /\ up \in [Machines -> BOOLEAN]
  /\ stream \in [Machines -> [Machines -> Seq(Message)]]
  /\ busy \in [Machines -> Handling \cup {Idle}]
  /\ control \in [Machines -> Seq(Control)]

RoundTypes ==
  /\ round \in Rounds
  /\ round.by = NoOne <=> round.phase = "none"
  /\ round.replies \subseteq IF round.phase = "synclog" THEN LogReply ELSE Plain

\* No slot above Top is in use.
ServerReach ==
  \A m \in Machines :
    /\ max_executed_slot[m] <= max_committed_slot[m]
    /\ max_committed_slot[m] <= Top
    /\ cur_open_slot[m] <= Top + 1
    /\ Len(executed[m]) = max_executed_slot[m]
    /\ \A s \in Slots : committed[m][s] # None => s <= max_committed_slot[m]

WorkReach ==
  /\ \A m \in Machines : \A j \in jobs[m] : j[1] <= Top
  /\ \A c \in accepts : c.slot <= Top

Within(msg) ==
  IF msg.kind = "sync" THEN DOMAIN msg.cmds # {} /\ \A s \in DOMAIN msg.cmds : s <= Top
  ELSE msg.slot <= Top

NetReach == \A d \in Machines : \A msg \in InFlight(d) : Within(msg)

RoundReach ==
  round.phase = "synclog" => \A r \in round.replies : \A s \in DOMAIN r.cmds : s <= Top

Types ==
  /\ ServerTypes /\ WorkerTypes /\ NetTypes /\ RoundTypes
  /\ ServerReach /\ WorkReach /\ NetReach /\ RoundReach

-----------------------------------------------------------------------------
(***************************************************************************)
(* Facts about the constants and the messages.                             *)
(***************************************************************************)
LEMMA Constants ==
  /\ Machines \subseteq Nat /\ 0 \in Machines
  /\ Electors \subseteq Machines /\ 0 \notin Electors
  /\ NoOne \notin Machines /\ NoOne \notin Electors
  /\ OldEntries \in Nat /\ NewEntries \in Nat
  /\ MaxSlot \in Nat /\ MaxSlot = OldEntries + NewEntries + 1
  /\ FalseSuspicion \in BOOLEAN
BY StreamAssumption, SMT DEF MaxSlot, NoOne

LEMMA SlotFacts == \A s : s \in Slots <=> s \in Nat /\ 1 <= s /\ s <= MaxSlot
BY Constants, SMT DEF Slots

LEMMA LogFacts ==
  \A m \in Machines : \A n \in 0..(OldEntries + NewEntries) :
    /\ <<m, n>> \in Logs
    /\ <<m, n>> # None
BY SMT DEF Logs, None

LEMMA NoneIsNoLog == None \notin Logs
BY SMT DEF None, Logs

LEMMA EntryFacts == \A x : x \in Entries <=> x \in Logs \/ x = None
BY DEF Entries

LEMMA TableFacts ==
  ASSUME NEW f \in Tables
  PROVE  /\ DOMAIN f \subseteq Slots
         /\ \A s \in DOMAIN f : f[s] \in Logs
BY SMT DEF Tables

LEMMA TableMade ==
  ASSUME NEW D, D \subseteq Slots, NEW f \in [D -> Logs]
  PROVE  f \in Tables
BY SMT DEF Tables

LEMMA MessageFacts ==
  ASSUME NEW msg \in Message
  PROVE  /\ msg.by \in Machines
         /\ msg.ballot \in Epochs
         /\ msg.kind \in {"accept", "commit", "sync"}
         /\ msg.kind = "accept" => msg.slot \in Slots /\ msg.cmd \in Logs
         /\ msg.kind = "commit" => msg.slot \in Slots
         /\ msg.kind = "sync" => msg.cmds \in Tables
<1>1. CASE msg \in AcceptMsg
  BY <1>1, SMT DEF AcceptMsg
<1>2. CASE msg \in CommitMsg
  BY <1>2, SMT DEF CommitMsg
<1>3. CASE msg \in SyncMsg
  BY <1>3, SMT DEF SyncMsg
<1> QED BY <1>1, <1>2, <1>3 DEF Message

LEMMA AcceptMade ==
  \A m \in Machines : \A s \in Slots : \A b \in Epochs : \A l \in Logs :
    [kind |-> "accept", by |-> m, slot |-> s, ballot |-> b, cmd |-> l] \in Message
BY SMT DEF Message, AcceptMsg

LEMMA CommitMade ==
  \A m \in Machines : \A s \in Slots : \A b \in Epochs :
    [kind |-> "commit", by |-> m, slot |-> s, ballot |-> b] \in Message
BY SMT DEF Message, CommitMsg

LEMMA SyncMade ==
  \A m \in Machines : \A b \in Epochs : \A f \in Tables :
    [kind |-> "sync", by |-> m, ballot |-> b, cmds |-> f] \in Message
BY SMT DEF Message, SyncMsg

LEMMA EpochFacts ==
  /\ 0 \in Epochs /\ FirstEpoch \in Epochs /\ NextEpoch \in Epochs
  /\ Epochs \subseteq Nat
BY SMT DEF Epochs, FirstEpoch, NextEpoch

LEMMA HandlingFacts ==
  ASSUME NEW h \in Handling
  PROVE  h.msg \in Message /\ h.epoch \in Epochs /\ h # Idle
<1>1. h.msg \in Message /\ h.epoch \in Epochs /\ h.kind = "msg"
  BY SMT DEF Handling
<1>2. Idle.kind = "idle"
  BY SMT DEF Idle
<1> QED BY <1>1, <1>2

LEMMA HandlingMade ==
  \A msg \in Message : \A b \in Epochs :
    [kind |-> "msg", msg |-> msg, epoch |-> b] \in Handling
BY SMT DEF Handling

LEMMA TopFacts ==
  ASSUME WorkerTypes
  PROVE  Top \in Nat /\ Top <= MaxSlot /\ submitted[0] <= Top
<1>1. submitted[0] \in Nat /\ submitted[0] <= OldEntries
  BY Constants, SMT DEF WorkerTypes
<1> QED BY <1>1, Constants, SMT DEF Top

(***************************************************************************)
(* What is on its way to a machine.                                        *)
(***************************************************************************)
LEMMA InFlightFacts ==
  \A d, msg : msg \in InFlight(d) <=>
    \/ \E m \in Machines : \E i \in DOMAIN stream[m][d] : msg = stream[m][d][i]
    \/ busy[d] # Idle /\ msg = busy[d].msg
<1> SUFFICES ASSUME NEW d, NEW msg
             PROVE  msg \in InFlight(d) <=>
                      \/ \E m \in Machines : \E i \in DOMAIN stream[m][d] : msg = stream[m][d][i]
                      \/ busy[d] # Idle /\ msg = busy[d].msg
  OBVIOUS
<1> DEFINE Sent == UNION {{stream[m][d][i] : i \in DOMAIN stream[m][d]} : m \in Machines}
           Held == IF busy[d] = Idle THEN {} ELSE {busy[d].msg}
<1>1. InFlight(d) = Sent \cup Held
  BY Zenon DEF InFlight
<1>2. msg \in Sent <=> \E m \in Machines : \E i \in DOMAIN stream[m][d] : msg = stream[m][d][i]
  BY SMT
<1>3. msg \in Held <=> busy[d] # Idle /\ msg = busy[d].msg
  OBVIOUS
<1> HIDE DEF Sent, Held
<1> QED BY <1>1, <1>2, <1>3

LEMMA InFlightNext ==
  \A d, msg : msg \in InFlight(d)' <=>
    \/ \E m \in Machines : \E i \in DOMAIN stream'[m][d] : msg = stream'[m][d][i]
    \/ busy'[d] # Idle /\ msg = busy'[d].msg
<1> SUFFICES ASSUME NEW d, NEW msg
             PROVE  msg \in InFlight(d)' <=>
                      \/ \E m \in Machines : \E i \in DOMAIN stream'[m][d] : msg = stream'[m][d][i]
                      \/ busy'[d] # Idle /\ msg = busy'[d].msg
  OBVIOUS
<1> DEFINE Sent == UNION {{stream'[m][d][i] : i \in DOMAIN stream'[m][d]} : m \in Machines}
           Held == IF busy'[d] = Idle THEN {} ELSE {busy'[d].msg}
<1>1. InFlight(d)' = Sent \cup Held
  BY Zenon DEF InFlight
<1>2. msg \in Sent <=> \E m \in Machines : \E i \in DOMAIN stream'[m][d] : msg = stream'[m][d][i]
  BY SMT
<1>3. msg \in Held <=> busy'[d] # Idle /\ msg = busy'[d].msg
  OBVIOUS
<1> HIDE DEF Sent, Held
<1> QED BY <1>1, <1>2, <1>3

LEMMA InFlightTypes ==
  ASSUME NetTypes
  PROVE  \A d \in Machines : \A msg \in InFlight(d) : msg \in Message
<1> SUFFICES ASSUME NEW d \in Machines, NEW msg \in InFlight(d) PROVE msg \in Message
  OBVIOUS
<1>1. CASE \E m \in Machines : \E i \in DOMAIN stream[m][d] : msg = stream[m][d][i]
  <2>1. PICK m \in Machines : \E i \in DOMAIN stream[m][d] : msg = stream[m][d][i]
    BY <1>1
  <2>2. stream[m][d] \in Seq(Message)
    BY DEF NetTypes
  <2> QED BY <2>1, <2>2, SMT
<1>2. CASE busy[d] # Idle /\ msg = busy[d].msg
  <2>1. busy[d] \in Handling
    BY <1>2 DEF NetTypes
  <2> QED BY <2>1, <1>2, HandlingFacts
<1> QED BY <1>1, <1>2, InFlightFacts

\* What a machine does when it goes down, or its handler ends: nothing new is
\* on its way to anyone.
Less == \A d \in Machines : InFlight(d)' \subseteq InFlight(d)
\* A broadcast: one message more.
More(msg) == \A d \in Machines : InFlight(d)' \subseteq InFlight(d) \cup {msg}

LEMMA SameInFlight ==
  ASSUME UNCHANGED <<stream, busy>>
  PROVE  Less
BY DEF Less, InFlight

LEMMA HandledInFlight ==
  ASSUME NetTypes, NEW d \in Machines, busy' = [busy EXCEPT ![d] = Idle], UNCHANGED stream
  PROVE  /\ Less
         /\ busy' \in [Machines -> Handling \cup {Idle}]
<1>1. busy' \in [Machines -> Handling \cup {Idle}]
  BY SMT DEF NetTypes
<1>2. \A x \in Machines : busy'[x] = IF x = d THEN Idle ELSE busy[x]
  BY SMT DEF NetTypes
<1>3. ASSUME NEW x \in Machines, NEW msg \in InFlight(x)' PROVE msg \in InFlight(x)
  <2>1. CASE \E m \in Machines : \E i \in DOMAIN stream'[m][x] : msg = stream'[m][x][i]
    BY <2>1, InFlightFacts
  <2>2. CASE busy'[x] # Idle /\ msg = busy'[x].msg
    BY <2>2, <1>2, InFlightFacts
  <2> QED BY <2>1, <2>2, <1>3, InFlightNext
<1> QED BY <1>1, <1>3 DEF Less

LEMMA DownInFlight ==
  ASSUME NetTypes, NEW d \in Machines, Down(d)
  PROVE  /\ Less
         /\ NetTypes'
         /\ InFlight(d)' = {}
<1>1. \A m \in Machines : \A x \in Machines :
        stream'[m][x] = IF x = d THEN << >> ELSE stream[m][x]
  BY SMT DEF NetTypes, Down
<1>2. \A x \in Machines : busy'[x] = IF x = d THEN Idle ELSE busy[x]
  BY SMT DEF NetTypes, Down
<1>3. Less
  <2>1. ASSUME NEW x \in Machines, NEW msg \in InFlight(x)' PROVE msg \in InFlight(x)
    <3>1. CASE x = d
      <4>1. \A m \in Machines : DOMAIN stream'[m][d] = {}
        BY <1>1, SMT
      <4> QED BY <3>1, <4>1, <1>2, <2>1, InFlightNext, Zenon
    <3>2. CASE x # d
      <4>1. \A m \in Machines : stream'[m][x] = stream[m][x]
        BY <1>1, <3>2
      <4>2. busy'[x] = busy[x]
        BY <1>2, <3>2
      <4>3. CASE \E m \in Machines : \E i \in DOMAIN stream'[m][x] : msg = stream'[m][x][i]
        BY <4>1, <4>3, InFlightFacts
      <4>4. CASE busy'[x] # Idle /\ msg = busy'[x].msg
        BY <4>2, <4>4, InFlightFacts
      <4> QED BY <4>3, <4>4, <2>1, InFlightNext
    <3> QED BY <3>1, <3>2
  <2> QED BY <2>1 DEF Less
<1>4. NetTypes'
  <2>1. up' \in [Machines -> BOOLEAN] /\ busy' \in [Machines -> Handling \cup {Idle}]
        /\ control' \in [Machines -> Seq(Control)]
    BY SMT DEF NetTypes, Down
  <2>2. stream' \in [Machines -> [Machines -> Seq(Message)]]
    BY SMT DEF NetTypes, Down
  <2> QED BY <2>1, <2>2 DEF NetTypes
<1>5. InFlight(d)' = {}
  <2>1. \A m \in Machines : DOMAIN stream'[m][d] = {}
    BY <1>1, SMT
  <2> QED BY <2>1, <1>2, InFlightNext, Zenon
<1> QED BY <1>3, <1>4, <1>5

LEMMA ToAllInFlight ==
  ASSUME NetTypes, NEW m \in Machines, NEW msg \in Message, ToAll(m, msg), UNCHANGED busy
  PROVE  /\ More(msg)
         /\ stream' \in [Machines -> [Machines -> Seq(Message)]]
<1>1. \A n \in Machines : \A x \in Machines :
        stream'[n][x] = IF n = m THEN (IF up[x] THEN Append(stream[n][x], msg) ELSE << >>)
                        ELSE stream[n][x]
  BY SMT DEF NetTypes, ToAll
<1>2. stream' \in [Machines -> [Machines -> Seq(Message)]]
  BY SMT DEF NetTypes, ToAll
<1>3. ASSUME NEW x \in Machines, NEW y \in InFlight(x)' PROVE y \in InFlight(x) \cup {msg}
  <2>1. CASE \E n \in Machines : \E i \in DOMAIN stream'[n][x] : y = stream'[n][x][i]
    <3>1. PICK n \in Machines : \E i \in DOMAIN stream'[n][x] : y = stream'[n][x][i]
      BY <2>1
    <3>2. stream[n][x] \in Seq(Message)
      BY DEF NetTypes
    <3>3. y = msg \/ \E i \in DOMAIN stream[n][x] : y = stream[n][x][i]
      <4>1. CASE n # m
        BY <4>1, <3>1, <1>1
      <4>2. CASE n = m /\ ~up[x]
        <5>1. stream'[n][x] = << >>
          BY <4>2, <1>1
        <5> QED BY <5>1, <3>1, SMT
      <4>3. CASE n = m /\ up[x]
        <5>1. stream'[n][x] = Append(stream[n][x], msg)
          BY <4>3, <1>1
        <5> QED BY <5>1, <3>1, <3>2, SMT
      <4> QED BY <4>1, <4>2, <4>3
    <3> QED BY <3>3, InFlightFacts
  <2>2. CASE busy'[x] # Idle /\ y = busy'[x].msg
    BY <2>2, InFlightFacts
  <2> QED BY <2>1, <2>2, <1>3, InFlightNext
<1> QED BY <1>2, <1>3 DEF More

(***************************************************************************)
(* The loop that executes committed slots.                                 *)
(***************************************************************************)
LEMMA LeastNat ==
  ASSUME NEW S, S \subseteq Nat, S # {}
  PROVE  \E x \in S : \A y \in S : x <= y
<1> DEFINE R == OpToRel(<, Nat)
<1>1. IsWellFoundedOn(R, Nat)
  BY NatLessThanWellFounded
<1>2. ASSUME NEW x \in Nat, NEW y \in Nat, ~(<<y, x>> \in R) PROVE ~(y < x)
  BY <1>2, Zenon DEF OpToRel
<1> HIDE DEF R
<1>3. PICK x \in S : \A y \in S : ~(<<y, x>> \in R)
  BY <1>1, WFMin, Zenon
<1>4. ASSUME NEW y \in S PROVE x <= y
  <2>1. x \in Nat /\ y \in Nat
    OBVIOUS
  <2>2. ~(y < x)
    BY <2>1, <1>2, <1>3
  <2> QED BY <2>1, <2>2
<1> QED BY <1>4

LEMMA LastSlot ==
  ASSUME NEW S, S # {}, S \subseteq Slots
  PROVE  LET top == CHOOSE s \in S : \A t \in S : t <= s
         IN  top \in S /\ \A t \in S : t <= top
<1> DEFINE D == {MaxSlot - s : s \in S}
<1>1. ASSUME NEW s \in S PROVE MaxSlot - s \in Nat /\ s \in Nat
  BY SlotFacts, Constants, SMT
<1>2. D \subseteq Nat /\ D # {}
  BY <1>1
<1> HIDE DEF D
<1>3. PICK x \in D : \A y \in D : x <= y
  BY <1>2, LeastNat
<1> USE DEF D
<1>4. PICK s \in S : x = MaxSlot - s
  BY <1>3
<1>5. ASSUME NEW t \in S PROVE t <= s
  <2>1. MaxSlot - t \in D
    OBVIOUS
  <2>2. x <= MaxSlot - t
    BY <2>1, <1>3
  <2>3. s \in Nat /\ t \in Nat /\ MaxSlot \in Nat
    BY <1>1, Constants
  <2> QED BY <2>2, <2>3, <1>4, SMT
<1> HIDE DEF D
<1>6. \E r \in S : \A t \in S : t <= r
  BY <1>5
<1> QED BY <1>6, Zenon

LEMMA LastExecutedFacts ==
  ASSUME NEW coms, NEW from \in Nat, NEW max \in Nat, from <= max
  PROVE  /\ LastExecuted(coms, from, max) \in from..max
         /\ \A t \in (from + 1)..LastExecuted(coms, from, max) : coms[t] # None
         /\ LastExecuted(coms, from, max) < max =>
              coms[LastExecuted(coms, from, max) + 1] = None
<1> DEFINE Stop(s) == s < max => coms[s + 1] = None
           Good(s) == (\A t \in (from + 1)..s : coms[t] # None) /\ Stop(s)
           S == {s \in from..max : Stop(s)}
<1>1. S \subseteq Nat /\ max \in S
  BY SMT
<1> HIDE DEF S
<1>2. PICK x \in S : \A y \in S : x <= y
  BY <1>1, LeastNat
<1> USE DEF S
<1>3. x \in from..max /\ Stop(x)
  OBVIOUS
<1>4. ASSUME NEW t \in (from + 1)..x PROVE coms[t] # None
  <2>1. t - 1 \in from..max /\ t - 1 < max /\ ~(x <= t - 1) /\ (t - 1) + 1 = t
    BY <1>3, SMT
  <2>2. ~Stop(t - 1)
    BY <2>1, <1>2
  <2> QED BY <2>1, <2>2
<1>5. Good(x)
  BY <1>3, <1>4
<1> HIDE DEF S
<1>6. \E s \in from..max : Good(s)
  BY <1>3, <1>5
<1>7. LastExecuted(coms, from, max) = CHOOSE s \in from..max : Good(s)
  BY Zenon DEF LastExecuted
<1> HIDE DEF Good
<1>8. LastExecuted(coms, from, max) \in from..max /\ Good(LastExecuted(coms, from, max))
  BY <1>6, <1>7, Zenon
<1> USE DEF Good
<1> QED BY <1>8

LEMMA ExecuteFacts ==
  ASSUME ServerTypes, NEW d \in Machines, NEW coms, NEW last \in Nat,
         \A m \in Machines : Len(executed[m]) = max_executed_slot[m],
         max_executed_slot[d] <= last,
         \A t \in (max_executed_slot[d] + 1)..last : coms[t] \in Logs,
         Execute(d, coms, last)
  PROVE  /\ executed' \in [Machines -> Seq(Logs)]
         /\ max_executed_slot' \in [Machines -> Nat]
         /\ max_executed_slot'[d] = last
         /\ \A m \in Machines : Len(executed'[m]) = max_executed_slot'[m]
         /\ \A m \in Machines : m # d => /\ executed'[m] = executed[m]
                                         /\ max_executed_slot'[m] = max_executed_slot[m]
         /\ \A i \in 1..max_executed_slot[d] : executed'[d][i] = executed[d][i]
         /\ \A i \in (max_executed_slot[d] + 1)..last : executed'[d][i] = coms[i]
<1> DEFINE n == max_executed_slot[d]
           more == [i \in 1..(last - n) |-> coms[n + i]]
<1>1. n \in Nat /\ executed[d] \in Seq(Logs) /\ Len(executed[d]) = n
  BY DEF ServerTypes
<1>2. \A i \in 1..(last - n) : coms[n + i] \in Logs
  <2>1. \A i \in 1..(last - n) : n + i \in (n + 1)..last
    BY <1>1, SMT
  <2> QED BY <2>1
<1>3. more \in Seq(Logs) /\ Len(more) = last - n
  <2>1. last - n \in Nat
    BY <1>1, SMT
  <2> QED BY <2>1, <1>2, SMT
<1>4. /\ executed[d] \o more \in Seq(Logs)
      /\ Len(executed[d] \o more) = n + (last - n)
      /\ \A i \in 1..(n + (last - n)) :
           (executed[d] \o more)[i] = IF i <= n THEN executed[d][i] ELSE more[i - n]
  <2> HIDE DEF more, n
  <2>1. /\ executed[d] \o more \in Seq(Logs)
        /\ Len(executed[d] \o more) = Len(executed[d]) + Len(more)
        /\ \A i \in 1..(Len(executed[d]) + Len(more)) :
             (executed[d] \o more)[i] = IF i <= Len(executed[d]) THEN executed[d][i]
                                        ELSE more[i - Len(executed[d])]
    BY <1>1, <1>3, ConcatProperties, Zenon
  <2> QED BY <1>1, <1>3, <2>1
<1>5. executed' = [executed EXCEPT ![d] = executed[d] \o more]
  BY DEF Execute
<1>6. max_executed_slot' = [max_executed_slot EXCEPT ![d] = last]
  BY DEF Execute
<1>7. \A i \in (n + 1)..last : ~(i <= n) /\ i - n \in 1..(last - n) /\ n + (i - n) = i
                               /\ i \in 1..(n + (last - n))
  BY <1>1, SMT
<1>8. \A i \in (n + 1)..last : more[i - n] = coms[i]
  BY <1>7
<1>9. \A i \in 1..n : i <= n /\ i \in 1..(n + (last - n))
  BY <1>1, SMT
<1>10. n + (last - n) = last
  BY <1>1, SMT
<1> HIDE DEF more
<1>11. executed'[d] = executed[d] \o more /\ \A m \in Machines : m # d => executed'[m] = executed[m]
  BY <1>5 DEF ServerTypes
<1>12. max_executed_slot'[d] = last
       /\ \A m \in Machines : m # d => max_executed_slot'[m] = max_executed_slot[m]
  BY <1>6 DEF ServerTypes
<1>13. executed' \in [Machines -> Seq(Logs)] /\ max_executed_slot' \in [Machines -> Nat]
  BY <1>4, <1>5, <1>6 DEF ServerTypes
<1>14. \A m \in Machines : Len(executed'[m]) = max_executed_slot'[m]
  BY <1>4, <1>10, <1>11, <1>12
<1>15. \A i \in 1..n : executed'[d][i] = executed[d][i]
  BY <1>4, <1>9, <1>11
<1>16. \A i \in (n + 1)..last : executed'[d][i] = coms[i]
  BY <1>4, <1>7, <1>8, <1>11
<1> QED BY <1>11, <1>12, <1>13, <1>14, <1>15, <1>16

\* The highest committed slot of d once top is committed.
Highest(d, top) == IF top > max_committed_slot[d] THEN top ELSE max_committed_slot[d]

LEMMA CommitAllFacts ==
  ASSUME ServerTypes, ServerReach, WorkerTypes, NEW d \in Machines,
         NEW coms \in [Slots -> Entries], NEW top \in Nat, top <= Top,
         CommitAll(d, coms, top)
  PROVE  /\ committed' = [committed EXCEPT ![d] = coms]
         /\ committed' \in [Machines -> [Slots -> Entries]]
         /\ max_committed_slot' = [max_committed_slot EXCEPT ![d] = Highest(d, top)]
         /\ max_committed_slot' \in [Machines -> Nat]
         /\ Highest(d, top) \in Nat
         /\ max_committed_slot[d] <= Highest(d, top) /\ top <= Highest(d, top)
         /\ Highest(d, top) <= Top
         /\ executed' \in [Machines -> Seq(Logs)]
         /\ max_executed_slot' \in [Machines -> Nat]
         /\ max_executed_slot[d] <= max_executed_slot'[d]
         /\ max_executed_slot'[d] <= Highest(d, top)
         /\ \A m \in Machines : Len(executed'[m]) = max_executed_slot'[m]
         /\ \A m \in Machines : m # d => /\ executed'[m] = executed[m]
                                         /\ max_executed_slot'[m] = max_executed_slot[m]
         /\ \A i \in 1..max_executed_slot[d] : executed'[d][i] = executed[d][i]
         /\ \A i \in (max_executed_slot[d] + 1)..max_executed_slot'[d] :
              coms[i] # None /\ executed'[d][i] = coms[i]
         /\ max_executed_slot'[d] < Highest(d, top) =>
              coms[max_executed_slot'[d] + 1] = None
<1>1. PICK h : h = Highest(d, top)
  OBVIOUS
<1>2. PICK last : last = LastExecuted(coms, max_executed_slot[d], h)
  OBVIOUS
<1>3. /\ committed' = [committed EXCEPT ![d] = coms]
      /\ max_committed_slot' = [max_committed_slot EXCEPT ![d] = h]
      /\ Execute(d, coms, last)
  BY <1>1, <1>2 DEF CommitAll, Highest
<1>4. /\ max_executed_slot[d] \in Nat /\ max_committed_slot[d] \in Nat
      /\ max_executed_slot[d] <= max_committed_slot[d]
      /\ max_committed_slot[d] <= Top
      /\ Top \in Nat /\ Top <= MaxSlot
  BY TopFacts DEF ServerTypes, ServerReach
<1>5. /\ h \in Nat /\ max_committed_slot[d] <= h /\ top <= h /\ h <= Top
      /\ max_executed_slot[d] <= h
  BY <1>1, <1>4, SMT DEF Highest
<1>6. /\ last \in max_executed_slot[d]..h
      /\ \A t \in (max_executed_slot[d] + 1)..last : coms[t] # None
      /\ last < h => coms[last + 1] = None
  BY <1>2, <1>4, <1>5, LastExecutedFacts
<1>7. last \in Nat /\ max_executed_slot[d] <= last /\ last <= h
  BY <1>4, <1>5, <1>6, SMT
<1>8. \A t \in (max_executed_slot[d] + 1)..last : coms[t] \in Logs
  <2> TAKE t \in (max_executed_slot[d] + 1)..last
  <2>1. t \in Slots
    BY <1>4, <1>5, <1>7, SlotFacts, Constants, SMT
  <2> QED BY <2>1, <1>6, EntryFacts
<1>9. \A m \in Machines : Len(executed[m]) = max_executed_slot[m]
  BY DEF ServerReach
<1>10. committed' \in [Machines -> [Slots -> Entries]]
       /\ max_committed_slot' \in [Machines -> Nat]
  BY <1>3, <1>5 DEF ServerTypes
<1>11. /\ executed' \in [Machines -> Seq(Logs)]
       /\ max_executed_slot' \in [Machines -> Nat]
       /\ max_executed_slot'[d] = last
       /\ \A m \in Machines : Len(executed'[m]) = max_executed_slot'[m]
       /\ \A m \in Machines : m # d => /\ executed'[m] = executed[m]
                                       /\ max_executed_slot'[m] = max_executed_slot[m]
       /\ \A i \in 1..max_executed_slot[d] : executed'[d][i] = executed[d][i]
       /\ \A i \in (max_executed_slot[d] + 1)..last : executed'[d][i] = coms[i]
  BY <1>3, <1>7, <1>8, <1>9, ExecuteFacts, SMTT(60)
<1> QED BY <1>1, <1>3, <1>5, <1>6, <1>7, <1>10, <1>11

-----------------------------------------------------------------------------
(***************************************************************************)
(* Types is inductive.                                                     *)
(***************************************************************************)
LEMMA InitTypes == Init => Types
<1> SUFFICES ASSUME Init PROVE Types
  OBVIOUS
<1>1. ServerTypes
  <2>1. cur_epoch \in [Machines -> Epochs] /\ ballot \in [Machines -> [Slots -> Epochs]]
    BY EpochFacts DEF Init
  <2>2. accepted \in [Machines -> [Slots -> Entries]]
        /\ committed \in [Machines -> [Slots -> Entries]]
    BY EntryFacts DEF Init
  <2>3. /\ max_committed_slot \in [Machines -> Nat] /\ max_executed_slot \in [Machines -> Nat]
        /\ cur_open_slot \in [Machines -> Nat \ {0}]
    BY SMT DEF Init
  <2>4. executed \in [Machines -> Seq(Logs)] /\ late \in BOOLEAN
    <3>1. << >> \in Seq(Logs)
      BY SMT
    <3> QED BY <3>1 DEF Init
  <2> QED BY <2>1, <2>2, <2>3, <2>4 DEF ServerTypes
<1>2. WorkerTypes
  <2>1. leads \in [Machines -> Epochs]
    BY EpochFacts DEF Init
  <2>2. submitted \in [Machines -> 0..(OldEntries + NewEntries)] /\ submitted[0] <= OldEntries
    BY Constants, SMT DEF Init
  <2>3. jobs \in [Machines -> SUBSET (Slots \X Logs)] /\ accepts \subseteq Coordinator
    BY DEF Init
  <2> QED BY <2>1, <2>2, <2>3 DEF WorkerTypes
<1>3. NetTypes
  <2>1. up \in [Machines -> BOOLEAN] /\ busy \in [Machines -> Handling \cup {Idle}]
    BY DEF Init
  <2>2. stream \in [Machines -> [Machines -> Seq(Message)]]
    <3>1. << >> \in Seq(Message)
      BY SMT
    <3> QED BY <3>1 DEF Init
  <2>3. control \in [Machines -> Seq(Control)]
    BY SMT DEF Init
  <2> QED BY <2>1, <2>2, <2>3 DEF NetTypes
<1>4. RoundTypes
  BY SMT DEF Init, RoundTypes, Rounds, Phases
<1>5. Top = 0
  <2>1. submitted[0] = 0 /\ round.phase = "none"
    BY Constants, SMT DEF Init
  <2> QED BY <2>1 DEF Top
<1>6. ServerReach
  <2>1. \A m \in Machines : Len(executed[m]) = 0
    BY SMT DEF Init
  <2>2. \A m \in Machines : max_committed_slot[m] = 0 /\ max_executed_slot[m] = 0
                            /\ cur_open_slot[m] = 1
    BY DEF Init
  <2>3. \A m \in Machines : \A s \in Slots : committed[m][s] = None
    BY DEF Init
  <2> QED BY <2>1, <2>2, <2>3, <1>5, SMT DEF ServerReach
<1>7. WorkReach
  BY DEF Init, WorkReach
<1>8. NetReach
  <2>1. \A m, d \in Machines : DOMAIN stream[m][d] = {}
    BY SMT DEF Init
  <2>2. \A d \in Machines : busy[d] = Idle
    BY DEF Init
  <2>3. ASSUME NEW d \in Machines, NEW msg \in InFlight(d) PROVE FALSE
    BY <2>1, <2>2, <2>3, InFlightFacts
  <2> QED BY <2>3 DEF NetReach
<1>9. RoundReach
  BY DEF Init, RoundReach
<1> QED BY <1>1, <1>2, <1>3, <1>4, <1>6, <1>7, <1>8, <1>9 DEF Types

(* The parts that a step leaves alone. *)

LEMMA SameTop ==
  ASSUME WorkerTypes, UNCHANGED submitted, round.phase = "done" <=> round'.phase = "done"
  PROVE  Top' = Top /\ Top \in Nat /\ Top' \in Nat /\ Top <= Top'
<1>1. Top' = Top
  BY DEF Top
<1> QED BY <1>1, TopFacts, SMT

LEMMA SameServer ==
  ASSUME ServerTypes, ServerReach, UNCHANGED serverVars, Top \in Nat, Top' \in Nat, Top <= Top'
  PROVE  ServerTypes' /\ ServerReach'
<1>1. ServerTypes'
  BY DEF ServerTypes, serverVars
<1>2. ASSUME NEW m \in Machines
      PROVE  /\ max_executed_slot'[m] <= max_committed_slot'[m]
             /\ max_committed_slot'[m] <= Top'
             /\ cur_open_slot'[m] <= Top' + 1
             /\ Len(executed'[m]) = max_executed_slot'[m]
             /\ \A s \in Slots : committed'[m][s] # None => s <= max_committed_slot'[m]
  <2>1. /\ max_executed_slot' = max_executed_slot /\ max_committed_slot' = max_committed_slot
        /\ cur_open_slot' = cur_open_slot /\ executed' = executed /\ committed' = committed
    BY DEF serverVars
  <2>2. max_committed_slot[m] \in Nat /\ cur_open_slot[m] \in Nat
    BY DEF ServerTypes
  <2>3. max_committed_slot[m] <= Top /\ cur_open_slot[m] <= Top + 1
    BY DEF ServerReach
  <2>4. max_committed_slot[m] <= Top' /\ cur_open_slot[m] <= Top' + 1
    BY <2>2, <2>3, SMT
  <2> QED BY <2>1, <2>4 DEF ServerReach
<1> QED BY <1>1, <1>2 DEF ServerReach

LEMMA WithinLater ==
  ASSUME Top \in Nat, Top' \in Nat, Top <= Top', NEW msg \in Message, Within(msg)
  PROVE  Within(msg)'
<1>1. CASE msg.kind = "sync"
  <2>1. DOMAIN msg.cmds \subseteq Slots
    BY <1>1, MessageFacts, TableFacts
  <2>2. DOMAIN msg.cmds # {} /\ \A s \in DOMAIN msg.cmds : s <= Top
    BY <1>1 DEF Within
  <2>3. \A s \in DOMAIN msg.cmds : s <= Top'
    <3> TAKE s \in DOMAIN msg.cmds
    <3>1. s \in Nat /\ s <= Top
      BY <2>1, <2>2, SlotFacts
    <3> QED BY <3>1, SMT
  <2> QED BY <1>1, <2>2, <2>3 DEF Within
<1>2. CASE msg.kind # "sync"
  <2>1. msg.slot \in Nat
    BY <1>2, MessageFacts, SlotFacts
  <2>2. msg.slot <= Top
    BY <1>2 DEF Within
  <2>3. msg.slot <= Top'
    BY <2>1, <2>2, SMT
  <2> QED BY <1>2, <2>3 DEF Within
<1> QED BY <1>1, <1>2

LEMMA LessReach ==
  ASSUME NetTypes, NetReach, Top \in Nat, Top' \in Nat, Top <= Top', Less
  PROVE  NetReach'
<1>1. ASSUME NEW d \in Machines, NEW msg \in InFlight(d)' PROVE Within(msg)'
  <2>1. msg \in InFlight(d)
    BY DEF Less
  <2>2. msg \in Message /\ Within(msg)
    BY <2>1, InFlightTypes DEF NetReach
  <2> QED BY <2>2, WithinLater
<1> QED BY <1>1 DEF NetReach

LEMMA MoreReach ==
  ASSUME NetTypes, NetReach, Top \in Nat, Top' \in Nat, Top <= Top',
         NEW new \in Message, More(new), Within(new)
  PROVE  NetReach'
<1>1. ASSUME NEW d \in Machines, NEW msg \in InFlight(d)' PROVE Within(msg)'
  <2>1. msg \in InFlight(d) \cup {new}
    BY DEF More
  <2>2. msg \in Message /\ Within(msg)
    BY <2>1, InFlightTypes DEF NetReach
  <2> QED BY <2>2, WithinLater
<1> QED BY <1>1 DEF NetReach

LEMMA LessWork ==
  ASSUME WorkerTypes, WorkReach, UNCHANGED <<leads, submitted>>, Top' = Top,
         \A m \in Machines : jobs'[m] \subseteq jobs[m], jobs' = [m \in Machines |-> jobs'[m]],
         accepts' \subseteq accepts
  PROVE  WorkerTypes' /\ WorkReach'
<1>1. jobs' \in [Machines -> SUBSET (Slots \X Logs)]
  BY SMT DEF WorkerTypes
<1>2. WorkerTypes'
  BY <1>1 DEF WorkerTypes
<1>3. WorkReach'
  BY DEF WorkReach
<1> QED BY <1>2, <1>3

LEMMA DownWork ==
  ASSUME WorkerTypes, WorkReach, NEW d \in Machines, Down(d),
         UNCHANGED <<leads, submitted>>, Top' = Top
  PROVE  WorkerTypes' /\ WorkReach'
<1>1. \A m \in Machines : jobs'[m] \subseteq jobs[m]
  BY SMT DEF WorkerTypes, Down
<1>2. jobs' = [m \in Machines |-> jobs'[m]]
  <2>1. jobs' \in [Machines -> SUBSET (Slots \X Logs)]
    BY DEF WorkerTypes, Down
  <2> QED BY <2>1
<1>3. accepts' \subseteq accepts
  BY DEF Down
<1> QED BY <1>1, <1>2, <1>3, LessWork

LEMMA SameRound ==
  ASSUME RoundTypes, RoundReach, round' = round, Top' = Top
  PROVE  RoundTypes' /\ RoundReach'
BY DEF RoundTypes, RoundReach

\* A step that changes neither the servers nor the round, and adds no message.
LEMMA QuietTypes ==
  ASSUME Types, UNCHANGED serverVars, round' = round, UNCHANGED submitted,
         NetTypes', Less, Top' = Top => WorkerTypes' /\ WorkReach'
  PROVE  Types'
<1>1. Top' = Top /\ Top \in Nat /\ Top' \in Nat /\ Top <= Top'
  BY SameTop DEF Types
<1> QED BY <1>1, SameServer, LessReach, SameRound DEF Types

LEMMA CrashTypes ==
  ASSUME Types, NEW m \in Machines, Crash(m) PROVE Types'
<1>1. Down(m) /\ UNCHANGED serverVars /\ UNCHANGED <<leads, submitted>> /\ round' = round
  BY DEF Crash
<1> QED BY <1>1, DownInFlight, DownWork, QuietTypes DEF Types

LEMMA AcceptRefusedTypes ==
  ASSUME Types, NEW c \in accepts, AcceptRefused(c) PROVE Types'
<1>1. PICK m \in Machines : m = c.by
  BY DEF Types, WorkerTypes, Coordinator
<1>2. Down(m) /\ UNCHANGED serverVars /\ UNCHANGED <<leads, submitted>> /\ round' = round
  BY <1>1 DEF AcceptRefused
<1> QED BY <1>2, DownInFlight, DownWork, QuietTypes DEF Types

(* The leader. *)

\* A slot is opened: ServerTypes and ServerReach once Top covers it.
LEMMA OpenSlotTypes ==
  ASSUME Types, NEW m \in Machines, NEW log \in Logs, OpenSlot(m, log),
         cur_open_slot[m] \in Slots, Top' \in Nat, Top <= Top', cur_open_slot[m] <= Top',
         UNCHANGED <<cur_epoch, accepted, ballot, committed, max_committed_slot,
                     max_executed_slot, executed, late, leads, accepts>>,
         submitted' \in [Machines -> 0..(OldEntries + NewEntries)], submitted'[0] <= OldEntries
  PROVE  ServerTypes' /\ ServerReach' /\ WorkerTypes' /\ WorkReach'
<1>0. Top \in Nat
  BY TopFacts DEF Types
<1>1. /\ cur_open_slot \in [Machines -> Nat \ {0}]
      /\ cur_open_slot' = [cur_open_slot EXCEPT ![m] = cur_open_slot[m] + 1]
  BY DEF OpenSlot, Types, ServerTypes
<1>2. cur_open_slot' \in [Machines -> Nat \ {0}]
  BY <1>1, SMT
<1>3. ServerTypes'
  BY <1>2 DEF Types, ServerTypes
<1>4. ASSUME NEW x \in Machines
      PROVE  /\ max_executed_slot'[x] <= max_committed_slot'[x]
             /\ max_committed_slot'[x] <= Top'
             /\ cur_open_slot'[x] <= Top' + 1
             /\ Len(executed'[x]) = max_executed_slot'[x]
             /\ \A s \in Slots : committed'[x][s] # None => s <= max_committed_slot'[x]
  <2>1. max_committed_slot[x] \in Nat /\ cur_open_slot[x] \in Nat
    BY DEF Types, ServerTypes
  <2>2. max_committed_slot[x] <= Top /\ cur_open_slot[x] <= Top + 1
    BY DEF Types, ServerReach
  <2>3. max_committed_slot[x] <= Top'
    BY <1>0, <2>1, <2>2, SMT
  <2>4. cur_open_slot'[x] <= Top' + 1
    BY <1>0, <1>1, <2>1, <2>2, SMT
  <2> QED BY <2>3, <2>4 DEF Types, ServerReach
<1>5. ServerReach'
  BY <1>4 DEF ServerReach
<1>6. jobs \in [Machines -> SUBSET (Slots \X Logs)]
      /\ jobs' = [jobs EXCEPT ![m] = jobs[m] \cup {<<cur_open_slot[m], log>>}]
  BY DEF OpenSlot, Types, WorkerTypes
<1>7. <<cur_open_slot[m], log>> \in Slots \X Logs
  OBVIOUS
<1>8. jobs' \in [Machines -> SUBSET (Slots \X Logs)]
  BY <1>6, <1>7
<1>9. WorkerTypes'
  BY <1>8 DEF Types, WorkerTypes
<1>10. WorkReach'
  <2>1. ASSUME NEW x \in Machines, NEW j \in jobs'[x] PROVE j[1] <= Top'
    <3>1. CASE j \in jobs[x]
      <4>1. j[1] \in Nat /\ j[1] <= Top
        BY <3>1, <1>6, SlotFacts DEF Types, WorkReach
      <4> QED BY <1>0, <4>1, SMT
    <3>2. CASE j = <<cur_open_slot[m], log>>
      BY <3>2
    <3> QED BY <3>1, <3>2, <1>6
  <2>2. ASSUME NEW c \in accepts' PROVE c.slot <= Top'
    <3>1. c \in Coordinator /\ c.slot <= Top
      BY DEF Types, WorkerTypes, WorkReach
    <3>2. c.slot \in Nat
      BY <3>1, SlotFacts DEF Coordinator
    <3> QED BY <1>0, <3>1, <3>2, SMT
  <2> QED BY <2>1, <2>2 DEF WorkReach
<1> QED BY <1>3, <1>5, <1>9, <1>10

LEMMA LaterRoundReach ==
  ASSUME RoundTypes, RoundReach, round' = round, Top \in Nat, Top' \in Nat, Top <= Top'
  PROVE  RoundTypes' /\ RoundReach'
<1>1. RoundTypes'
  BY DEF RoundTypes
<1>2. ASSUME round'.phase = "synclog", NEW r \in round'.replies, NEW s \in DOMAIN r.cmds
      PROVE  s <= Top'
  <2>1. r \in LogReply /\ s <= Top
    BY <1>2 DEF RoundTypes, RoundReach
  <2>2. r.cmds \in Tables
    BY <2>1 DEF LogReply
  <2>3. s \in Nat
    BY <2>2, TableFacts, SlotFacts
  <2> QED BY <2>1, <2>3, SMT
<1> QED BY <1>1, <1>2 DEF RoundReach

LEMMA AddLogTypes ==
  ASSUME Types, NEW m \in Machines, add_log_to_nc(m) PROVE Types'
<1>1. PICK n : n = submitted[m]
  OBVIOUS
<1>2. /\ submitted \in [Machines -> 0..(OldEntries + NewEntries)] /\ submitted[0] <= OldEntries
      /\ n < IF m = 0 THEN OldEntries ELSE NewEntries
      /\ submitted' = [submitted EXCEPT ![m] = n + 1]
      /\ m = 0 \/ round.phase = "done"
      /\ cur_open_slot[m] \in Slots /\ OpenSlot(m, <<m, n + 1>>)
      /\ round' = round
  BY <1>1 DEF add_log_to_nc, Types, WorkerTypes
<1>3. n \in Nat /\ n + 1 \in 0..(OldEntries + NewEntries) /\ (m = 0 => n + 1 <= OldEntries)
  BY <1>1, <1>2, Constants, SMT
<1>4. submitted' \in [Machines -> 0..(OldEntries + NewEntries)]
  BY <1>2, <1>3
<1>5. submitted'[0] = (IF m = 0 THEN n + 1 ELSE submitted[0]) /\ submitted'[0] <= OldEntries
  BY <1>2, <1>3, Constants
<1>6. <<m, n + 1>> \in Logs
  BY <1>3, LogFacts
<1>7. Top \in Nat /\ Top <= MaxSlot /\ cur_open_slot[m] <= Top + 1
      /\ cur_open_slot[m] \in Nat /\ cur_open_slot[m] <= MaxSlot
  BY <1>2, TopFacts, SlotFacts DEF Types, ServerReach
<1>8. Top' \in Nat /\ Top <= Top' /\ cur_open_slot[m] <= Top'
  <2>1. CASE round.phase = "done"
    <3>1. Top = MaxSlot /\ Top' = MaxSlot
      BY <2>1, <1>2 DEF Top
    <3> QED BY <3>1, <1>7, Constants, SMT
  <2>2. CASE round.phase # "done"
    <3>1. Top = n /\ Top' = n + 1
      BY <2>2, <1>1, <1>2, <1>5 DEF Top
    <3> QED BY <3>1, <1>3, <1>7, SMT
  <2> QED BY <2>1, <2>2
<1>9. UNCHANGED <<cur_epoch, accepted, ballot, committed, max_committed_slot,
                  max_executed_slot, executed, late, leads, accepts>>
  BY DEF add_log_to_nc
<1>10. ServerTypes' /\ ServerReach' /\ WorkerTypes' /\ WorkReach'
  BY <1>2, <1>4, <1>5, <1>6, <1>8, <1>9, OpenSlotTypes
<1>11. NetTypes' /\ Less
  <2>1. UNCHANGED <<up, stream, busy, control>>
    BY DEF add_log_to_nc, netVars
  <2> QED BY <2>1, SameInFlight DEF Types, NetTypes
<1>12. NetReach'
  BY <1>7, <1>8, <1>11, LessReach DEF Types
<1>13. RoundTypes' /\ RoundReach'
  BY <1>2, <1>7, <1>8, LaterRoundReach DEF Types
<1> QED BY <1>10, <1>11, <1>12, <1>13 DEF Types

LEMMA BulkSubmitTypes ==
  ASSUME Types, NEW m \in Machines, BulkSubmit(m) PROVE Types'
<1>1. PICK j \in jobs[m] :
        /\ jobs' = [jobs EXCEPT ![m] = jobs[m] \ {j}]
        /\ accepts' = accepts \cup {[by |-> m, slot |-> j[1], ballot |-> leads[m],
                                     yes |-> {}, refused |-> FALSE]}
        /\ ToAll(m, [kind |-> "accept", by |-> m, slot |-> j[1],
                     ballot |-> leads[m], cmd |-> j[2]])
  BY DEF BulkSubmit
<1>2. /\ UNCHANGED serverVars /\ UNCHANGED <<leads, submitted>> /\ round' = round
      /\ UNCHANGED <<up, busy, control>>
  BY DEF BulkSubmit
<1>3. Top' = Top /\ Top \in Nat /\ Top' \in Nat /\ Top <= Top'
  BY <1>2, SameTop DEF Types
<1>4. j[1] \in Slots /\ j[2] \in Logs /\ j[1] <= Top /\ leads[m] \in Epochs
  BY DEF Types, WorkerTypes, WorkReach
<1>5. PICK msg : msg = [kind |-> "accept", by |-> m, slot |-> j[1], ballot |-> leads[m],
                        cmd |-> j[2]]
  OBVIOUS
<1>6. msg \in Message /\ msg.kind = "accept" /\ msg.slot = j[1]
  BY <1>4, <1>5, AcceptMade
<1>7. Within(msg)
  BY <1>4, <1>6 DEF Within
<1>8. More(msg) /\ stream' \in [Machines -> [Machines -> Seq(Message)]]
  BY <1>1, <1>2, <1>5, <1>6, ToAllInFlight DEF Types
<1>9. NetTypes'
  BY <1>2, <1>8 DEF Types, NetTypes
<1>10. NetReach'
  BY <1>3, <1>6, <1>7, <1>8, MoreReach DEF Types
<1>11. PICK c : c = [by |-> m, slot |-> j[1], ballot |-> leads[m], yes |-> {}, refused |-> FALSE]
  OBVIOUS
<1>12. c \in Coordinator /\ c.slot = j[1]
  BY <1>4, <1>11 DEF Coordinator
<1>13. jobs' \in [Machines -> SUBSET (Slots \X Logs)]
       /\ \A x \in Machines : jobs'[x] \subseteq jobs[x]
  BY <1>1, SMT DEF Types, WorkerTypes
<1>14. WorkerTypes'
  BY <1>1, <1>2, <1>11, <1>12, <1>13 DEF Types, WorkerTypes
<1>15. WorkReach'
  BY <1>1, <1>3, <1>4, <1>11, <1>12, <1>13 DEF Types, WorkReach
<1> QED BY <1>2, <1>3, <1>9, <1>10, <1>14, <1>15, SameServer, SameRound DEF Types

LEMMA CommitTypes ==
  ASSUME Types, NEW c \in accepts, Commit(c) PROVE Types'
<1>1. /\ UNCHANGED serverVars /\ UNCHANGED <<leads, submitted>> /\ round' = round
      /\ UNCHANGED <<up, busy, control, jobs>> /\ accepts' = accepts \ {c}
  BY DEF Commit
<1>2. c.by \in Machines /\ c.slot \in Slots /\ c.ballot \in Epochs /\ c.slot <= Top
  BY DEF Types, WorkerTypes, Coordinator, WorkReach
<1>3. PICK msg : msg = [kind |-> "commit", by |-> c.by, slot |-> c.slot, ballot |-> c.ballot]
  OBVIOUS
<1>4. msg \in Message /\ msg.kind = "commit" /\ msg.slot = c.slot
  BY <1>2, <1>3, CommitMade
<1>5. Within(msg)
  BY <1>2, <1>4 DEF Within
<1>6. ToAll(c.by, msg)
  BY <1>3 DEF Commit
<1>7. More(msg) /\ stream' \in [Machines -> [Machines -> Seq(Message)]]
  BY <1>1, <1>2, <1>4, <1>6, ToAllInFlight DEF Types
<1>8. Top' = Top /\ Top \in Nat /\ Top' \in Nat /\ Top <= Top'
  BY <1>1, SameTop DEF Types
<1>9. NetTypes'
  BY <1>1, <1>7 DEF Types, NetTypes
<1>10. NetReach'
  BY <1>4, <1>5, <1>7, <1>8, MoreReach DEF Types
<1>11. WorkerTypes' /\ WorkReach'
  BY <1>1, <1>8 DEF Types, WorkerTypes, WorkReach
<1> QED BY <1>1, <1>8, <1>9, <1>10, <1>11, SameServer, SameRound DEF Types

(* The stream's handlers. *)

LEMMA ReplyFacts ==
  ASSUME accepts \subseteq Coordinator, NEW msg, NEW d \in Machines, NEW valid \in BOOLEAN
  PROVE  \A x \in Reply(msg, d, valid) :
           /\ x \in Coordinator
           /\ \E c \in accepts : x.by = c.by /\ x.slot = c.slot /\ x.ballot = c.ballot
<1> TAKE x \in Reply(msg, d, valid)
<1>1. PICK c \in accepts :
        x = IF c.by = msg.by /\ c.slot = msg.slot /\ c.ballot = msg.ballot
            THEN [c EXCEPT !.yes = IF valid THEN @ \cup {d} ELSE @, !.refused = @ \/ ~valid]
            ELSE c
  BY DEF Reply
<1>2. c \in Coordinator
  OBVIOUS
<1>3. PICK yes : yes = IF valid THEN c.yes \cup {d} ELSE c.yes
  OBVIOUS
<1>4. PICK refused : refused = (c.refused \/ ~valid)
  OBVIOUS
<1>5. yes \in SUBSET Machines /\ refused \in BOOLEAN
  BY <1>2, <1>3, <1>4 DEF Coordinator
<1>6. CASE x = c
  BY <1>2, <1>6
<1>7. CASE x = [c EXCEPT !.yes = yes, !.refused = refused]
  <2>1. x \in Coordinator
    <3>1. [c EXCEPT !.yes = yes] \in Coordinator
      BY <1>2, <1>5 DEF Coordinator
    <3>2. x = [[c EXCEPT !.yes = yes] EXCEPT !.refused = refused]
      BY <1>2, <1>7, SMT DEF Coordinator
    <3> QED BY <3>1, <3>2, <1>5 DEF Coordinator
  <2>2. x.by = c.by /\ x.slot = c.slot /\ x.ballot = c.ballot
    BY <1>2, <1>7, SMT DEF Coordinator
  <2> QED BY <2>1, <2>2
<1> QED BY <1>1, <1>3, <1>4, <1>6, <1>7

LEMMA ReplyWork ==
  ASSUME WorkerTypes, WorkReach, NEW msg, NEW d \in Machines, NEW valid \in BOOLEAN,
         accepts' = Reply(msg, d, valid), UNCHANGED <<leads, submitted, jobs>>, Top' = Top
  PROVE  WorkerTypes' /\ WorkReach'
<1>1. \A x \in accepts' : x \in Coordinator /\ x.slot <= Top
  BY ReplyFacts DEF WorkerTypes, WorkReach
<1> QED BY <1>1 DEF WorkerTypes, WorkReach

\* Machine d takes the message m sent it first.
LEMMA ReceiveInFlight ==
  ASSUME NetTypes, NEW d \in Machines, cur_epoch[d] \in Epochs, Receive(d)
  PROVE  /\ Less
         /\ NetTypes'
         /\ \E msg \in InFlight(d) :
              /\ msg \in Message
              /\ \/ /\ msg.ballot >= cur_epoch[d]
                    /\ busy' = [busy EXCEPT ![d] = [kind |-> "msg", msg |-> msg,
                                                    epoch |-> cur_epoch[d]]]
                    /\ accepts' = accepts
                 \/ /\ busy' = busy
                    /\ accepts' \in {accepts, Reply(msg, d, FALSE)}
<1>1. PICK m \in Machines :
        /\ stream[m][d] # << >>
        /\ stream' = [stream EXCEPT ![m][d] = Tail(stream[m][d])]
        /\ busy' = IF Head(stream[m][d]).ballot >= cur_epoch[d]
                   THEN [busy EXCEPT ![d] = [kind |-> "msg", msg |-> Head(stream[m][d]),
                                             epoch |-> cur_epoch[d]]]
                   ELSE busy
        /\ accepts' = IF ~(Head(stream[m][d]).ballot >= cur_epoch[d])
                         /\ Head(stream[m][d]).kind = "accept"
                      THEN Reply(Head(stream[m][d]), d, FALSE)
                      ELSE accepts
  BY DEF Receive
<1>2. PICK msg : msg = Head(stream[m][d])
  OBVIOUS
<1>3. PICK q : q = stream[m][d]
  OBVIOUS
<1>4. q \in Seq(Message) /\ q # << >>
  BY <1>1, <1>3 DEF NetTypes
<1>5. /\ msg \in Message /\ 1 \in DOMAIN q /\ msg = q[1] /\ Tail(q) \in Seq(Message)
      /\ \A i \in DOMAIN Tail(q) : i + 1 \in DOMAIN q /\ Tail(q)[i] = q[i + 1]
  BY <1>2, <1>3, <1>4, SMT
<1>6. msg \in InFlight(d)
  BY <1>3, <1>5, InFlightFacts
<1>7. stream' = [stream EXCEPT ![m] = [stream[m] EXCEPT ![d] = Tail(q)]]
  BY <1>1, <1>3
<1>8. stream' \in [Machines -> [Machines -> Seq(Message)]]
  BY <1>5, <1>7 DEF NetTypes
<1>9. \A n, x \in Machines : stream'[n][x] = IF n = m /\ x = d THEN Tail(q) ELSE stream[n][x]
  BY <1>7 DEF NetTypes
<1>10. ASSUME NEW x \in Machines, NEW n \in Machines, NEW i \in DOMAIN stream'[n][x]
       PROVE  stream'[n][x][i] \in InFlight(x)
  <2>1. CASE n = m /\ x = d
    <3>1. stream'[n][x] = Tail(q)
      BY <1>9, <2>1
    <3>2. i + 1 \in DOMAIN q /\ stream'[n][x][i] = q[i + 1]
      BY <3>1, <1>5
    <3> QED BY <3>2, <2>1, <1>3, InFlightFacts
  <2>2. CASE ~(n = m /\ x = d)
    <3>1. stream'[n][x] = stream[n][x]
      BY <1>9, <2>2
    <3> QED BY <3>1, InFlightFacts
  <2> QED BY <2>1, <2>2
<1>11. PICK h : h = [kind |-> "msg", msg |-> msg, epoch |-> cur_epoch[d]]
  OBVIOUS
<1>12. h.msg = msg
  BY <1>11
<1>13. busy' = busy \/ busy' = [busy EXCEPT ![d] = h]
  BY <1>1, <1>2, <1>11
<1>14. ASSUME NEW x \in Machines, busy'[x] # Idle PROVE busy'[x].msg \in InFlight(x)
  <2>1. busy'[x] = busy[x] \/ (x = d /\ busy'[x] = h)
    BY <1>13 DEF NetTypes
  <2> QED BY <2>1, <1>6, <1>12, <1>14, InFlightFacts
<1>15. Less
  <2>1. ASSUME NEW x \in Machines, NEW y \in InFlight(x)' PROVE y \in InFlight(x)
    BY <2>1, <1>10, <1>14, InFlightNext
  <2> QED BY <2>1 DEF Less
<1>16. \/ /\ msg.ballot >= cur_epoch[d]
          /\ busy' = [busy EXCEPT ![d] = h]
          /\ accepts' = accepts
       \/ /\ busy' = busy
          /\ accepts' \in {accepts, Reply(msg, d, FALSE)}
  BY <1>1, <1>2, <1>11
<1>17. up' = up /\ control' = control
  BY DEF Receive
<1> HIDE DEF Receive
<1>18. NetTypes' \/ cur_epoch[d] \notin Epochs
  <2>1. CASE cur_epoch[d] \in Epochs
    <3>1. h \in Handling
      BY <2>1, <1>5, <1>11, HandlingMade
    <3>2. busy' \in [Machines -> Handling \cup {Idle}]
      BY <3>1, <1>13 DEF NetTypes
    <3> QED BY <3>2, <1>8, <1>17 DEF NetTypes
  <2> QED BY <2>1
<1> QED BY <1>5, <1>6, <1>11, <1>15, <1>16, <1>18

LEMMA ReceiveTypes ==
  ASSUME Types, NEW d \in Machines, Receive(d) PROVE Types'
<1>1. cur_epoch[d] \in Epochs
  BY DEF Types, ServerTypes
<1>2. /\ UNCHANGED serverVars /\ UNCHANGED <<leads, submitted, jobs>> /\ round' = round
  BY DEF Receive
<1>3. NetTypes' /\ Less
  BY <1>1, ReceiveInFlight DEF Types
<1>4. \E msg : accepts' \in {accepts, Reply(msg, d, FALSE)}
  <2>1. PICK msg \in InFlight(d) : accepts' \in {accepts, Reply(msg, d, FALSE)}
    BY <1>1, ReceiveInFlight DEF Types
  <2> QED BY <2>1
<1>5. ASSUME Top' = Top PROVE WorkerTypes' /\ WorkReach'
  <2>1. CASE accepts' = accepts
    BY <2>1, <1>2, <1>5 DEF Types, WorkerTypes, WorkReach
  <2>2. CASE accepts' # accepts
    <3>1. PICK msg : accepts' = Reply(msg, d, FALSE)
      BY <2>2, <1>4
    <3> QED BY <3>1, <1>2, <1>5, ReplyWork DEF Types
  <2> QED BY <2>1, <2>2
<1> QED BY <1>2, <1>3, <1>5, QuietTypes

\* The message in the hands of d.
LEMMA HeldMessage ==
  ASSUME NetTypes, NetReach, NEW d \in Machines, busy[d] # Idle
  PROVE  /\ busy[d] \in Handling
         /\ busy[d].msg \in Message /\ busy[d].msg \in InFlight(d)
         /\ busy[d].epoch \in Epochs
         /\ Within(busy[d].msg)
<1>1. busy[d] \in Handling
  BY DEF NetTypes
<1>2. busy[d].msg \in InFlight(d)
  BY InFlightFacts
<1> QED BY <1>1, <1>2, HandlingFacts DEF NetReach

LEMMA RaiseEpochTypes ==
  ASSUME ServerTypes, NetTypes, NetReach, NEW d \in Machines, busy[d] # Idle, RaiseEpoch(d)
  PROVE  cur_epoch' \in [Machines -> Epochs] /\ late' \in BOOLEAN
<1>1. busy[d].msg.ballot \in Epochs
  BY HeldMessage, MessageFacts
<1>2. cur_epoch' \in [Machines -> Epochs]
  BY <1>1 DEF RaiseEpoch, ServerTypes
<1>3. late' \in BOOLEAN
  BY DEF RaiseEpoch
<1> QED BY <1>2, <1>3

LEMMA OnBulkAcceptTypes ==
  ASSUME Types, NEW d \in Machines, OnBulkAccept(d) PROVE Types'
<1>1. PICK msg : msg = busy[d].msg
  OBVIOUS
<1>2. /\ busy[d] # Idle /\ msg.kind = "accept" /\ RaiseEpoch(d)
      /\ accepted' = [accepted EXCEPT ![d] = [accepted[d] EXCEPT ![msg.slot] = msg.cmd]]
      /\ ballot' = [ballot EXCEPT ![d] = [ballot[d] EXCEPT ![msg.slot] = msg.ballot]]
      /\ accepts' = Reply(msg, d, TRUE)
      /\ busy' = [busy EXCEPT ![d] = Idle]
  BY <1>1 DEF OnBulkAccept
<1>3. /\ UNCHANGED <<up, committed, max_committed_slot, max_executed_slot, cur_open_slot,
                     executed, leads, submitted, jobs, stream, control>>
      /\ round' = round
  BY DEF OnBulkAccept
<1>4. msg \in Message /\ msg.ballot \in Epochs /\ msg.slot \in Slots /\ msg.cmd \in Entries
  BY <1>1, <1>2, HeldMessage, MessageFacts, EntryFacts DEF Types
<1>5. ServerTypes'
  <2>1. cur_epoch' \in [Machines -> Epochs] /\ late' \in BOOLEAN
    BY <1>2, RaiseEpochTypes DEF Types
  <2>2. accepted' \in [Machines -> [Slots -> Entries]]
    BY <1>2, <1>4 DEF Types, ServerTypes
  <2>3. ballot' \in [Machines -> [Slots -> Epochs]]
    BY <1>2, <1>4 DEF Types, ServerTypes
  <2> QED BY <2>1, <2>2, <2>3, <1>3 DEF Types, ServerTypes
<1>6. Top' = Top /\ Top \in Nat /\ Top' \in Nat /\ Top <= Top'
  BY <1>3, SameTop DEF Types
<1>7. ServerReach'
  BY <1>3, <1>6 DEF Types, ServerReach
<1>8. Less /\ busy' \in [Machines -> Handling \cup {Idle}]
  BY <1>2, <1>3, HandledInFlight DEF Types
<1>9. NetTypes'
  BY <1>3, <1>8 DEF Types, NetTypes
<1>10. NetReach'
  BY <1>6, <1>8, LessReach DEF Types
<1>11. WorkerTypes' /\ WorkReach'
  BY <1>2, <1>3, <1>6, ReplyWork DEF Types
<1> QED BY <1>3, <1>5, <1>6, <1>7, <1>9, <1>10, <1>11, SameRound DEF Types

\* What a commit of coms up to top leaves of the servers' types.
LEMMA CommitAllTypes ==
  ASSUME ServerTypes, ServerReach, WorkerTypes, NEW d \in Machines,
         NEW coms \in [Slots -> Entries], NEW top \in Nat, top <= Top, Top' = Top,
         \A s \in Slots : coms[s] # None => committed[d][s] # None \/ s <= top,
         CommitAll(d, coms, top), UNCHANGED <<accepted, cur_open_slot>>,
         ballot' \in [Machines -> [Slots -> Epochs]],
         cur_epoch' \in [Machines -> Epochs], late' \in BOOLEAN
  PROVE  ServerTypes' /\ ServerReach'
<1>1. PICK h : h = Highest(d, top)
  OBVIOUS
<1>2. /\ committed' = [committed EXCEPT ![d] = coms]
      /\ committed' \in [Machines -> [Slots -> Entries]]
      /\ max_committed_slot' = [max_committed_slot EXCEPT ![d] = h]
      /\ max_committed_slot' \in [Machines -> Nat]
      /\ h \in Nat /\ max_committed_slot[d] <= h /\ top <= h /\ h <= Top
      /\ executed' \in [Machines -> Seq(Logs)]
      /\ max_executed_slot' \in [Machines -> Nat]
      /\ max_executed_slot'[d] <= h
      /\ \A m \in Machines : Len(executed'[m]) = max_executed_slot'[m]
      /\ \A m \in Machines : m # d => max_executed_slot'[m] = max_executed_slot[m]
  BY <1>1, CommitAllFacts
<1>3. ServerTypes'
  BY <1>2 DEF ServerTypes
<1>4. ASSUME NEW m \in Machines
      PROVE  /\ max_executed_slot'[m] <= max_committed_slot'[m]
             /\ max_committed_slot'[m] <= Top
             /\ cur_open_slot'[m] <= Top + 1
             /\ \A s \in Slots : committed'[m][s] # None => s <= max_committed_slot'[m]
  <2>1. CASE m = d
    <3>1. max_committed_slot'[d] = h /\ committed'[d] = coms
      BY <1>2 DEF ServerTypes
    <3>2. ASSUME NEW s \in Slots, coms[s] # None PROVE s <= h
      <4>1. s <= max_committed_slot[d] \/ s <= top
        BY <3>2 DEF ServerReach
      <4>2. s \in Nat /\ max_committed_slot[d] \in Nat
        BY SlotFacts DEF ServerTypes
      <4> QED BY <4>1, <4>2, <1>2, SMT
    <3> QED BY <2>1, <3>1, <3>2, <1>2 DEF ServerReach
  <2>2. CASE m # d
    <3>1. /\ max_committed_slot'[m] = max_committed_slot[m] /\ committed'[m] = committed[m]
          /\ max_executed_slot'[m] = max_executed_slot[m]
      BY <2>2, <1>2 DEF ServerTypes
    <3> QED BY <3>1 DEF ServerReach
  <2> QED BY <2>1, <2>2
<1>5. ServerReach'
  BY <1>2, <1>4 DEF ServerReach
<1> QED BY <1>3, <1>5

\* A handler that ends in a verify(0): the server keeps what it has.
LEMMA DownTypes ==
  ASSUME Types, NEW d \in Machines, Down(d), cur_epoch' \in [Machines -> Epochs],
         late' \in BOOLEAN, round' = round,
         UNCHANGED <<accepted, ballot, committed, max_committed_slot, max_executed_slot,
                     cur_open_slot, executed, leads, submitted>>
  PROVE  Types'
<1>1. Top' = Top /\ Top \in Nat /\ Top' \in Nat /\ Top <= Top'
  BY SameTop DEF Types
<1>2. ServerTypes' /\ ServerReach'
  BY <1>1 DEF Types, ServerTypes, ServerReach
<1>3. WorkerTypes' /\ WorkReach'
  BY <1>1, DownWork DEF Types
<1>4. NetTypes' /\ Less
  BY DownInFlight DEF Types
<1> QED BY <1>1, <1>2, <1>3, <1>4, LessReach, SameRound DEF Types

LEMMA OnBulkCommitTypes ==
  ASSUME Types, NEW d \in Machines, OnBulkCommit(d) PROVE Types'
<1>1. PICK msg : msg = busy[d].msg
  OBVIOUS
<1>2. /\ busy[d] # Idle /\ msg.kind = "commit" /\ RaiseEpoch(d)
      /\ UNCHANGED <<accepted, ballot, cur_open_slot, leads, submitted>> /\ round' = round
  BY <1>1 DEF OnBulkCommit
<1>3. msg \in Message /\ msg.slot \in Slots /\ msg.slot <= Top
  BY <1>1, <1>2, HeldMessage, MessageFacts DEF Types, Within
<1>4. cur_epoch' \in [Machines -> Epochs] /\ late' \in BOOLEAN
  BY <1>2, RaiseEpochTypes DEF Types
<1>5. CASE ballot[d][msg.slot] = msg.ballot
  <2>1. PICK coms : coms = [committed[d] EXCEPT ![msg.slot] = accepted[d][msg.slot]]
    OBVIOUS
  <2>2. /\ CommitAll(d, coms, msg.slot) /\ busy' = [busy EXCEPT ![d] = Idle]
        /\ UNCHANGED <<up, jobs, accepts, stream, control>>
    BY <1>1, <1>5, <2>1 DEF OnBulkCommit
  <2>3. coms \in [Slots -> Entries]
    BY <2>1, <1>3 DEF Types, ServerTypes
  <2>4. msg.slot \in Nat
    BY <1>3, SlotFacts
  <2>5. \A s \in Slots : coms[s] # None => committed[d][s] # None \/ s <= msg.slot
    <3> TAKE s \in Slots
    <3>1. CASE s = msg.slot
      BY <3>1, <2>4, SMT
    <3>2. CASE s # msg.slot
      <4>1. coms[s] = committed[d][s]
        BY <3>2, <2>1 DEF Types, ServerTypes
      <4> QED BY <4>1
    <3> QED BY <3>1, <3>2
  <2>6. Top' = Top /\ Top \in Nat /\ Top' \in Nat /\ Top <= Top'
    BY <1>2, SameTop DEF Types
  <2>7. ballot' \in [Machines -> [Slots -> Epochs]]
    BY <1>2 DEF Types, ServerTypes
  <2>8. ServerTypes' /\ ServerReach'
    BY <1>2, <1>3, <1>4, <2>2, <2>3, <2>4, <2>5, <2>6, <2>7, CommitAllTypes DEF Types
  <2>9. Less /\ busy' \in [Machines -> Handling \cup {Idle}]
    BY <2>2, HandledInFlight DEF Types
  <2>10. NetTypes'
    BY <2>2, <2>9 DEF Types, NetTypes
  <2>11. WorkerTypes' /\ WorkReach'
    BY <1>2, <2>2, <2>6 DEF Types, WorkerTypes, WorkReach
  <2> QED BY <1>2, <2>6, <2>8, <2>9, <2>10, <2>11, LessReach, SameRound DEF Types
<1>6. CASE ballot[d][msg.slot] # msg.ballot
  <2>1. Down(d) /\ UNCHANGED <<committed, max_committed_slot, max_executed_slot, executed>>
    BY <1>1, <1>6 DEF OnBulkCommit
  <2> QED BY <1>2, <1>4, <2>1, DownTypes
<1> QED BY <1>5, <1>6

LEMMA OnSyncCommitTypes ==
  ASSUME Types, NEW d \in Machines, OnSyncCommit(d) PROVE Types'
<1>1. PICK msg : msg = busy[d].msg
  OBVIOUS
<1>2. PICK slots : slots = DOMAIN msg.cmds
  OBVIOUS
<1>3. /\ busy[d] # Idle /\ msg.kind = "sync" /\ RaiseEpoch(d)
      /\ UNCHANGED <<accepted, cur_open_slot, leads, submitted>>
  BY <1>1 DEF OnSyncCommit
<1>4. msg \in Message /\ Within(msg)
  BY <1>1, <1>3, HeldMessage DEF Types
<1>5. msg.cmds \in Tables /\ msg.ballot \in Epochs
  BY <1>3, <1>4, MessageFacts
<1>6. slots \subseteq Slots /\ slots # {} /\ (\A s \in slots : msg.cmds[s] \in Logs /\ s <= Top)
  BY <1>2, <1>3, <1>4, <1>5, TableFacts DEF Within
<1>7. cur_epoch' \in [Machines -> Epochs] /\ late' \in BOOLEAN
  BY <1>3, RaiseEpochTypes DEF Types
<1>8. CASE \A s \in slots : ballot[d][s] <= msg.ballot
  <2>1. PICK coms : coms = [s \in Slots |-> IF s \in slots THEN msg.cmds[s] ELSE committed[d][s]]
    OBVIOUS
  <2>2. PICK top : top = CHOOSE s \in slots : \A t \in slots : t <= s
    OBVIOUS
  <2>3. top \in slots /\ \A t \in slots : t <= top
    BY <2>2, <1>6, LastSlot
  <2>4. /\ ballot' = [ballot EXCEPT ![d] =
                        [s \in Slots |-> IF s \in slots THEN msg.ballot ELSE ballot[d][s]]]
        /\ CommitAll(d, coms, top) /\ busy' = [busy EXCEPT ![d] = Idle]
        /\ UNCHANGED <<up, jobs, accepts, stream, control>>
        /\ round' = [round EXCEPT !.replies =
                       IF round.phase = "commit" THEN @ \cup {[from |-> d]} ELSE @]
    BY <1>1, <1>2, <1>8, <2>1, <2>2 DEF OnSyncCommit
  <2>5. top \in Nat /\ top <= Top
    BY <2>3, <1>6, SlotFacts
  <2>6. coms \in [Slots -> Entries]
    BY <2>1, <1>6, EntryFacts DEF Types, ServerTypes
  <2>7. \A s \in Slots : coms[s] # None => committed[d][s] # None \/ s <= top
    BY <2>1, <2>3
  <2>8. ballot' \in [Machines -> [Slots -> Epochs]]
    BY <2>4, <1>5 DEF Types, ServerTypes
  <2>9. /\ round' \in Rounds /\ round'.phase = round.phase /\ round'.by = round.by
        /\ round'.replies \subseteq round.replies \cup {[from |-> d]}
        /\ round.phase # "commit" => round'.replies = round.replies
    <3>1. [from |-> d] \in Plain
      BY DEF Plain
    <3> QED BY <2>4, <3>1 DEF Types, RoundTypes, Rounds
  <2>10. Top' = Top /\ Top \in Nat /\ Top' \in Nat /\ Top <= Top'
    BY <1>3, <2>9, SameTop DEF Types
  <2>11. ServerTypes' /\ ServerReach'
    BY <1>3, <1>7, <2>4, <2>5, <2>6, <2>7, <2>8, <2>10, CommitAllTypes DEF Types
  <2>12. Less /\ busy' \in [Machines -> Handling \cup {Idle}]
    BY <2>4, HandledInFlight DEF Types
  <2>13. NetTypes'
    BY <2>4, <2>12 DEF Types, NetTypes
  <2>14. WorkerTypes' /\ WorkReach'
    BY <1>3, <2>4, <2>10 DEF Types, WorkerTypes, WorkReach
  <2>15. RoundTypes'
    <3>1. [from |-> d] \in Plain
      BY DEF Plain
    <3> QED BY <2>9, <3>1 DEF Types, RoundTypes
  <2>16. RoundReach'
    BY <2>9, <2>10 DEF Types, RoundReach
  <2> QED BY <2>10, <2>11, <2>12, <2>13, <2>14, <2>15, <2>16, LessReach DEF Types
<1>9. CASE ~(\A s \in slots : ballot[d][s] <= msg.ballot)
  <2>1. /\ Down(d) /\ round' = round
        /\ UNCHANGED <<ballot, committed, max_committed_slot, max_executed_slot, executed>>
    BY <1>1, <1>2, <1>9 DEF OnSyncCommit
  <2> QED BY <1>3, <1>7, <2>1, DownTypes
<1> QED BY <1>8, <1>9

(* The election's messages. *)

LEMMA ToControlTypes ==
  ASSUME NetTypes, NEW msg \in Control, ToControl(msg)
  PROVE  control' \in [Machines -> Seq(Control)]
BY SMT DEF NetTypes, ToControl

LEMMA ControlMade ==
  /\ [kind |-> "prepare"] \in Control
  /\ \A n \in Nat \ {0} : [kind |-> "synclog", slot |-> n] \in Control
                         /\ [kind |-> "noops", slot |-> n] \in Control
BY SMT DEF Control

LEMMA ControlHead ==
  ASSUME NetTypes, NEW d \in Machines, control[d] # << >>
  PROVE  /\ Head(control[d]) \in Control /\ Tail(control[d]) \in Seq(Control)
         /\ Head(control[d]).kind \in {"synclog", "noops"} =>
              Head(control[d]).slot \in Nat \ {0}
<1>1. control[d] \in Seq(Control)
  BY DEF NetTypes
<1>2. Head(control[d]) \in Control /\ Tail(control[d]) \in Seq(Control)
  BY <1>1, SMT
<1>3. PICK h : h = Head(control[d])
  OBVIOUS
<1>4. h \in Control /\ h.kind \in {"synclog", "noops"} => h.slot \in Nat \ {0}
  BY SMT DEF Control
<1> QED BY <1>2, <1>3, <1>4

\* A step of the election that adds replies to the current round, or starts
\* another, and leaves the servers and the workers alone.
LEMMA ElectionTypes ==
  ASSUME Types, NetTypes', UNCHANGED <<stream, busy>>, RoundTypes',
         round.phase = "done" <=> round'.phase = "done", UNCHANGED submitted,
         ServerTypes', WorkerTypes', Top' = Top => RoundReach',
         UNCHANGED <<jobs, accepts, max_committed_slot, max_executed_slot, executed, committed>>,
         \A m \in Machines : cur_open_slot'[m] <= cur_open_slot[m]
                             \/ cur_open_slot'[m] = max_committed_slot[m] + 1
  PROVE  Types'
<1>1. Top' = Top /\ Top \in Nat /\ Top' \in Nat /\ Top <= Top'
  BY SameTop DEF Types
<1>2. Less
  BY SameInFlight
<1>3. NetReach'
  BY <1>1, <1>2, LessReach DEF Types
<1>4. WorkReach'
  BY <1>1 DEF Types, WorkReach
<1>5. \A m \in Machines : cur_open_slot'[m] <= Top + 1
  <2> TAKE m \in Machines
  <2>1. cur_open_slot[m] \in Nat /\ cur_open_slot'[m] \in Nat /\ max_committed_slot[m] \in Nat
    BY DEF Types, ServerTypes
  <2>2. cur_open_slot[m] <= Top + 1 /\ max_committed_slot[m] <= Top
    BY DEF Types, ServerReach
  <2> QED BY <1>1, <2>1, <2>2, SMT
<1>6. ServerReach'
  BY <1>1, <1>5 DEF Types, ServerReach
<1> QED BY <1>1, <1>3, <1>4, <1>6 DEF Types

LEMMA SendBulkPrepTypes ==
  ASSUME Types, NEW m \in Machines, SendBulkPrep(m) PROVE Types'
<1>1. /\ m \in Electors /\ round.by = NoOne
      /\ round' = [by |-> m, phase |-> "prepare", waits |-> TRUE, replies |-> {}]
      /\ ToControl([kind |-> "prepare"])
      /\ UNCHANGED <<up, stream, busy>> /\ UNCHANGED serverVars /\ UNCHANGED workerVars
  BY DEF SendBulkPrep, Elected
<1>2. round' \in Rounds /\ round'.phase = "prepare" /\ round'.by = m /\ round'.replies = {}
  BY <1>1, SMT DEF Rounds, Phases
<1>3. RoundTypes'
  BY <1>1, <1>2, Constants DEF RoundTypes
<1>4. round.phase = "none"
  BY <1>1 DEF Types, RoundTypes
<1>5. control' \in [Machines -> Seq(Control)]
  BY <1>1, ControlMade, ToControlTypes DEF Types
<1>6. NetTypes'
  BY <1>1, <1>5 DEF Types, NetTypes
<1>7. ServerTypes' /\ \A x \in Machines : cur_open_slot'[x] <= cur_open_slot[x]
  <2>1. \A x \in Machines : cur_open_slot[x] \in Nat
    BY DEF Types, ServerTypes
  <2> QED BY <1>1, <2>1, SMT DEF Types, ServerTypes, serverVars
<1>8. WorkerTypes'
  BY <1>1 DEF Types, WorkerTypes, workerVars
<1>9. RoundReach'
  BY <1>2 DEF RoundReach
<1>10. UNCHANGED <<jobs, accepts, max_committed_slot, max_executed_slot, executed, committed,
                   submitted>>
  BY <1>1 DEF serverVars, workerVars
<1> QED BY <1>1, <1>2, <1>3, <1>4, <1>6, <1>7, <1>8, <1>9, <1>10, ElectionTypes

\* A machine's reply to the current round.
LEMMA OneReply ==
  ASSUME RoundTypes, NEW d \in Machines, NEW phase \in Phases \ {"synclog"},
         round' = [round EXCEPT !.replies =
                     IF round.phase = phase THEN @ \cup {[from |-> d]} ELSE @]
  PROVE  /\ RoundTypes' /\ round'.phase = round.phase /\ round'.by = round.by
         /\ round'.waits = round.waits
         /\ round'.replies = IF round.phase = phase THEN round.replies \cup {[from |-> d]}
                             ELSE round.replies
<1>1. [from |-> d] \in Plain
  BY DEF Plain
<1>2. round \in Rounds
  BY DEF RoundTypes
<1>3. PICK rs : rs = IF round.phase = phase THEN round.replies \cup {[from |-> d]}
                     ELSE round.replies
  OBVIOUS
<1>4. round' = [round EXCEPT !.replies = rs]
  BY <1>3
<1>5. rs \in SUBSET (LogReply \cup Plain)
  BY <1>1, <1>2, <1>3 DEF Rounds
<1>6. /\ round' \in Rounds /\ round'.phase = round.phase /\ round'.by = round.by
      /\ round'.waits = round.waits /\ round'.replies = rs
  BY <1>2, <1>4, <1>5 DEF Rounds
<1>7. rs \subseteq IF round.phase = "synclog" THEN LogReply ELSE Plain
  BY <1>1, <1>3 DEF RoundTypes
<1> QED BY <1>3, <1>6, <1>7 DEF RoundTypes

LEMMA OnBulkPrepareTypes ==
  ASSUME Types, NEW d \in Machines, OnBulkPrepare(d) PROVE Types'
<1>1. /\ control[d] # << >> /\ control' = [control EXCEPT ![d] = Tail(control[d])]
      /\ cur_epoch' = [cur_epoch EXCEPT ![d] = NextEpoch]
      /\ round' = [round EXCEPT !.replies =
                     IF round.phase = "prepare" THEN @ \cup {[from |-> d]} ELSE @]
      /\ UNCHANGED <<up, stream, busy>> /\ UNCHANGED workerVars
      /\ UNCHANGED <<accepted, ballot, committed, max_committed_slot, max_executed_slot,
                     cur_open_slot, executed, late>>
  BY DEF OnBulkPrepare
<1>2. /\ RoundTypes' /\ round'.phase = round.phase
      /\ round.phase # "prepare" => round'.replies = round.replies
  <2>1. "prepare" \in Phases \ {"synclog"}
    BY DEF Phases
  <2> QED BY <1>1, <2>1, OneReply DEF Types
<1>3. control' \in [Machines -> Seq(Control)]
  BY <1>1, ControlHead DEF Types, NetTypes
<1>4. NetTypes'
  BY <1>1, <1>3 DEF Types, NetTypes
<1>5. cur_epoch' \in [Machines -> Epochs]
  BY <1>1, EpochFacts DEF Types, ServerTypes
<1>6. ServerTypes' /\ \A x \in Machines : cur_open_slot'[x] <= cur_open_slot[x]
  <2>1. \A x \in Machines : cur_open_slot[x] \in Nat
    BY DEF Types, ServerTypes
  <2> QED BY <1>1, <1>5, <2>1, SMT DEF Types, ServerTypes
<1>7. WorkerTypes' /\ UNCHANGED <<jobs, accepts, submitted>>
  BY <1>1 DEF Types, WorkerTypes, workerVars
<1>8. Top' = Top => RoundReach'
  BY <1>2 DEF Types, RoundReach
<1> QED BY <1>1, <1>2, <1>4, <1>6, <1>7, <1>8, ElectionTypes

LEMMA OnSyncLogTypes ==
  ASSUME Types, NEW d \in Machines, OnSyncLog(d) PROVE Types'
<1>1. PICK slot : slot = Head(control[d]).slot
  OBVIOUS
<1>2. PICK has : has = {s \in slot..max_committed_slot[d] : committed[d][s] # None}
  OBVIOUS
<1>3. PICK missing : missing = {s \in max_executed_slot[d]..(slot - 1) :
                                  s \in Slots /\ committed[d][s] = None}
  OBVIOUS
<1>4. PICK r : r = [from |-> d, cmds |-> [s \in has |-> committed[d][s]], missing |-> missing]
  OBVIOUS
<1>5. /\ control[d] # << >> /\ Head(control[d]).kind = "synclog"
      /\ control' = [control EXCEPT ![d] = Tail(control[d])]
      /\ round' = [round EXCEPT !.replies =
                     IF round.phase = "synclog" THEN @ \cup {r} ELSE @]
      /\ UNCHANGED serverVars /\ UNCHANGED workerVars /\ UNCHANGED <<up, stream, busy>>
  BY <1>1, <1>2, <1>3, <1>4 DEF OnSyncLog
<1>6. slot \in Nat \ {0}
  BY <1>1, <1>5, ControlHead DEF Types
<1>7. max_committed_slot[d] \in Nat /\ max_committed_slot[d] <= Top /\ Top \in Nat
      /\ Top <= MaxSlot
  BY TopFacts DEF Types, ServerTypes, ServerReach
<1>8. \A s \in has : s \in Slots /\ committed[d][s] # None /\ s <= Top
  <2> TAKE s \in has
  <2>1. s \in slot..max_committed_slot[d] /\ committed[d][s] # None
    BY <1>2
  <2>2. s \in Nat /\ 1 <= s /\ s <= MaxSlot /\ s <= Top
    BY <2>1, <1>6, <1>7, Constants, SMT
  <2> QED BY <2>1, <2>2, SlotFacts
<1>9. [s \in has |-> committed[d][s]] \in [has -> Logs]
  <2>1. \A s \in has : committed[d][s] \in Logs
    BY <1>8, EntryFacts DEF Types, ServerTypes
  <2> QED BY <2>1
<1>10. r.cmds \in Tables /\ DOMAIN r.cmds = has /\ missing \subseteq Slots
  <2>1. r.cmds \in Tables
    BY <1>4, <1>8, <1>9, TableMade
  <2> QED BY <2>1, <1>3, <1>4
<1>11. r \in LogReply
  BY <1>4, <1>10 DEF LogReply
<1>12. /\ round' \in Rounds /\ round'.phase = round.phase /\ round'.by = round.by
       /\ round'.replies = IF round.phase = "synclog" THEN round.replies \cup {r}
                           ELSE round.replies
  BY <1>5, <1>11 DEF Types, RoundTypes, Rounds
<1>13. RoundTypes'
  BY <1>11, <1>12 DEF Types, RoundTypes
<1>14. Top' = Top => RoundReach'
  BY <1>8, <1>10, <1>12 DEF Types, RoundReach
<1>15. control' \in [Machines -> Seq(Control)]
  BY <1>5, ControlHead DEF Types, NetTypes
<1>16. NetTypes'
  BY <1>5, <1>15 DEF Types, NetTypes
<1>17. ServerTypes' /\ \A x \in Machines : cur_open_slot'[x] <= cur_open_slot[x]
  <2>1. \A x \in Machines : cur_open_slot[x] \in Nat
    BY DEF Types, ServerTypes
  <2> QED BY <1>5, <2>1, SMT DEF Types, ServerTypes, serverVars
<1>18. WorkerTypes'
  BY <1>5 DEF Types, WorkerTypes, workerVars
<1>19. UNCHANGED <<jobs, accepts, max_committed_slot, max_executed_slot, executed, committed,
                   submitted>>
  BY <1>5 DEF serverVars, workerVars
<1> QED BY <1>5, <1>12, <1>13, <1>14, <1>16, <1>17, <1>18, <1>19, ElectionTypes

\* OnSyncNoOps without a verify(0): what is left is executed.
LEMMA NoOpsExecuted ==
  ASSUME Types, NEW d \in Machines, NEW coms,
         \A s \in (max_executed_slot[d] + 1)..max_committed_slot[d] : coms[s] \in Logs,
         Execute(d, coms, max_committed_slot[d]),
         cur_open_slot' = [cur_open_slot EXCEPT ![d] = max_committed_slot[d] + 1],
         UNCHANGED <<cur_epoch, accepted, ballot, committed, max_committed_slot, late>>,
         Top' = Top
  PROVE  ServerTypes' /\ ServerReach'
<1>1. PICK max : max = max_committed_slot[d]
  OBVIOUS
<1>2. max \in Nat /\ max_executed_slot[d] <= max /\ max <= Top /\ Top \in Nat
  BY <1>1, TopFacts DEF Types, ServerTypes, ServerReach
<1>3. \A m \in Machines : Len(executed[m]) = max_executed_slot[m]
  BY DEF Types, ServerReach
<1>4. /\ executed' \in [Machines -> Seq(Logs)]
      /\ max_executed_slot' \in [Machines -> Nat]
      /\ max_executed_slot'[d] = max
      /\ \A m \in Machines : Len(executed'[m]) = max_executed_slot'[m]
      /\ \A m \in Machines : m # d => max_executed_slot'[m] = max_executed_slot[m]
  BY <1>1, <1>2, <1>3, ExecuteFacts DEF Types
<1>5. cur_open_slot' \in [Machines -> Nat \ {0}] /\ cur_open_slot'[d] <= Top + 1
      /\ \A m \in Machines : m # d => cur_open_slot'[m] = cur_open_slot[m]
  BY <1>1, <1>2, SMT DEF Types, ServerTypes
<1>6. ServerTypes'
  BY <1>4, <1>5 DEF Types, ServerTypes
<1>7. \A m \in Machines : max_executed_slot'[m] <= max_committed_slot'[m]
                          /\ cur_open_slot'[m] <= Top + 1
  <2> TAKE m \in Machines
  <2>1. CASE m = d
    BY <2>1, <1>1, <1>2, <1>4, <1>5, SMT
  <2>2. CASE m # d
    BY <2>2, <1>4, <1>5 DEF Types, ServerReach
  <2> QED BY <2>1, <2>2
<1>8. ServerReach'
  BY <1>4, <1>7 DEF Types, ServerReach
<1> QED BY <1>6, <1>8

LEMMA OnSyncNoOpsTypes ==
  ASSUME Types, NEW d \in Machines, OnSyncNoOps(d) PROVE Types'
<1>1. PICK slot : slot = Head(control[d]).slot
  OBVIOUS
<1>2. PICK max : max = max_committed_slot[d]
  OBVIOUS
<1>3. PICK coms : coms = [s \in Slots |-> IF s \in slot..max /\ committed[d][s] = None
                                          THEN NoOp ELSE committed[d][s]]
  OBVIOUS
<1>4. /\ control[d] # << >> /\ Head(control[d]).kind = "noops"
      /\ UNCHANGED <<cur_epoch, accepted, ballot, committed, max_committed_slot, late,
                     leads, submitted>>
  BY DEF OnSyncNoOps
<1>5. CASE /\ slot > max_executed_slot[d]
           /\ \A s \in (max_executed_slot[d] + 1)..max : coms[s] \notin {None, NoOp}
  <2>1. /\ Execute(d, coms, max)
        /\ cur_open_slot' = [cur_open_slot EXCEPT ![d] = max + 1]
        /\ control' = [control EXCEPT ![d] = Tail(control[d])]
        /\ round' = [round EXCEPT !.replies =
                       IF round.phase = "noops" THEN @ \cup {[from |-> d]} ELSE @]
        /\ UNCHANGED <<up, jobs, busy, accepts, stream>>
    BY <1>1, <1>2, <1>3, <1>5 DEF OnSyncNoOps
  <2>2. /\ RoundTypes' /\ round'.phase = round.phase
        /\ round.phase # "noops" => round'.replies = round.replies
    <3>1. "noops" \in Phases \ {"synclog"}
      BY DEF Phases
    <3> QED BY <2>1, <3>1, OneReply DEF Types
  <2>3. Top' = Top /\ Top \in Nat /\ Top' \in Nat /\ Top <= Top'
    BY <1>4, <2>2, SameTop DEF Types
  <2>4. max \in Nat /\ max <= MaxSlot /\ max_executed_slot[d] \in Nat
    <3>1. max \in Nat /\ max_executed_slot[d] \in Nat /\ max <= Top /\ Top <= MaxSlot
      BY <1>2, TopFacts DEF Types, ServerTypes, ServerReach
    <3> QED BY <3>1, <2>3, Constants, SMT
  <2>5. \A s \in (max_executed_slot[d] + 1)..max : coms[s] \in Logs
    <3> TAKE s \in (max_executed_slot[d] + 1)..max
    <3>1. s \in Slots
      BY <2>4, SlotFacts, Constants, SMT
    <3>2. coms[s] \in {NoOp, committed[d][s]} /\ coms[s] \notin {None, NoOp}
      BY <3>1, <1>3, <1>5
    <3>3. committed[d][s] \in Entries
      BY <3>1 DEF Types, ServerTypes
    <3> QED BY <3>2, <3>3, EntryFacts
  <2>6. ServerTypes' /\ ServerReach'
    BY <1>2, <1>4, <2>1, <2>3, <2>5, NoOpsExecuted
  <2>7. control' \in [Machines -> Seq(Control)]
    BY <1>4, <2>1, ControlHead DEF Types, NetTypes
  <2>8. NetTypes' /\ Less
    BY <2>1, <2>7, SameInFlight DEF Types, NetTypes
  <2>9. WorkerTypes' /\ WorkReach'
    BY <1>4, <2>1, <2>3 DEF Types, WorkerTypes, WorkReach
  <2>10. RoundReach'
    BY <2>2, <2>3 DEF Types, RoundReach
  <2> QED BY <2>2, <2>3, <2>6, <2>8, <2>9, <2>10, LessReach DEF Types
<1>6. CASE ~(/\ slot > max_executed_slot[d]
             /\ \A s \in (max_executed_slot[d] + 1)..max : coms[s] \notin {None, NoOp})
  <2>1. /\ Down(d) /\ UNCHANGED <<executed, max_executed_slot, cur_open_slot>>
        /\ round' = round
    BY <1>1, <1>2, <1>3, <1>6 DEF OnSyncNoOps
  <2>2. cur_epoch' \in [Machines -> Epochs] /\ late' \in BOOLEAN
    BY <1>4 DEF Types, ServerTypes
  <2> QED BY <1>4, <2>1, <2>2, DownTypes
<1> QED BY <1>5, <1>6

(* The elected machine. *)

\* The elected machine goes on to another phase.
LEMMA NextPhase ==
  ASSUME RoundTypes, round.phase # "none", NEW phase \in Phases \ {"none"}, NEW waits \in BOOLEAN,
         NEW new,
         new = [by |-> round.by, phase |-> phase, waits |-> waits, replies |-> {}]
  PROVE  /\ new \in Rounds /\ new.by = round.by /\ new.phase = phase /\ new.waits = waits
         /\ new.replies = {}
         /\ round.by \in Machines /\ round.by # NoOne
<1>1. round.by \in Electors /\ round.by # NoOne
  BY DEF RoundTypes, Rounds
<1> QED BY <1>1, Constants DEF Rounds

LEMMA ElectedIs ==
  ASSUME RoundTypes, round.phase # "none"
  PROVE  round.by \in Machines /\ round.by \in Electors /\ round.by # NoOne /\ round.by # 0
BY Constants DEF RoundTypes, Rounds

LEMMA WaitTypes ==
  ASSUME Types, Wait PROVE Types'
<1>1. /\ round' = [round EXCEPT !.waits = TRUE] /\ UNCHANGED <<up, crashes>>
      /\ UNCHANGED serverVars /\ UNCHANGED workerVars /\ UNCHANGED netVars
  BY DEF Wait
<1>2. /\ round' \in Rounds /\ round'.by = round.by /\ round'.phase = round.phase
      /\ round'.replies = round.replies
  BY <1>1 DEF Types, RoundTypes, Rounds
<1>3. RoundTypes' /\ (Top' = Top => RoundReach')
  BY <1>2 DEF Types, RoundTypes, RoundReach
<1>4. NetTypes' /\ UNCHANGED <<stream, busy>>
  BY <1>1 DEF Types, NetTypes, netVars
<1>5. ServerTypes' /\ \A x \in Machines : cur_open_slot'[x] <= cur_open_slot[x]
  <2>1. \A x \in Machines : cur_open_slot[x] \in Nat
    BY DEF Types, ServerTypes
  <2> QED BY <1>1, <2>1, SMT DEF Types, ServerTypes, serverVars
<1>6. WorkerTypes' /\ UNCHANGED <<jobs, accepts, submitted>>
  BY <1>1 DEF Types, WorkerTypes, workerVars
<1>7. UNCHANGED <<max_committed_slot, max_executed_slot, executed, committed>>
  BY <1>1 DEF serverVars
<1> QED BY <1>2, <1>3, <1>4, <1>5, <1>6, <1>7, ElectionTypes

LEMMA WakeUpLostTypes ==
  ASSUME Types, WakeUpLost PROVE Types'
<1>1. /\ round' = [round EXCEPT !.phase = "stuck"] /\ UNCHANGED <<up, crashes>>
      /\ UNCHANGED serverVars /\ UNCHANGED workerVars /\ UNCHANGED netVars
      /\ round.phase \in {"synced", "commit", "noops"}
  BY DEF WakeUpLost, Synced
<1>2. /\ round' \in Rounds /\ round'.by = round.by /\ round'.phase = "stuck"
      /\ round'.replies = round.replies
  BY <1>1 DEF Types, RoundTypes, Rounds, Phases
<1>3. RoundTypes' /\ RoundReach'
  BY <1>1, <1>2 DEF Types, RoundTypes, RoundReach
<1>4. NetTypes' /\ UNCHANGED <<stream, busy>>
  BY <1>1 DEF Types, NetTypes, netVars
<1>5. ServerTypes' /\ \A x \in Machines : cur_open_slot'[x] <= cur_open_slot[x]
  <2>1. \A x \in Machines : cur_open_slot[x] \in Nat
    BY DEF Types, ServerTypes
  <2> QED BY <1>1, <2>1, SMT DEF Types, ServerTypes, serverVars
<1>6. WorkerTypes' /\ UNCHANGED <<jobs, accepts, submitted>>
  BY <1>1 DEF Types, WorkerTypes, workerVars
<1>7. UNCHANGED <<max_committed_slot, max_executed_slot, executed, committed>>
  BY <1>1 DEF serverVars
<1> QED BY <1>1, <1>2, <1>3, <1>4, <1>5, <1>6, <1>7, ElectionTypes

LEMMA AskTypes ==
  ASSUME Types, round.phase # "none", NEW phase \in Phases \ {"none"}, NEW msg \in Control,
         Ask(phase, msg), UNCHANGED <<up, stream, busy>>
  PROVE  /\ RoundTypes' /\ RoundReach' /\ NetTypes'
         /\ round'.phase = phase /\ round'.by = round.by /\ round'.replies = {}
<1>1. round' = [by |-> round.by, phase |-> phase, waits |-> FALSE, replies |-> {}]
      /\ ToControl(msg)
  BY DEF Ask
<1>2. /\ round' \in Rounds /\ round'.by = round.by /\ round'.phase = phase
      /\ round'.replies = {} /\ round.by # NoOne
  BY <1>1, NextPhase DEF Types
<1>3. RoundTypes' /\ RoundReach'
  BY <1>2 DEF RoundTypes, RoundReach
<1>4. NetTypes'
  BY <1>1, ToControlTypes DEF Types, NetTypes
<1> QED BY <1>2, <1>3, <1>4

LEMMA BecomeLeaderTypes ==
  ASSUME Types, BecomeLeader PROVE Types'
<1>1. PICK m : m = round.by
  OBVIOUS
<1>2. /\ round.phase = "prepare" /\ leads' = [leads EXCEPT ![m] = NextEpoch]
      /\ cur_open_slot' = [cur_open_slot EXCEPT ![m] = max_committed_slot[m] + 1]
      /\ Ask("synclog", [kind |-> "synclog", slot |-> max_executed_slot[m] + 1])
      /\ UNCHANGED <<up, cur_epoch, accepted, ballot, committed, max_committed_slot, executed,
                     max_executed_slot, late, submitted, jobs, accepts, stream, busy>>
  BY <1>1 DEF BecomeLeader, Elected
<1>3. m \in Machines
  BY <1>1, <1>2, ElectedIs DEF Types
<1>4. max_executed_slot[m] + 1 \in Nat \ {0} /\ max_committed_slot[m] + 1 \in Nat \ {0}
  <2>1. max_executed_slot[m] \in Nat /\ max_committed_slot[m] \in Nat
    BY <1>3 DEF Types, ServerTypes
  <2> QED BY <2>1, SMT
<1>5. RoundTypes' /\ RoundReach' /\ NetTypes' /\ round'.phase = "synclog"
  BY <1>2, <1>4, ControlMade, AskTypes DEF Phases
<1>6. WorkerTypes'
  BY <1>2, EpochFacts DEF Types, WorkerTypes
<1>7. ServerTypes' /\ \A x \in Machines : cur_open_slot'[x] <= cur_open_slot[x]
                                          \/ cur_open_slot'[x] = max_committed_slot[x] + 1
  <2>1. cur_open_slot \in [Machines -> Nat \ {0}]
    BY DEF Types, ServerTypes
  <2>2. cur_open_slot' \in [Machines -> Nat \ {0}]
    BY <1>2, <1>4, <2>1
  <2>3. ServerTypes'
    BY <1>2, <2>2 DEF Types, ServerTypes
  <2>4. ASSUME NEW x \in Machines
        PROVE  cur_open_slot'[x] <= cur_open_slot[x]
               \/ cur_open_slot'[x] = max_committed_slot[x] + 1
    BY <1>2, <2>1, SMT
  <2> QED BY <2>3, <2>4
<1> QED BY <1>2, <1>5, <1>6, <1>7, ElectionTypes

LEMMA SendSyncNoOpsTypes ==
  ASSUME Types, SendSyncNoOps PROVE Types'
<1>1. PICK m : m = round.by
  OBVIOUS
<1>2. /\ round.phase \in {"synced", "commit"}
      /\ Ask("noops", [kind |-> "noops", slot |-> max_executed_slot[m] + 1])
      /\ UNCHANGED serverVars /\ UNCHANGED workerVars /\ UNCHANGED <<up, stream, busy>>
  BY <1>1 DEF SendSyncNoOps, Synced, Elected
<1>3. m \in Machines
  BY <1>1, <1>2, ElectedIs DEF Types
<1>4. max_executed_slot[m] + 1 \in Nat \ {0}
  <2>1. max_executed_slot[m] \in Nat
    BY <1>3 DEF Types, ServerTypes
  <2> QED BY <2>1, SMT
<1>5. RoundTypes' /\ RoundReach' /\ NetTypes' /\ round'.phase = "noops"
  BY <1>2, <1>4, ControlMade, AskTypes DEF Phases
<1>6. ServerTypes' /\ \A x \in Machines : cur_open_slot'[x] <= cur_open_slot[x]
  <2>1. \A x \in Machines : cur_open_slot[x] \in Nat
    BY DEF Types, ServerTypes
  <2> QED BY <1>2, <2>1, SMT DEF Types, ServerTypes, serverVars
<1>7. WorkerTypes' /\ UNCHANGED <<jobs, accepts, submitted>>
  BY <1>2 DEF Types, WorkerTypes, workerVars
<1>8. UNCHANGED <<max_committed_slot, max_executed_slot, executed, committed>>
  BY <1>2 DEF serverVars
<1> QED BY <1>2, <1>5, <1>6, <1>7, <1>8, ElectionTypes

\* The slots that the answers q tell of, those that they lack, and the commands
\* that Merged may take for a slot.
Told(q) == UNION {DOMAIN r.cmds : r \in q}
Lacking(q) == {s \in UNION {r.missing : r \in q} : committed[round.by][s] # None}

LEMMA MergedFacts ==
  ASSUME NEW q, NEW cmds \in Merged(q)
  PROVE  /\ DOMAIN cmds = Told(q) \cup Lacking(q)
         /\ cmds \in [DOMAIN cmds -> Logs \cup {NoOp}]
         /\ \A s \in DOMAIN cmds :
              \/ s \in Lacking(q) /\ cmds[s] = committed[round.by][s]
              \/ \E r \in q : s \in DOMAIN r.cmds /\ cmds[s] = r.cmds[s]
<1> DEFINE S == Told(q) \cup Lacking(q)
           Tell(s) == IF s \in Lacking(q) THEN {committed[round.by][s]}
                      ELSE {r.cmds[s] : r \in {x \in q : s \in DOMAIN x.cmds}}
<1>1. Merged(q) = {f \in [S -> Logs \cup {NoOp}] : \A s \in S : f[s] \in Tell(s)}
  BY Zenon DEF Merged, Told, Lacking, Elected
<1> HIDE DEF S, Tell
<1>2. cmds \in [S -> Logs \cup {NoOp}] /\ \A s \in S : cmds[s] \in Tell(s)
  BY <1>1
<1>3. DOMAIN cmds = S
  BY <1>2
<1>4. ASSUME NEW s \in S
      PROVE  \/ s \in Lacking(q) /\ cmds[s] = committed[round.by][s]
             \/ \E r \in q : s \in DOMAIN r.cmds /\ cmds[s] = r.cmds[s]
  <2>1. cmds[s] \in Tell(s)
    BY <1>2
  <2>2. CASE s \in Lacking(q)
    BY <2>1, <2>2 DEF Tell
  <2>3. CASE s \notin Lacking(q)
    <3>1. cmds[s] \in {r.cmds[s] : r \in {x \in q : s \in DOMAIN x.cmds}}
      BY <2>1, <2>3 DEF Tell
    <3> QED BY <3>1
  <2> QED BY <2>2, <2>3
<1> QED BY <1>2, <1>3, <1>4 DEF S

LEMMA MergedTypes ==
  ASSUME Types, round.phase = "synclog", NEW q, q \subseteq round.replies, NEW cmds \in Merged(q)
  PROVE  cmds \in Tables /\ \A s \in DOMAIN cmds : s <= Top
<1>1. round.by \in Machines
  BY ElectedIs DEF Types
<1>2. ASSUME NEW s \in DOMAIN cmds PROVE s \in Slots /\ cmds[s] \in Logs /\ s <= Top
  <2>1. CASE s \in Lacking(q) /\ cmds[s] = committed[round.by][s]
    <3>1. PICK r \in q : s \in r.missing
      BY <2>1 DEF Lacking
    <3>2. r \in LogReply
      BY DEF Types, RoundTypes
    <3>3. s \in Slots /\ committed[round.by][s] # None
      BY <2>1, <3>1, <3>2 DEF LogReply, Lacking
    <3>4. committed[round.by][s] \in Logs
      BY <1>1, <3>3, EntryFacts DEF Types, ServerTypes
    <3>5. s <= max_committed_slot[round.by] /\ max_committed_slot[round.by] <= Top
      BY <1>1, <3>3 DEF Types, ServerReach
    <3>6. s \in Nat /\ max_committed_slot[round.by] \in Nat /\ Top \in Nat
      BY <1>1, <3>3, SlotFacts, TopFacts DEF Types, ServerTypes
    <3>7. s <= Top
      BY <3>5, <3>6, SMT
    <3> QED BY <2>1, <3>3, <3>4, <3>7
  <2>2. CASE \E r \in q : s \in DOMAIN r.cmds /\ cmds[s] = r.cmds[s]
    <3>1. PICK r \in q : s \in DOMAIN r.cmds /\ cmds[s] = r.cmds[s]
      BY <2>2
    <3>2. r \in LogReply /\ s <= Top
      BY <3>1 DEF Types, RoundTypes, RoundReach
    <3>3. r.cmds \in Tables
      BY <3>2 DEF LogReply
    <3> QED BY <3>1, <3>2, <3>3, TableFacts
  <2> QED BY <2>1, <2>2, MergedFacts
<1>3. cmds \in [DOMAIN cmds -> Logs]
  <2>1. cmds = [s \in DOMAIN cmds |-> cmds[s]]
    BY MergedFacts
  <2> QED BY <2>1, <1>2
<1>4. DOMAIN cmds \subseteq Slots
  BY <1>2
<1>5. cmds \in Tables
  BY <1>3, <1>4, TableMade
<1> QED BY <1>2, <1>5

LEMMA SendSyncCommitTypes ==
  ASSUME Types, SendSyncCommit PROVE Types'
<1>1. PICK m : m = round.by
  OBVIOUS
<1>2. /\ round.phase = "synclog"
      /\ UNCHANGED serverVars /\ UNCHANGED workerVars /\ UNCHANGED <<up, busy, control>>
  BY DEF SendSyncCommit
<1>3. m \in Machines
  BY <1>1, <1>2, ElectedIs DEF Types
<1>4. PICK q \in Answers : \E cmds \in Merged(q) :
        /\ round' = [round EXCEPT !.phase = IF DOMAIN cmds = {} THEN "synced" ELSE "commit",
                                  !.replies = {}]
        /\ IF DOMAIN cmds = {} THEN UNCHANGED stream
           ELSE ToAll(m, [kind |-> "sync", by |-> m, ballot |-> NextEpoch, cmds |-> cmds])
  BY <1>1 DEF SendSyncCommit, Elected
<1>5. PICK cmds \in Merged(q) :
        /\ round' = [round EXCEPT !.phase = IF DOMAIN cmds = {} THEN "synced" ELSE "commit",
                                  !.replies = {}]
        /\ IF DOMAIN cmds = {} THEN UNCHANGED stream
           ELSE ToAll(m, [kind |-> "sync", by |-> m, ballot |-> NextEpoch, cmds |-> cmds])
  BY <1>4
<1>6. cmds \in Tables /\ \A s \in DOMAIN cmds : s <= Top
  <2>1. q \subseteq round.replies
    BY DEF Answers
  <2> QED BY <1>2, <2>1, MergedTypes
<1>7. PICK phase : phase = IF DOMAIN cmds = {} THEN "synced" ELSE "commit"
  OBVIOUS
<1>8. round' = [round EXCEPT !.phase = phase, !.replies = {}] /\ phase \in {"synced", "commit"}
  BY <1>5, <1>7
<1>9. /\ round' \in Rounds /\ round'.phase = phase /\ round'.replies = {} /\ round'.by = m
  BY <1>1, <1>8 DEF Types, RoundTypes, Rounds, Phases
<1>10. RoundTypes' /\ RoundReach' /\ round'.phase # "done"
  BY <1>1, <1>3, <1>8, <1>9, Constants DEF RoundTypes, RoundReach
<1>11. UNCHANGED submitted
  BY <1>2 DEF workerVars
<1>12. Top' = Top /\ Top \in Nat /\ Top' \in Nat /\ Top <= Top'
  BY <1>2, <1>10, <1>11, SameTop DEF Types
<1>13. ServerTypes' /\ ServerReach'
  BY <1>2, <1>12, SameServer DEF Types
<1>14. WorkerTypes' /\ WorkReach'
  BY <1>2, <1>12 DEF Types, WorkerTypes, WorkReach, workerVars
<1>15. NetTypes' /\ NetReach'
  <2>1. CASE DOMAIN cmds = {}
    <3>1. UNCHANGED stream
      BY <1>5, <2>1
    <3> QED BY <3>1, <1>2, <1>12, SameInFlight, LessReach DEF Types, NetTypes
  <2>2. CASE DOMAIN cmds # {}
    <3>1. PICK msg : msg = [kind |-> "sync", by |-> m, ballot |-> NextEpoch, cmds |-> cmds]
      OBVIOUS
    <3>2. msg \in Message /\ msg.kind = "sync" /\ msg.cmds = cmds
      BY <3>1, <1>3, <1>6, EpochFacts, SyncMade
    <3>3. Within(msg)
      BY <2>2, <3>2, <1>6 DEF Within
    <3>4. ToAll(m, msg)
      BY <1>5, <2>2, <3>1
    <3>5. More(msg) /\ stream' \in [Machines -> [Machines -> Seq(Message)]]
      BY <1>2, <1>3, <3>2, <3>4, ToAllInFlight DEF Types
    <3>6. NetTypes'
      BY <1>2, <3>5 DEF Types, NetTypes
    <3> QED BY <1>12, <3>2, <3>3, <3>5, <3>6, MoreReach DEF Types
  <2> QED BY <2>1, <2>2
<1> QED BY <1>10, <1>13, <1>14, <1>15 DEF Types

LEMMA SendMarkTypes ==
  ASSUME Types, SendMark PROVE Types'
<1>1. PICK m : m = round.by
  OBVIOUS
<1>2. /\ round.phase = "noops"
      /\ round' = [round EXCEPT !.phase = "done", !.waits = FALSE, !.replies = {}]
      /\ OpenSlot(m, Mark(m))
      /\ UNCHANGED <<up, cur_epoch, accepted, ballot, committed, max_committed_slot,
                     max_executed_slot, executed, late, leads, submitted, accepts,
                     stream, busy, control>>
  BY <1>1 DEF SendMark, Elected
<1>3. m \in Machines
  BY <1>1, <1>2, ElectedIs DEF Types
<1>4. /\ round' \in Rounds /\ round'.by = m /\ round'.phase = "done" /\ round'.replies = {}
  BY <1>1, <1>2 DEF Types, RoundTypes, Rounds, Phases
<1>5. RoundTypes' /\ RoundReach'
  BY <1>3, <1>4, Constants DEF RoundTypes, RoundReach
<1>6. Top = submitted[0] /\ Top' = MaxSlot
  BY <1>2, <1>4 DEF Top
<1>7. submitted[0] \in Nat /\ submitted[0] <= OldEntries
  BY Constants, SMT DEF Types, WorkerTypes
<1>8. cur_open_slot[m] \in Nat \ {0} /\ cur_open_slot[m] <= Top + 1
  BY <1>3 DEF Types, ServerTypes, ServerReach
<1>9. Top' \in Nat /\ Top \in Nat /\ Top <= Top' /\ cur_open_slot[m] <= Top'
  BY <1>6, <1>7, <1>8, Constants, SMT
<1>10. cur_open_slot[m] \in Slots
  BY <1>6, <1>8, <1>9, SlotFacts, SMT
<1>11. Mark(m) \in Logs
  BY <1>3, LogFacts, Constants, SMT DEF Mark
<1>12. submitted' \in [Machines -> 0..(OldEntries + NewEntries)] /\ submitted'[0] <= OldEntries
  BY <1>2 DEF Types, WorkerTypes
<1>13. ServerTypes' /\ ServerReach' /\ WorkerTypes' /\ WorkReach'
  BY <1>2, <1>3, <1>9, <1>10, <1>11, <1>12, OpenSlotTypes
<1>14. NetTypes' /\ Less
  BY <1>2, SameInFlight DEF Types, NetTypes
<1> QED BY <1>5, <1>9, <1>13, <1>14, LessReach DEF Types

LEMMA NextTypes ==
  ASSUME Types, [Next]_vars PROVE Types'
<1>1. ASSUME NEW m \in Machines, Crash(m) PROVE Types'
  BY <1>1, CrashTypes
<1>2. ASSUME NEW m \in Machines, add_log_to_nc(m) PROVE Types'
  BY <1>2, AddLogTypes
<1>3. ASSUME NEW m \in Machines, BulkSubmit(m) PROVE Types'
  BY <1>3, BulkSubmitTypes
<1>4. ASSUME NEW m \in Machines, Handle(m) PROVE Types'
  BY <1>4, ReceiveTypes, OnBulkAcceptTypes, OnBulkCommitTypes, OnSyncCommitTypes,
     OnBulkPrepareTypes, OnSyncLogTypes, OnSyncNoOpsTypes DEF Handle
<1>5. ASSUME NEW m \in Machines, SendBulkPrep(m) PROVE Types'
  BY <1>5, SendBulkPrepTypes
<1>6. CASE Coordinate
  BY <1>6, CommitTypes, AcceptRefusedTypes DEF Coordinate
<1>7. CASE Recover
  BY <1>7, WaitTypes, BecomeLeaderTypes, SendSyncCommitTypes, SendSyncNoOpsTypes,
     SendMarkTypes DEF Recover
<1>8. CASE WakeUpLost
  BY <1>8, WakeUpLostTypes
<1>9. CASE UNCHANGED vars
  <2>1. /\ UNCHANGED serverVars /\ UNCHANGED workerVars /\ UNCHANGED netVars
        /\ up' = up /\ round' = round
    BY <1>9 DEF vars
  <2>2. UNCHANGED <<leads, submitted, jobs, accepts, stream, busy, control>>
    BY <2>1 DEF workerVars, netVars
  <2>3. NetTypes' /\ Less
    BY <2>1, <2>2, SameInFlight DEF Types, NetTypes
  <2>4. Top' = Top => WorkerTypes' /\ WorkReach'
    BY <2>2 DEF Types, WorkerTypes, WorkReach
  <2> QED BY <2>1, <2>2, <2>3, <2>4, QuietTypes
<1> QED BY <1>1, <1>2, <1>3, <1>4, <1>5, <1>6, <1>7, <1>8, <1>9 DEF Next

LEMMA TypesGiveTypeOK == Types => TypeOK
<1> SUFFICES ASSUME Types PROVE TypeOK
  OBVIOUS
<1>0. Top \in Nat /\ Top <= MaxSlot /\ MaxSlot \in Nat
  BY TopFacts, Constants DEF Types
<1>1. up \in [Machines -> BOOLEAN] /\ cur_epoch \in [Machines -> Epochs]
      /\ leads \in [Machines -> Epochs] /\ ballot \in [Machines -> [Slots -> Epochs]]
      /\ submitted \in [Machines -> 0..(OldEntries + NewEntries)] /\ late \in BOOLEAN
  BY DEF Types, NetTypes, ServerTypes, WorkerTypes
<1>2. accepted \in [Machines -> [Slots -> Commands]]
  <2>1. Entries \subseteq Commands
    BY DEF Entries, Commands
  <2> QED BY <2>1 DEF Types, ServerTypes
<1>3. committed \in [Machines -> [Slots -> Commands \ {NoOp}]]
  <2>1. NoOp \notin Entries
    BY SMT DEF Entries, NoOp, None, Logs
  <2>2. Entries \subseteq Commands \ {NoOp}
    BY <2>1 DEF Entries, Commands
  <2> QED BY <2>2 DEF Types, ServerTypes
<1>4. /\ max_committed_slot \in [Machines -> Slots \cup {0}]
      /\ max_executed_slot \in [Machines -> Slots \cup {0}]
      /\ cur_open_slot \in [Machines -> 1..(MaxSlot + 1)]
  <2>1. ASSUME NEW m \in Machines
        PROVE  /\ max_committed_slot[m] \in Slots \cup {0}
               /\ max_executed_slot[m] \in Slots \cup {0}
               /\ cur_open_slot[m] \in 1..(MaxSlot + 1)
    <3>1. /\ max_committed_slot[m] \in Nat /\ max_executed_slot[m] \in Nat
          /\ cur_open_slot[m] \in Nat \ {0}
      BY DEF Types, ServerTypes
    <3>2. /\ max_executed_slot[m] <= max_committed_slot[m] /\ max_committed_slot[m] <= Top
          /\ cur_open_slot[m] <= Top + 1
      BY DEF Types, ServerReach
    <3> QED BY <1>0, <3>1, <3>2, SlotFacts, SMT
  <2> QED BY <2>1 DEF Types, ServerTypes
<1>5. \A m \in Machines : \A j \in jobs[m] : j[1] \in Slots /\ j[2] \in Logs
  BY DEF Types, WorkerTypes
<1>6. \A c \in accepts : /\ c.by \in Machines /\ c.slot \in Slots
                         /\ c.ballot \in Epochs /\ c.yes \subseteq Machines
  BY DEF Types, WorkerTypes, Coordinator
<1>7. ASSUME NEW msg \in Message PROVE IsMessage(msg)
  <2>1. msg.kind = "sync" => DOMAIN msg.cmds \subseteq Slots
    BY MessageFacts, TableFacts
  <2> QED BY <2>1, MessageFacts DEF IsMessage
<1>8. \A m, d \in Machines : \A i \in DOMAIN stream[m][d] : IsMessage(stream[m][d][i])
  <2> TAKE m, d \in Machines
  <2> TAKE i \in DOMAIN stream[m][d]
  <2>1. stream[m][d] \in Seq(Message)
    BY DEF Types, NetTypes
  <2>2. stream[m][d][i] \in Message
    BY <2>1, SMT
  <2> QED BY <2>2, <1>7
<1>9. \A m \in Machines : busy[m] # Idle => IsMessage(busy[m].msg)
  BY <1>7, HeldMessage DEF Types
<1>10. round.phase \in {"none", "prepare", "synclog", "commit", "synced", "noops",
                        "done", "stuck"}
  BY DEF Types, RoundTypes, Rounds, Phases
<1>11. \A m \in Machines :
         /\ Range(executed[m]) \subseteq Logs
         /\ Len(executed[m]) = max_executed_slot[m]
         /\ max_executed_slot[m] <= max_committed_slot[m]
  <2> TAKE m \in Machines
  <2>1. executed[m] \in Seq(Logs)
    BY DEF Types, ServerTypes
  <2>2. \A i \in DOMAIN executed[m] : executed[m][i] \in Logs
    BY <2>1, SMT
  <2> QED BY <2>2 DEF Types, ServerReach, Range
<1> QED BY <1>1, <1>2, <1>3, <1>4, <1>5, <1>6, <1>8, <1>9, <1>10, <1>11 DEF TypeOK

\* Slots, epochs and logs stay in their ranges, no no-op is left in a slot and
\* every machine executes each slot once and in order, for every number of
\* machines, of entries and of crashes, and even if the old leader was suspected
\* while it was up.
THEOREM TypeCorrect == Spec => []TypeOK
<1>1. Init => Types
  BY InitTypes
<1>2. Types /\ [Next]_vars => Types'
  BY NextTypes
<1>3. Types => TypeOK
  BY TypesGiveTypeOK
<1> QED BY <1>1, <1>2, <1>3, PTL DEF Spec

-----------------------------------------------------------------------------
(***************************************************************************)
(* Agreement: every slot has one value.                                    *)
(***************************************************************************)
Others == Machines \ {0}

\* The entries of the old leader that survive, once the mark is submitted: the
\* mark has the slot Base + 1 and entry n of the new leader Base + 1 + n.
Base == cur_open_slot[round.by] - submitted[round.by] - 2
New(s) == round.phase = "done" /\ s > Base
Val(s) == IF New(s) THEN <<round.by, s - Base - 1>> ELSE <<0, s>>

Has(d, s) == committed[d][s] # None
Somewhere(s) == \E d \in Others : Has(d, s)
Whole(d) == \A s \in Slots : Somewhere(s) => Has(d, s)

\* The phases of round once a quorum has prepared, and once SyncCommit was sent.
After == {"synclog", "commit", "synced", "noops", "done", "stuck"}
Sending == {"commit", "synced", "noops", "done", "stuck"}

MsgOK(d, msg) ==
  /\ msg.kind = "accept" =>
       \/ msg.ballot = FirstEpoch /\ msg.cmd = <<0, msg.slot>>
       \/ msg.ballot = NextEpoch /\ New(msg.slot) /\ msg.cmd = Val(msg.slot)
  /\ msg.kind = "commit" =>
       \/ msg.ballot = FirstEpoch
       \/ msg.ballot = NextEpoch /\ New(msg.slot)
  /\ msg.kind = "sync" =>
       /\ msg.ballot = NextEpoch /\ round.phase \in Sending
       /\ \A s \in DOMAIN msg.cmds : msg.cmds[s] = <<0, s>> /\ ~New(s) /\ Somewhere(s)
       /\ round.phase = "commit" /\ d # 0 =>
            \A s \in Slots : Somewhere(s) => s \in DOMAIN msg.cmds \/ Has(d, s)

MsgInv == \A d \in Machines : \A msg \in InFlight(d) : MsgOK(d, msg)

JobOK(m, j) ==
  \/ m = 0 /\ j[2] = <<0, j[1]>>
  \/ m = round.by /\ New(j[1]) /\ j[2] = Val(j[1])

WorkInv ==
  /\ leads[0] = FirstEpoch
  /\ \A m \in Others : leads[m] # 0 => m = round.by
  /\ round.phase \in After => leads[round.by] = NextEpoch
  /\ \A m \in Machines : \A j \in jobs[m] : JobOK(m, j)
  /\ \A c \in accepts : c.ballot = FirstEpoch \/ (c.ballot = NextEpoch /\ New(c.slot))

\* The number of an entry and the slot it is given.
OpenInv ==
  /\ up[0] => cur_open_slot[0] = submitted[0] + 1
  /\ round.phase # "done" => \A m \in Others : submitted[m] = 0
  /\ round.phase = "done" => Base \in Nat

SlotOK(d, s) ==
  /\ ballot[d][s] = FirstEpoch => accepted[d][s] = <<0, s>>
  /\ ballot[d][s] = NextEpoch =>
       d # 0 /\ IF New(s) THEN accepted[d][s] = Val(s) ELSE Has(d, s)
  /\ Has(d, s) => committed[d][s] = IF d = 0 THEN <<0, s>> ELSE Val(s)

SlotInv == \A d \in Machines : \A s \in Slots : SlotOK(d, s)

ExecInv ==
  \A d \in Machines :
    /\ max_committed_slot[d] # 0 => Has(d, max_committed_slot[d])
    /\ \A i \in 1..max_executed_slot[d] : Has(d, i) /\ executed[d][i] = committed[d][i]

EpochInv ==
  /\ round.phase # "none" => ~up[0]
  /\ round.phase = "prepare" => \A r \in round.replies : cur_epoch[r.from] = NextEpoch
  /\ round.phase \in After => \A d \in Others : cur_epoch[d] = NextEpoch
  /\ \A r \in round.replies : r.from # 0
  /\ \A d \in Machines : busy[d] # Idle => busy[d].epoch <= busy[d].msg.ballot

\* What d answers to SyncLog.
HasFrom(d) == {s \in (max_executed_slot[round.by] + 1)..max_committed_slot[d] : Has(d, s)}
Missing(d) ==
  {s \in max_executed_slot[d]..max_executed_slot[round.by] : s \in Slots /\ ~Has(d, s)}
Answer(d) ==
  [from |-> d, cmds |-> [s \in HasFrom(d) |-> committed[d][s]], missing |-> Missing(d)]

\* Where the recovery is: frozen answers, then the same slots everywhere.
SyncInv ==
  /\ round.phase = "synclog" => \A r \in round.replies : r = Answer(r.from)
  /\ round.phase = "commit" => \A r \in round.replies : Whole(r.from)
  /\ round.phase \in {"synced", "noops"} => \A d \in Others : Whole(d)
  /\ round.phase = "noops" =>
       \A r \in round.replies : /\ control[r.from] = << >>
                                /\ cur_open_slot[r.from] = max_committed_slot[r.from] + 1
  /\ round.phase = "done" => control[round.by] = << >>

ControlOK(q, i) ==
  /\ q[i].kind = "noops" => round.phase \in {"noops", "done", "stuck"} /\ i = Len(q)
  /\ q[i].kind = "synclog" =>
       /\ round.phase \in After
       /\ round.phase = "synclog" => q[i].slot = max_executed_slot[round.by] + 1

ControlInv ==
  \A d \in Machines :
    /\ round.phase = "none" => control[d] = << >>
    /\ \A i \in DOMAIN control[d] : ControlOK(control[d], i)

Agree ==
  /\ MsgInv /\ WorkInv /\ OpenInv /\ SlotInv /\ ExecInv
  /\ EpochInv /\ SyncInv /\ ControlInv

LEMMA InitAgree == Init => Agree
<1> SUFFICES ASSUME Init PROVE Agree
  OBVIOUS
<1>1. round.phase = "none" /\ round.by = NoOne /\ round.replies = {}
  BY DEF Init
<1>2. \A d \in Machines : InFlight(d) = {}
  <2>1. \A m, d \in Machines : DOMAIN stream[m][d] = {}
    BY SMT DEF Init
  <2>2. \A d \in Machines : busy[d] = Idle
    BY DEF Init
  <2>3. ASSUME NEW d \in Machines, NEW msg \in InFlight(d) PROVE FALSE
    BY <2>1, <2>2, <2>3, InFlightFacts
  <2> QED BY <2>3
<1>3. MsgInv
  BY <1>2 DEF MsgInv
<1>4. WorkInv
  <2>1. leads[0] = FirstEpoch /\ \A m \in Others : leads[m] = 0
    BY Constants DEF Init, Others
  <2>2. (\A m \in Machines : jobs[m] = {}) /\ accepts = {}
    BY DEF Init
  <2> QED BY <1>1, <2>1, <2>2 DEF WorkInv, After
<1>5. OpenInv
  <2>1. cur_open_slot[0] = 1 /\ \A m \in Machines : submitted[m] = 0
    BY Constants DEF Init
  <2> QED BY <1>1, <2>1, Constants, SMT DEF OpenInv, Others
<1>6. \A d \in Machines : \A s \in Slots : committed[d][s] = None /\ ballot[d][s] = 0
  BY DEF Init
<1>7. SlotInv
  BY <1>6, SMT DEF SlotInv, SlotOK, Has, FirstEpoch, NextEpoch
<1>8. ExecInv
  <2>1. \A d \in Machines : max_committed_slot[d] = 0 /\ max_executed_slot[d] = 0
    BY DEF Init
  <2> QED BY <2>1, SMT DEF ExecInv
<1>9. EpochInv
  <2>1. \A d \in Machines : busy[d] = Idle
    BY DEF Init
  <2> QED BY <1>1, <2>1 DEF EpochInv, After
<1>10. SyncInv
  BY <1>1 DEF SyncInv
<1>11. ControlInv
  <2>1. \A d \in Machines : control[d] = << >>
    BY DEF Init
  <2>2. \A d \in Machines : DOMAIN control[d] = {}
    BY <2>1, SMT
  <2> QED BY <2>1, <2>2 DEF ControlInv
<1> QED BY <1>3, <1>4, <1>5, <1>7, <1>8, <1>9, <1>10, <1>11 DEF Agree

(***************************************************************************)
(* What a step must keep so that each part of Agree is kept.               *)
(***************************************************************************)
SameVals == \A s : (New(s)' <=> New(s)) /\ Val(s)' = Val(s)
Grows == \A d \in Machines : \A s \in Slots : Has(d, s) => Has(d, s)'
Steady ==
  /\ SameVals /\ Grows
  /\ round.phase \in Sending => round'.phase \in Sending
  /\ round'.phase = "commit" =>
       round.phase = "commit" /\ \A s \in Slots : Somewhere(s)' => Somewhere(s)

LEMMA ValsBefore ==
  ASSUME round.phase # "done", round'.phase # "done" PROVE SameVals
BY DEF SameVals, New, Val

LEMMA ValsAfter ==
  ASSUME round'.phase = round.phase, round'.by = round.by, Base' = Base PROVE SameVals
BY DEF SameVals, New, Val

LEMMA SameCommitted ==
  ASSUME UNCHANGED committed
  PROVE  Grows /\ \A s : Somewhere(s)' <=> Somewhere(s)
BY DEF Grows, Somewhere, Has

LEMMA ElectedSame ==
  ASSUME UNCHANGED <<cur_open_slot, submitted>>, round'.by = round.by PROVE Base' = Base
BY DEF Base

LEMMA KeepPlain ==
  ASSUME SameVals, NEW d, NEW msg, msg.kind # "sync", MsgOK(d, msg)
  PROVE  MsgOK(d, msg)'
<1>1. CASE msg.kind = "accept"
  <2>1. (New(msg.slot)' <=> New(msg.slot)) /\ Val(msg.slot)' = Val(msg.slot)
    BY DEF SameVals
  <2> QED BY <1>1, <2>1 DEF MsgOK
<1>2. CASE msg.kind = "commit"
  <2>1. New(msg.slot)' <=> New(msg.slot)
    BY DEF SameVals
  <2> QED BY <1>2, <2>1 DEF MsgOK
<1>3. CASE msg.kind \notin {"accept", "commit"}
  BY <1>3 DEF MsgOK
<1> QED BY <1>1, <1>2, <1>3

LEMMA KeepMsg ==
  ASSUME Steady, NEW d \in Machines, NEW msg \in Message, MsgOK(d, msg)
  PROVE  MsgOK(d, msg)'
<1>1. CASE msg.kind # "sync"
  BY <1>1, KeepPlain DEF Steady
<1>2. CASE msg.kind = "sync"
  <2>1. DOMAIN msg.cmds \subseteq Slots
    BY <1>2, MessageFacts, TableFacts
  <2>2. msg.ballot = NextEpoch /\ round'.phase \in Sending
    BY <1>2 DEF MsgOK, Steady
  <2>3. ASSUME NEW s \in DOMAIN msg.cmds
        PROVE  msg.cmds[s] = <<0, s>> /\ ~New(s)' /\ Somewhere(s)'
    <3>1. msg.cmds[s] = <<0, s>> /\ ~New(s) /\ Somewhere(s)
      BY <1>2 DEF MsgOK
    <3>2. ~New(s)'
      BY <3>1 DEF Steady, SameVals
    <3>3. Somewhere(s)'
      BY <2>1, <3>1 DEF Steady, Grows, Somewhere, Others
    <3> QED BY <3>1, <3>2, <3>3
  <2>4. ASSUME round'.phase = "commit", d # 0, NEW s \in Slots, Somewhere(s)'
        PROVE  s \in DOMAIN msg.cmds \/ Has(d, s)'
    <3>1. round.phase = "commit" /\ Somewhere(s)
      BY <2>4 DEF Steady
    <3>2. s \in DOMAIN msg.cmds \/ Has(d, s)
      BY <1>2, <2>4, <3>1 DEF MsgOK
    <3> QED BY <3>2 DEF Steady, Grows
  <2> QED BY <1>2, <2>2, <2>3, <2>4 DEF MsgOK
<1> QED BY <1>1, <1>2

LEMMA KeepMsgs ==
  ASSUME NetTypes, MsgInv, Steady, Less
  PROVE  MsgInv'
<1>1. ASSUME NEW d \in Machines, NEW msg \in InFlight(d)' PROVE MsgOK(d, msg)'
  <2>1. msg \in InFlight(d)
    BY DEF Less
  <2>2. msg \in Message /\ MsgOK(d, msg)
    BY <2>1, InFlightTypes DEF MsgInv
  <2> QED BY <2>2, KeepMsg
<1> QED BY <1>1 DEF MsgInv

LEMMA OneMoreMsg ==
  ASSUME NetTypes, MsgInv, Steady, NEW new, More(new), \A d \in Machines : MsgOK(d, new)'
  PROVE  MsgInv'
<1>1. ASSUME NEW d \in Machines, NEW msg \in InFlight(d)' PROVE MsgOK(d, msg)'
  <2>1. CASE msg = new
    BY <2>1
  <2>2. CASE msg # new
    <3>1. msg \in InFlight(d)
      BY <2>2 DEF More
    <3>2. msg \in Message /\ MsgOK(d, msg)
      BY <3>1, InFlightTypes DEF MsgInv
    <3> QED BY <3>2, KeepMsg
  <2> QED BY <2>1, <2>2
<1> QED BY <1>1 DEF MsgInv

LEMMA KeepJob ==
  ASSUME SameVals, round'.by = round.by, NEW m, NEW j, JobOK(m, j) PROVE JobOK(m, j)'
<1>1. (New(j[1])' <=> New(j[1])) /\ Val(j[1])' = Val(j[1])
  BY DEF SameVals
<1> QED BY <1>1 DEF JobOK

LEMMA KeepWork ==
  ASSUME WorkInv, SameVals, leads' = leads, round'.by = round.by,
         round'.phase \in After => round.phase \in After,
         \A m \in Machines : jobs'[m] \subseteq jobs[m],
         \A x \in accepts' : \E c \in accepts : x.slot = c.slot /\ x.ballot = c.ballot
  PROVE  WorkInv'
<1>1. /\ leads'[0] = FirstEpoch
      /\ \A m \in Others : leads'[m] # 0 => m = round'.by
      /\ round'.phase \in After => leads'[round'.by] = NextEpoch
  BY DEF WorkInv
<1>2. \A m \in Machines : \A j \in jobs'[m] : JobOK(m, j)'
  BY KeepJob DEF WorkInv
<1>3. ASSUME NEW x \in accepts'
      PROVE  x.ballot = FirstEpoch \/ (x.ballot = NextEpoch /\ New(x.slot)')
  <2>1. PICK c \in accepts : x.slot = c.slot /\ x.ballot = c.ballot
    OBVIOUS
  <2>2. c.ballot = FirstEpoch \/ (c.ballot = NextEpoch /\ New(c.slot))
    BY DEF WorkInv
  <2>3. New(x.slot)' <=> New(x.slot)
    BY DEF SameVals
  <2>4. New(x.slot) <=> New(c.slot)
    BY <2>1 DEF New
  <2> QED BY <2>1, <2>2, <2>3, <2>4
<1> QED BY <1>1, <1>2, <1>3 DEF WorkInv

LEMMA KeepSlots ==
  ASSUME SlotInv, SameVals, UNCHANGED <<accepted, ballot, committed>>
  PROVE  SlotInv'
<1>1. ASSUME NEW d \in Machines, NEW s \in Slots PROVE SlotOK(d, s)'
  <2>1. (New(s)' <=> New(s)) /\ Val(s)' = Val(s)
    BY DEF SameVals
  <2>2. SlotOK(d, s)
    BY DEF SlotInv
  <2> QED BY <2>1, <2>2 DEF SlotOK, Has
<1> QED BY <1>1 DEF SlotInv

LEMMA KeepExec ==
  ASSUME ExecInv, UNCHANGED <<committed, max_committed_slot, max_executed_slot, executed>>
  PROVE  ExecInv'
BY DEF ExecInv, Has

LEMMA KeepOpen ==
  ASSUME OpenInv, UNCHANGED <<cur_open_slot, submitted>>, up'[0] => up[0],
         round'.by = round.by, round'.phase = "done" <=> round.phase = "done"
  PROVE  OpenInv'
BY ElectedSame DEF OpenInv

LEMMA KeepEpoch ==
  ASSUME EpochInv, round' = round, UNCHANGED cur_epoch, up'[0] => up[0],
         \A d \in Machines : busy'[d] # Idle => busy'[d].epoch <= busy'[d].msg.ballot
  PROVE  EpochInv'
BY DEF EpochInv

LEMMA KeepSync ==
  ASSUME SyncInv, RoundTypes, round' = round,
         UNCHANGED <<committed, max_committed_slot, max_executed_slot, cur_open_slot>>,
         \A d \in Machines : control'[d] \in {control[d], << >>}
  PROVE  SyncInv'
<1>1. \A d : Answer(d)' = Answer(d) /\ (Whole(d)' <=> Whole(d))
  BY DEF Answer, HasFrom, Missing, Whole, Somewhere, Has
<1>2. ASSUME round'.phase = "noops", NEW r \in round'.replies PROVE control'[r.from] = << >>
  <2>1. r.from \in Machines /\ control[r.from] = << >>
    BY <1>2 DEF RoundTypes, Plain, SyncInv
  <2> QED BY <2>1
<1>3. ASSUME round'.phase = "done" PROVE control'[round'.by] = << >>
  <2>1. round.by \in Machines /\ control[round.by] = << >>
    BY <1>3, ElectedIs DEF SyncInv
  <2> QED BY <2>1
<1> QED BY <1>1, <1>2, <1>3 DEF SyncInv

LEMMA KeepControl ==
  ASSUME ControlInv, NetTypes, round' = round, UNCHANGED max_executed_slot,
         \A d \in Machines : control'[d] \in {control[d], << >>}
  PROVE  ControlInv'
<1>1. ASSUME NEW d \in Machines
      PROVE  /\ round'.phase = "none" => control'[d] = << >>
             /\ \A i \in DOMAIN control'[d] : ControlOK(control[d], i)'
  <2>1. CASE control'[d] = control[d]
    BY <2>1 DEF ControlInv, ControlOK
  <2>2. CASE control'[d] = << >>
    <3>1. DOMAIN control'[d] = {}
      BY <2>2, SMT
    <3> QED BY <2>2, <3>1
  <2> QED BY <2>1, <2>2
<1> QED BY <1>1 DEF ControlInv

(***************************************************************************)
(* The steps that leave the servers and the round alone.                   *)
(***************************************************************************)
LEMMA SameSteady ==
  ASSUME UNCHANGED serverVars, round' = round, UNCHANGED submitted
  PROVE  Steady
<1>1. UNCHANGED committed /\ UNCHANGED <<cur_open_slot, submitted>>
  BY DEF serverVars
<1>2. SameVals
  BY <1>1, ElectedSame, ValsAfter
<1> QED BY <1>1, <1>2, SameCommitted DEF Steady

\* All but MsgInv and WorkInv.
LEMMA QuietParts ==
  ASSUME Types, Agree, UNCHANGED serverVars, round' = round, UNCHANGED submitted,
         up'[0] => up[0],
         \A d \in Machines : control'[d] \in {control[d], << >>},
         \A d \in Machines : busy'[d] # Idle => busy'[d].epoch <= busy'[d].msg.ballot
  PROVE  OpenInv' /\ SlotInv' /\ ExecInv' /\ EpochInv' /\ SyncInv' /\ ControlInv' /\ Steady
<1>1. UNCHANGED <<cur_epoch, accepted, ballot, committed, max_committed_slot,
                  max_executed_slot, cur_open_slot, executed>>
  BY DEF serverVars
<1>2. Steady
  BY SameSteady
<1>3. SlotInv'
  BY <1>1, <1>2, KeepSlots DEF Agree, Steady
<1>4. OpenInv' /\ ExecInv' /\ EpochInv'
  BY <1>1, KeepOpen, KeepExec, KeepEpoch DEF Agree
<1>5. SyncInv' /\ ControlInv'
  BY <1>1, KeepSync, KeepControl DEF Agree, Types
<1> QED BY <1>2, <1>3, <1>4, <1>5

LEMMA DownFacts ==
  ASSUME Types, Agree, NEW d \in Machines, Down(d)
  PROVE  /\ up'[0] => up[0]
         /\ \A x \in Machines : control'[x] \in {control[x], << >>}
         /\ \A x \in Machines : busy'[x] \in {busy[x], Idle}
         /\ \A x \in Machines : busy'[x] # Idle => busy'[x].epoch <= busy'[x].msg.ballot
         /\ \A x \in Machines : jobs'[x] \subseteq jobs[x]
         /\ accepts' \subseteq accepts
         /\ Less
<1>1. up'[0] => up[0]
  BY Constants DEF Down, Types, NetTypes
<1>2. \A x \in Machines : control'[x] \in {control[x], << >>}
  BY DEF Down, Types, NetTypes
<1>3. \A x \in Machines : busy'[x] \in {busy[x], Idle}
  BY DEF Down, Types, NetTypes
<1>4. \A x \in Machines : busy'[x] # Idle => busy'[x].epoch <= busy'[x].msg.ballot
  BY <1>3 DEF Agree, EpochInv
<1>5. \A x \in Machines : jobs'[x] \subseteq jobs[x]
  BY DEF Down, Types, WorkerTypes
<1>6. accepts' \subseteq accepts
  BY DEF Down
<1>7. Less
  BY DownInFlight DEF Types
<1> QED BY <1>1, <1>2, <1>3, <1>4, <1>5, <1>6, <1>7

LEMMA DownAgree ==
  ASSUME Types, Agree, NEW d \in Machines, Down(d), UNCHANGED serverVars,
         UNCHANGED <<leads, submitted>>, round' = round
  PROVE  Agree'
<1>1. /\ up'[0] => up[0]
      /\ \A x \in Machines : control'[x] \in {control[x], << >>}
      /\ \A x \in Machines : busy'[x] # Idle => busy'[x].epoch <= busy'[x].msg.ballot
      /\ \A x \in Machines : jobs'[x] \subseteq jobs[x]
      /\ accepts' \subseteq accepts
      /\ Less
  BY DownFacts
<1>2. OpenInv' /\ SlotInv' /\ ExecInv' /\ EpochInv' /\ SyncInv' /\ ControlInv' /\ Steady
  BY <1>1, QuietParts
<1>3. MsgInv'
  BY <1>1, <1>2, KeepMsgs DEF Types, Agree
<1>4. WorkInv'
  BY <1>1, <1>2, KeepWork DEF Agree, Steady
<1> QED BY <1>2, <1>3, <1>4 DEF Agree

LEMMA CrashAgree ==
  ASSUME Types, Agree, NEW m \in Machines, Crash(m) PROVE Agree'
<1>1. Down(m) /\ UNCHANGED serverVars /\ UNCHANGED <<leads, submitted>> /\ round' = round
  BY DEF Crash
<1> QED BY <1>1, DownAgree

LEMMA AcceptRefusedAgree ==
  ASSUME Types, Agree, NEW c \in accepts, AcceptRefused(c) PROVE Agree'
<1>1. PICK m \in Machines : m = c.by
  BY DEF Types, WorkerTypes, Coordinator
<1>2. Down(m) /\ UNCHANGED serverVars /\ UNCHANGED <<leads, submitted>> /\ round' = round
  BY <1>1 DEF AcceptRefused
<1> QED BY <1>2, DownAgree

LEMMA StutterAgree ==
  ASSUME Types, Agree, UNCHANGED vars PROVE Agree'
<1>1. /\ UNCHANGED serverVars /\ UNCHANGED workerVars /\ UNCHANGED netVars
      /\ up' = up /\ round' = round
  BY DEF vars
<1>2. UNCHANGED <<leads, submitted, jobs, accepts, stream, busy, control>>
  BY <1>1 DEF workerVars, netVars
<1>3. OpenInv' /\ SlotInv' /\ ExecInv' /\ EpochInv' /\ SyncInv' /\ ControlInv' /\ Steady
  <2>1. \A x \in Machines : busy'[x] # Idle => busy'[x].epoch <= busy'[x].msg.ballot
    BY <1>2 DEF Agree, EpochInv
  <2> QED BY <1>1, <1>2, <2>1, QuietParts
<1>4. MsgInv'
  BY <1>2, <1>3, SameInFlight, KeepMsgs DEF Types, Agree
<1>5. WorkInv'
  BY <1>1, <1>2, <1>3, KeepWork DEF Agree, Steady
<1> QED BY <1>3, <1>4, <1>5 DEF Agree

LEMMA ReceiveAgree ==
  ASSUME Types, Agree, NEW d \in Machines, Receive(d) PROVE Agree'
<1>1. cur_epoch[d] \in Epochs
  BY DEF Types, ServerTypes
<1>2. PICK msg \in InFlight(d) :
        /\ msg \in Message
        /\ \/ /\ msg.ballot >= cur_epoch[d]
              /\ busy' = [busy EXCEPT ![d] = [kind |-> "msg", msg |-> msg,
                                              epoch |-> cur_epoch[d]]]
              /\ accepts' = accepts
           \/ /\ busy' = busy
              /\ accepts' \in {accepts, Reply(msg, d, FALSE)}
  BY <1>1, ReceiveInFlight DEF Types
<1>3. /\ UNCHANGED serverVars /\ UNCHANGED <<leads, submitted, jobs>> /\ round' = round
      /\ up' = up /\ control' = control
  BY DEF Receive
<1>4. Less
  BY <1>1, ReceiveInFlight DEF Types
<1>5. ASSUME NEW x \in Machines, busy'[x] # Idle PROVE busy'[x].epoch <= busy'[x].msg.ballot
  <2>1. CASE busy'[x] = busy[x]
    BY <2>1, <1>5 DEF Agree, EpochInv
  <2>2. CASE busy'[x] # busy[x]
    <3>1. msg.ballot >= cur_epoch[d]
          /\ busy' = [busy EXCEPT ![d] = [kind |-> "msg", msg |-> msg, epoch |-> cur_epoch[d]]]
      BY <2>2, <1>2
    <3>2. busy'[x] = [kind |-> "msg", msg |-> msg, epoch |-> cur_epoch[d]]
      BY <2>2, <3>1 DEF Types, NetTypes
    <3>3. msg.ballot \in Epochs
      BY <1>2, MessageFacts
    <3>4. msg.ballot \in Nat /\ cur_epoch[d] \in Nat
      BY <1>1, <3>3, EpochFacts
    <3>5. cur_epoch[d] <= msg.ballot
      BY <3>1, <3>4, SMT
    <3> QED BY <3>2, <3>5
  <2> QED BY <2>1, <2>2
<1>6. OpenInv' /\ SlotInv' /\ ExecInv' /\ EpochInv' /\ SyncInv' /\ ControlInv' /\ Steady
  BY <1>3, <1>5, QuietParts
<1>7. MsgInv'
  BY <1>4, <1>6, KeepMsgs DEF Types, Agree
<1>8. \A x \in accepts' : \E c \in accepts : x.slot = c.slot /\ x.ballot = c.ballot
  <2>1. CASE accepts' = accepts
    BY <2>1
  <2>2. CASE accepts' = Reply(msg, d, FALSE)
    BY <2>2, ReplyFacts DEF Types, WorkerTypes
  <2> QED BY <1>2, <2>1, <2>2
<1>9. WorkInv'
  BY <1>3, <1>6, <1>8, KeepWork DEF Agree, Steady
<1> QED BY <1>6, <1>7, <1>9 DEF Agree

LEMMA BulkSubmitAgree ==
  ASSUME Types, Agree, NEW m \in Machines, BulkSubmit(m) PROVE Agree'
<1>1. PICK j \in jobs[m] :
        /\ jobs' = [jobs EXCEPT ![m] = jobs[m] \ {j}]
        /\ accepts' = accepts \cup {[by |-> m, slot |-> j[1], ballot |-> leads[m],
                                     yes |-> {}, refused |-> FALSE]}
        /\ ToAll(m, [kind |-> "accept", by |-> m, slot |-> j[1],
                     ballot |-> leads[m], cmd |-> j[2]])
  BY DEF BulkSubmit
<1>2. /\ UNCHANGED serverVars /\ UNCHANGED <<leads, submitted>> /\ round' = round
      /\ UNCHANGED <<up, busy, control>>
  BY DEF BulkSubmit
<1>3. OpenInv' /\ SlotInv' /\ ExecInv' /\ EpochInv' /\ SyncInv' /\ ControlInv' /\ Steady
  <2>1. \A x \in Machines : busy'[x] # Idle => busy'[x].epoch <= busy'[x].msg.ballot
    BY <1>2 DEF Agree, EpochInv
  <2> QED BY <1>2, <2>1, QuietParts
<1>4. JobOK(m, j) /\ j[1] \in Slots /\ j[2] \in Logs /\ leads[m] \in Epochs
  BY DEF Agree, WorkInv, Types, WorkerTypes
<1>5. \/ leads[m] = FirstEpoch /\ j[2] = <<0, j[1]>>
      \/ leads[m] = NextEpoch /\ New(j[1]) /\ j[2] = Val(j[1])
  <2>1. CASE m = 0 /\ j[2] = <<0, j[1]>>
    BY <2>1 DEF Agree, WorkInv
  <2>2. CASE m = round.by /\ New(j[1]) /\ j[2] = Val(j[1])
    <3>1. round.phase \in After
      BY <2>2 DEF New, After
    <3> QED BY <2>2, <3>1 DEF Agree, WorkInv
  <2> QED BY <1>4, <2>1, <2>2 DEF JobOK
<1>6. \/ leads[m] = FirstEpoch /\ j[2] = <<0, j[1]>>
      \/ leads[m] = NextEpoch /\ New(j[1])' /\ j[2] = Val(j[1])'
  BY <1>3, <1>5 DEF Steady, SameVals
<1>7. PICK msg : msg = [kind |-> "accept", by |-> m, slot |-> j[1], ballot |-> leads[m],
                        cmd |-> j[2]]
  OBVIOUS
<1>8. msg.kind = "accept" /\ msg.slot = j[1] /\ msg.ballot = leads[m] /\ msg.cmd = j[2]
  BY <1>7
<1>9. \A d \in Machines : MsgOK(d, msg)'
  BY <1>6, <1>8 DEF MsgOK
<1>10. More(msg)
  BY <1>1, <1>2, <1>4, <1>7, AcceptMade, ToAllInFlight DEF Types
<1>11. MsgInv'
  BY <1>3, <1>9, <1>10, OneMoreMsg DEF Types, Agree
<1>12. \A x \in Machines : jobs'[x] \subseteq jobs[x]
  BY <1>1 DEF Types, WorkerTypes
<1>13. ASSUME NEW x \in accepts'
       PROVE  x.ballot = FirstEpoch \/ (x.ballot = NextEpoch /\ New(x.slot)')
  <2>1. CASE x \in accepts
    <3>1. x.ballot = FirstEpoch \/ (x.ballot = NextEpoch /\ New(x.slot))
      BY <2>1 DEF Agree, WorkInv
    <3> QED BY <3>1, <1>3 DEF Steady, SameVals
  <2>2. CASE x \notin accepts
    <3>1. x.slot = j[1] /\ x.ballot = leads[m]
      BY <1>1, <2>2
    <3> QED BY <3>1, <1>6
  <2> QED BY <2>1, <2>2
<1>14. \A x \in Machines : \A y \in jobs'[x] : JobOK(x, y)'
  BY <1>2, <1>3, <1>12, KeepJob DEF Agree, WorkInv, Steady
<1>15. WorkInv'
  BY <1>2, <1>13, <1>14 DEF Agree, WorkInv
<1> QED BY <1>3, <1>11, <1>15 DEF Agree

LEMMA CommitAgree ==
  ASSUME Types, Agree, NEW c \in accepts, Commit(c) PROVE Agree'
<1>1. /\ UNCHANGED serverVars /\ UNCHANGED <<leads, submitted>> /\ round' = round
      /\ UNCHANGED <<up, busy, control, jobs>> /\ accepts' = accepts \ {c}
  BY DEF Commit
<1>2. OpenInv' /\ SlotInv' /\ ExecInv' /\ EpochInv' /\ SyncInv' /\ ControlInv' /\ Steady
  <2>1. \A x \in Machines : busy'[x] # Idle => busy'[x].epoch <= busy'[x].msg.ballot
    BY <1>1 DEF Agree, EpochInv
  <2> QED BY <1>1, <2>1, QuietParts
<1>3. PICK msg : msg = [kind |-> "commit", by |-> c.by, slot |-> c.slot, ballot |-> c.ballot]
  OBVIOUS
<1>4. msg.kind = "commit" /\ msg.slot = c.slot /\ msg.ballot = c.ballot
  BY <1>3
<1>5. c.ballot = FirstEpoch \/ (c.ballot = NextEpoch /\ New(c.slot)')
  BY <1>2 DEF Agree, WorkInv, Steady, SameVals
<1>6. \A d \in Machines : MsgOK(d, msg)'
  BY <1>4, <1>5 DEF MsgOK
<1>7. More(msg)
  <2>1. c.by \in Machines /\ c.slot \in Slots /\ c.ballot \in Epochs
    BY DEF Types, WorkerTypes, Coordinator
  <2>2. ToAll(c.by, msg)
    BY <1>3 DEF Commit
  <2> QED BY <1>1, <1>3, <2>1, <2>2, CommitMade, ToAllInFlight DEF Types
<1>8. MsgInv'
  BY <1>2, <1>6, <1>7, OneMoreMsg DEF Types, Agree
<1>9. WorkInv'
  BY <1>1, <1>2, KeepWork DEF Agree, Steady
<1> QED BY <1>2, <1>8, <1>9 DEF Agree

\* While machine 0 is up nobody is elected.
LEMMA FirstLeaderAlone ==
  ASSUME Agree, up[0] PROVE round.phase = "none"
BY DEF Agree, EpochInv

LEMMA AddLogAgree ==
  ASSUME Types, Agree, NEW m \in Machines, add_log_to_nc(m) PROVE Agree'
<1>1. PICK n : n = submitted[m]
  OBVIOUS
<1>2. PICK s : s = cur_open_slot[m]
  OBVIOUS
<1>3. /\ up[m] /\ leads[m] # 0 /\ (m = 0 \/ round.phase = "done")
      /\ submitted' = [submitted EXCEPT ![m] = n + 1]
      /\ cur_open_slot' = [cur_open_slot EXCEPT ![m] = s + 1]
      /\ jobs' = [jobs EXCEPT ![m] = jobs[m] \cup {<<s, <<m, n + 1>> >>}]
      /\ round' = round
      /\ UNCHANGED <<up, cur_epoch, accepted, ballot, committed, executed,
                     max_committed_slot, max_executed_slot, late, leads, accepts,
                     stream, busy, control>>
  BY <1>1, <1>2 DEF add_log_to_nc, OpenSlot, netVars
<1>4. n \in Nat /\ s \in Nat \ {0} /\ 0 \in Machines
  BY <1>1, <1>2, Constants, SMT DEF Types, WorkerTypes, ServerTypes
<1>5. /\ submitted'[m] = n + 1 /\ cur_open_slot'[m] = s + 1
      /\ \A x \in Machines : x # m => submitted'[x] = submitted[x]
                                      /\ cur_open_slot'[x] = cur_open_slot[x]
  BY <1>3 DEF Types, WorkerTypes, ServerTypes
<1>6. /\ SameVals /\ JobOK(m, <<s, <<m, n + 1>> >>)
      /\ OpenInv' /\ round.phase \in {"none", "done"}
  <2>1. CASE m = 0
    <3>1. round.phase = "none"
      BY <1>3, <2>1, FirstLeaderAlone
    <3>2. SameVals
      BY <1>3, <3>1, ValsBefore
    <3>3. s = n + 1
      BY <1>1, <1>2, <1>3, <2>1 DEF Agree, OpenInv
    <3>4. OpenInv'
      <4>1. \A x \in Others : submitted'[x] = 0
        BY <1>5, <2>1, <3>1 DEF Agree, OpenInv, Others
      <4> QED BY <1>3, <1>5, <2>1, <3>1, <3>3, <4>1 DEF OpenInv
    <3>5. JobOK(m, <<s, <<m, n + 1>> >>)
      BY <2>1, <3>3 DEF JobOK
    <3> QED BY <3>1, <3>2, <3>4, <3>5
  <2>2. CASE m # 0
    <3>1. round.phase = "done" /\ m = round.by
      BY <1>3, <2>2 DEF Agree, WorkInv, Others
    <3>2. Base = s - n - 2 /\ Base' = (s + 1) - (n + 1) - 2
      BY <1>1, <1>2, <1>3, <1>5, <3>1 DEF Base
    <3>3. Base' = Base /\ s > Base /\ s - Base - 1 = n + 1
      BY <1>4, <3>2, SMT
    <3>4. SameVals
      BY <1>3, <3>3, ValsAfter
    <3>5. New(s) /\ Val(s) = <<m, n + 1>>
      BY <3>1, <3>3 DEF New, Val
    <3>6. JobOK(m, <<s, <<m, n + 1>> >>)
      BY <3>1, <3>5 DEF JobOK
    <3>7. OpenInv'
      BY <1>3, <1>4, <1>5, <2>2, <3>1, <3>3 DEF Agree, OpenInv
    <3> QED BY <3>1, <3>4, <3>6, <3>7
  <2> QED BY <2>1, <2>2
<1>7. Steady
  BY <1>3, <1>6, SameCommitted DEF Steady
<1>8. MsgInv'
  BY <1>3, <1>7, SameInFlight, KeepMsgs DEF Types, Agree
<1>9. WorkInv'
  <2>1. ASSUME NEW x \in Machines, NEW j \in jobs'[x] PROVE JobOK(x, j)'
    <3>1. j \in jobs[x] \/ (x = m /\ j = <<s, <<m, n + 1>> >>)
      BY <1>3 DEF Types, WorkerTypes
    <3>2. JobOK(x, j)
      BY <3>1, <1>6 DEF Agree, WorkInv
    <3> QED BY <3>2, <1>3, <1>6, KeepJob
  <2>2. \A c \in accepts' : c.ballot = FirstEpoch \/ (c.ballot = NextEpoch /\ New(c.slot)')
    BY <1>3, <1>6 DEF Agree, WorkInv, SameVals
  <2> QED BY <1>3, <2>1, <2>2 DEF Agree, WorkInv
<1>10. SlotInv' /\ ExecInv'
  BY <1>3, <1>6, KeepSlots, KeepExec DEF Agree
<1>11. EpochInv'
  BY <1>3, KeepEpoch DEF Agree, EpochInv
<1>12. SyncInv'
  BY <1>3, <1>6 DEF Agree, SyncInv
<1>13. ControlInv'
  BY <1>3, KeepControl DEF Types, Agree
<1> QED BY <1>6, <1>8, <1>9, <1>10, <1>11, <1>12, <1>13 DEF Agree

(***************************************************************************)
(* The stream's handlers.  A handler that is not late acts for the epoch   *)
(* of its machine, so for the new one from BecomeLeader on.                *)
(***************************************************************************)
LEMMA Timely ==
  ASSUME Types, Agree, NEW d \in Machines, busy[d] # Idle, RaiseEpoch(d), ~late'
  PROVE  /\ \A x \in Machines : cur_epoch[x] = NextEpoch => cur_epoch'[x] = NextEpoch
         /\ d # 0 /\ round.phase \in After => busy[d].msg.ballot = NextEpoch
         /\ MsgOK(d, busy[d].msg)
<1>1. PICK b : b = busy[d].msg.ballot
  OBVIOUS
<1>2. PICK h : h = busy[d].epoch
  OBVIOUS
<1>3. PICK c : c = cur_epoch[d]
  OBVIOUS
<1>4. b \in Epochs /\ h \in Epochs /\ c \in Epochs
  BY <1>1, <1>2, <1>3, HeldMessage, MessageFacts DEF Types, ServerTypes
<1>5. h <= b
  BY <1>1, <1>2 DEF Agree, EpochInv
<1>6. ~(b < c)
  BY <1>1, <1>2, <1>3, <1>5 DEF RaiseEpoch
<1>7. c = NextEpoch => b = NextEpoch
  BY <1>4, <1>6, SMT DEF Epochs, FirstEpoch, NextEpoch
<1>8. \A x \in Machines : cur_epoch'[x] = cur_epoch[x] \/ (x = d /\ cur_epoch'[x] = b)
  BY <1>1 DEF RaiseEpoch, Types, ServerTypes
<1>9. \A x \in Machines : cur_epoch[x] = NextEpoch => cur_epoch'[x] = NextEpoch
  BY <1>3, <1>7, <1>8
<1>10. d # 0 /\ round.phase \in After => c = NextEpoch
  BY <1>3 DEF Agree, EpochInv, Others
<1>11. MsgOK(d, busy[d].msg)
  BY HeldMessage DEF Types, Agree, MsgInv
<1> QED BY <1>1, <1>7, <1>9, <1>10, <1>11

LEMMA FirstIsNotNext == FirstEpoch # NextEpoch
BY SMT DEF FirstEpoch, NextEpoch

\* EpochInv after a handler, with at most a reply of its own.
LEMMA HandledEpoch ==
  ASSUME Types, Agree, NEW d \in Machines,
         \A x \in Machines : cur_epoch[x] = NextEpoch => cur_epoch'[x] = NextEpoch,
         up'[0] => up[0], round'.phase = round.phase,
         round'.replies = round.replies
           \/ (round'.replies = round.replies \cup {[from |-> d]}
               /\ d # 0 /\ round.phase # "prepare"),
         \A x \in Machines : busy'[x] \in {busy[x], Idle}
  PROVE  EpochInv'
<1>1. round.phase # "none" => ~up'[0]
  BY DEF Agree, EpochInv
<1>2. ASSUME round.phase = "prepare", NEW r \in round'.replies
      PROVE  cur_epoch'[r.from] = NextEpoch
  <2>1. r \in round.replies
    BY <1>2
  <2>2. r.from \in Machines /\ cur_epoch[r.from] = NextEpoch
    BY <1>2, <2>1 DEF Types, RoundTypes, Plain, Agree, EpochInv
  <2> QED BY <2>2
<1>3. round.phase \in After => \A x \in Others : cur_epoch'[x] = NextEpoch
  BY DEF Agree, EpochInv, Others
<1>4. \A r \in round'.replies : r.from # 0
  BY DEF Agree, EpochInv
<1>5. \A x \in Machines : busy'[x] # Idle => busy'[x].epoch <= busy'[x].msg.ballot
  BY DEF Agree, EpochInv
<1> QED BY <1>1, <1>2, <1>3, <1>4, <1>5 DEF EpochInv

LEMMA OnBulkAcceptAgree ==
  ASSUME Types, Agree, NEW d \in Machines, OnBulkAccept(d), ~late' PROVE Agree'
<1>1. PICK msg : msg = busy[d].msg
  OBVIOUS
<1>2. /\ up[d] /\ busy[d] # Idle /\ msg.kind = "accept" /\ RaiseEpoch(d)
      /\ accepted' = [accepted EXCEPT ![d] = [accepted[d] EXCEPT ![msg.slot] = msg.cmd]]
      /\ ballot' = [ballot EXCEPT ![d] = [ballot[d] EXCEPT ![msg.slot] = msg.ballot]]
      /\ accepts' = Reply(msg, d, TRUE)
      /\ busy' = [busy EXCEPT ![d] = Idle]
  BY <1>1 DEF OnBulkAccept
<1>3. /\ UNCHANGED <<up, committed, max_committed_slot, max_executed_slot, cur_open_slot,
                     executed, leads, submitted, jobs, stream, control>>
      /\ round' = round
  BY DEF OnBulkAccept
<1>4. /\ \A x \in Machines : cur_epoch[x] = NextEpoch => cur_epoch'[x] = NextEpoch
      /\ MsgOK(d, msg)
  BY <1>1, <1>2, Timely
<1>5. SameVals
  BY <1>3, ElectedSame, ValsAfter
<1>6. Steady
  BY <1>3, <1>5, SameCommitted DEF Steady
<1>7. MsgInv'
  BY <1>2, <1>3, <1>6, HandledInFlight, KeepMsgs DEF Types, Agree
<1>8. WorkInv'
  <2>1. \A x \in accepts' : \E c \in accepts : x.slot = c.slot /\ x.ballot = c.ballot
    BY <1>2, ReplyFacts DEF Types, WorkerTypes
  <2> QED BY <1>3, <1>5, <2>1, KeepWork DEF Agree
<1>9. SlotInv'
  <2>1. ASSUME NEW x \in Machines, NEW s \in Slots PROVE SlotOK(x, s)'
    <3>1. SlotOK(x, s) /\ (New(s)' <=> New(s)) /\ Val(s)' = Val(s)
      BY <1>5 DEF Agree, SlotInv, SameVals
    <3>2. CASE x = d /\ s = msg.slot
      <4>1. accepted'[x][s] = msg.cmd /\ ballot'[x][s] = msg.ballot
        BY <1>2, <3>2 DEF Types, ServerTypes
      <4>2. \/ msg.ballot = FirstEpoch /\ msg.cmd = <<0, s>>
            \/ msg.ballot = NextEpoch /\ New(s) /\ msg.cmd = Val(s)
        BY <1>2, <1>4, <3>2 DEF MsgOK
      <4>3. msg.ballot = NextEpoch => d # 0
        <5>1. CASE New(s)
          <6>1. round.phase = "done"
            BY <5>1 DEF New
          <6> QED BY <6>1, <1>2, FirstLeaderAlone
        <5>2. CASE ~New(s)
          BY <5>2, <4>2, FirstIsNotNext
        <5> QED BY <5>1, <5>2
      <4> QED BY <1>3, <3>1, <3>2, <4>1, <4>2, <4>3, FirstIsNotNext DEF SlotOK, Has
    <3>3. CASE ~(x = d /\ s = msg.slot)
      <4>1. accepted'[x][s] = accepted[x][s] /\ ballot'[x][s] = ballot[x][s]
        BY <1>2, <3>3 DEF Types, ServerTypes
      <4> QED BY <1>3, <3>1, <4>1 DEF SlotOK, Has
    <3> QED BY <3>2, <3>3
  <2> QED BY <2>1 DEF SlotInv
<1>10. OpenInv' /\ ExecInv'
  BY <1>3, KeepOpen, KeepExec DEF Agree
<1>11. EpochInv'
  <2>1. \A x \in Machines : busy'[x] \in {busy[x], Idle}
    BY <1>2 DEF Types, NetTypes
  <2> QED BY <1>3, <1>4, <2>1, HandledEpoch
<1>12. SyncInv' /\ ControlInv'
  BY <1>3, KeepSync, KeepControl DEF Types, Agree
<1> QED BY <1>7, <1>8, <1>9, <1>10, <1>11, <1>12 DEF Agree

LEMMA PairIsNotNone == \A a, b : <<a, b>> # None
BY SMT DEF None

LEMMA ValIsNotNone == \A s : Val(s) # None
BY PairIsNotNone DEF Val

\* Machine d commits coms, which has the right values, and executes what it can.
LEMMA CommitAllAgree ==
  ASSUME Types, Agree, NEW d \in Machines, NEW coms \in [Slots -> Entries],
         NEW top \in Slots, top <= Top, coms[top] # None,
         \A s \in Slots : coms[s] # None => coms[s] = IF d = 0 THEN <<0, s>> ELSE Val(s),
         \A s \in Slots : Has(d, s) => coms[s] # None,
         CommitAll(d, coms, top)
  PROVE  /\ committed'[d] = coms
         /\ \A x \in Machines : x # d => committed'[x] = committed[x]
         /\ Grows
         /\ ExecInv'
<1>1. PICK h : h = Highest(d, top)
  OBVIOUS
<1>2. top \in Nat
  BY SlotFacts
<1>3. /\ committed' = [committed EXCEPT ![d] = coms]
      /\ max_committed_slot' = [max_committed_slot EXCEPT ![d] = h]
      /\ h \in Nat /\ h <= Top
      /\ max_executed_slot' \in [Machines -> Nat]
      /\ max_executed_slot[d] <= max_executed_slot'[d]
      /\ \A m \in Machines : m # d => /\ executed'[m] = executed[m]
                                      /\ max_executed_slot'[m] = max_executed_slot[m]
      /\ \A i \in 1..max_executed_slot[d] : executed'[d][i] = executed[d][i]
      /\ \A i \in (max_executed_slot[d] + 1)..max_executed_slot'[d] :
           coms[i] # None /\ executed'[d][i] = coms[i]
  BY <1>1, <1>2, CommitAllFacts DEF Types
<1>4. committed'[d] = coms /\ \A x \in Machines : x # d => committed'[x] = committed[x]
  BY <1>3 DEF Types, ServerTypes
<1>5. Grows
  BY <1>4 DEF Grows, Has
<1>6. /\ max_executed_slot[d] \in Nat /\ max_committed_slot[d] \in Nat
      /\ max_executed_slot'[d] \in Nat
      /\ max_executed_slot[d] <= max_committed_slot[d] /\ max_committed_slot[d] <= Top
      /\ Top \in Nat /\ Top <= MaxSlot
  BY <1>3, TopFacts DEF Types, ServerTypes, ServerReach
<1>7. max_committed_slot'[d] # 0 => Has(d, max_committed_slot[d])'
  <2>1. max_committed_slot'[d] = h
    BY <1>3 DEF Types, ServerTypes
  <2>2. h = top \/ h = max_committed_slot[d]
    BY <1>1 DEF Highest
  <2>3. CASE h = top
    BY <1>4, <2>1, <2>3 DEF Has
  <2>4. CASE h = max_committed_slot[d] /\ h # 0
    <3>1. h \in Slots
      BY <1>6, <2>4, SlotFacts, Constants, SMT
    <3>2. Has(d, h)
      BY <2>4 DEF Agree, ExecInv
    <3> QED BY <1>4, <2>1, <3>1, <3>2 DEF Has
  <2> QED BY <2>1, <2>2, <2>3, <2>4
<1>8. ASSUME NEW i \in 1..max_executed_slot'[d]
      PROVE  Has(d, i)' /\ executed'[d][i] = committed'[d][i]
  <2>1. CASE i \in 1..max_executed_slot[d]
    <3>1. i \in Slots
      BY <1>6, <2>1, SlotFacts, Constants, SMT
    <3>2. Has(d, i) /\ executed[d][i] = committed[d][i]
      BY <2>1 DEF Agree, ExecInv
    <3>3. committed[d][i] = IF d = 0 THEN <<0, i>> ELSE Val(i)
      BY <3>1, <3>2 DEF Agree, SlotInv, SlotOK
    <3>4. coms[i] # None /\ coms[i] = committed[d][i]
      BY <3>1, <3>2, <3>3
    <3> QED BY <1>3, <1>4, <2>1, <3>2, <3>4 DEF Has
  <2>2. CASE i \in (max_executed_slot[d] + 1)..max_executed_slot'[d]
    BY <1>3, <1>4, <2>2 DEF Has
  <2>3. i \in 1..max_executed_slot[d] \/ i \in (max_executed_slot[d] + 1)..max_executed_slot'[d]
    BY <1>6, SMT
  <2> QED BY <2>1, <2>2, <2>3
<1>9. ASSUME NEW x \in Machines, x # d
      PROVE  /\ max_committed_slot'[x] # 0 => Has(x, max_committed_slot[x])'
             /\ \A i \in 1..max_executed_slot'[x] :
                  Has(x, i)' /\ executed'[x][i] = committed'[x][i]
  <2>1. /\ max_committed_slot'[x] = max_committed_slot[x] /\ committed'[x] = committed[x]
        /\ max_executed_slot'[x] = max_executed_slot[x] /\ executed'[x] = executed[x]
    BY <1>3, <1>4, <1>9 DEF Types, ServerTypes
  <2> QED BY <2>1 DEF Agree, ExecInv, Has
<1>10. ExecInv'
  BY <1>7, <1>8, <1>9 DEF ExecInv
<1> QED BY <1>4, <1>5, <1>10

\* A handler that ends in a verify(0).
LEMMA DownHandled ==
  ASSUME Types, Agree, NEW d \in Machines, Down(d), round' = round,
         \A x \in Machines : cur_epoch[x] = NextEpoch => cur_epoch'[x] = NextEpoch,
         UNCHANGED <<accepted, ballot, committed, max_committed_slot, max_executed_slot,
                     cur_open_slot, executed, leads, submitted>>
  PROVE  Agree'
<1>1. /\ up'[0] => up[0]
      /\ \A x \in Machines : control'[x] \in {control[x], << >>}
      /\ \A x \in Machines : busy'[x] \in {busy[x], Idle}
      /\ \A x \in Machines : jobs'[x] \subseteq jobs[x]
      /\ accepts' \subseteq accepts
      /\ Less
  BY DownFacts
<1>2. SameVals
  BY ElectedSame, ValsAfter
<1>3. Steady
  BY <1>2, SameCommitted DEF Steady
<1>4. MsgInv'
  BY <1>1, <1>3, KeepMsgs DEF Types, Agree
<1>5. WorkInv'
  BY <1>1, <1>2, KeepWork DEF Agree
<1>6. SlotInv' /\ ExecInv' /\ OpenInv'
  BY <1>1, <1>2, KeepSlots, KeepExec, KeepOpen DEF Agree
<1>7. EpochInv'
  BY <1>1, HandledEpoch
<1>8. SyncInv' /\ ControlInv'
  BY <1>1, KeepSync, KeepControl DEF Types, Agree
<1> QED BY <1>4, <1>5, <1>6, <1>7, <1>8 DEF Agree

LEMMA OnBulkCommitAgree ==
  ASSUME Types, Agree, NEW d \in Machines, OnBulkCommit(d), ~late' PROVE Agree'
<1>1. PICK msg : msg = busy[d].msg
  OBVIOUS
<1>2. /\ up[d] /\ busy[d] # Idle /\ msg.kind = "commit" /\ RaiseEpoch(d)
      /\ UNCHANGED <<accepted, ballot, cur_open_slot, leads, submitted>> /\ round' = round
  BY <1>1 DEF OnBulkCommit
<1>3. msg \in Message /\ msg.slot \in Slots /\ msg.slot <= Top
  BY <1>1, <1>2, HeldMessage, MessageFacts DEF Types, Within
<1>4. /\ \A x \in Machines : cur_epoch[x] = NextEpoch => cur_epoch'[x] = NextEpoch
      /\ d # 0 /\ round.phase \in After => msg.ballot = NextEpoch
      /\ MsgOK(d, msg)
  BY <1>1, <1>2, Timely
<1>5. CASE ballot[d][msg.slot] = msg.ballot
  <2>1. PICK coms : coms = [committed[d] EXCEPT ![msg.slot] = accepted[d][msg.slot]]
    OBVIOUS
  <2>2. /\ CommitAll(d, coms, msg.slot) /\ busy' = [busy EXCEPT ![d] = Idle]
        /\ UNCHANGED <<up, jobs, accepts, stream, control>>
    BY <1>1, <1>5, <2>1 DEF OnBulkCommit
  <2>3. coms \in [Slots -> Entries]
    BY <2>1, <1>3 DEF Types, ServerTypes
  <2>4. coms[msg.slot] = accepted[d][msg.slot]
        /\ \A s \in Slots : s # msg.slot => coms[s] = committed[d][s]
    BY <2>1, <1>3 DEF Types, ServerTypes
  <2>5. msg.ballot = FirstEpoch \/ (msg.ballot = NextEpoch /\ New(msg.slot))
    BY <1>2, <1>4 DEF MsgOK
  <2>6. SlotOK(d, msg.slot)
    BY <1>3 DEF Agree, SlotInv
  <2>7. /\ accepted[d][msg.slot] = IF d = 0 THEN <<0, msg.slot>> ELSE Val(msg.slot)
        /\ round.phase \in {"none", "prepare", "done"}
    <3>1. CASE msg.ballot = FirstEpoch
      <4>1. accepted[d][msg.slot] = <<0, msg.slot>>
        BY <1>5, <2>6, <3>1 DEF SlotOK
      <4>2. round.phase \notin After
        <5>1. CASE d = 0
          <6>1. round.phase = "none"
            BY <5>1, <1>2, FirstLeaderAlone
          <6> QED BY <6>1 DEF After
        <5>2. CASE d # 0
          BY <5>2, <3>1, <1>4, FirstIsNotNext
        <5> QED BY <5>1, <5>2
      <4>3. round.phase \in {"none", "prepare"}
        BY <4>2 DEF After, Types, RoundTypes, Rounds, Phases
      <4>4. Val(msg.slot) = <<0, msg.slot>>
        BY <4>3 DEF Val, New
      <4> QED BY <4>1, <4>3, <4>4
    <3>2. CASE msg.ballot = NextEpoch /\ New(msg.slot)
      <4>1. round.phase = "done"
        BY <3>2 DEF New
      <4>2. d # 0
        BY <4>1, <1>2, FirstLeaderAlone
      <4>3. accepted[d][msg.slot] = Val(msg.slot)
        BY <1>5, <2>6, <3>2 DEF SlotOK
      <4> QED BY <4>1, <4>2, <4>3
    <3> QED BY <2>5, <3>1, <3>2
  <2>8. \A s \in Slots : coms[s] # None => coms[s] = IF d = 0 THEN <<0, s>> ELSE Val(s)
    <3> TAKE s \in Slots
    <3>1. CASE s = msg.slot
      BY <3>1, <2>4, <2>7
    <3>2. CASE s # msg.slot
      <4>1. coms[s] = committed[d][s] /\ SlotOK(d, s)
        BY <2>4, <3>2 DEF Agree, SlotInv
      <4> QED BY <4>1 DEF SlotOK, Has
    <3> QED BY <3>1, <3>2
  <2>9. coms[msg.slot] # None
    BY <2>4, <2>7, PairIsNotNone, ValIsNotNone
  <2>10. \A s \in Slots : Has(d, s) => coms[s] # None
    BY <2>4, <2>9 DEF Has
  <2>11. /\ committed'[d] = coms /\ \A x \in Machines : x # d => committed'[x] = committed[x]
         /\ Grows /\ ExecInv'
    BY <1>3, <2>2, <2>3, <2>8, <2>9, <2>10, CommitAllAgree
  <2>12. SameVals
    BY <1>2, ElectedSame, ValsAfter
  <2>13. Steady
    BY <1>2, <2>7, <2>11, <2>12 DEF Steady
  <2>14. MsgInv'
    BY <2>2, <2>13, HandledInFlight, KeepMsgs DEF Types, Agree
  <2>15. WorkInv'
    BY <1>2, <2>2, <2>12, KeepWork DEF Agree
  <2>16. SlotInv'
    <3>1. ASSUME NEW x \in Machines, NEW s \in Slots PROVE SlotOK(x, s)'
      <4>1. SlotOK(x, s) /\ (New(s)' <=> New(s)) /\ Val(s)' = Val(s)
            /\ (Has(x, s) => Has(x, s)')
        BY <2>11, <2>12 DEF Agree, SlotInv, SameVals, Grows
      <4>2. Has(x, s)' => committed'[x][s] = IF x = 0 THEN <<0, s>> ELSE Val(s)
        <5>1. CASE x = d
          BY <5>1, <2>8, <2>11 DEF Has
        <5>2. CASE x # d
          BY <5>2, <4>1, <2>11 DEF Has, SlotOK
        <5> QED BY <5>1, <5>2
      <4> QED BY <1>2, <4>1, <4>2 DEF SlotOK
    <3> QED BY <3>1 DEF SlotInv
  <2>17. OpenInv'
    BY <1>2, <2>2, KeepOpen DEF Agree
  <2>18. EpochInv'
    <3>1. \A x \in Machines : busy'[x] \in {busy[x], Idle}
      BY <2>2 DEF Types, NetTypes
    <3> QED BY <1>2, <1>4, <2>2, <3>1, HandledEpoch
  <2>19. SyncInv'
    BY <1>2, <2>2, <2>7 DEF Agree, SyncInv
  <2>20. ControlInv'
    BY <1>2, <2>2, <2>7 DEF Agree, ControlInv, ControlOK
  <2> QED BY <2>11, <2>14, <2>15, <2>16, <2>17, <2>18, <2>19, <2>20 DEF Agree
<1>6. CASE ballot[d][msg.slot] # msg.ballot
  <2>1. Down(d) /\ UNCHANGED <<committed, max_committed_slot, max_executed_slot, executed>>
    BY <1>1, <1>6 DEF OnBulkCommit
  <2> QED BY <1>2, <1>4, <2>1, DownHandled
<1> QED BY <1>5, <1>6

LEMMA OnSyncCommitAgree ==
  ASSUME Types, Agree, NEW d \in Machines, OnSyncCommit(d), ~late' PROVE Agree'
<1>1. PICK msg : msg = busy[d].msg
  OBVIOUS
<1>2. PICK slots : slots = DOMAIN msg.cmds
  OBVIOUS
<1>3. /\ up[d] /\ busy[d] # Idle /\ msg.kind = "sync" /\ RaiseEpoch(d)
      /\ UNCHANGED <<accepted, cur_open_slot, leads, submitted>>
  BY <1>1 DEF OnSyncCommit
<1>4. msg \in Message /\ Within(msg)
  BY <1>1, <1>3, HeldMessage DEF Types
<1>5. msg.cmds \in Tables /\ msg.ballot \in Epochs
  BY <1>3, <1>4, MessageFacts
<1>6. slots \subseteq Slots /\ slots # {} /\ (\A s \in slots : msg.cmds[s] \in Logs /\ s <= Top)
  BY <1>2, <1>3, <1>4, <1>5, TableFacts DEF Within
<1>7. /\ \A x \in Machines : cur_epoch[x] = NextEpoch => cur_epoch'[x] = NextEpoch
      /\ MsgOK(d, msg)
  BY <1>1, <1>3, Timely
<1>8. /\ msg.ballot = NextEpoch /\ round.phase \in Sending
      /\ \A s \in slots : msg.cmds[s] = <<0, s>> /\ ~New(s) /\ Somewhere(s)
      /\ round.phase = "commit" /\ d # 0 =>
           \A s \in Slots : Somewhere(s) => s \in slots \/ Has(d, s)
  BY <1>2, <1>3, <1>7 DEF MsgOK
<1>9. d # 0
  BY <1>3, <1>8, FirstLeaderAlone DEF Sending
<1>10. CASE \A s \in slots : ballot[d][s] <= msg.ballot
  <2>1. PICK coms : coms = [s \in Slots |-> IF s \in slots THEN msg.cmds[s] ELSE committed[d][s]]
    OBVIOUS
  <2>2. PICK top : top = CHOOSE s \in slots : \A t \in slots : t <= s
    OBVIOUS
  <2>3. top \in slots
    BY <2>2, <1>6, LastSlot
  <2>4. /\ ballot' = [ballot EXCEPT ![d] =
                        [s \in Slots |-> IF s \in slots THEN msg.ballot ELSE ballot[d][s]]]
        /\ CommitAll(d, coms, top) /\ busy' = [busy EXCEPT ![d] = Idle]
        /\ UNCHANGED <<up, jobs, accepts, stream, control>>
        /\ round' = [round EXCEPT !.replies =
                       IF round.phase = "commit" THEN @ \cup {[from |-> d]} ELSE @]
    BY <1>1, <1>2, <1>10, <2>1, <2>2 DEF OnSyncCommit
  <2>5. top \in Slots /\ top <= Top
    BY <2>3, <1>6
  <2>6. coms \in [Slots -> Entries]
    BY <2>1, <1>6, EntryFacts DEF Types, ServerTypes
  <2>7. \A s \in Slots : coms[s] = IF s \in slots THEN <<0, s>> ELSE committed[d][s]
    BY <2>1, <1>8
  <2>8. \A s \in slots : Val(s) = <<0, s>>
    BY <1>8 DEF Val
  <2>9. \A s \in Slots : coms[s] # None => coms[s] = IF d = 0 THEN <<0, s>> ELSE Val(s)
    <3> TAKE s \in Slots
    <3>1. SlotOK(d, s)
      BY DEF Agree, SlotInv
    <3> QED BY <1>9, <2>7, <2>8, <3>1 DEF SlotOK, Has
  <2>10. coms[top] # None
    BY <2>3, <2>5, <2>7, PairIsNotNone
  <2>11. \A s \in Slots : Has(d, s) => coms[s] # None
    BY <2>7, PairIsNotNone DEF Has
  <2>12. /\ committed'[d] = coms /\ \A x \in Machines : x # d => committed'[x] = committed[x]
         /\ Grows /\ ExecInv'
    BY <2>4, <2>5, <2>6, <2>9, <2>10, <2>11, CommitAllAgree
  <2>13. /\ round'.phase = round.phase /\ round'.by = round.by
         /\ round'.replies = IF round.phase = "commit" THEN round.replies \cup {[from |-> d]}
                             ELSE round.replies
    <3>1. "commit" \in Phases \ {"synclog"}
      BY DEF Phases
    <3> QED BY <2>4, <3>1, OneReply DEF Types
  <2>14. SameVals
    BY <1>3, <2>13, ElectedSame, ValsAfter
  <2>15. \A s \in Slots : Somewhere(s)' => Somewhere(s)
    <3> SUFFICES ASSUME NEW s \in Slots, NEW x \in Others, Has(x, s)' PROVE Somewhere(s)
      BY DEF Somewhere
    <3>1. x \in Machines
      BY DEF Others
    <3>2. CASE x = d /\ s \in slots
      BY <1>8, <3>2
    <3>3. CASE ~(x = d /\ s \in slots)
      <4>1. Has(x, s)
        BY <2>7, <2>12, <3>1, <3>3 DEF Has
      <4> QED BY <4>1 DEF Somewhere
    <3> QED BY <3>2, <3>3
  <2>16. Steady
    BY <2>12, <2>13, <2>14, <2>15 DEF Steady
  <2>17. MsgInv'
    BY <2>4, <2>16, HandledInFlight, KeepMsgs DEF Types, Agree
  <2>18. WorkInv'
    BY <1>3, <2>4, <2>13, <2>14, KeepWork DEF Agree
  <2>19. SlotInv'
    <3>1. ASSUME NEW x \in Machines, NEW s \in Slots PROVE SlotOK(x, s)'
      <4>1. SlotOK(x, s) /\ (New(s)' <=> New(s)) /\ Val(s)' = Val(s)
            /\ (Has(x, s) => Has(x, s)')
        BY <2>12, <2>14 DEF Agree, SlotInv, SameVals, Grows
      <4>2. Has(x, s)' => committed'[x][s] = IF x = 0 THEN <<0, s>> ELSE Val(s)
        <5>1. CASE x = d
          BY <5>1, <2>9, <2>12 DEF Has
        <5>2. CASE x # d
          BY <5>2, <4>1, <2>12 DEF Has, SlotOK
        <5> QED BY <5>1, <5>2
      <4>3. CASE x = d /\ s \in slots
        <5>1. ballot'[x][s] = NextEpoch
          BY <1>8, <2>4, <4>3 DEF Types, ServerTypes
        <5>2. ~New(s)' /\ Has(x, s)'
          BY <1>8, <2>7, <2>12, <4>1, <4>3, PairIsNotNone DEF Has
        <5> QED BY <1>9, <4>1, <4>2, <4>3, <5>1, <5>2, FirstIsNotNext DEF SlotOK
      <4>4. CASE ~(x = d /\ s \in slots)
        <5>1. ballot'[x][s] = ballot[x][s]
          BY <2>4, <4>4 DEF Types, ServerTypes
        <5> QED BY <1>3, <4>1, <4>2, <5>1 DEF SlotOK
      <4> QED BY <4>3, <4>4
    <3> QED BY <3>1 DEF SlotInv
  <2>20. OpenInv'
    BY <1>3, <2>4, <2>13, KeepOpen DEF Agree
  <2>21. EpochInv'
    <3>1. \A x \in Machines : busy'[x] \in {busy[x], Idle}
      BY <2>4 DEF Types, NetTypes
    <3> QED BY <1>7, <1>9, <2>4, <2>13, <3>1, HandledEpoch
  <2>22. ASSUME NEW x \in Machines, Whole(x) PROVE Whole(x)'
    BY <2>12, <2>15, <2>22 DEF Whole, Grows
  <2>23. round.phase = "commit" => Whole(d)'
    <3> SUFFICES ASSUME round.phase = "commit", NEW s \in Slots, Somewhere(s)' PROVE Has(d, s)'
      BY DEF Whole
    <3>1. s \in slots \/ Has(d, s)
      BY <1>8, <1>9, <2>15
    <3> QED BY <2>7, <2>12, <3>1, PairIsNotNone DEF Has, Grows
  <2>24. round.phase = "noops" => max_committed_slot' = max_committed_slot
    <3> SUFFICES ASSUME round.phase = "noops" PROVE max_committed_slot' = max_committed_slot
      OBVIOUS
    <3>1. Whole(d)
      BY <1>9 DEF Agree, SyncInv, Others
    <3>2. Has(d, top)
      BY <1>8, <2>3, <2>5, <3>1 DEF Whole
    <3>3. top <= max_committed_slot[d]
      BY <2>5, <3>2 DEF Has, Types, ServerReach
    <3>4. top \in Nat /\ max_committed_slot[d] \in Nat
      BY <2>5, SlotFacts DEF Types, ServerTypes
    <3>5. Highest(d, top) = max_committed_slot[d]
      BY <3>3, <3>4, SMT DEF Highest
    <3>6. max_committed_slot' = [max_committed_slot EXCEPT ![d] = Highest(d, top)]
      BY <2>4, <2>5, <2>6, <3>4, CommitAllFacts DEF Types
    <3> QED BY <3>5, <3>6 DEF Types, ServerTypes
  <2>25. SyncInv'
    <3>1. ASSUME round.phase = "commit", NEW r \in round'.replies PROVE Whole(r.from)'
      <4>1. CASE r \in round.replies
        <5>1. PICK x \in Machines : x = r.from
          BY <3>1, <4>1 DEF Types, RoundTypes, Plain
        <5>2. Whole(x)
          BY <3>1, <4>1, <5>1 DEF Agree, SyncInv
        <5>3. Whole(x)'
          BY <5>2, <2>22
        <5> QED BY <5>1, <5>3 DEF Whole, Has
      <4>2. CASE r = [from |-> d]
        <5>1. r.from = d
          BY <4>2
        <5> QED BY <2>23, <3>1, <5>1 DEF Whole, Has
      <4> QED BY <2>13, <3>1, <4>1, <4>2
    <3>2. round.phase \in {"synced", "noops"} => \A x \in Others : Whole(x)'
      BY <2>22 DEF Agree, SyncInv, Others
    <3>3. ASSUME round.phase = "noops", NEW r \in round'.replies
          PROVE  /\ control'[r.from] = << >>
                 /\ cur_open_slot'[r.from] = max_committed_slot'[r.from] + 1
      BY <1>3, <2>4, <2>13, <2>24, <3>3 DEF Agree, SyncInv
    <3>4. round.phase = "done" => control'[round'.by] = << >>
      BY <2>4, <2>13 DEF Agree, SyncInv
    <3>5. round.phase # "synclog"
      BY <1>8 DEF Sending
    <3> QED BY <2>13, <3>1, <3>2, <3>3, <3>4, <3>5 DEF SyncInv
  <2>26. ControlInv'
    BY <1>8, <2>4, <2>13 DEF Agree, ControlInv, ControlOK, Sending
  <2> QED BY <2>12, <2>17, <2>18, <2>19, <2>20, <2>21, <2>25, <2>26 DEF Agree
<1>11. CASE ~(\A s \in slots : ballot[d][s] <= msg.ballot)
  <2>1. /\ Down(d) /\ round' = round
        /\ UNCHANGED <<ballot, committed, max_committed_slot, max_executed_slot, executed>>
    BY <1>1, <1>2, <1>11 DEF OnSyncCommit
  <2> QED BY <1>3, <1>7, <2>1, DownHandled
<1> QED BY <1>10, <1>11

(***************************************************************************)
(* Three replicas, of which the old leader is down: a quorum of answers is *)
(* an answer of each of the others.                                        *)
(***************************************************************************)
ThreeReplicas == Cardinality(Machines) = 3

LEMMA TwoOthers ==
  ASSUME ThreeReplicas
  PROVE  /\ Quorum = 2
         /\ \E a, b : a # b /\ Others = {a, b}
<1>1. IsFiniteSet(Machines) /\ 0 \in Machines
  BY StreamAssumption
<1>2. Quorum = 2
  <2>1. 3 % 2 # 0 /\ 3 \div 2 + 1 = 2
    BY SMT
  <2> QED BY <2>1 DEF Quorum, ThreeReplicas
<1>3. IsFiniteSet(Others) /\ Cardinality(Others) = 2
  <2>1. IsFiniteSet(Machines \ {0}) /\ Cardinality(Machines \ {0}) = Cardinality(Machines) - 1
    BY <1>1, FS_RemoveElement
  <2> QED BY <2>1 DEF Others, ThreeReplicas
<1>4. PICK a : a \in Others
  <2>1. Others # {}
    BY <1>3, FS_EmptySet, SMT
  <2> QED BY <2>1
<1>5. IsFiniteSet(Others \ {a}) /\ Cardinality(Others \ {a}) = 1
  <2>1. IsFiniteSet(Others \ {a}) /\ Cardinality(Others \ {a}) = Cardinality(Others) - 1
    BY <1>3, <1>4, FS_RemoveElement
  <2> QED BY <2>1, <1>3
<1>6. PICK b : Others \ {a} = {b}
  BY <1>5, FS_Singleton
<1>7. a # b /\ Others = {a, b}
  BY <1>4, <1>6
<1> QED BY <1>2, <1>7

LEMMA NotOne ==
  ASSUME NEW q, NEW x, Cardinality(q) >= 2 PROVE \E r \in q : r # x
<1> SUFFICES ASSUME \A r \in q : r = x PROVE FALSE
  OBVIOUS
<1>1. q = {} \/ q = {x}
  OBVIOUS
<1>2. CASE q = {}
  BY <1>2, FS_EmptySet, SMT
<1>3. CASE q = {x}
  <2>1. Cardinality({x}) = 1
    BY FS_Singleton, Zenon
  <2> QED BY <1>3, <2>1, SMT
<1> QED BY <1>1, <1>2, <1>3

\* f is what a machine answers in this round.
LEMMA EveryoneAnswered ==
  ASSUME ThreeReplicas, NEW q \in Answers, NEW f,
         \A r \in round.replies : r.from \in Others /\ r = f[r.from]
  PROVE  \A d \in Others : \E r \in q : r.from = d
<1>1. PICK a, b : a # b /\ Others = {a, b}
  BY TwoOthers
<1>2. q \subseteq round.replies /\ Cardinality(q) >= 2
  BY TwoOthers DEF Answers
<1>3. \E r \in q : r # f[a]
  BY <1>2, NotOne
<1>4. \E r \in q : r # f[b]
  BY <1>2, NotOne
<1>5. \E r \in q : r.from = b
  BY <1>1, <1>2, <1>3
<1>6. \E r \in q : r.from = a
  BY <1>1, <1>2, <1>4
<1> QED BY <1>1, <1>5, <1>6

LEMMA EveryonePlain ==
  ASSUME ThreeReplicas, Types, Agree, round.phase # "synclog", NEW q \in Answers
  PROVE  \A d \in Others : \E r \in round.replies : r.from = d
<1>1. PICK f : f = [d \in Others |-> [from |-> d]]
  OBVIOUS
<1>2. ASSUME NEW r \in round.replies PROVE r.from \in Others /\ r = f[r.from]
  <2>1. r \in Plain
    BY DEF Types, RoundTypes
  <2>2. r.from \in Machines /\ r = [from |-> r.from]
    BY <2>1 DEF Plain
  <2>3. r.from # 0
    BY DEF Agree, EpochInv
  <2> QED BY <1>1, <2>2, <2>3 DEF Others
<1>3. \A d \in Others : \E r \in q : r.from = d
  BY <1>2, EveryoneAnswered
<1> QED BY <1>3 DEF Answers

LEMMA EveryoneToldLog ==
  ASSUME ThreeReplicas, Types, Agree, round.phase = "synclog", NEW q \in Answers
  PROVE  \A d \in Others : Answer(d) \in q
<1>1. PICK f : f = [d \in Others |-> Answer(d)]
  OBVIOUS
<1>2. ASSUME NEW r \in round.replies PROVE r.from \in Others /\ r = f[r.from]
  <2>1. r \in LogReply
    BY DEF Types, RoundTypes
  <2>2. r.from \in Machines
    BY <2>1 DEF LogReply
  <2>3. r.from # 0 /\ r = Answer(r.from)
    BY DEF Agree, EpochInv, SyncInv
  <2> QED BY <1>1, <2>2, <2>3 DEF Others
<1>3. \A d \in Others : \E r \in q : r.from = d
  BY <1>2, EveryoneAnswered
<1>4. q \subseteq round.replies
  BY DEF Answers
<1>5. ASSUME NEW d \in Others PROVE Answer(d) \in q
  <2>1. PICK r \in q : r.from = d
    BY <1>3
  <2>2. r = f[d] /\ f[d] = Answer(d)
    BY <1>1, <1>2, <1>4, <2>1
  <2> QED BY <2>1, <2>2
<1> QED BY <1>5

(***************************************************************************)
(* The election's messages.                                                *)
(***************************************************************************)
\* The queue of a machine that has taken its first message.
LEMMA TakenControl ==
  ASSUME Types, Agree, NEW d \in Machines, control[d] # << >>,
         control' = [control EXCEPT ![d] = Tail(control[d])],
         round'.phase = round.phase, round'.by = round.by,
         round.phase = "synclog" => UNCHANGED max_executed_slot
  PROVE  /\ ControlInv' /\ round.phase # "none"
         /\ 1 \in DOMAIN control[d] /\ Head(control[d]) = control[d][1]
         /\ ControlOK(control[d], 1)
         /\ \A x \in Machines : x # d => control'[x] = control[x]
         /\ Len(control[d]) = 1 => control'[d] = << >>
<1>1. PICK q : q = control[d]
  OBVIOUS
<1>2. q \in Seq(Control) /\ q # << >>
  BY <1>1 DEF Types, NetTypes
<1>3. /\ 1 \in DOMAIN q /\ Head(q) = q[1] /\ Tail(q) \in Seq(Control)
      /\ Len(q) \in Nat /\ Len(Tail(q)) = Len(q) - 1
      /\ \A i \in DOMAIN Tail(q) : i \in Nat /\ i + 1 \in DOMAIN q /\ Tail(q)[i] = q[i + 1]
      /\ Len(q) = 1 => Tail(q) = << >>
  <2>1. /\ 1 \in DOMAIN q /\ Head(q) = q[1] /\ Tail(q) \in Seq(Control)
        /\ Len(q) \in Nat /\ Len(Tail(q)) = Len(q) - 1
    BY <1>2, SMT
  <2>2. \A i \in DOMAIN Tail(q) : i \in Nat /\ i + 1 \in DOMAIN q /\ Tail(q)[i] = q[i + 1]
    BY <1>2, SMT
  <2>3. Len(q) = 1 => Tail(q) = << >>
    <3>1. Tail(q) # << >> => Len(Tail(q)) \in Nat \ {0}
      BY <2>1, EmptySeq, Zenon
    <3>2. Len(q) = 1 => Len(Tail(q)) = 0
      BY <2>1, SMT
    <3> QED BY <3>1, <3>2
  <2> QED BY <2>1, <2>2, <2>3
<1>4. control'[d] = Tail(q) /\ \A x \in Machines : x # d => control'[x] = control[x]
  BY <1>1 DEF Types, NetTypes
<1>5. round.phase # "none" /\ \A i \in DOMAIN q : ControlOK(q, i)
  BY <1>1, <1>2 DEF Agree, ControlInv
<1>6. ASSUME NEW i \in DOMAIN control'[d] PROVE ControlOK(control[d], i)'
  <2>1. i \in Nat /\ i + 1 \in DOMAIN q /\ control'[d][i] = q[i + 1]
    BY <1>3, <1>4
  <2>2. ControlOK(q, i + 1)
    BY <1>5, <2>1
  <2>3. i + 1 = Len(q) => i = Len(control'[d])
    BY <1>3, <1>4, <2>1, SMT
  <2> QED BY <2>1, <2>2, <2>3 DEF ControlOK
<1>7. ASSUME NEW x \in Machines, x # d, NEW i \in DOMAIN control'[x]
      PROVE  ControlOK(control[x], i)'
  <2>1. control'[x] = control[x]
    BY <1>4, <1>7
  <2>2. ControlOK(control[x], i)
    BY <1>7, <2>1 DEF Agree, ControlInv
  <2> QED BY <2>1, <2>2 DEF ControlOK
<1>8. ControlInv'
  BY <1>5, <1>6, <1>7 DEF ControlInv
<1> QED BY <1>1, <1>3, <1>4, <1>5, <1>8

\* A new message of the election: the last to each machine.
LEMMA AppendedControl ==
  ASSUME Types, NEW msg \in Control, ToControl(msg), round'.phase # "none",
         \A d \in Machines : \A i \in DOMAIN control[d] :
           /\ control[d][i].kind # "noops"
           /\ control[d][i].kind = "synclog" =>
                round'.phase \in After /\ round'.phase # "synclog",
         msg.kind = "noops" => round'.phase = "noops",
         msg.kind = "synclog" => /\ round'.phase = "synclog"
                                 /\ msg.slot = max_executed_slot'[round'.by] + 1
  PROVE  ControlInv'
<1>1. ASSUME NEW d \in Machines, NEW i \in DOMAIN control'[d] PROVE ControlOK(control[d], i)'
  <2>1. control[d] \in Seq(Control)
    BY DEF Types, NetTypes
  <2>2. control'[d] = Append(control[d], msg) \/ control'[d] = control[d]
    BY DEF ToControl
  <2>3. \/ i \in DOMAIN control[d] /\ control'[d][i] = control[d][i]
        \/ i = Len(control'[d]) /\ control'[d][i] = msg
    BY <1>1, <2>1, <2>2, SMT
  <2>4. CASE i \in DOMAIN control[d] /\ control'[d][i] = control[d][i]
    BY <2>4 DEF ControlOK
  <2>5. CASE i = Len(control'[d]) /\ control'[d][i] = msg
    BY <2>5 DEF ControlOK, After
  <2> QED BY <2>3, <2>4, <2>5
<1> QED BY <1>1 DEF ControlInv

\* The parts that concern the slots, when the servers keep them.
LEMMA KeepServers ==
  ASSUME Types, Agree, SameVals, UNCHANGED <<stream, busy>>,
         UNCHANGED <<accepted, ballot, committed, max_committed_slot, max_executed_slot, executed>>,
         round.phase \in Sending => round'.phase \in Sending,
         round'.phase = "commit" => round.phase = "commit"
  PROVE  MsgInv' /\ SlotInv' /\ ExecInv'
<1>1. Steady
  BY SameCommitted DEF Steady
<1> QED BY <1>1, SameInFlight, KeepMsgs, KeepSlots, KeepExec DEF Types, Agree

LEMMA SendBulkPrepAgree ==
  ASSUME Types, Agree, FalseSuspicion = FALSE, NEW m \in Machines, SendBulkPrep(m)
  PROVE  Agree'
<1>1. /\ m \in Electors /\ round.by = NoOne /\ ~up[0]
      /\ round' = [by |-> m, phase |-> "prepare", waits |-> TRUE, replies |-> {}]
      /\ ToControl([kind |-> "prepare"])
      /\ UNCHANGED <<up, stream, busy>> /\ UNCHANGED serverVars /\ UNCHANGED workerVars
  BY DEF SendBulkPrep, Elected
<1>2. round'.phase = "prepare" /\ round'.by = m /\ round'.replies = {}
  BY <1>1
<1>3. round.phase = "none"
  BY <1>1 DEF Types, RoundTypes
<1>4. UNCHANGED <<cur_epoch, accepted, ballot, committed, max_committed_slot,
                  max_executed_slot, cur_open_slot, executed, leads, submitted, jobs, accepts>>
  BY <1>1 DEF serverVars, workerVars
<1>5. SameVals
  BY <1>2, <1>3, ValsBefore
<1>6. MsgInv' /\ SlotInv' /\ ExecInv'
  BY <1>1, <1>2, <1>3, <1>4, <1>5, KeepServers DEF Sending
<1>7. WorkInv'
  <2>1. \A x \in Others : leads'[x] = 0
    BY <1>1, <1>4, Constants DEF Agree, WorkInv, Others
  <2>2. ASSUME NEW x \in Machines, NEW j \in jobs'[x] PROVE JobOK(x, j)'
    <3>1. JobOK(x, j)
      BY <1>4 DEF Agree, WorkInv
    <3> QED BY <3>1, <1>3 DEF JobOK, New
  <2>3. \A c \in accepts' : c.ballot = FirstEpoch \/ (c.ballot = NextEpoch /\ New(c.slot)')
    BY <1>4, <1>5 DEF Agree, WorkInv, SameVals
  <2> QED BY <1>2, <1>4, <2>1, <2>2, <2>3 DEF Agree, WorkInv, After
<1>8. OpenInv'
  BY <1>1, <1>2, <1>3, <1>4 DEF Agree, OpenInv
<1>9. EpochInv'
  BY <1>1, <1>2 DEF Agree, EpochInv, After
<1>10. SyncInv'
  BY <1>2 DEF SyncInv
<1>11. ControlInv'
  <2>1. \A d \in Machines : DOMAIN control[d] = {}
    <3>1. \A d \in Machines : control[d] = << >>
      BY <1>3 DEF Agree, ControlInv
    <3> QED BY <3>1, SMT
  <2>2. PICK msg : msg = [kind |-> "prepare"]
    OBVIOUS
  <2>3. msg.kind = "prepare" /\ msg \in Control /\ ToControl(msg)
    BY <1>1, <2>2, ControlMade
  <2> QED BY <1>2, <2>1, <2>3, AppendedControl
<1> QED BY <1>6, <1>7, <1>8, <1>9, <1>10, <1>11 DEF Agree

\* SyncInv when d takes a message that changes none of its slots.
LEMMA TakenSync ==
  ASSUME Types, Agree, NEW d \in Machines, control[d] # << >>,
         control' = [control EXCEPT ![d] = Tail(control[d])],
         UNCHANGED <<committed, max_committed_slot, max_executed_slot, cur_open_slot>>,
         round'.phase = round.phase, round'.by = round.by,
         \A r \in round'.replies :
           r \in round.replies \/ (/\ round.phase \notin {"commit", "noops"}
                                   /\ round.phase = "synclog" => r = Answer(r.from))
  PROVE  SyncInv'
<1>1. \A x : Answer(x)' = Answer(x) /\ (Whole(x)' <=> Whole(x))
  BY DEF Answer, HasFrom, Missing, Whole, Somewhere, Has
<1>2. \A x \in Machines : x # d => control'[x] = control[x]
  BY DEF Types, NetTypes
<1>3. round.phase = "synclog" => \A r \in round'.replies : r = Answer(r.from)'
  BY <1>1 DEF Agree, SyncInv
<1>4. round.phase = "commit" => \A r \in round'.replies : Whole(r.from)'
  BY <1>1 DEF Agree, SyncInv
<1>5. round.phase \in {"synced", "noops"} => \A x \in Others : Whole(x)'
  BY <1>1 DEF Agree, SyncInv
<1>6. ASSUME round.phase = "noops", NEW r \in round'.replies
      PROVE  /\ control'[r.from] = << >>
             /\ cur_open_slot'[r.from] = max_committed_slot'[r.from] + 1
  <2>1. r \in round.replies
    BY <1>6
  <2>2. r.from \in Machines
    BY <1>6, <2>1 DEF Types, RoundTypes, Plain
  <2>3. control[r.from] = << >> /\ cur_open_slot[r.from] = max_committed_slot[r.from] + 1
    BY <1>6, <2>1 DEF Agree, SyncInv
  <2> QED BY <1>2, <2>2, <2>3
<1>7. ASSUME round.phase = "done" PROVE control'[round'.by] = << >>
  <2>1. round.by \in Machines /\ control[round.by] = << >>
    BY <1>7, ElectedIs DEF Types, Agree, SyncInv
  <2> QED BY <1>2, <2>1
<1> QED BY <1>3, <1>4, <1>5, <1>6, <1>7 DEF SyncInv

LEMMA OnBulkPrepareAgree ==
  ASSUME Types, Agree, NEW d \in Machines, OnBulkPrepare(d) PROVE Agree'
<1>1. /\ up[d] /\ control[d] # << >> /\ control' = [control EXCEPT ![d] = Tail(control[d])]
      /\ cur_epoch' = [cur_epoch EXCEPT ![d] = NextEpoch]
      /\ round' = [round EXCEPT !.replies =
                     IF round.phase = "prepare" THEN @ \cup {[from |-> d]} ELSE @]
      /\ UNCHANGED <<up, stream, busy>> /\ UNCHANGED workerVars
      /\ UNCHANGED <<accepted, ballot, committed, max_committed_slot, max_executed_slot,
                     cur_open_slot, executed, late>>
  BY DEF OnBulkPrepare
<1>2. /\ round'.phase = round.phase /\ round'.by = round.by
      /\ round'.replies = IF round.phase = "prepare" THEN round.replies \cup {[from |-> d]}
                          ELSE round.replies
  <2>1. "prepare" \in Phases \ {"synclog"}
    BY DEF Phases
  <2> QED BY <1>1, <2>1, OneReply DEF Types
<1>3. UNCHANGED <<leads, submitted, jobs, accepts>>
  BY <1>1 DEF workerVars
<1>4. SameVals
  BY <1>1, <1>2, <1>3, ElectedSame, ValsAfter
<1>5. MsgInv' /\ SlotInv' /\ ExecInv'
  BY <1>1, <1>2, <1>4, KeepServers
<1>6. WorkInv' /\ OpenInv'
  BY <1>1, <1>2, <1>3, <1>4, KeepWork, KeepOpen DEF Agree
<1>7. ControlInv' /\ round.phase # "none"
  BY <1>1, <1>2, TakenControl
<1>8. SyncInv'
  BY <1>1, <1>2, TakenSync
<1>9. d # 0
  BY <1>1, <1>7, FirstLeaderAlone
<1>10. EpochInv'
  <2>1. \A x \in Machines : cur_epoch'[x] = IF x = d THEN NextEpoch ELSE cur_epoch[x]
    BY <1>1 DEF Types, ServerTypes
  <2>2. ASSUME round.phase = "prepare", NEW r \in round'.replies
        PROVE  cur_epoch'[r.from] = NextEpoch
    <3>1. CASE r \in round.replies
      <4>1. r.from \in Machines /\ cur_epoch[r.from] = NextEpoch
        BY <2>2, <3>1 DEF Types, RoundTypes, Plain, Agree, EpochInv
      <4> QED BY <2>1, <4>1
    <3>2. CASE r = [from |-> d]
      BY <2>1, <3>2
    <3> QED BY <1>2, <2>2, <3>1, <3>2
  <2>3. round.phase \in After => \A x \in Others : cur_epoch'[x] = NextEpoch
    BY <2>1 DEF Agree, EpochInv, Others
  <2>4. \A r \in round'.replies : r.from # 0
    BY <1>2, <1>9 DEF Agree, EpochInv
  <2> QED BY <1>1, <1>2, <2>2, <2>3, <2>4 DEF Agree, EpochInv
<1> QED BY <1>5, <1>6, <1>7, <1>8, <1>10 DEF Agree

LEMMA OnSyncLogAgree ==
  ASSUME Types, Agree, NEW d \in Machines, OnSyncLog(d) PROVE Agree'
<1>1. PICK slot : slot = Head(control[d]).slot
  OBVIOUS
<1>2. PICK r : r = [from |-> d,
                    cmds |-> [s \in {s \in slot..max_committed_slot[d] : committed[d][s] # None}
                                |-> committed[d][s]],
                    missing |-> {s \in max_executed_slot[d]..(slot - 1) :
                                   s \in Slots /\ committed[d][s] = None}]
  OBVIOUS
<1>3. /\ up[d] /\ control[d] # << >> /\ Head(control[d]).kind = "synclog"
      /\ control' = [control EXCEPT ![d] = Tail(control[d])]
      /\ round' = [round EXCEPT !.replies =
                     IF round.phase = "synclog" THEN @ \cup {r} ELSE @]
      /\ UNCHANGED serverVars /\ UNCHANGED workerVars /\ UNCHANGED <<up, stream, busy>>
  BY <1>1, <1>2 DEF OnSyncLog
<1>4. /\ round'.phase = round.phase /\ round'.by = round.by
      /\ round'.replies = IF round.phase = "synclog" THEN round.replies \cup {r}
                          ELSE round.replies
  BY <1>3 DEF Types, RoundTypes, Rounds
<1>5. UNCHANGED <<cur_epoch, accepted, ballot, committed, max_committed_slot, max_executed_slot,
                  cur_open_slot, executed, leads, submitted, jobs, accepts>>
  BY <1>3 DEF serverVars, workerVars
<1>6. /\ ControlInv' /\ round.phase # "none"
      /\ Head(control[d]) = control[d][1] /\ ControlOK(control[d], 1)
  BY <1>3, <1>4, <1>5, TakenControl
<1>7. round.phase = "synclog" => r = Answer(d) /\ r.from = d
  <2> SUFFICES ASSUME round.phase = "synclog" PROVE r = Answer(d) /\ r.from = d
    OBVIOUS
  <2>1. slot = max_executed_slot[round.by] + 1
    BY <1>1, <1>3, <1>6 DEF ControlOK
  <2>2. slot - 1 = max_executed_slot[round.by]
    <3>1. max_executed_slot[round.by] \in Nat
      BY ElectedIs DEF Types, ServerTypes
    <3> QED BY <2>1, <3>1, SMT
  <2>3. {s \in slot..max_committed_slot[d] : committed[d][s] # None} = HasFrom(d)
    BY <2>1 DEF HasFrom, Has
  <2>4. {s \in max_executed_slot[d]..(slot - 1) : s \in Slots /\ committed[d][s] = None}
          = Missing(d)
    BY <2>2 DEF Missing, Has
  <2>5. r = Answer(d)
    BY <1>2, <2>3, <2>4 DEF Answer
  <2>6. r.from = d
    BY <1>2
  <2> QED BY <2>5, <2>6
<1>8. SameVals
  BY <1>4, <1>5, ElectedSame, ValsAfter
<1>9. MsgInv' /\ SlotInv' /\ ExecInv'
  BY <1>3, <1>4, <1>5, <1>8, KeepServers
<1>10. WorkInv' /\ OpenInv'
  BY <1>3, <1>4, <1>5, <1>8, KeepWork, KeepOpen DEF Agree
<1>11. SyncInv'
  <2>1. ASSUME NEW x \in round'.replies, x \notin round.replies
        PROVE  round.phase = "synclog" /\ x = Answer(x.from)
    <3>1. round.phase = "synclog" /\ x = r
      BY <1>4, <2>1
    <3> QED BY <3>1, <1>7
  <2> QED BY <1>3, <1>4, <1>5, <2>1, TakenSync
<1>12. d # 0
  BY <1>3, <1>6, FirstLeaderAlone
<1>13. EpochInv'
  <2>1. \A x \in round'.replies : x.from # 0
    BY <1>4, <1>7, <1>12 DEF Agree, EpochInv
  <2>2. round.phase = "prepare" => \A x \in round'.replies : cur_epoch'[x.from] = NextEpoch
    BY <1>4, <1>5 DEF Agree, EpochInv
  <2> QED BY <1>3, <1>4, <1>5, <2>1, <2>2 DEF Agree, EpochInv
<1> QED BY <1>6, <1>9, <1>10, <1>11, <1>13 DEF Agree

LEMMA OnSyncNoOpsAgree ==
  ASSUME Types, Agree, NEW d \in Machines, OnSyncNoOps(d) PROVE Agree'
<1>1. PICK slot : slot = Head(control[d]).slot
  OBVIOUS
<1>2. PICK max : max = max_committed_slot[d]
  OBVIOUS
<1>3. PICK coms : coms = [s \in Slots |-> IF s \in slot..max /\ committed[d][s] = None
                                          THEN NoOp ELSE committed[d][s]]
  OBVIOUS
<1>4. /\ up[d] /\ control[d] # << >> /\ Head(control[d]).kind = "noops"
      /\ UNCHANGED <<cur_epoch, accepted, ballot, committed, max_committed_slot, late,
                     leads, submitted>>
  BY DEF OnSyncNoOps
<1>5. CASE /\ slot > max_executed_slot[d]
           /\ \A s \in (max_executed_slot[d] + 1)..max : coms[s] \notin {None, NoOp}
  <2>1. /\ Execute(d, coms, max)
        /\ cur_open_slot' = [cur_open_slot EXCEPT ![d] = max + 1]
        /\ control' = [control EXCEPT ![d] = Tail(control[d])]
        /\ round' = [round EXCEPT !.replies =
                       IF round.phase = "noops" THEN @ \cup {[from |-> d]} ELSE @]
        /\ UNCHANGED <<up, jobs, busy, accepts, stream>>
    BY <1>1, <1>2, <1>3, <1>5 DEF OnSyncNoOps
  <2>2. /\ round'.phase = round.phase /\ round'.by = round.by
        /\ round'.replies = IF round.phase = "noops" THEN round.replies \cup {[from |-> d]}
                            ELSE round.replies
    <3>1. "noops" \in Phases \ {"synclog"}
      BY DEF Phases
    <3> QED BY <2>1, <3>1, OneReply DEF Types
  <2>3. /\ round.phase \in {"noops", "done", "stuck"} /\ Len(control[d]) = 1
    <3>1. 1 \in DOMAIN control[d] /\ Head(control[d]) = control[d][1]
      <4>1. control[d] \in Seq(Control)
        BY DEF Types, NetTypes
      <4> QED BY <1>4, <4>1, SMT
    <3>2. ControlOK(control[d], 1)
      BY <3>1 DEF Agree, ControlInv
    <3> QED BY <1>4, <3>1, <3>2 DEF ControlOK
  <2>4. /\ ControlInv' /\ control'[d] = << >>
        /\ \A x \in Machines : x # d => control'[x] = control[x]
    BY <1>4, <2>1, <2>2, <2>3, TakenControl
  <2>5. d # 0 /\ (round.phase = "done" => d # round.by)
    BY <1>4, <2>3, FirstLeaderAlone DEF Agree, SyncInv
  <2>6. /\ max \in Nat /\ max <= MaxSlot /\ max_executed_slot[d] \in Nat
        /\ max_executed_slot[d] <= max
    <3>1. /\ max \in Nat /\ max_executed_slot[d] \in Nat /\ max <= Top /\ Top <= MaxSlot
          /\ Top \in Nat /\ max_executed_slot[d] <= max
      BY <1>2, TopFacts DEF Types, ServerTypes, ServerReach
    <3> QED BY <3>1, Constants, SMT
  <2>7. \A s \in (max_executed_slot[d] + 1)..max :
          coms[s] \in Logs /\ Has(d, s) /\ coms[s] = committed[d][s]
    <3> TAKE s \in (max_executed_slot[d] + 1)..max
    <3>1. s \in Slots
      BY <2>6, SlotFacts, Constants, SMT
    <3>2. coms[s] \notin {None, NoOp}
      BY <1>5
    <3>3. coms[s] = committed[d][s] \/ coms[s] = NoOp
      BY <3>1, <1>3
    <3>4. committed[d][s] \in Entries
      BY <3>1 DEF Types, ServerTypes
    <3> QED BY <3>2, <3>3, <3>4, EntryFacts DEF Has
  <2>8. /\ max_executed_slot'[d] = max
        /\ \A m \in Machines : m # d => /\ executed'[m] = executed[m]
                                        /\ max_executed_slot'[m] = max_executed_slot[m]
        /\ \A i \in 1..max_executed_slot[d] : executed'[d][i] = executed[d][i]
        /\ \A i \in (max_executed_slot[d] + 1)..max : executed'[d][i] = coms[i]
    <3>1. \A m \in Machines : Len(executed[m]) = max_executed_slot[m]
      BY DEF Types, ServerReach
    <3> QED BY <2>1, <2>6, <2>7, <3>1, ExecuteFacts DEF Types
  <2>9. ExecInv'
    <3>1. ASSUME NEW i \in 1..max PROVE Has(d, i)' /\ executed'[d][i] = committed'[d][i]
      <4>1. i \in 1..max_executed_slot[d] \/ i \in (max_executed_slot[d] + 1)..max
        BY <2>6, SMT
      <4>2. CASE i \in 1..max_executed_slot[d]
        BY <1>4, <2>8, <4>2 DEF Agree, ExecInv, Has
      <4>3. CASE i \in (max_executed_slot[d] + 1)..max
        BY <1>4, <2>7, <2>8, <4>3 DEF Has
      <4> QED BY <4>1, <4>2, <4>3
    <3>2. ASSUME NEW x \in Machines, x # d, NEW i \in 1..max_executed_slot'[x]
          PROVE  Has(x, i)' /\ executed'[x][i] = committed'[x][i]
      BY <1>4, <2>8, <3>2 DEF Agree, ExecInv, Has
    <3>3. \A x \in Machines : max_committed_slot'[x] # 0 => Has(x, max_committed_slot[x])'
      BY <1>4 DEF Agree, ExecInv, Has
    <3> QED BY <2>8, <3>1, <3>2, <3>3 DEF ExecInv
  <2>10. cur_open_slot'[d] = max + 1
         /\ \A x \in Machines : x # d => cur_open_slot'[x] = cur_open_slot[x]
    BY <2>1 DEF Types, ServerTypes
  <2>11. round.phase = "done" => Base' = Base
    <3> SUFFICES ASSUME round.phase = "done" PROVE Base' = Base
      OBVIOUS
    <3>1. round.by \in Machines /\ round.by # d
      BY <2>5, ElectedIs DEF Types
    <3>2. cur_open_slot'[round.by] = cur_open_slot[round.by]
      BY <2>10, <3>1
    <3> QED BY <1>4, <2>2, <3>2 DEF Base
  <2>12. SameVals
    BY <2>2, <2>11, ValsBefore, ValsAfter
  <2>13. Steady
    BY <1>4, <2>2, <2>12, SameCommitted DEF Steady
  <2>14. MsgInv'
    BY <2>1, <2>13, SameInFlight, KeepMsgs DEF Types, Agree
  <2>15. WorkInv' /\ SlotInv'
    BY <1>4, <2>1, <2>2, <2>12, KeepWork, KeepSlots DEF Agree
  <2>16. OpenInv'
    <3>1. ~up'[0]
      BY <2>1, <2>3 DEF Agree, EpochInv
    <3> QED BY <1>4, <2>2, <2>11, <3>1 DEF Agree, OpenInv
  <2>17. EpochInv'
    <3>1. \A r \in round'.replies : r.from # 0
      BY <2>2, <2>5 DEF Agree, EpochInv
    <3> QED BY <1>4, <2>1, <2>2, <2>3, <3>1 DEF Agree, EpochInv
  <2>18. SyncInv'
    <3>1. \A x : Whole(x)' <=> Whole(x)
      BY <1>4 DEF Whole, Somewhere, Has
    <3>2. ASSUME round.phase = "noops", NEW r \in round'.replies
          PROVE  /\ control'[r.from] = << >>
                 /\ cur_open_slot'[r.from] = max_committed_slot'[r.from] + 1
      <4>1. CASE r = [from |-> d]
        <5>1. r.from = d
          BY <4>1
        <5> QED BY <1>2, <1>4, <2>4, <2>10, <5>1
      <4>2. CASE r \in round.replies
        <5>1. r.from \in Machines
          BY <3>2, <4>2 DEF Types, RoundTypes, Plain
        <5>2. control[r.from] = << >> /\ cur_open_slot[r.from] = max_committed_slot[r.from] + 1
          BY <3>2, <4>2 DEF Agree, SyncInv
        <5>3. r.from # d
          BY <1>4, <5>2
        <5> QED BY <1>4, <2>4, <2>10, <5>1, <5>2, <5>3
      <4> QED BY <2>2, <3>2, <4>1, <4>2
    <3>3. ASSUME round.phase = "done" PROVE control'[round'.by] = << >>
      <4>1. round.by \in Machines /\ round.by # d /\ control[round.by] = << >>
        BY <2>5, <3>3, ElectedIs DEF Types, Agree, SyncInv
      <4> QED BY <2>2, <2>4, <4>1
    <3>4. round.phase = "noops" => \A x \in Others : Whole(x)'
      BY <3>1 DEF Agree, SyncInv
    <3> QED BY <2>2, <2>3, <3>2, <3>3, <3>4 DEF SyncInv
  <2> QED BY <2>4, <2>9, <2>14, <2>15, <2>16, <2>17, <2>18 DEF Agree
<1>6. CASE ~(/\ slot > max_executed_slot[d]
             /\ \A s \in (max_executed_slot[d] + 1)..max : coms[s] \notin {None, NoOp})
  <2>1. /\ Down(d) /\ UNCHANGED <<executed, max_executed_slot, cur_open_slot>>
        /\ round' = round
    BY <1>1, <1>2, <1>3, <1>6 DEF OnSyncNoOps
  <2> QED BY <1>4, <2>1, DownHandled
<1> QED BY <1>5, <1>6

(***************************************************************************)
(* The elected machine.                                                    *)
(***************************************************************************)
LEMMA WaitAgree ==
  ASSUME Types, Agree, Wait PROVE Agree'
<1>1. /\ round' = [round EXCEPT !.waits = TRUE] /\ UNCHANGED <<up, crashes>>
      /\ UNCHANGED serverVars /\ UNCHANGED workerVars /\ UNCHANGED netVars
  BY DEF Wait
<1>2. /\ round'.by = round.by /\ round'.phase = round.phase
      /\ round'.replies = round.replies
  BY <1>1 DEF Types, RoundTypes, Rounds
<1>3. UNCHANGED <<cur_epoch, accepted, ballot, committed, max_committed_slot, max_executed_slot,
                  cur_open_slot, executed, leads, submitted, jobs, accepts, stream, busy, control>>
  BY <1>1 DEF serverVars, workerVars, netVars
<1>4. SameVals
  BY <1>2, <1>3, ElectedSame, ValsAfter
<1>5. MsgInv' /\ SlotInv' /\ ExecInv'
  BY <1>2, <1>3, <1>4, KeepServers
<1>6. WorkInv' /\ OpenInv'
  BY <1>1, <1>2, <1>3, <1>4, KeepWork, KeepOpen DEF Agree
<1>7. EpochInv'
  BY <1>1, <1>2, <1>3 DEF Agree, EpochInv
<1>8. SyncInv'
  <2>1. \A x : Answer(x)' = Answer(x) /\ (Whole(x)' <=> Whole(x))
    BY <1>2, <1>3 DEF Answer, HasFrom, Missing, Whole, Somewhere, Has
  <2> QED BY <1>2, <1>3, <2>1 DEF Agree, SyncInv
<1>9. ControlInv'
  BY <1>2, <1>3 DEF Agree, ControlInv, ControlOK
<1> QED BY <1>5, <1>6, <1>7, <1>8, <1>9 DEF Agree

LEMMA WakeUpLostAgree ==
  ASSUME Types, Agree, WakeUpLost PROVE Agree'
<1>1. /\ round' = [round EXCEPT !.phase = "stuck"] /\ UNCHANGED <<up, crashes>>
      /\ UNCHANGED serverVars /\ UNCHANGED workerVars /\ UNCHANGED netVars
      /\ round.phase \in {"synced", "commit", "noops"}
  BY DEF WakeUpLost, Synced
<1>2. /\ round'.by = round.by /\ round'.phase = "stuck"
      /\ round'.replies = round.replies
  BY <1>1 DEF Types, RoundTypes, Rounds
<1>3. UNCHANGED <<cur_epoch, accepted, ballot, committed, max_committed_slot, max_executed_slot,
                  cur_open_slot, executed, leads, submitted, jobs, accepts, stream, busy, control>>
  BY <1>1 DEF serverVars, workerVars, netVars
<1>4. SameVals
  BY <1>1, <1>2, ValsBefore
<1>5. MsgInv' /\ SlotInv' /\ ExecInv'
  BY <1>1, <1>2, <1>3, <1>4, KeepServers DEF Sending
<1>6. WorkInv' /\ OpenInv'
  BY <1>1, <1>2, <1>3, <1>4, KeepWork, KeepOpen DEF Agree, After
<1>7. EpochInv'
  BY <1>1, <1>2, <1>3 DEF Agree, EpochInv, After
<1>8. SyncInv'
  BY <1>2 DEF SyncInv
<1>9. ControlInv'
  BY <1>1, <1>2, <1>3 DEF Agree, ControlInv, ControlOK, After
<1> QED BY <1>5, <1>6, <1>7, <1>8, <1>9 DEF Agree

LEMMA BecomeLeaderAgree ==
  ASSUME ThreeReplicas, Types, Agree, BecomeLeader PROVE Agree'
<1>1. PICK m : m = round.by
  OBVIOUS
<1>2. /\ round.phase = "prepare" /\ leads' = [leads EXCEPT ![m] = NextEpoch]
      /\ cur_open_slot' = [cur_open_slot EXCEPT ![m] = max_committed_slot[m] + 1]
      /\ Ask("synclog", [kind |-> "synclog", slot |-> max_executed_slot[m] + 1])
      /\ Answers # {}
      /\ UNCHANGED <<up, cur_epoch, accepted, ballot, committed, max_committed_slot, executed,
                     max_executed_slot, late, submitted, jobs, accepts, stream, busy>>
  BY <1>1 DEF BecomeLeader, Elected
<1>3. m \in Machines /\ m # 0
  BY <1>1, <1>2, ElectedIs DEF Types
<1>4. round'.by = m /\ round'.phase = "synclog" /\ round'.replies = {}
  BY <1>1, <1>2 DEF Ask
<1>5. PICK msg : msg = [kind |-> "synclog", slot |-> max_executed_slot[m] + 1]
  OBVIOUS
<1>6. msg.kind = "synclog" /\ msg.slot = max_executed_slot[m] + 1 /\ msg \in Control
      /\ ToControl(msg)
  <2>1. max_executed_slot[m] + 1 \in Nat \ {0}
    <3>1. max_executed_slot[m] \in Nat
      BY <1>3 DEF Types, ServerTypes
    <3> QED BY <3>1, SMT
  <2> QED BY <1>2, <1>5, <2>1, ControlMade DEF Ask
<1>7. SameVals
  BY <1>2, <1>4, ValsBefore
<1>8. MsgInv' /\ SlotInv' /\ ExecInv'
  BY <1>2, <1>4, <1>7, KeepServers DEF Sending
<1>9. WorkInv'
  <2>1. leads'[m] = NextEpoch /\ \A x \in Machines : x # m => leads'[x] = leads[x]
    BY <1>2, <1>3 DEF Types, WorkerTypes
  <2>2. \A x \in Others : leads'[x] # 0 => x = m
    BY <1>1, <2>1 DEF Agree, WorkInv, Others
  <2>3. leads'[0] = FirstEpoch
    BY <1>3, <2>1, Constants DEF Agree, WorkInv
  <2>4. \A x \in Machines : \A j \in jobs'[x] : JobOK(x, j)'
    BY <1>1, <1>2, <1>4, <1>7, KeepJob DEF Agree, WorkInv
  <2>5. \A c \in accepts' : c.ballot = FirstEpoch \/ (c.ballot = NextEpoch /\ New(c.slot)')
    BY <1>2, <1>7 DEF Agree, WorkInv, SameVals
  <2> QED BY <1>4, <2>1, <2>2, <2>3, <2>4, <2>5 DEF WorkInv
<1>10. OpenInv'
  <2>1. ~up'[0]
    BY <1>2 DEF Agree, EpochInv
  <2> QED BY <1>2, <1>4, <2>1 DEF Agree, OpenInv
<1>11. EpochInv'
  <2>1. ASSUME NEW d \in Others PROVE cur_epoch'[d] = NextEpoch
    <3>1. PICK r \in round.replies : r.from = d
      BY <1>2, EveryonePlain
    <3>2. cur_epoch[r.from] = NextEpoch
      BY <1>2 DEF Agree, EpochInv
    <3> QED BY <1>2, <3>1, <3>2
  <2> QED BY <1>2, <1>4, <2>1 DEF Agree, EpochInv
<1>12. SyncInv'
  BY <1>4 DEF SyncInv
<1>13. ControlInv'
  <2>1. \A d \in Machines : \A i \in DOMAIN control[d] :
          control[d][i].kind # "noops" /\ control[d][i].kind # "synclog"
    BY <1>2 DEF Agree, ControlInv, ControlOK, After
  <2> QED BY <1>2, <1>4, <1>6, <2>1, AppendedControl
<1> QED BY <1>8, <1>9, <1>10, <1>11, <1>12, <1>13 DEF Agree

LEMMA SendSyncNoOpsAgree ==
  ASSUME ThreeReplicas, Types, Agree, SendSyncNoOps PROVE Agree'
<1>1. PICK m : m = round.by
  OBVIOUS
<1>2. /\ Synced
      /\ Ask("noops", [kind |-> "noops", slot |-> max_executed_slot[m] + 1])
      /\ UNCHANGED serverVars /\ UNCHANGED workerVars /\ UNCHANGED <<up, stream, busy>>
  BY <1>1 DEF SendSyncNoOps, Elected
<1>3. round.phase \in {"synced", "commit"}
  BY <1>2 DEF Synced
<1>4. m \in Machines
  BY <1>1, <1>3, ElectedIs DEF Types
<1>5. round'.by = round.by /\ round'.phase = "noops" /\ round'.replies = {}
  BY <1>2 DEF Ask
<1>6. PICK msg : msg = [kind |-> "noops", slot |-> max_executed_slot[m] + 1]
  OBVIOUS
<1>7. msg.kind = "noops" /\ msg \in Control /\ ToControl(msg)
  <2>1. max_executed_slot[m] + 1 \in Nat \ {0}
    <3>1. max_executed_slot[m] \in Nat
      BY <1>4 DEF Types, ServerTypes
    <3> QED BY <3>1, SMT
  <2> QED BY <1>2, <1>6, <2>1, ControlMade DEF Ask
<1>8. UNCHANGED <<cur_epoch, accepted, ballot, committed, max_committed_slot, max_executed_slot,
                  cur_open_slot, executed, leads, submitted, jobs, accepts>>
  BY <1>2 DEF serverVars, workerVars
<1>9. SameVals
  BY <1>3, <1>5, ValsBefore
<1>10. MsgInv' /\ SlotInv' /\ ExecInv'
  BY <1>2, <1>3, <1>5, <1>8, <1>9, KeepServers DEF Sending
<1>11. WorkInv' /\ OpenInv'
  BY <1>2, <1>3, <1>5, <1>8, <1>9, KeepWork, KeepOpen DEF Agree, After
<1>12. EpochInv'
  BY <1>2, <1>3, <1>5, <1>8 DEF Agree, EpochInv, After
<1>13. \A d \in Others : Whole(d)
  <2>1. CASE round.phase = "synced"
    BY <2>1 DEF Agree, SyncInv
  <2>2. CASE round.phase = "commit" /\ Answers # {}
    <3> TAKE d \in Others
    <3>1. PICK r \in round.replies : r.from = d
      BY <2>2, EveryonePlain
    <3>2. Whole(r.from)
      BY <2>2 DEF Agree, SyncInv
    <3> QED BY <3>1, <3>2
  <2> QED BY <1>2, <2>1, <2>2 DEF Synced
<1>14. SyncInv'
  <2>1. \A d \in Others : Whole(d)'
    BY <1>8, <1>13 DEF Whole, Somewhere, Has
  <2> QED BY <1>5, <2>1 DEF SyncInv
<1>15. ControlInv'
  <2>1. \A d \in Machines : \A i \in DOMAIN control[d] : control[d][i].kind # "noops"
    BY <1>3 DEF Agree, ControlInv, ControlOK
  <2> QED BY <1>5, <1>7, <2>1, AppendedControl DEF After
<1> QED BY <1>10, <1>11, <1>12, <1>14, <1>15 DEF Agree

\* Between them the answers and the slots of the elected machine tell of every
\* slot that one of the two has and the other has not.
LEMMA MergedCovers ==
  ASSUME ThreeReplicas, Types, Agree, round.phase = "synclog",
         NEW q \in Answers, NEW cmds \in Merged(q)
  PROVE  /\ \A s \in DOMAIN cmds : s \in Slots /\ cmds[s] = <<0, s>> /\ Somewhere(s)
         /\ \A d \in Others : \A s \in Slots : Somewhere(s) => s \in DOMAIN cmds \/ Has(d, s)
<1>1. PICK m : m = round.by
  OBVIOUS
<1>2. m \in Machines /\ m # 0 /\ m \in Others
  BY <1>1, ElectedIs DEF Types, Others
<1>3. q \subseteq round.replies
  BY DEF Answers
<1>4. \A s : ~New(s) /\ Val(s) = <<0, s>>
  BY DEF New, Val
<1>5. \A d \in Others : \A s \in Slots : Has(d, s) => committed[d][s] = <<0, s>>
  BY <1>4 DEF Agree, SlotInv, SlotOK, Others
<1>6. cmds \in Tables
  BY <1>3, MergedTypes
<1>7. DOMAIN cmds \subseteq Slots
  BY <1>6, TableFacts
<1>8. /\ Told(q) \subseteq DOMAIN cmds /\ Lacking(q) \subseteq DOMAIN cmds
       /\ \A s \in DOMAIN cmds :
            \/ s \in Lacking(q) /\ cmds[s] = committed[m][s]
            \/ \E r \in q : s \in DOMAIN r.cmds /\ cmds[s] = r.cmds[s]
  <2>1. /\ DOMAIN cmds = Told(q) \cup Lacking(q)
        /\ \A s \in DOMAIN cmds :
             \/ s \in Lacking(q) /\ cmds[s] = committed[round.by][s]
             \/ \E r \in q : s \in DOMAIN r.cmds /\ cmds[s] = r.cmds[s]
    BY MergedFacts
  <2> QED BY <1>1, <2>1
<1>9. ASSUME NEW s \in DOMAIN cmds PROVE cmds[s] = <<0, s>> /\ Somewhere(s)
  <2>1. CASE s \in Lacking(q) /\ cmds[s] = committed[m][s]
    <3>1. Has(m, s)
      BY <1>1, <2>1 DEF Lacking, Has
    <3> QED BY <1>2, <1>5, <1>7, <2>1, <3>1 DEF Somewhere
  <2>2. CASE \E r \in q : s \in DOMAIN r.cmds /\ cmds[s] = r.cmds[s]
    <3>1. PICK r \in q : s \in DOMAIN r.cmds /\ cmds[s] = r.cmds[s]
      BY <2>2
    <3>2. PICK d : d = r.from
      OBVIOUS
    <3>3. r \in round.replies /\ r = Answer(d) /\ d # 0
      BY <1>3, <3>2 DEF Agree, SyncInv, EpochInv
    <3>4. d \in Others
      <4>1. r \in LogReply
        BY <3>3 DEF Types, RoundTypes
      <4> QED BY <3>2, <3>3, <4>1 DEF LogReply, Others
    <3>5. r.cmds = [t \in HasFrom(d) |-> committed[d][t]]
      BY <3>3 DEF Answer
    <3>6. s \in HasFrom(d) /\ cmds[s] = committed[d][s]
      BY <3>1, <3>5
    <3>7. Has(d, s)
      BY <3>6 DEF HasFrom
    <3> QED BY <1>5, <1>7, <3>4, <3>6, <3>7 DEF Somewhere
  <2> QED BY <1>8, <2>1, <2>2
<1>10. ASSUME NEW d \in Others PROVE HasFrom(d) \subseteq DOMAIN cmds
  <2>1. Answer(d) \in q
    BY EveryoneToldLog
  <2>2. DOMAIN Answer(d).cmds = HasFrom(d)
    BY DEF Answer
  <2>3. HasFrom(d) \subseteq Told(q)
    BY <2>1, <2>2 DEF Told
  <2> QED BY <1>8, <2>3
<1>11. ASSUME NEW d \in Others, NEW s \in Missing(d), Has(m, s) PROVE s \in DOMAIN cmds
  <2>1. Answer(d) \in q
    BY EveryoneToldLog
  <2>2. Answer(d).missing = Missing(d)
    BY DEF Answer
  <2>3. s \in Lacking(q)
    BY <1>1, <1>11, <2>1, <2>2 DEF Lacking, Has
  <2> QED BY <1>8, <2>3
<1>12. ASSUME NEW d \in Others, NEW s \in Slots, ~Has(d, s) PROVE s > max_executed_slot[d]
  <2>1. s \in Nat /\ 1 <= s /\ max_executed_slot[d] \in Nat /\ d \in Machines
    BY SlotFacts DEF Types, ServerTypes, Others
  <2>2. s \notin 1..max_executed_slot[d]
    BY <1>12, <2>1 DEF Agree, ExecInv
  <2> QED BY <2>1, <2>2, SMT
<1>13. ASSUME NEW x \in Others, NEW s \in Slots, Has(x, s), s > max_executed_slot[m]
       PROVE  s \in DOMAIN cmds
  <2>1. s \in Nat /\ max_executed_slot[m] \in Nat /\ max_committed_slot[x] \in Nat
    BY <1>2, SlotFacts DEF Types, ServerTypes, Others
  <2>2. s <= max_committed_slot[x]
    BY <1>13 DEF Types, ServerReach, Has, Others
  <2>3. s \in (max_executed_slot[m] + 1)..max_committed_slot[x]
    BY <1>13, <2>1, <2>2, SMT
  <2>4. s \in HasFrom(x)
    BY <1>1, <1>13, <2>3 DEF HasFrom
  <2> QED BY <1>10, <2>4
<1>14. ASSUME NEW d \in Others, NEW s \in Slots, Somewhere(s), ~Has(d, s)
       PROVE  s \in DOMAIN cmds
  <2>1. PICK x \in Others : Has(x, s)
    BY <1>14 DEF Somewhere
  <2>2. m = d \/ m = x
    BY <1>2, <1>14, <2>1, TwoOthers
  <2>3. s > max_executed_slot[d]
    BY <1>12, <1>14
  <2>4. CASE m = d
    BY <1>13, <2>1, <2>3, <2>4
  <2>5. CASE m = x /\ s > max_executed_slot[m]
    BY <1>13, <2>1, <2>5
  <2>6. CASE m = x /\ ~(s > max_executed_slot[m])
    <3>1. s \in Nat /\ max_executed_slot[m] \in Nat /\ max_executed_slot[d] \in Nat
      BY <1>2, SlotFacts DEF Types, ServerTypes, Others
    <3>2. s \in max_executed_slot[d]..max_executed_slot[m]
      BY <2>3, <2>6, <3>1, SMT
    <3>3. s \in Missing(d)
      BY <1>1, <1>14, <3>2 DEF Missing
    <3> QED BY <1>11, <2>1, <2>6, <3>3
  <2> QED BY <2>2, <2>4, <2>5, <2>6
<1> QED BY <1>7, <1>9, <1>14

LEMMA SendSyncCommitAgree ==
  ASSUME ThreeReplicas, Types, Agree, SendSyncCommit PROVE Agree'
<1>1. PICK m : m = round.by
  OBVIOUS
<1>2. /\ round.phase = "synclog"
      /\ UNCHANGED serverVars /\ UNCHANGED workerVars /\ UNCHANGED <<up, busy, control>>
  BY DEF SendSyncCommit
<1>3. m \in Machines
  BY <1>1, <1>2, ElectedIs DEF Types
<1>4. PICK q \in Answers : \E cmds \in Merged(q) :
        /\ round' = [round EXCEPT !.phase = IF DOMAIN cmds = {} THEN "synced" ELSE "commit",
                                  !.replies = {}]
        /\ IF DOMAIN cmds = {} THEN UNCHANGED stream
           ELSE ToAll(m, [kind |-> "sync", by |-> m, ballot |-> NextEpoch, cmds |-> cmds])
  BY <1>1 DEF SendSyncCommit, Elected
<1>5. PICK cmds \in Merged(q) :
        /\ round' = [round EXCEPT !.phase = IF DOMAIN cmds = {} THEN "synced" ELSE "commit",
                                  !.replies = {}]
        /\ IF DOMAIN cmds = {} THEN UNCHANGED stream
           ELSE ToAll(m, [kind |-> "sync", by |-> m, ballot |-> NextEpoch, cmds |-> cmds])
  BY <1>4
<1>6. PICK phase : phase = IF DOMAIN cmds = {} THEN "synced" ELSE "commit"
  OBVIOUS
<1>7. round' = [round EXCEPT !.phase = phase, !.replies = {}] /\ phase \in {"synced", "commit"}
  BY <1>5, <1>6
<1>8. round'.phase = phase /\ round'.replies = {} /\ round'.by = m
  BY <1>1, <1>7 DEF Types, RoundTypes, Rounds, Phases
<1>9. UNCHANGED <<cur_epoch, accepted, ballot, committed, max_committed_slot, max_executed_slot,
                  cur_open_slot, executed, leads, submitted, jobs, accepts>>
  BY <1>2 DEF serverVars, workerVars
<1>10. SameVals
  BY <1>2, <1>7, <1>8, ValsBefore
<1>11. /\ \A s \in DOMAIN cmds : s \in Slots /\ cmds[s] = <<0, s>> /\ Somewhere(s)
       /\ \A d \in Others : \A s \in Slots : Somewhere(s) => s \in DOMAIN cmds \/ Has(d, s)
  BY <1>2, MergedCovers
<1>12. /\ \A d, s : Has(d, s)' <=> Has(d, s)
       /\ \A s : Somewhere(s)' <=> Somewhere(s)
  BY <1>9 DEF Somewhere, Has
<1>13. \A d \in Machines : \A msg \in InFlight(d) : MsgOK(d, msg)'
  <2> TAKE d \in Machines
  <2> TAKE msg \in InFlight(d)
  <2>1. MsgOK(d, msg)
    BY DEF Agree, MsgInv
  <2>2. msg.kind # "sync"
    BY <1>2, <2>1 DEF MsgOK, Sending
  <2> QED BY <1>10, <2>1, <2>2, KeepPlain
<1>14. MsgInv'
  <2>1. CASE DOMAIN cmds = {}
    <3>1. UNCHANGED <<stream, busy>>
      BY <1>2, <1>5, <2>1
    <3>2. Less
      BY <3>1, SameInFlight
    <3> QED BY <1>13, <3>2 DEF MsgInv, Less
  <2>2. CASE DOMAIN cmds # {}
    <3>1. PICK new : new = [kind |-> "sync", by |-> m, ballot |-> NextEpoch, cmds |-> cmds]
      OBVIOUS
    <3>2. cmds \in Tables
      <4>1. q \subseteq round.replies
        BY DEF Answers
      <4> QED BY <1>2, <4>1, MergedTypes
    <3>3. /\ new \in Message /\ new.kind = "sync" /\ new.cmds = cmds
          /\ new.ballot = NextEpoch
      BY <3>1, <3>2, <1>3, EpochFacts, SyncMade
    <3>4. ToAll(m, new)
      BY <1>5, <2>2, <3>1
    <3>5. More(new)
      BY <1>2, <1>3, <3>3, <3>4, ToAllInFlight DEF Types
    <3>6. ASSUME NEW d \in Machines PROVE MsgOK(d, new)'
      <4>1. round'.phase \in Sending
        BY <1>7, <1>8 DEF Sending
      <4>2. ASSUME NEW s \in DOMAIN cmds
            PROVE  cmds[s] = <<0, s>> /\ ~New(s)' /\ Somewhere(s)'
        <5>1. ~New(s)'
          BY <1>7, <1>8 DEF New
        <5> QED BY <1>11, <1>12, <5>1
      <4>3. d # 0 => \A s \in Slots : Somewhere(s)' => s \in DOMAIN cmds \/ Has(d, s)'
        BY <1>11, <1>12 DEF Others
      <4> QED BY <3>3, <4>1, <4>2, <4>3 DEF MsgOK
    <3>7. ASSUME NEW d \in Machines, NEW msg \in InFlight(d)' PROVE MsgOK(d, msg)'
      <4>1. CASE msg = new
        BY <3>6, <4>1
      <4>2. CASE msg # new
        BY <1>13, <3>5, <4>2 DEF More
      <4> QED BY <4>1, <4>2
    <3> QED BY <3>7 DEF MsgInv
  <2> QED BY <2>1, <2>2
<1>15. WorkInv' /\ OpenInv'
  BY <1>1, <1>2, <1>7, <1>8, <1>9, <1>10, KeepWork, KeepOpen DEF Agree, After
<1>16. SlotInv' /\ ExecInv'
  BY <1>9, <1>10, KeepSlots, KeepExec DEF Agree
<1>17. EpochInv'
  BY <1>2, <1>7, <1>8, <1>9 DEF Agree, EpochInv, After
<1>18. SyncInv'
  <2>1. ASSUME phase = "synced", NEW d \in Others PROVE Whole(d)'
    <3>1. DOMAIN cmds = {}
      BY <1>6, <2>1
    <3> QED BY <1>11, <1>12, <3>1 DEF Whole
  <2> QED BY <1>7, <1>8, <2>1 DEF SyncInv
<1>19. ControlInv'
  <2>1. ASSUME NEW d \in Machines, NEW i \in DOMAIN control[d] PROVE ControlOK(control[d], i)'
    <3>1. ControlOK(control[d], i)
      BY DEF Agree, ControlInv
    <3> QED BY <1>2, <1>7, <1>8, <3>1 DEF ControlOK, After
  <2> QED BY <1>2, <1>7, <1>8, <2>1 DEF ControlInv
<1> QED BY <1>14, <1>15, <1>16, <1>17, <1>18, <1>19 DEF Agree

LEMMA SendMarkAgree ==
  ASSUME ThreeReplicas, Types, Agree, SendMark PROVE Agree'
<1>1. PICK m : m = round.by
  OBVIOUS
<1>2. PICK s0 : s0 = cur_open_slot[m]
  OBVIOUS
<1>3. PICK b : b = max_committed_slot[m]
  OBVIOUS
<1>4. /\ round.phase = "noops" /\ Answers # {}
      /\ round' = [round EXCEPT !.phase = "done", !.waits = FALSE, !.replies = {}]
      /\ jobs' = [jobs EXCEPT ![m] = jobs[m] \cup {<<s0, <<m, 0>> >>}]
      /\ cur_open_slot' = [cur_open_slot EXCEPT ![m] = s0 + 1]
      /\ UNCHANGED <<up, cur_epoch, accepted, ballot, committed, max_committed_slot,
                     max_executed_slot, executed, late, leads, submitted, accepts,
                     stream, busy, control>>
  BY <1>1, <1>2 DEF SendMark, Elected, OpenSlot, Mark
<1>5. m \in Machines /\ m # 0 /\ m \in Others
  BY <1>1, <1>4, ElectedIs DEF Types, Others
<1>6. round'.by = m /\ round'.phase = "done" /\ round'.replies = {}
  BY <1>1, <1>4 DEF Types, RoundTypes, Rounds, Phases
<1>7. control[m] = << >> /\ s0 = b + 1 /\ b \in Nat
  <2>1. PICK r \in round.replies : r.from = m
    BY <1>4, <1>5, EveryonePlain
  <2>2. control[r.from] = << >> /\ cur_open_slot[r.from] = max_committed_slot[r.from] + 1
    BY <1>4 DEF Agree, SyncInv
  <2>3. b \in Nat
    BY <1>3, <1>5 DEF Types, ServerTypes
  <2> QED BY <1>2, <1>3, <2>1, <2>2, <2>3
<1>8. submitted'[m] = 0 /\ cur_open_slot'[m] = s0 + 1
      /\ \A x \in Machines : x # m => cur_open_slot'[x] = cur_open_slot[x]
  BY <1>4, <1>5 DEF Types, ServerTypes, Agree, OpenInv
<1>9. Base' = b
  <2>1. Base' = (s0 + 1) - 0 - 2
    BY <1>6, <1>8 DEF Base
  <2> QED BY <1>7, <2>1, SMT
\* Nothing was new before the mark; what is new now is above every slot in use.
<1>10. \A s : ~New(s) /\ Val(s) = <<0, s>>
  BY <1>4 DEF New, Val
<1>11. \A s : New(s)' <=> s > b
  BY <1>6, <1>9 DEF New
<1>12. ASSUME NEW s \in Slots, Somewhere(s) PROVE ~New(s)' /\ Val(s)' = <<0, s>>
  <2>1. Whole(m)
    BY <1>4, <1>5 DEF Agree, SyncInv
  <2>2. Has(m, s)
    BY <1>12, <2>1 DEF Whole
  <2>3. s <= b
    BY <1>3, <1>5, <2>2 DEF Types, ServerReach, Has
  <2>4. s \in Nat
    BY SlotFacts
  <2>5. ~(s > b)
    BY <1>7, <2>3, <2>4, SMT
  <2>6. ~New(s)'
    BY <1>11, <2>5
  <2> QED BY <2>6 DEF Val
<1>13. /\ \A d, s : Has(d, s)' <=> Has(d, s)
       /\ \A s : Somewhere(s)' <=> Somewhere(s)
  BY <1>4 DEF Somewhere, Has
<1>14. MsgInv'
  <2>1. ASSUME NEW d \in Machines, NEW msg \in InFlight(d)' PROVE MsgOK(d, msg)'
    <3>1. msg \in InFlight(d)
      BY <1>4, SameInFlight DEF Less
    <3>2. MsgOK(d, msg) /\ msg \in Message
      BY <3>1, InFlightTypes DEF Types, Agree, MsgInv
    <3>3. CASE msg.kind # "sync"
      BY <1>10, <3>2, <3>3 DEF MsgOK
    <3>4. CASE msg.kind = "sync"
      <4>1. DOMAIN msg.cmds \subseteq Slots
        BY <3>2, <3>4, MessageFacts, TableFacts
      <4>2. ASSUME NEW s \in DOMAIN msg.cmds
            PROVE  msg.cmds[s] = <<0, s>> /\ ~New(s)' /\ Somewhere(s)'
        <5>1. msg.cmds[s] = <<0, s>> /\ Somewhere(s) /\ s \in Slots
          BY <3>2, <3>4, <4>1 DEF MsgOK
        <5> QED BY <1>12, <1>13, <5>1
      <4>3. msg.ballot = NextEpoch
        BY <3>2, <3>4 DEF MsgOK
      <4> QED BY <1>6, <3>4, <4>2, <4>3 DEF MsgOK, Sending
    <3> QED BY <3>3, <3>4
  <2> QED BY <2>1 DEF MsgInv
<1>15. WorkInv'
  <2>1. New(s0)' /\ Val(s0)' = <<m, 0>>
    <3>1. s0 > b /\ s0 - b - 1 = 0
      BY <1>7, SMT
    <3>2. New(s0)'
      BY <1>11, <3>1
    <3> QED BY <1>6, <1>9, <3>1, <3>2 DEF Val
  <2>2. ASSUME NEW x \in Machines, NEW j \in jobs'[x] PROVE JobOK(x, j)'
    <3>1. CASE j \in jobs[x]
      <4>1. JobOK(x, j)
        BY <3>1 DEF Agree, WorkInv
      <4> QED BY <1>10, <4>1 DEF JobOK
    <3>2. CASE x = m /\ j = <<s0, <<m, 0>> >>
      BY <1>6, <2>1, <3>2 DEF JobOK
    <3> QED BY <1>4, <3>1, <3>2 DEF Types, WorkerTypes
  <2>3. \A c \in accepts' : c.ballot = FirstEpoch
    BY <1>4, <1>10 DEF Agree, WorkInv
  <2>4. leads'[m] = NextEpoch /\ leads'[0] = FirstEpoch
    BY <1>1, <1>4 DEF Agree, WorkInv, After
  <2>5. \A x \in Others : leads'[x] # 0 => x = m
    BY <1>1, <1>4 DEF Agree, WorkInv
  <2> QED BY <1>6, <2>2, <2>3, <2>4, <2>5 DEF WorkInv
<1>16. OpenInv'
  <2>1. ~up'[0]
    BY <1>4 DEF Agree, EpochInv
  <2> QED BY <1>6, <1>7, <1>9, <2>1 DEF OpenInv
<1>17. SlotInv'
  <2>1. ASSUME NEW d \in Machines, NEW s \in Slots PROVE SlotOK(d, s)'
    <3>1. SlotOK(d, s)
      BY DEF Agree, SlotInv
    <3>2. ballot'[d][s] = FirstEpoch => accepted'[d][s] = <<0, s>>
      BY <1>4, <3>1 DEF SlotOK
    <3>3. d # 0 /\ Has(d, s) => ~New(s)' /\ Val(s)' = <<0, s>>
      BY <1>12 DEF Somewhere, Others
    <3>4. ballot'[d][s] = NextEpoch => d # 0 /\ ~New(s)' /\ Has(d, s)'
      BY <1>4, <1>10, <1>13, <3>1, <3>3 DEF SlotOK
    <3>5. Has(d, s)' => committed'[d][s] = IF d = 0 THEN <<0, s>> ELSE Val(s)'
      BY <1>4, <1>10, <1>13, <3>1, <3>3 DEF SlotOK
    <3> QED BY <3>2, <3>4, <3>5 DEF SlotOK
  <2> QED BY <2>1 DEF SlotInv
<1>18. ExecInv'
  BY <1>4, KeepExec DEF Agree
<1>19. EpochInv'
  BY <1>4, <1>6 DEF Agree, EpochInv, After
<1>20. SyncInv'
  BY <1>4, <1>6, <1>7 DEF SyncInv
<1>21. ControlInv'
  <2>1. ASSUME NEW d \in Machines, NEW i \in DOMAIN control[d] PROVE ControlOK(control[d], i)'
    <3>1. ControlOK(control[d], i)
      BY DEF Agree, ControlInv
    <3> QED BY <1>4, <1>6, <3>1 DEF ControlOK, After
  <2> QED BY <1>4, <1>6, <2>1 DEF ControlInv
<1> QED BY <1>14, <1>15, <1>16, <1>17, <1>18, <1>19, <1>20, <1>21 DEF Agree

(***************************************************************************)
(* The next-state relation, and the theorems.                              *)
(***************************************************************************)
LEMMA NextAgree ==
  ASSUME ThreeReplicas, FalseSuspicion = FALSE, Types, Agree, [Next]_vars, ~late'
  PROVE  Agree'
<1>1. ASSUME NEW m \in Machines, Crash(m) PROVE Agree'
  BY <1>1, CrashAgree
<1>2. ASSUME NEW m \in Machines, add_log_to_nc(m) PROVE Agree'
  BY <1>2, AddLogAgree
<1>3. ASSUME NEW m \in Machines, BulkSubmit(m) PROVE Agree'
  BY <1>3, BulkSubmitAgree
<1>4. ASSUME NEW m \in Machines, Handle(m) PROVE Agree'
  BY <1>4, ReceiveAgree, OnBulkAcceptAgree, OnBulkCommitAgree, OnSyncCommitAgree,
     OnBulkPrepareAgree, OnSyncLogAgree, OnSyncNoOpsAgree DEF Handle
<1>5. ASSUME NEW m \in Machines, SendBulkPrep(m) PROVE Agree'
  BY <1>5, SendBulkPrepAgree
<1>6. CASE Coordinate
  BY <1>6, CommitAgree, AcceptRefusedAgree DEF Coordinate
<1>7. CASE Recover
  BY <1>7, WaitAgree, BecomeLeaderAgree, SendSyncCommitAgree, SendSyncNoOpsAgree,
     SendMarkAgree DEF Recover
<1>8. CASE WakeUpLost
  BY <1>8, WakeUpLostAgree
<1>9. CASE UNCHANGED vars
  BY <1>9, StutterAgree
<1> QED BY <1>1, <1>2, <1>3, <1>4, <1>5, <1>6, <1>7, <1>8, <1>9 DEF Next

LEMMA LateStays ==
  ASSUME [Next]_vars, late PROVE late'
<1>1. ASSUME NEW m \in Machines, Crash(m) PROVE late'
  BY <1>1 DEF Crash, serverVars
<1>2. ASSUME NEW m \in Machines, add_log_to_nc(m) PROVE late'
  BY <1>2 DEF add_log_to_nc
<1>3. ASSUME NEW m \in Machines, BulkSubmit(m) PROVE late'
  BY <1>3 DEF BulkSubmit, serverVars
<1>4. ASSUME NEW m \in Machines, Handle(m) PROVE late'
  <2>1. CASE Receive(m)
    BY <2>1 DEF Receive, serverVars
  <2>2. CASE OnBulkAccept(m) \/ OnBulkCommit(m) \/ OnSyncCommit(m)
    BY <2>2 DEF OnBulkAccept, OnBulkCommit, OnSyncCommit, RaiseEpoch
  <2>3. CASE OnBulkPrepare(m)
    BY <2>3 DEF OnBulkPrepare
  <2>4. CASE OnSyncLog(m)
    BY <2>4 DEF OnSyncLog, serverVars
  <2>5. CASE OnSyncNoOps(m)
    BY <2>5 DEF OnSyncNoOps
  <2> QED BY <1>4, <2>1, <2>2, <2>3, <2>4, <2>5 DEF Handle
<1>5. ASSUME NEW m \in Machines, SendBulkPrep(m) PROVE late'
  BY <1>5 DEF SendBulkPrep, serverVars
<1>6. CASE Coordinate
  BY <1>6 DEF Coordinate, Commit, AcceptRefused, serverVars
<1>7. CASE Recover
  <2>1. CASE Wait
    BY <2>1 DEF Wait, serverVars
  <2>2. CASE BecomeLeader
    BY <2>2 DEF BecomeLeader
  <2>3. CASE SendSyncCommit
    BY <2>3 DEF SendSyncCommit, serverVars
  <2>4. CASE SendSyncNoOps
    BY <2>4 DEF SendSyncNoOps, serverVars
  <2>5. CASE SendMark
    BY <2>5 DEF SendMark
  <2> QED BY <1>7, <2>1, <2>2, <2>3, <2>4, <2>5 DEF Recover
<1>8. CASE WakeUpLost
  BY <1>8 DEF WakeUpLost, serverVars
<1>9. CASE UNCHANGED vars
  BY <1>9 DEF vars, serverVars
<1> QED BY <1>1, <1>2, <1>3, <1>4, <1>5, <1>6, <1>7, <1>8, <1>9 DEF Next

\* The inductive invariant.
StreamInv == Types /\ (late \/ Agree)

LEMMA InitInv == Init => StreamInv
BY InitTypes, InitAgree DEF StreamInv

LEMMA NextInv ==
  ASSUME ThreeReplicas, FalseSuspicion = FALSE
  PROVE  StreamInv /\ [Next]_vars => StreamInv'
<1> SUFFICES ASSUME StreamInv, [Next]_vars PROVE StreamInv'
  OBVIOUS
<1>1. Types'
  BY NextTypes DEF StreamInv
<1>2. late' \/ Agree'
  BY NextAgree, LateStays DEF StreamInv
<1> QED BY <1>1, <1>2 DEF StreamInv

\* What a machine that is up has executed in a slot is the slot's value.
LEMMA ExecutedVal ==
  ASSUME Types, Agree, NEW m \in Up
  PROVE  /\ m \in Machines /\ executed[m] \in Seq(Logs) /\ Len(executed[m]) \in Nat
         /\ \A i \in 1..Len(executed[m]) : i \in Slots /\ executed[m][i] = Val(i)
<1>1. m \in Machines /\ up[m]
  BY DEF Up
<1>2. executed[m] \in Seq(Logs) /\ Len(executed[m]) = max_executed_slot[m]
      /\ max_executed_slot[m] \in Nat
  BY <1>1 DEF Types, ServerTypes, ServerReach
<1>3. max_executed_slot[m] <= MaxSlot
  <2>1. /\ max_committed_slot[m] \in Nat /\ max_executed_slot[m] <= max_committed_slot[m]
        /\ max_committed_slot[m] <= Top
    BY <1>1 DEF Types, ServerTypes, ServerReach
  <2>2. Top \in Nat /\ Top <= MaxSlot /\ MaxSlot \in Nat
    BY TopFacts, Constants DEF Types
  <2> QED BY <1>2, <2>1, <2>2, SMT
<1>4. ASSUME NEW i \in 1..max_executed_slot[m] PROVE i \in Slots /\ executed[m][i] = Val(i)
  <2>1. i \in Slots
    BY <1>2, <1>3, SlotFacts, Constants, SMT
  <2>2. Has(m, i) /\ executed[m][i] = committed[m][i]
    BY <1>1 DEF Agree, ExecInv
  <2>3. committed[m][i] = IF m = 0 THEN <<0, i>> ELSE Val(i)
    BY <1>1, <2>1, <2>2 DEF Agree, SlotInv, SlotOK
  <2>4. m = 0 => Val(i) = <<0, i>>
    BY <1>1, FirstLeaderAlone DEF Val, New
  <2> QED BY <2>1, <2>2, <2>3, <2>4
<1> QED BY <1>1, <1>2, <1>4

LEMMA PrefixMade ==
  ASSUME NEW S, NEW s \in Seq(S), NEW t \in Seq(S), Len(s) <= Len(t),
         \A i \in 1..Len(s) : s[i] = t[i]
  PROVE  IsPrefix(s, t)
<1>1. Len(s) \in Nat /\ Len(t) \in Nat
  OBVIOUS
<1>2. SubSeq(s, 1, Len(s)) = [i \in 1..Len(s) |-> s[i]]
  BY <1>1, SMT
<1>3. SubSeq(t, 1, Len(s)) = [i \in 1..Len(s) |-> t[i]]
  BY <1>1, SMT
<1> QED BY <1>2, <1>3 DEF IsPrefix

LEMMA AgreeGivesPrefixes == Types /\ Agree => SurvivorsAgree
<1> SUFFICES ASSUME Types, Agree, NEW m \in Up, NEW d \in Up
             PROVE  IsPrefix(executed[m], executed[d]) \/ IsPrefix(executed[d], executed[m])
  BY DEF SurvivorsAgree
<1>1. /\ executed[m] \in Seq(Logs) /\ Len(executed[m]) \in Nat
      /\ \A i \in 1..Len(executed[m]) : executed[m][i] = Val(i)
  BY ExecutedVal
<1>2. /\ executed[d] \in Seq(Logs) /\ Len(executed[d]) \in Nat
      /\ \A i \in 1..Len(executed[d]) : executed[d][i] = Val(i)
  BY ExecutedVal
<1>3. CASE Len(executed[m]) <= Len(executed[d])
  <2>1. 1..Len(executed[m]) \subseteq 1..Len(executed[d])
    BY <1>1, <1>2, <1>3, SMT
  <2>2. \A i \in 1..Len(executed[m]) : executed[m][i] = executed[d][i]
    BY <1>1, <1>2, <2>1
  <2> QED BY <1>1, <1>2, <1>3, <2>2, PrefixMade
<1>4. CASE Len(executed[d]) <= Len(executed[m])
  <2>1. 1..Len(executed[d]) \subseteq 1..Len(executed[m])
    BY <1>1, <1>2, <1>4, SMT
  <2>2. \A i \in 1..Len(executed[d]) : executed[d][i] = executed[m][i]
    BY <1>1, <1>2, <2>1
  <2> QED BY <1>1, <1>2, <1>4, <2>2, PrefixMade
<1> QED BY <1>1, <1>2, <1>3, <1>4, SMT

LEMMA AgreeGivesMarks == Types /\ Agree => MarkSeparates
<1> SUFFICES ASSUME Types, Agree, NEW m \in Up, NEW i \in DOMAIN executed[m],
                    executed[m][i][1] # 0
             PROVE  \E k \in 1..i :
                      /\ executed[m][k] = Mark(executed[m][i][1])
                      /\ \A j \in DOMAIN executed[m] : executed[m][j][1] = 0 <=> j < k
  BY DEF MarkSeparates
<1>1. /\ executed[m] \in Seq(Logs) /\ Len(executed[m]) \in Nat
      /\ \A j \in 1..Len(executed[m]) : executed[m][j] = Val(j)
  BY ExecutedVal
<1>2. DOMAIN executed[m] = 1..Len(executed[m])
  BY <1>1
<1>3. New(i)
  <2>1. ~New(i) => executed[m][i][1] = 0
    <3>1. executed[m][i] = Val(i)
      BY <1>1, <1>2
    <3>2. ~New(i) => Val(i) = <<0, i>>
      BY DEF Val
    <3> QED BY <3>1, <3>2
  <2> QED BY <2>1
<1>4. PICK b : b = Base
  OBVIOUS
<1>5. PICK e : e = round.by
  OBVIOUS
<1>6. round.phase = "done" /\ i > b /\ b \in Nat /\ e # 0
  BY <1>3, <1>4, <1>5, ElectedIs DEF New, Types, Agree, OpenInv
<1>7. \A j : Val(j) = IF j > b THEN <<e, j - b - 1>> ELSE <<0, j>>
  BY <1>4, <1>5, <1>6 DEF Val, New
<1>8. b + 1 \in 1..i /\ b + 1 \in 1..Len(executed[m]) /\ (b + 1) - b - 1 = 0 /\ b + 1 > b
  BY <1>1, <1>2, <1>6, SMT
<1>9. executed[m][b + 1] = <<e, 0>>
  BY <1>1, <1>7, <1>8
<1>10. executed[m][i][1] = e
  BY <1>1, <1>2, <1>6, <1>7
<1>11. ASSUME NEW j \in DOMAIN executed[m] PROVE executed[m][j][1] = 0 <=> j < b + 1
  <2>1. j \in Nat /\ executed[m][j] = Val(j)
    BY <1>1, <1>2, SMT
  <2>2. executed[m][j][1] = IF j > b THEN e ELSE 0
    BY <1>7, <2>1
  <2>3. j > b <=> ~(j < b + 1)
    BY <1>6, <2>1, SMT
  <2> QED BY <1>6, <2>2, <2>3
<1> QED BY <1>8, <1>9, <1>10, <1>11 DEF Mark

\* With three replicas and no machine elected while the old leader is up, the
\* machines that are up never execute different logs in the same slot: across
\* the crash of the leader at any point, the entries it had half replicated, the
\* recovery by SyncLog, SyncCommit and SyncNoOps, and the new leader's entries,
\* for every number of entries and of crashes and every eligible machine.
THEOREM SurvivorsAlwaysAgree ==
  ASSUME ThreeReplicas, FalseSuspicion = FALSE
  PROVE  Spec => []SurvivorsAgree
<1>1. Init => StreamInv
  BY InitInv
<1>2. StreamInv /\ [Next]_vars => StreamInv'
  BY NextInv
<1>3. StreamInv => SurvivorsAgree
  BY AgreeGivesPrefixes DEF StreamInv, SurvivorsAgree
<1> QED BY <1>1, <1>2, <1>3, PTL DEF Spec

\* Under the same hypotheses the mark that send_no_ops_for_mark submits divides
\* the log of every machine that is up: before it only entries of the old leader,
\* after it only those of the new one.
THEOREM MarkAlwaysSeparates ==
  ASSUME ThreeReplicas, FalseSuspicion = FALSE
  PROVE  Spec => []MarkSeparates
<1>1. Init => StreamInv
  BY InitInv
<1>2. StreamInv /\ [Next]_vars => StreamInv'
  BY NextInv
<1>3. StreamInv => MarkSeparates
  BY AgreeGivesMarks DEF StreamInv, MarkSeparates
<1> QED BY <1>1, <1>2, <1>3, PTL DEF Spec

=============================================================================
