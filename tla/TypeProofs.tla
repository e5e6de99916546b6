----------------------------- MODULE TypeProofs -----------------------------
(***************************************************************************)
(* Type correctness of the deployment: messages, acceptors, learners and   *)
(* proposers, for any number of nodes, slots and ballots.                  *)
(***************************************************************************)
EXTENDS MultiPaxos, FiniteSetTheorems, SequenceTheorems, TLAPS

----------------------------------------------------------------------------
(* Numbers, queues and contiguous slots. *)

\* The greater of two adus (proposer-agent.rs, process_executed).
LEMMA GreatestOfTwo ==
  ASSUME NEW a \in Nat, NEW b \in Nat
  PROVE  GreatestOf({a, b}) = IF a >= b THEN a ELSE b
BY DEF GreatestOf

\* The smaller of two batch lengths (proposer-agent.rs, proposals_to_accept).
LEMMA LeastOfTwo ==
  ASSUME NEW a \in Nat, NEW b \in Nat
  PROVE  LeastOf({a, b}) = IF a <= b THEN a ELSE b
BY DEF LeastOf

\* The smallest of three bounds is a number no greater than each of them.
LEMMA LeastOfThree ==
  ASSUME NEW a \in Nat, NEW b \in Nat, NEW c \in Nat
  PROVE  /\ LeastOf({a, b, c}) \in Nat
         /\ LeastOf({a, b, c}) <= a /\ LeastOf({a, b, c}) <= b /\ LeastOf({a, b, c}) <= c
<1>1. \E n \in {a, b, c} : \A m \in {a, b, c} : n <= m
  OBVIOUS
<1> QED
  BY <1>1 DEF LeastOf

\* A ballot grows by at least one (proposer.rs, increase_ballot).
LEMMA DeltaType == BallotDelta \in Nat \ {0}
<1>1. Cardinality(Acceptors) \in Nat
  BY FS_CardinalityType, AcceptorsAssumption
<1>2. Cardinality(Acceptors) # 0
  BY FS_EmptySet, AcceptorsAssumption
<1> QED
  BY <1>1, <1>2 DEF BallotDelta

\* A queue of commands stays one when enqueue_prioritized_request adds to it.
LEMMA EnqueuedType ==
  ASSUME NEW q \in Seq(Commands), NEW I, IsFiniteSet(I), NEW f \in [I -> Commands],
         NEW r \in Enqueued(q, f)
  PROVE  r \in Seq(Commands)
<1>1. Fresh(q, f) \subseteq I
  BY DEF Fresh
<1>2. Cardinality(Fresh(q, f)) \in Nat
  BY <1>1, FS_Subset, FS_CardinalityType
<1>3. PICK g \in Ascending(Fresh(q, f)) : r = q \o [k \in DOMAIN g |-> f[g[k]]]
  BY DEF Enqueued
<1>4. g \in [1 .. Cardinality(Fresh(q, f)) -> Fresh(q, f)]
  BY <1>3 DEF Ascending
<1>5. \A k \in 1 .. Cardinality(Fresh(q, f)) : f[g[k]] \in Commands
  BY <1>1, <1>4
<1>6. [k \in DOMAIN g |-> f[g[k]]] \in Seq(Commands)
  <2>1. [k \in DOMAIN g |-> f[g[k]]] \in [1 .. Cardinality(Fresh(q, f)) -> Commands]
    BY <1>4, <1>5
  <2> QED
    BY <1>2, <2>1, SeqDef
<1> QED
  BY <1>3, <1>6, ConcatProperties

\* A log of bounded length has finitely many slots.
LEMMA SlotsFinite == IsFiniteSet(Slots)
<1>1. 1 \in Int /\ MaxSlot \in Int
  BY BoundsAssumption
<1> QED
  BY <1>1, FS_Interval DEF Slots

\* A set of k numbers after a does not fit before a + k.
LEMMA SmallInterval ==
  ASSUME NEW a \in Int, NEW b \in Int, NEW G \in SUBSET (a .. b), a <= b + 1
  PROVE  Cardinality(G) \in Nat /\ Cardinality(G) <= b - a + 1
<1>1. IsFiniteSet(a .. b) /\ Cardinality(a .. b) = IF a > b THEN 0 ELSE b - a + 1
  BY FS_Interval
<1>2. PICK S : S = a .. b
  OBVIOUS
<1>3. IsFiniteSet(G) /\ Cardinality(G) <= Cardinality(S)
  BY <1>1, <1>2, FS_Subset
<1>4. Cardinality(G) \in Nat
  BY <1>3, FS_CardinalityType
<1> QED
  BY <1>1, <1>2, <1>3, <1>4

\* The slots from the adu to Contiguous are learned, and the one after is not.
LEMMA ContiguousType ==
  ASSUME NEW adu \in 0 .. MaxSlot, NEW map \in [Slots -> Values \cup {None}]
  PROVE  /\ Contiguous(map, adu) \in adu .. MaxSlot
         /\ \A s \in adu + 1 .. Contiguous(map, adu) : map[s] \in Values
<1> DEFINE G == Gapless(map, adu)
           n == Cardinality(G)
<1>1. MaxSlot \in Nat /\ adu \in Nat /\ MaxSlot \in Int /\ adu + 1 \in Int /\ adu <= MaxSlot
      /\ adu + 1 <= MaxSlot + 1
  BY BoundsAssumption
<1>2. G \in SUBSET (adu + 1 .. MaxSlot)
  BY <1>1 DEF Gapless, Slots
<1>4. n <= MaxSlot - adu /\ n \in Nat
  <2>1. n \in Nat /\ n <= MaxSlot - (adu + 1) + 1
    BY <1>1, <1>2, SmallInterval
  <2> HIDE DEF n
  <2> QED
    BY <1>1, <2>1
<1>5. ASSUME n > 0 PROVE adu + n \in G
  <2> SUFFICES ASSUME adu + n \notin G PROVE FALSE
    OBVIOUS
  <2>1. ASSUME NEW s \in G PROVE s \in adu + 1 .. adu + n - 1
    <3>1. s \in Int /\ s > adu /\ \A t \in adu + 1 .. s : map[t] # None
      BY DEF Gapless, Slots
    <3>2. adu + n \in Slots /\ adu + n > adu
      BY <1>1, <1>4, <1>5 DEF Slots
    <3>3. ~(s >= adu + n)
      <4> SUFFICES ASSUME s >= adu + n PROVE FALSE
        OBVIOUS
      <4>1. \A t \in adu + 1 .. adu + n : map[t] # None
        BY <1>1, <1>4, <3>1
      <4> QED
        BY <3>2, <4>1 DEF Gapless
    <3> HIDE DEF n
    <3> QED
      BY <1>1, <1>4, <3>1, <3>3
  <2>2. PICK b \in Int : b = adu + n - 1
    BY <1>1, <1>4
  <2>3. G \in SUBSET (adu + 1 .. b) /\ adu + 1 <= b + 1
    BY <1>1, <1>4, <1>5, <2>1, <2>2
  <2>4. n <= b - (adu + 1) + 1
    BY <1>1, <2>3, SmallInterval
  <2> QED
    BY <1>1, <1>4, <2>2, <2>4
<1>6. \A s \in adu + 1 .. adu + n : map[s] # None
  BY <1>1, <1>4, <1>5 DEF Gapless
<1>7. \A s \in adu + 1 .. adu + n : s \in Slots
  BY <1>1, <1>4 DEF Slots
<1> QED
  BY <1>1, <1>4, <1>6, <1>7 DEF Contiguous

----------------------------------------------------------------------------
(* A message a node finds in its inbox belongs to its type's set. *)

\* A message in an inbox has the fields of its type (types.wit, the payloads).
LEMMA InboxTypes ==
  ASSUME network \subseteq Messages, NEW n
  PROVE  /\ Inbox(n, "prepare") \subseteq Prepares /\ Inbox(n, "promise") \subseteq Promises
         /\ Inbox(n, "accept") \subseteq Accepts /\ Inbox(n, "accepted") \subseteq Accepteds
         /\ Inbox(n, "learn") \subseteq Learns /\ Inbox(n, "retry-learns") \subseteq Retries
         /\ Inbox(n, "executed") \subseteq Executeds /\ Inbox(n, "adu") \subseteq Adus
BY DEF Inbox, Messages, Prepares, Promises, Accepts, Accepteds, Learns, Retries, Executeds, Adus

----------------------------------------------------------------------------
(* Acceptors. *)

\* A prepare leaves a ballot promised and p-values answered (acceptor.rs, prepare).
LEMMA PromiseTypeOK ==
  ASSUME TypeOK, NEW a \in Acceptors, HandlePrepare(a)
  PROVE  network' \subseteq Messages /\ AcceptorTypeOK'
<1>1. PICK m \in Inbox(a, "prepare") : Promise(a, m) \/ RejectPrepare(a, m)
  BY DEF HandlePrepare
<1>2. m \in Prepares
  BY <1>1, InboxTypes DEF TypeOK
<1>3. CASE Promise(a, m)
  <2>1. CollectAcceptedFrom(a, m.slot) \in AcceptedMap
    BY DEF TypeOK, AcceptorTypeOK, CollectAcceptedFrom, AcceptedMap
  <2>2. PromiseMsg(a, m.from, m.slot, m.ballot, CollectAcceptedFrom(a, m.slot)) \in Promises
    BY <1>2, <2>1 DEF PromiseMsg, Prepares, Promises
  <2>3. network' \subseteq Messages
    BY <1>3, <2>2 DEF TypeOK, Promise, Reply, Messages
  <2>4. AcceptorTypeOK'
    BY <1>2, <1>3 DEF TypeOK, AcceptorTypeOK, Promise, Prepares
  <2> QED
    BY <2>3, <2>4
<1>4. CASE RejectPrepare(a, m)
  BY <1>4 DEF TypeOK, AcceptorTypeOK, RejectPrepare, Reply, acceptorVars
<1> QED
  BY <1>1, <1>3, <1>4

\* What an acceptor tells of an accept is a learn or an accepted.
LEMMA AnnounceType ==
  ASSUME NEW a \in Acceptors, NEW m \in Accepts
  PROVE  Announce(a, m) \subseteq Messages
<1>1. \A l \in Learners : LearnMsg(a, l, m.slot, m.value) \in Learns
  BY DEF Accepts, LearnMsg, Learns, Values
<1>2. AcceptedMsg(a, m.from, m.slot, m.ballot) \in Accepteds
  BY DEF Accepts, AcceptedMsg, Accepteds
<1> QED
  BY <1>1, <1>2 DEF Announce, Messages

\* An accept stores a p-value of a slot at most (acceptor.rs, accept).
LEMMA AcceptTypeOK ==
  ASSUME TypeOK, NEW a \in Acceptors, HandleAccept(a)
  PROVE  network' \subseteq Messages /\ AcceptorTypeOK'
<1>1. PICK m \in Inbox(a, "accept") : AcceptNew(a, m) \/ AcceptAgain(a, m) \/ RejectAccept(a, m)
  BY DEF HandleAccept
<1>2. m \in Accepts
  BY <1>1, InboxTypes DEF TypeOK
<1>3. network' \subseteq Messages
  BY <1>1, <1>2, AnnounceType DEF TypeOK, AcceptNew, AcceptAgain, RejectAccept, Reply
<1>4. CASE AcceptNew(a, m)
  <2>1. [ballot |-> m.ballot, value |-> m.value] \in PValue
    BY <1>2 DEF Accepts, PValue
  <2> QED
    BY <1>2, <1>3, <1>4, <2>1 DEF TypeOK, AcceptorTypeOK, AcceptNew, AcceptedMap
<1>5. CASE AcceptAgain(a, m) \/ RejectAccept(a, m)
  BY <1>3, <1>5 DEF TypeOK, AcceptorTypeOK, AcceptAgain, RejectAccept, acceptorVars
<1> QED
  BY <1>1, <1>4, <1>5

\* A retry is answered with learns and changes no acceptor (acceptor-agent.rs,
\* retry_learns).
LEMMA RetryLearnsTypeOK ==
  ASSUME TypeOK, NEW a \in Acceptors, HandleRetryLearns(a)
  PROVE  network' \subseteq Messages /\ AcceptorTypeOK'
<1>1. PICK m \in Inbox(a, "retry-learns") :
        /\ Reply(m, {LearnMsg(a, l, s, RetryValue(a, s)) : s \in m.slots, l \in Learners})
        /\ UNCHANGED acceptorVars
  BY DEF HandleRetryLearns
<1>2. m.slots \subseteq Slots
  BY <1>1, InboxTypes DEF TypeOK, Retries
<1>3. \A s \in Slots, l \in Learners : LearnMsg(a, l, s, RetryValue(a, s)) \in Learns
  BY DEF TypeOK, AcceptorTypeOK, AcceptedMap, PValue, RetryValue, LearnMsg, Learns, Values
<1> QED
  BY <1>1, <1>2, <1>3 DEF TypeOK, AcceptorTypeOK, acceptorVars, Reply, Messages

----------------------------------------------------------------------------
(* Learners. *)

\* Executing what is contiguous keeps the adu in the log, the history a sequence
\* of values and the buffer one of results (learner-agent.rs, execute_chosen_learns).
LEMMA DispatchTypeOK ==
  ASSUME network \subseteq Messages, LearnerTypeOK, NEW l \in Learners,
         NEW map \in [Slots -> Values \cup {None}], NEW m, NEW S \in SUBSET Messages,
         NEW full, ExecuteAndDispatch(l, map, m, S, full)
  PROVE  /\ network' \subseteq Messages
         /\ learnerAdu' \in [Learners -> 0 .. MaxSlot]
         /\ history' \in [Learners -> Seq(Values)]
         /\ execBuffer' \in [Learners -> Seq(Result)]
<1> DEFINE adu  == Contiguous(map, learnerAdu[l])
           new  == Results(map, learnerAdu[l] + 1, adu)
           buf  == execBuffer[l] \o new
           k    == IF LearnersSendExecuted THEN DispatchSize(Len(buf), full) ELSE 0
<1>1. /\ MaxSlot \in Nat /\ learnerAdu[l] \in 0 .. MaxSlot
      /\ adu \in learnerAdu[l] .. MaxSlot
      /\ \A s \in learnerAdu[l] + 1 .. adu : map[s] \in Values
  BY ContiguousType, BoundsAssumption DEF LearnerTypeOK
<1>2. new \in [1 .. adu - learnerAdu[l] -> Result]
  <2> HIDE DEF adu
  <2>1. \A i \in 1 .. adu - learnerAdu[l] :
           [slot |-> learnerAdu[l] + 1 + i - 1, value |-> map[learnerAdu[l] + 1 + i - 1]] \in Result
    BY <1>1 DEF Result, Slots
  <2>2. adu - (learnerAdu[l] + 1) + 1 = adu - learnerAdu[l]
    BY <1>1
  <2> QED
    BY <2>1, <2>2 DEF Results
<1>3. new \in Seq(Result)
  <2> HIDE DEF adu, new
  <2> QED
    BY <1>1, <1>2, SeqDef
<1>4. [i \in DOMAIN new |-> new[i].value] \in Seq(Values)
  <2> HIDE DEF adu, new
  <2>1. [i \in DOMAIN new |-> new[i].value] \in [1 .. adu - learnerAdu[l] -> Values]
    BY <1>2 DEF Result
  <2>2. PICK n \in Nat : n = adu - learnerAdu[l]
    BY <1>1
  <2>3. PICK values : values = [i \in DOMAIN new |-> new[i].value]
    OBVIOUS
  <2>4. values \in [1 .. n -> Values]
    BY <2>1, <2>2, <2>3
  <2>5. values \in Seq(Values)
    BY <2>4, SeqDef
  <2> QED
    BY <2>3, <2>5
<1>5. buf \in Seq(Result) /\ Len(buf) \in Nat
  BY <1>3, ConcatProperties, LenProperties DEF LearnerTypeOK
<1>6. k \in 0 .. Len(buf)
  <2> HIDE DEF buf
  <2>1. PICK n \in Nat : n = Len(buf)
    BY <1>5
  <2>2. DispatchSize(n, full) \in 0 .. n /\ 0 \in 0 .. n
    BY BatchAssumption DEF DispatchSize
  <2> QED
    BY <2>1, <2>2
<1>7. /\ learnerAdu' = [learnerAdu EXCEPT ![l] = adu]
      /\ history' = [history EXCEPT ![l] = @ \o [i \in DOMAIN new |-> new[i].value]]
      /\ execBuffer' = [execBuffer EXCEPT ![l] = SubSeq(buf, k + 1, Len(buf))]
      /\ Reply(m, S \cup IF SubSeq(buf, 1, k) = <<>> THEN {}
                         ELSE {ExecutedMsg(l, p, SubSeq(buf, 1, k), adu) : p \in Proposers})
  BY DEF ExecuteAndDispatch
<1> HIDE DEF adu, new, buf, k
<1>8. SubSeq(buf, 1, k) \in Seq(Result) /\ SubSeq(buf, k + 1, Len(buf)) \in Seq(Result)
  <2>1. \A i \in 1 .. Len(buf) : buf[i] \in Result
    BY <1>5, ElementOfSeq
  <2>2. k \in Int /\ 1 \in Int /\ k + 1 \in Int /\ Len(buf) \in Int
    BY <1>5, <1>6
  <2>3. (\A i \in 1 .. k : buf[i] \in Result) /\ (\A i \in k + 1 .. Len(buf) : buf[i] \in Result)
    BY <1>5, <1>6, <2>1
  <2> QED
    BY <2>2, <2>3, SubSeqProperties
<1>9. adu \in 0 .. MaxSlot
  BY <1>1
<1>10. history' \in [Learners -> Seq(Values)]
  <2>1. history[l] \o [i \in DOMAIN new |-> new[i].value] \in Seq(Values)
    BY <1>4, ConcatProperties DEF LearnerTypeOK
  <2> QED
    BY <1>7, <2>1 DEF LearnerTypeOK
<1>11. \A p \in Proposers : ExecutedMsg(l, p, SubSeq(buf, 1, k), adu) \in Messages
  BY <1>8, <1>9 DEF ExecutedMsg, Executeds, Messages
<1> QED
  BY <1>7, <1>8, <1>9, <1>10, <1>11 DEF LearnerTypeOK, Reply

\* A learn files and learns values of the slot it names (learner.rs, handle_learn).
LEMMA LearnTypeOK ==
  ASSUME TypeOK, NEW l \in Learners, HandleLearn(l)
  PROVE  network' \subseteq Messages /\ LearnerTypeOK'
<1>1. PICK m \in Inbox(l, "learn") :
       LET votes == IF AcceptorsSendLearns
                      THEN [slotLearns[l][m.slot] EXCEPT ![m.from] = m.value]
                      ELSE slotLearns[l][m.slot]
           known == Learnable(votes, m.value)
       IN /\ slotLearns' = [slotLearns EXCEPT ![l][m.slot] = votes]
          /\ IF learned[l][m.slot] = None /\ known # {}
               THEN \E v \in known :
                      /\ learned' = [learned EXCEPT ![l][m.slot] = v]
                      /\ ExecuteAndDispatch(l, learned'[l], m, {}, TRUE)
               ELSE /\ Reply(m, {})
                    /\ UNCHANGED <<learned, learnerAdu, history, execBuffer>>
  BY DEF HandleLearn
<1>2. m \in Learns
  BY InboxTypes DEF TypeOK
<1>3. slotLearns' \in [Learners -> [Slots -> [Acceptors -> Values \cup {None}]]]
  BY <1>1, <1>2 DEF TypeOK, LearnerTypeOK, Learns
<1>4. CASE UNCHANGED <<learned, learnerAdu, history, execBuffer>> /\ Reply(m, {})
  BY <1>3, <1>4 DEF TypeOK, LearnerTypeOK, Reply
<1>5. CASE \E v \in Values : /\ learned' = [learned EXCEPT ![l][m.slot] = v]
                             /\ ExecuteAndDispatch(l, learned'[l], m, {}, TRUE)
  <2>1. learned' \in [Learners -> [Slots -> Values \cup {None}]]
    BY <1>2, <1>5 DEF TypeOK, LearnerTypeOK, Learns
  <2>2. learned'[l] \in [Slots -> Values \cup {None}] /\ {} \in SUBSET Messages
    BY <2>1
  <2>3. ExecuteAndDispatch(l, learned'[l], m, {}, TRUE)
    BY <1>5
  <2>4. /\ network' \subseteq Messages
        /\ learnerAdu' \in [Learners -> 0 .. MaxSlot]
        /\ history' \in [Learners -> Seq(Values)]
        /\ execBuffer' \in [Learners -> Seq(Result)]
    BY <2>2, <2>3, DispatchTypeOK DEF TypeOK
  <2> QED
    BY <1>3, <2>1, <2>4 DEF LearnerTypeOK
<1>6. \A votes : Learnable(votes, m.value) \subseteq Values
  BY <1>2 DEF Learnable, Learns
<1> QED
  BY <1>1, <1>4, <1>5, <1>6

\* A learner's tick asks for slots of the log only (learner-agent.rs, handle_tick).
LEMMA TickTypeOK ==
  ASSUME TypeOK, NEW l \in Learners, LearnerTick(l)
  PROVE  network' \subseteq Messages /\ LearnerTypeOK'
<1>1. PICK S \in Retryable(l), due \in BOOLEAN :
        LET retries == IF S = {} THEN {} ELSE {RetryLearnsMsg(l, n, S) : n \in RetryTargets}
        IN /\ UNCHANGED <<slotLearns, learned>>
           /\ IF due THEN ExecuteAndDispatch(l, learned[l], None, retries, FALSE)
                     ELSE /\ Send(retries)
                          /\ UNCHANGED <<learnerAdu, history, execBuffer>>
  BY DEF LearnerTick
<1> DEFINE retries == IF S = {} THEN {} ELSE {RetryLearnsMsg(l, n, S) : n \in RetryTargets}
<1>2. retries \in SUBSET Messages
  <2>1. S \subseteq Slots
    BY <1>1 DEF Retryable
  <2>2. \A n \in RetryTargets : RetryLearnsMsg(l, n, S) \in Retries
    BY <2>1 DEF RetryTargets, RetryLearnsMsg, Retries
  <2> QED
    BY <2>2 DEF Messages
<1>3. CASE ExecuteAndDispatch(l, learned[l], None, retries, FALSE)
  <2>1. learned[l] \in [Slots -> Values \cup {None}]
    BY DEF TypeOK, LearnerTypeOK
  <2> HIDE DEF retries
  <2>2. /\ network' \subseteq Messages
        /\ learnerAdu' \in [Learners -> 0 .. MaxSlot]
        /\ history' \in [Learners -> Seq(Values)]
        /\ execBuffer' \in [Learners -> Seq(Result)]
    BY <1>2, <1>3, <2>1, DispatchTypeOK DEF TypeOK
  <2> QED
    BY <1>1, <2>2 DEF TypeOK, LearnerTypeOK
<1>4. CASE Send(retries) /\ UNCHANGED <<learnerAdu, history, execBuffer>>
  BY <1>1, <1>2, <1>4 DEF TypeOK, LearnerTypeOK, Send
<1> QED
  BY <1>1, <1>3, <1>4

\* An adu request is answered with a slot of the log (learner-agent.rs,
\* handle_message).
LEMMA AduRequestTypeOK ==
  ASSUME TypeOK, NEW l \in Learners, HandleAduRequest(l)
  PROVE  network' \subseteq Messages /\ LearnerTypeOK'
<1>1. PICK m \in Inbox(l, "adu") : Reply(m, {AduMsg(l, m.from, learnerAdu[l])})
                                   /\ UNCHANGED learnerVars
  BY DEF HandleAduRequest
<1>2. m.from \in Nodes
  BY InboxTypes DEF TypeOK, Adus
<1>3. AduMsg(l, m.from, learnerAdu[l]) \in Messages
  BY <1>2 DEF TypeOK, LearnerTypeOK, AduMsg, Adus, Messages, Nodes
<1> QED
  BY <1>1, <1>3 DEF TypeOK, LearnerTypeOK, learnerVars, Reply

----------------------------------------------------------------------------
(* Proposers.  A step of p changes the record of p only. *)

\* A fresh proposer has its types, whatever ballot and adu it loads (proposer.rs,
\* load_state).
LEMMA NewStateType ==
  ASSUME NEW p \in Proposers, NEW b \in Ballots, NEW adu \in 0 .. MaxSlot
  PROVE  NewCore(p, b, adu) \in CoreState /\ NewAgent \in AgentState
<1>1. 0 \in 0 .. MaxSlot
  BY BoundsAssumption
<1>2. NewCore(p, b, adu) \in CoreState
  BY <1>1 DEF NewCore, CoreState, InitialLeader
<1>3. NewAgent \in AgentState
  BY DEF NewAgent, AgentState, Phases
<1> QED
  BY <1>2, <1>3

\* A slot counter set back to the slot before the first one asked for, and a
\* queue with the recovered values, have their types.
LEMMA AfterCollectType ==
  ASSUME NEW c \in CoreState, NEW R \in SUBSET Promises, NEW s \in FirstSlots,
         NEW d \in AfterCollect(c, R, s)
  PROVE  d \in CoreState
<1>1. CASE c.currentSlot > s
  BY <1>1 DEF AfterCollect
<1>2. CASE ~(c.currentSlot > s)
  <2>1. PICK f \in Recovered(R, s) : \E q \in Enqueued(c.prioritized, f) :
          d = [c EXCEPT !.currentSlot = s - 1, !.prioritized = q]
    BY <1>2 DEF AfterCollect
  <2>2. PICK q \in Enqueued(c.prioritized, f) :
          d = [c EXCEPT !.currentSlot = s - 1, !.prioritized = q]
    BY <2>1
  <2>3. PICK S \in SUBSET Slots : f \in [S -> Commands]
    BY DEF Recovered
  <2>4. q \in Seq(Commands)
    BY <2>3, SlotsFinite, FS_Subset, EnqueuedType DEF CoreState
  <2>5. s - 1 \in 0 .. MaxSlot
    BY BoundsAssumption DEF FirstSlots
  <2> QED
    BY <2>2, <2>4, <2>5 DEF CoreState
<1> QED
  BY <1>1, <1>2

\* A phase is followed by a phase (proposer-agent.rs, advance_phase).
LEMMA NextPhaseType ==
  ASSUME NEW phase \in Phases, NEW success \in BOOLEAN
  PROVE  AdvancePhase(phase, success) \in Phases
BY DEF AdvancePhase, Phases

\* A promise is filed and at most moves the phase and sets the core back
\* (proposer-agent.rs, process_promises).
LEMMA HandlePromiseTypeOK ==
  ASSUME TypeOK, NEW p \in Proposers, HandlePromise(p)
  PROVE  network' \subseteq Messages /\ ProposerTypeOK'
<1>1. PICK m \in Inbox(p, "promise") :
        LET filed == {r \in agent[p].promises : r.ballot # m.ballot \/ r.from # m.from} \cup {m}
            top   == {r \in filed : \A o \in filed : o.ballot <= r.ballot}
        IN /\ Reply(m, {})
           /\ IF PhaseOneDone(core[p], top)
                THEN /\ \E c \in AfterCollect(core[p], top, m.slot) : core' = [core EXCEPT ![p] = c]
                     /\ agent' = [agent EXCEPT ![p].promises = filed,
                                               ![p].phase = AdvancePhase(@, TRUE)]
                ELSE /\ agent' = [agent EXCEPT ![p].promises = filed]
                     /\ UNCHANGED core
           /\ UNCHANGED clientVars
  BY DEF HandlePromise, FilePromise
<1>2. m \in Promises
  BY InboxTypes DEF TypeOK
<1> DEFINE filed == {r \in agent[p].promises : r.ballot # m.ballot \/ r.from # m.from} \cup {m}
           top   == {r \in filed : \A o \in filed : o.ballot <= r.ballot}
<1>3. core[p] \in CoreState /\ agent[p] \in AgentState
  BY DEF TypeOK, ProposerTypeOK
<1>4. filed \in SUBSET Promises /\ top \in SUBSET Promises
  BY <1>2, <1>3 DEF AgentState
<1>5. agent' \in [Proposers -> AgentState]
  <2>1. AdvancePhase(agent[p].phase, TRUE) \in Phases
    BY <1>3, NextPhaseType DEF AgentState
  <2> HIDE DEF filed
  <2>2. [agent[p] EXCEPT !.promises = filed, !.phase = AdvancePhase(@, TRUE)] \in AgentState
    BY <1>3, <1>4, <2>1 DEF AgentState
  <2>3. [agent[p] EXCEPT !.promises = filed] \in AgentState
    BY <1>3, <1>4 DEF AgentState
  <2>4. \/ agent' = [agent EXCEPT ![p].promises = filed, ![p].phase = AdvancePhase(@, TRUE)]
        \/ agent' = [agent EXCEPT ![p].promises = filed]
    BY <1>1 DEF filed
  <2> QED
    BY <2>2, <2>3, <2>4 DEF TypeOK, ProposerTypeOK
<1>6. core' \in [Proposers -> CoreState]
  <2> HIDE DEF top
  <2>1. \/ core' = core
        \/ \E c \in AfterCollect(core[p], top, m.slot) : core' = [core EXCEPT ![p] = c]
    BY <1>1 DEF top
  <2>2. m.slot \in FirstSlots
    BY <1>2 DEF Promises
  <2>3. AfterCollect(core[p], top, m.slot) \subseteq CoreState
    BY <1>3, <1>4, <2>2, AfterCollectType
  <2> QED
    BY <2>1, <2>3 DEF TypeOK, ProposerTypeOK
<1> QED
  BY <1>1, <1>5, <1>6 DEF TypeOK, ProposerTypeOK, Reply, clientVars

\* The steps of phase 1 that the clock starts.
LEMMA PrepareTickTypeOK ==
  ASSUME TypeOK, NEW p \in Proposers,
         RequestAdu(p) \/ StartLeaderLoop(p) \/ SendPrepare(p) \/ PrepareTimeout(p)
  PROVE  network' \subseteq Messages /\ ProposerTypeOK'
<1>1. core[p] \in CoreState /\ agent[p] \in AgentState
  BY DEF TypeOK, ProposerTypeOK
<1>2. CASE RequestAdu(p)
  <2>1. \A l \in Learners : AduMsg(p, l, 0) \in Messages
    BY BoundsAssumption DEF AduMsg, Adus, Messages, Nodes
  <2> QED
    BY <1>2, <2>1 DEF RequestAdu, Send, TypeOK, ProposerTypeOK, proposerVars
<1>3. CASE StartLeaderLoop(p)
  <2>1. [agent[p] EXCEPT !.phase = "PrepareSend"] \in AgentState
    BY <1>1 DEF AgentState, Phases
  <2> QED
    BY <1>3, <2>1 DEF StartLeaderLoop, TypeOK, ProposerTypeOK, clientVars
<1>4. CASE SendPrepare(p)
  <2> DEFINE b == core[p].ballot + BallotDelta
  <2>1. b \in Ballots /\ core[p].adu + 1 \in FirstSlots
    BY <1>1, <1>4, DeltaType, BoundsAssumption DEF SendPrepare, CoreState, Ballots, FirstSlots
  <2>2. /\ core' = [core EXCEPT ![p].ballot = b]
        /\ agent' = [agent EXCEPT ![p].phase = AdvancePhase(@, FALSE), ![p].timer = TRUE]
        /\ Send({PrepareMsg(p, a, core[p].adu + 1, b) : a \in Acceptors})
        /\ UNCHANGED clientVars
    BY <1>4 DEF SendPrepare
  <2> HIDE DEF b
  <2>3. [core[p] EXCEPT !.ballot = b] \in CoreState
    BY <1>1, <2>1 DEF CoreState
  <2>4. AdvancePhase(agent[p].phase, FALSE) \in Phases
    BY <1>1, NextPhaseType DEF AgentState
  <2>5. [agent[p] EXCEPT !.phase = AdvancePhase(@, FALSE), !.timer = TRUE] \in AgentState
    BY <1>1, <2>4 DEF AgentState
  <2>6. \A a \in Acceptors : PrepareMsg(p, a, core[p].adu + 1, b) \in Messages
    BY <2>1 DEF PrepareMsg, Prepares, Messages
  <2> QED
    BY <2>2, <2>3, <2>5, <2>6 DEF TypeOK, ProposerTypeOK, Send, clientVars
<1>5. CASE PrepareTimeout(p)
  <2>1. AdvancePhase(agent[p].phase, FALSE) \in Phases
    BY <1>1, NextPhaseType DEF AgentState
  <2>2. [agent[p] EXCEPT !.phase = AdvancePhase(@, FALSE), !.timer = FALSE] \in AgentState
    BY <1>1, <2>1 DEF AgentState
  <2> QED
    BY <1>5, <2>2 DEF PrepareTimeout, TypeOK, ProposerTypeOK, clientVars
<1> QED
  BY <1>2, <1>3, <1>4, <1>5

\* The proposals created fill the slots after the slot counter with queued
\* commands and no slot beyond the log (proposer.rs, create_proposal).
LEMMA CreateProposalsType ==
  ASSUME NEW c \in CoreState
  PROVE  /\ CreateProposals(c) \in CoreState
         /\ \A s \in c.currentSlot + 1 .. CreateProposals(c).currentSlot :
              s \in Slots /\ CreateProposals(c).proposals[s] \in Entry
<1> DEFINE n     == NumProposals(c)
           queue == c.prioritized \o c.pending
           k     == LeastOf({n, Len(c.prioritized)})
<1>1. /\ c.currentSlot \in 0 .. MaxSlot /\ MaxSlot \in Nat
      /\ c.prioritized \in Seq(Commands) /\ c.pending \in Seq(Commands)
  BY BoundsAssumption DEF CoreState
<1>2. Len(c.prioritized) \in Nat /\ Len(c.pending) \in Nat
  BY <1>1, LenProperties
<1> DEFINE first  == Len(c.prioritized)
           second == Len(c.pending)
           free   == MaxSlot - c.currentSlot
<1>3. n = IF c.isLeader THEN LeastOf({BatchSize, first + second, free}) ELSE 0
  BY DEF NumProposals
<1>4. first \in Nat /\ second \in Nat /\ free \in Nat /\ BatchSize \in Nat
  BY <1>1, <1>2, BatchAssumption
<1>5. k = LeastOf({n, first})
  OBVIOUS
<1> HIDE DEF n, k, first, second, free
<1>6. n \in Nat /\ n <= first + second /\ n <= free
  <2>1. first + second \in Nat
    BY <1>4
  <2>2. /\ LeastOf({BatchSize, first + second, free}) \in Nat
        /\ LeastOf({BatchSize, first + second, free}) <= first + second
        /\ LeastOf({BatchSize, first + second, free}) <= free
    BY <1>4, <2>1, LeastOfThree
  <2> QED
    BY <1>3, <1>4, <2>1, <2>2
<1>7. k \in Nat /\ k <= n /\ k <= first /\ n - k <= second
  BY <1>4, <1>5, <1>6, LeastOfTwo
<1>8. SubSeq(c.prioritized, k + 1, first) \in Seq(Commands)
  <2>1. \A i \in k + 1 .. first : c.prioritized[i] \in Commands
    BY <1>1, <1>4, <1>7, ElementOfSeq DEF first
  <2> QED
    BY <1>4, <1>7, <2>1, SubSeqProperties
<1>9. SubSeq(c.pending, n - k + 1, second) \in Seq(Commands)
  <2>1. \A i \in n - k + 1 .. second : c.pending[i] \in Commands
    BY <1>1, <1>4, <1>6, <1>7, ElementOfSeq DEF second
  <2>2. n - k + 1 \in Int
    BY <1>6, <1>7
  <2> QED
    BY <1>4, <2>1, <2>2, SubSeqProperties
<1>10. ASSUME NEW s \in c.currentSlot + 1 .. c.currentSlot + n
       PROVE  s \in Slots /\ queue[s - c.currentSlot] \in Commands
  <2>1. queue \in Seq(Commands) /\ Len(queue) = first + second
    BY <1>1, ConcatProperties DEF first, second
  <2> HIDE DEF queue
  <2>2. s - c.currentSlot \in 1 .. first + second
    BY <1>1, <1>4, <1>6
  <2>3. queue[s - c.currentSlot] \in Commands
    BY <2>1, <2>2, ElementOfSeq
  <2>4. s \in Slots
    BY <1>1, <1>6 DEF Slots, free
  <2> QED
    BY <2>3, <2>4
<1> DEFINE props == [s \in Slots |->
                       IF s \in c.currentSlot + 1 .. c.currentSlot + n
                         THEN [ballot |-> c.ballot, value |-> queue[s - c.currentSlot],
                               status |-> "InFlight"]
                         ELSE c.proposals[s]]
<1>11. CreateProposals(c) =
         [c EXCEPT !.currentSlot = @ + n,
                   !.prioritized = SubSeq(@, k + 1, Len(@)),
                   !.pending = SubSeq(@, n - k + 1, Len(@)),
                   !.proposals = props]
  BY DEF CreateProposals, n, k
<1> HIDE DEF queue
<1>12. \A s \in c.currentSlot + 1 .. c.currentSlot + n :
         [ballot |-> c.ballot, value |-> queue[s - c.currentSlot], status |-> "InFlight"] \in Entry
  BY <1>10 DEF CoreState, Entry, Statuses
<1>13. props \in [Slots -> Entry \cup {None}]
  BY <1>12 DEF CoreState
<1>14. \A s \in c.currentSlot + 1 .. c.currentSlot + n : props[s] \in Entry
  BY <1>10, <1>12
<1>15. c.currentSlot + n \in 0 .. MaxSlot
  BY <1>1, <1>6 DEF free
<1> HIDE DEF props
<1>16. CreateProposals(c) \in CoreState
  BY <1>8, <1>9, <1>11, <1>13, <1>15 DEF CoreState, first, second
<1>17. /\ CreateProposals(c).currentSlot = c.currentSlot + n
       /\ CreateProposals(c).proposals = props
  BY <1>11 DEF CoreState
<1> QED
  BY <1>10, <1>14, <1>16, <1>17

\* A commit changes the status of existing proposals only (proposer-agent.rs,
\* learns_to_commit).
LEMMA CommitChosenType ==
  ASSUME NEW c \in CoreState
  PROVE  /\ CommitChosen(c) \in CoreState
         /\ \A s \in Committing(c) : s \in Slots /\ CommitChosen(c).proposals[s] \in Entry
<1>1. c.chosenSlots \in Seq(Slots) /\ Len(c.chosenSlots) \in Nat
  BY LenProperties DEF CoreState
<1>2. NumCommits(c) \in Nat
  BY <1>1, LeastOfTwo, BatchAssumption DEF NumCommits
<1>3. SubSeq(c.chosenSlots, NumCommits(c) + 1, Len(c.chosenSlots)) \in Seq(Slots)
  <2>1. \A i \in NumCommits(c) + 1 .. Len(c.chosenSlots) : c.chosenSlots[i] \in Slots
    BY <1>1, <1>2, ElementOfSeq
  <2> QED
    BY <1>1, <1>2, <2>1, SubSeqProperties
<1>4. \A s \in Committing(c) :
        s \in Slots /\ [c.proposals[s] EXCEPT !.status = "CommitPending"] \in Entry
  BY DEF Committing, CoreState, Entry, Statuses
<1> QED
  BY <1>3, <1>4 DEF CommitChosen, CoreState

\* The accepts and learns of a proposal carry its command.
LEMMA ProposalMessageTypes ==
  ASSUME NEW p \in Proposers, NEW c \in CoreState, NEW s \in Slots, c.proposals[s] \in Entry
  PROVE  ProposalAccepts(p, c, s) \subseteq Messages /\ ProposalLearns(p, c, s) \subseteq Messages
BY DEF ProposalAccepts, ProposalLearns, AcceptMsg, LearnMsg, Accepts, Learns, Messages, Entry, Values

\* A tick of phase 2 keeps the types (proposer-agent.rs, handle_tick).
LEMMA AcceptCommitTypeOK ==
  ASSUME TypeOK, NEW p \in Proposers, AcceptCommit(p)
  PROVE  network' \subseteq Messages /\ ProposerTypeOK'
<1> DEFINE c1 == CreateProposals(core[p])
           c2 == CommitChosen(c1)
           rs == Responding(agent[p])
<1>1. core[p] \in CoreState /\ agent[p] \in AgentState
  BY DEF TypeOK, ProposerTypeOK
<1>2. /\ core' = [core EXCEPT ![p] = c2]
      /\ agent' = [agent EXCEPT ![p].responses = [s \in Slots |-> IF s \in rs THEN None ELSE @[s]]]
      /\ replies' = replies \cup IF core[p].isLeader THEN {agent[p].responses[s] : s \in rs} ELSE {}
      /\ Send((UNION {ProposalAccepts(p, c1, s) : s \in core[p].currentSlot + 1 .. c1.currentSlot})
              \cup (UNION {ProposalLearns(p, c2, s) : s \in Committing(c1)}))
      /\ UNCHANGED submitted
  BY DEF AcceptCommit
<1>3. c1 \in CoreState /\ \A s \in core[p].currentSlot + 1 .. c1.currentSlot :
                            s \in Slots /\ c1.proposals[s] \in Entry
  BY <1>1, CreateProposalsType
<1> HIDE DEF c1
<1>4. c2 \in CoreState /\ \A s \in Committing(c1) : s \in Slots /\ c2.proposals[s] \in Entry
  BY <1>3, CommitChosenType
<1> HIDE DEF c2
<1>5. network' \subseteq Messages
  <2>1. \A s \in core[p].currentSlot + 1 .. c1.currentSlot : ProposalAccepts(p, c1, s) \subseteq Messages
    BY <1>3, ProposalMessageTypes
  <2>2. \A s \in Committing(c1) : ProposalLearns(p, c2, s) \subseteq Messages
    BY <1>4, ProposalMessageTypes
  <2> DEFINE A == UNION {ProposalAccepts(p, c1, s) : s \in core[p].currentSlot + 1 .. c1.currentSlot}
             L == UNION {ProposalLearns(p, c2, s) : s \in Committing(c1)}
  <2>3. A \subseteq Messages /\ L \subseteq Messages
    BY <2>1, <2>2
  <2>4. network' = network \cup (A \cup L)
    BY <1>2 DEF Send
  <2> HIDE DEF A, L
  <2> QED
    BY <2>3, <2>4 DEF TypeOK
<1>6. \A s \in rs : s \in Slots /\ agent[p].responses[s] \in Response
  BY <1>1 DEF Responding, AgentState
<1> HIDE DEF rs
<1>7. agent' \in [Proposers -> AgentState]
  <2>1. [agent[p] EXCEPT !.responses = [s \in Slots |-> IF s \in rs THEN None ELSE @[s]]] \in AgentState
    BY <1>1 DEF AgentState
  <2> QED
    BY <1>2, <2>1 DEF TypeOK, ProposerTypeOK
<1>8. replies' \subseteq Response
  BY <1>2, <1>6 DEF TypeOK, ProposerTypeOK
<1> QED
  BY <1>2, <1>4, <1>5, <1>7, <1>8 DEF TypeOK, ProposerTypeOK

\* An accepted is filed and at most makes a proposal chosen (proposer-agent.rs,
\* accept_commit).
LEMMA HandleAcceptedTypeOK ==
  ASSUME TypeOK, NEW p \in Proposers, HandleAccepted(p)
  PROVE  network' \subseteq Messages /\ ProposerTypeOK'
<1>1. PICK m \in Inbox(p, "accepted") :
        LET filed == [agent[p].accepts[m.slot] EXCEPT ![m.from] = m.ballot]
            won   == HasStatus(core[p], m.slot, "InFlight") /\ PhaseTwoDone(core[p], filed, m.slot)
        IN /\ Reply(m, {})
           /\ agent' = [agent EXCEPT ![p].accepts[m.slot] = filed]
           /\ core' = IF won
                        THEN [core EXCEPT ![p] =
                               [core[p] EXCEPT !.proposals[m.slot].status = "Chosen",
                                               !.chosenSlots = Append(@, m.slot)]]
                        ELSE core
           /\ UNCHANGED clientVars
  BY DEF HandleAccepted, FileAccepted, MarkChosen
<1>2. m.slot \in Slots /\ m.from \in Acceptors /\ m.ballot \in Ballots
  BY InboxTypes DEF TypeOK, Accepteds
<1>3. core[p] \in CoreState /\ agent[p] \in AgentState
  BY DEF TypeOK, ProposerTypeOK
<1>4. agent' \in [Proposers -> AgentState]
  <2> DEFINE filed == [agent[p].accepts[m.slot] EXCEPT ![m.from] = m.ballot]
  <2>1. filed \in [Acceptors -> Ballots \cup {None}]
    BY <1>2, <1>3 DEF AgentState
  <2>2. agent' = [agent EXCEPT ![p] = [agent[p] EXCEPT !.accepts[m.slot] = filed]]
    BY <1>1 DEF TypeOK, ProposerTypeOK
  <2> HIDE DEF filed
  <2>3. [agent[p] EXCEPT !.accepts[m.slot] = filed] \in AgentState
    BY <1>2, <1>3, <2>1 DEF AgentState
  <2> QED
    BY <2>2, <2>3 DEF TypeOK, ProposerTypeOK
<1>5. core' \in [Proposers -> CoreState]
  <2>1. SUFFICES ASSUME HasStatus(core[p], m.slot, "InFlight"),
                        core' = [core EXCEPT ![p] =
                                   [core[p] EXCEPT !.proposals[m.slot].status = "Chosen",
                                                   !.chosenSlots = Append(@, m.slot)]]
                 PROVE  core' \in [Proposers -> CoreState]
    BY <1>1 DEF TypeOK, ProposerTypeOK
  <2>2. Append(core[p].chosenSlots, m.slot) \in Seq(Slots)
    BY <1>2, <1>3 DEF CoreState
  <2>3. core[p].proposals[m.slot] \in Entry
    BY <1>2, <1>3, <2>1 DEF HasStatus, CoreState
  <2>4. [core[p].proposals[m.slot] EXCEPT !.status = "Chosen"] \in Entry
    BY <2>3 DEF Entry, Statuses
  <2>5. [core[p] EXCEPT !.proposals[m.slot].status = "Chosen",
                        !.chosenSlots = Append(@, m.slot)] \in CoreState
    BY <1>2, <1>3, <2>2, <2>4 DEF CoreState
  <2> QED
    BY <2>1, <2>5 DEF TypeOK, ProposerTypeOK
<1> QED
  BY <1>1, <1>4, <1>5 DEF TypeOK, ProposerTypeOK, Reply, clientVars

\* A retry resends learns and accepts and changes no proposer (proposer-agent.rs,
\* retry_learns).
LEMMA HandleRetryLearnTypeOK ==
  ASSUME TypeOK, NEW p \in Proposers, HandleRetryLearn(p)
  PROVE  network' \subseteq Messages /\ ProposerTypeOK'
<1>1. PICK m \in Inbox(p, "retry-learns") :
        /\ Reply(m, IF core[p].isLeader
                      THEN (UNION {ProposalLearns(p, core[p], s) :
                                    s \in {t \in m.slots : HasStatus(core[p], t, "CommitPending")}})
                           \cup (UNION {ProposalAccepts(p, core[p], s) :
                                    s \in {t \in m.slots : HasStatus(core[p], t, "InFlight")}})
                      ELSE {})
        /\ UNCHANGED proposerVars
  BY DEF HandleRetryLearn
<1> DEFINE L == UNION {ProposalLearns(p, core[p], s) :
                         s \in {t \in m.slots : HasStatus(core[p], t, "CommitPending")}}
           A == UNION {ProposalAccepts(p, core[p], s) :
                         s \in {t \in m.slots : HasStatus(core[p], t, "InFlight")}}
<1>2. m.slots \subseteq Slots
  BY InboxTypes DEF TypeOK, Retries
<1>3. core[p] \in CoreState
  BY DEF TypeOK, ProposerTypeOK
<1>4. \A t \in m.slots, status \in Statuses : HasStatus(core[p], t, status) =>
        ProposalLearns(p, core[p], t) \subseteq Messages /\ ProposalAccepts(p, core[p], t) \subseteq Messages
  <2> SUFFICES ASSUME NEW t \in m.slots, core[p].proposals[t] # None
               PROVE  /\ ProposalLearns(p, core[p], t) \subseteq Messages
                      /\ ProposalAccepts(p, core[p], t) \subseteq Messages
    BY DEF HasStatus
  <2>1. t \in Slots /\ core[p].proposals[t] \in Entry
    BY <1>2, <1>3 DEF CoreState
  <2> QED
    BY <1>3, <2>1, ProposalMessageTypes
<1>5. L \subseteq Messages /\ A \subseteq Messages
  BY <1>4 DEF Statuses
<1>6. Reply(m, L \cup A) \/ Reply(m, {})
  BY <1>1
<1> HIDE DEF L, A
<1>7. network' \subseteq Messages
  BY <1>5, <1>6 DEF Reply, TypeOK
<1> QED
  BY <1>1, <1>7 DEF TypeOK, ProposerTypeOK, proposerVars

\* An adu, a client, the failure detector and a restart keep the types.
LEMMA OutsideTypeOK ==
  ASSUME TypeOK, NEW p \in Proposers,
         \/ HandleAdu(p) \/ SubmitClientRequest(p)
         \/ BecomeLeader(p) \/ ResignLeader(p) \/ RestartProposer(p)
  PROVE  network' \subseteq Messages /\ ProposerTypeOK'
<1>1. core[p] \in CoreState /\ agent[p] \in AgentState
  BY DEF TypeOK, ProposerTypeOK
<1>2. CASE HandleAdu(p)
  <2>1. PICK m \in Inbox(p, "adu") : /\ Reply(m, {})
                                     /\ core' = [core EXCEPT ![p].adu = m.adu]
                                     /\ agent' = [agent EXCEPT ![p].hasAdu = TRUE]
                                     /\ UNCHANGED clientVars
    BY <1>2 DEF HandleAdu
  <2>2. m.adu \in 0 .. MaxSlot
    BY <2>1, InboxTypes DEF TypeOK, Adus
  <2>3. [core[p] EXCEPT !.adu = m.adu] \in CoreState /\ [agent[p] EXCEPT !.hasAdu = TRUE] \in AgentState
    BY <1>1, <2>2 DEF CoreState, AgentState
  <2> QED
    BY <2>1, <2>3 DEF TypeOK, ProposerTypeOK, Reply, clientVars
<1>3. CASE SubmitClientRequest(p)
  <2>1. PICK v \in Commands : /\ core' = [core EXCEPT ![p].pending = Append(@, v)]
                              /\ submitted' = submitted \cup {v}
                              /\ UNCHANGED <<agent, replies, network>>
    BY <1>3 DEF SubmitClientRequest
  <2>2. Append(core[p].pending, v) \in Seq(Commands)
    BY <1>1 DEF CoreState
  <2>3. [core[p] EXCEPT !.pending = Append(@, v)] \in CoreState
    BY <1>1, <2>2 DEF CoreState
  <2> QED
    BY <2>1, <2>3 DEF TypeOK, ProposerTypeOK
<1>4. CASE BecomeLeader(p)
  <2>1. core[p].ballot + BallotDelta \in Ballots
    BY <1>1, <1>4, DeltaType, BoundsAssumption DEF BecomeLeader, CoreState, Ballots
  <2>2. [core[p] EXCEPT !.ballot = @ + BallotDelta, !.isLeader = TRUE] \in CoreState
    BY <1>1, <2>1 DEF CoreState
  <2> QED
    BY <1>4, <2>2 DEF BecomeLeader, TypeOK, ProposerTypeOK, clientVars
<1>5. CASE ResignLeader(p)
  <2>1. [core[p] EXCEPT !.isLeader = FALSE] \in CoreState
    BY <1>1 DEF CoreState
  <2> QED
    BY <1>5, <2>1 DEF ResignLeader, TypeOK, ProposerTypeOK, clientVars
<1>6. CASE RestartProposer(p)
  <2>1. NewCore(p, core[p].ballot, core[p].adu) \in CoreState /\ NewAgent \in AgentState
    BY <1>1, NewStateType DEF CoreState
  <2> QED
    BY <1>6, <2>1 DEF RestartProposer, TypeOK, ProposerTypeOK, clientVars
<1> QED
  BY <1>2, <1>3, <1>4, <1>5, <1>6

\* Results finalize proposals, queue responses and put commands, never no-ops,
\* back into the queue (proposer-agent.rs, process_executed).
LEMMA HandleExecutedTypeOK ==
  ASSUME TypeOK, NEW p \in Proposers, HandleExecuted(p)
  PROVE  network' \subseteq Messages /\ ProposerTypeOK'
<1> DEFINE c == core[p]
           done(m) == {i \in DOMAIN m.results : /\ c.proposals[m.results[i].slot] # None
                                                /\ ~HasStatus(c, m.results[i].slot, "Finalized")}
           mine(m) == [i \in done(m) |-> c.proposals[m.results[i].slot].value]
           lost(m) == ToRepropose(m.results, mine(m))
           at(m, s) == {i \in done(m) : m.results[i].slot = s}
           adu(m)  == GreatestOf({c.adu, m.adu})
           finalized(m) == [s \in Slots |-> IF at(m, s) # {}
                              THEN [c.proposals[s] EXCEPT !.status = "Finalized"]
                              ELSE c.proposals[s]]
           responses(m) == [s \in Slots |->
                    IF at(m, s) = {} THEN agent[p].responses[s]
                    ELSE LET i == CHOOSE j \in at(m, s) : TRUE
                         IN [slot |-> s, value |-> mine(m)[i], executed |-> m.results[i].value]]
<1>1. PICK m \in Inbox(p, "executed") :
        /\ Reply(m, {})
        /\ UNCHANGED clientVars
        /\ \/ /\ core' = [core EXCEPT ![p].adu = adu(m)]
              /\ UNCHANGED agent
           \/ /\ \E q \in Enqueued(c.prioritized, lost(m)) :
                   core' = [core EXCEPT ![p].adu = adu(m), ![p].prioritized = q,
                      ![p].proposals = [s \in Slots |->
                         IF at(m, s) # {} THEN [@[s] EXCEPT !.status = "Finalized"] ELSE @[s]]]
              /\ agent' = [agent EXCEPT ![p].responses = [s \in Slots |->
                    IF at(m, s) = {} THEN @[s]
                    ELSE LET i == CHOOSE j \in at(m, s) : TRUE
                         IN [slot |-> s, value |-> mine(m)[i], executed |-> m.results[i].value]]]
  BY DEF HandleExecuted, MarkFinalized
<1>2. m.results \in Seq(Result) /\ m.adu \in 0 .. MaxSlot
  BY InboxTypes DEF TypeOK, Executeds
<1>3. c \in CoreState /\ agent[p] \in AgentState
  BY DEF TypeOK, ProposerTypeOK
<1>4. IsFiniteSet(DOMAIN m.results)
  <2>1. Len(m.results) \in Int /\ 1 \in Int /\ DOMAIN m.results = 1 .. Len(m.results)
    BY <1>2, LenProperties
  <2> QED
    BY <2>1, FS_Interval
<1>5. \A i \in done(m) : /\ m.results[i] \in Result
                         /\ c.proposals[m.results[i].slot] \in Entry
  <2>1. \A i \in DOMAIN m.results : m.results[i] \in Result
    BY <1>2, LenProperties, ElementOfSeq
  <2> QED
    BY <1>3, <2>1 DEF Result, CoreState
<1> HIDE DEF c
<1>6. mine(m) \in [done(m) -> Commands]
  BY <1>5 DEF Entry
<1>7. adu(m) \in 0 .. MaxSlot
  <2>1. c.adu \in 0 .. MaxSlot /\ MaxSlot \in Nat
    BY <1>3, BoundsAssumption DEF CoreState
  <2> QED
    BY <1>2, <2>1, GreatestOfTwo
<1>8. Enqueued(c.prioritized, lost(m)) \subseteq Seq(Commands)
  <2> DEFINE I == {j \in done(m) : m.results[j].value = NoOp}
  <2>1. lost(m) \in [I -> Commands]
    <3>1. DOMAIN mine(m) = done(m)
      OBVIOUS
    <3>2. lost(m) = [i \in I |-> mine(m)[i]]
      BY <3>1 DEF ToRepropose
    <3> QED
      BY <1>6, <3>2
  <2>2. IsFiniteSet(I)
    BY <1>4, FS_Subset
  <2>3. c.prioritized \in Seq(Commands)
    BY <1>3 DEF CoreState
  <2> HIDE DEF lost, I
  <2> QED
    BY <2>1, <2>2, <2>3, EnqueuedType
<1>9. finalized(m) \in [Slots -> Entry \cup {None}]
  <2> SUFFICES ASSUME NEW s \in Slots
               PROVE  (IF at(m, s) # {} THEN [c.proposals[s] EXCEPT !.status = "Finalized"]
                                        ELSE c.proposals[s]) \in Entry \cup {None}
    OBVIOUS
  <2>1. CASE at(m, s) # {}
    <3>1. c.proposals[s] \in Entry
      BY <1>5, <2>1
    <3> QED
      BY <2>1, <3>1 DEF Entry, Statuses
  <2>2. CASE at(m, s) = {}
    BY <1>3, <2>2 DEF CoreState
  <2> QED
    BY <2>1, <2>2
<1>10. responses(m) \in [Slots -> Response \cup {None}]
  <2> SUFFICES ASSUME NEW s \in Slots
               PROVE  responses(m)[s] \in Response \cup {None}
    OBVIOUS
  <2>1. CASE at(m, s) # {}
    <3>1. PICK i \in at(m, s) : i = CHOOSE j \in at(m, s) : TRUE
      BY <2>1
    <3>2. mine(m)[i] \in Commands /\ m.results[i].value \in Values
      BY <1>5, <1>6, <3>1 DEF Result
    <3> HIDE DEF mine, at
    <3> QED
      BY <2>1, <3>1, <3>2 DEF Response
  <2>2. CASE at(m, s) = {}
    BY <1>3, <2>2 DEF AgentState
  <2> QED
    BY <2>1, <2>2
<1>11. core' \in [Proposers -> CoreState] /\ agent' \in [Proposers -> AgentState]
  <2>1. CASE core' = [core EXCEPT ![p].adu = adu(m)] /\ agent' = agent
    <3> HIDE DEF adu
    <3>1. [core[p] EXCEPT !.adu = adu(m)] \in CoreState
      BY <1>3, <1>7 DEF c, CoreState
    <3> QED
      BY <2>1, <3>1 DEF TypeOK, ProposerTypeOK
  <2>2. CASE /\ \E q \in Enqueued(c.prioritized, lost(m)) :
                  core' = [core EXCEPT ![p].adu = adu(m), ![p].prioritized = q,
                                       ![p].proposals = finalized(m)]
             /\ agent' = [agent EXCEPT ![p].responses = responses(m)]
    <3>1. PICK q \in Seq(Commands) :
            core' = [core EXCEPT ![p].adu = adu(m), ![p].prioritized = q,
                                 ![p].proposals = finalized(m)]
      BY <1>8, <2>2
    <3> HIDE DEF adu, finalized, responses
    <3>2. [core[p] EXCEPT !.adu = adu(m), !.prioritized = q, !.proposals = finalized(m)] \in CoreState
      BY <1>3, <1>7, <1>9 DEF c, CoreState
    <3>3. [agent[p] EXCEPT !.responses = responses(m)] \in AgentState
      BY <1>3, <1>10 DEF AgentState
    <3> QED
      BY <2>2, <3>1, <3>2, <3>3 DEF TypeOK, ProposerTypeOK
  <2>3. \/ core' = [core EXCEPT ![p].adu = adu(m)] /\ agent' = agent
        \/ /\ \E q \in Enqueued(c.prioritized, lost(m)) :
                core' = [core EXCEPT ![p].adu = adu(m), ![p].prioritized = q,
                                     ![p].proposals = finalized(m)]
           /\ agent' = [agent EXCEPT ![p].responses = responses(m)]
    BY <1>1, Zenon DEF c
  <2> QED
    BY <2>1, <2>2, <2>3
<1> QED
  BY <1>1, <1>11 DEF TypeOK, ProposerTypeOK, Reply, clientVars

----------------------------------------------------------------------------
(* The theorem. *)

\* The initial state has its types.
LEMMA TypeInit == Init => TypeOK
<1> SUFFICES ASSUME Init PROVE TypeOK
  OBVIOUS
<1>1. 0 \in Ballots /\ 0 \in 0 .. MaxSlot /\ \A p \in Proposers : p \in Ballots
  BY BoundsAssumption, ProposersAssumption DEF Ballots
<1>2. network \subseteq Messages /\ AcceptorTypeOK
  BY <1>1 DEF Init, AcceptorInit, AcceptorTypeOK, AcceptedMap
<1>3. LearnerTypeOK
  BY <1>1 DEF Init, LearnerInit, LearnerTypeOK
<1>4. ProposerTypeOK
  BY <1>1, NewStateType DEF Init, ProposerInit, ProposerTypeOK
<1> QED
  BY <1>2, <1>3, <1>4 DEF TypeOK

\* Every step keeps the types.
LEMMA TypeStep == TypeOK /\ [Next]_vars => TypeOK'
<1> SUFFICES ASSUME TypeOK, [Next]_vars PROVE TypeOK'
  OBVIOUS
<1>1. CASE UNCHANGED vars
  BY <1>1 DEF vars, acceptorVars, learnerVars, proposerVars, TypeOK,
              AcceptorTypeOK, LearnerTypeOK, ProposerTypeOK
<1>2. ASSUME NEW a \in Acceptors, AcceptorStep(a), UNCHANGED <<learnerVars, proposerVars>>
      PROVE  TypeOK'
  <2>1. network' \subseteq Messages /\ AcceptorTypeOK'
    BY <1>2, PromiseTypeOK, AcceptTypeOK, RetryLearnsTypeOK DEF AcceptorStep
  <2> QED
    BY <1>2, <2>1 DEF learnerVars, proposerVars, TypeOK, LearnerTypeOK, ProposerTypeOK
<1>3. ASSUME NEW l \in Learners, LearnerStep(l), UNCHANGED <<acceptorVars, proposerVars>>
      PROVE  TypeOK'
  <2>1. network' \subseteq Messages /\ LearnerTypeOK'
    BY <1>3, LearnTypeOK, TickTypeOK, AduRequestTypeOK DEF LearnerStep
  <2> QED
    BY <1>3, <2>1 DEF acceptorVars, proposerVars, TypeOK, AcceptorTypeOK, ProposerTypeOK
<1>4. ASSUME NEW p \in Proposers, UNCHANGED <<acceptorVars, learnerVars>>,
             ProposerStep(p) \/ Leadership(p) \/ RestartProposer(p)
      PROVE  TypeOK'
  <2>1. network' \subseteq Messages /\ ProposerTypeOK'
    BY <1>4, HandlePromiseTypeOK, HandleAcceptedTypeOK, HandleRetryLearnTypeOK,
       HandleExecutedTypeOK, PrepareTickTypeOK, AcceptCommitTypeOK, OutsideTypeOK
       DEF ProposerStep, HandleProposerMessage, ProposerTick, Leadership
  <2> QED
    BY <1>4, <2>1 DEF acceptorVars, learnerVars, TypeOK, AcceptorTypeOK, LearnerTypeOK
<1> QED
  BY <1>1, <1>2, <1>3, <1>4, RolesAssumption
     DEF Next, AcceptorNext, LearnerNext, ProposerNext, RoleNext, RestartNext

\* Every message under way and every field of the acceptors, learners and
\* proposers has its type in every reachable state: in particular only client
\* commands are proposed and accepted, slot counters and adus stay in the
\* log, and a proposer's queues never hold a no-op.
THEOREM TypeCorrect == Spec => []TypeOK
BY TypeInit, TypeStep, PTL DEF Spec
=============================================================================
