-------------------------- MODULE CoordinatorProofs ---------------------------
(***************************************************************************)
(* The collocated deployment, for any number of nodes and slots, through   *)
(* changes of leader, late promises and panics: a node learns nothing but  *)
(* what a majority has accepted, and no two nodes apply different          *)
(* commands.  The lemmas about the acceptor, the learner and the proposer  *)
(* are those of the standalone deployment, which shares the components.    *)
(***************************************************************************)
EXTENDS Coordinator, LogProofs

\* Every node has an acceptor and a learner of its own (coordinator.rs, new).
LEMMA OwnComponents ==
  ASSUME NEW n \in Proposers
  PROVE  /\ AcceptorOf(n) \in Acceptors /\ LearnerOf(n) \in Learners
         /\ \A k \in Proposers : AcceptorOf(k) = AcceptorOf(n) \/ LearnerOf(k) = LearnerOf(n) => k = n
BY CollocatedAssumption, ProposersAssumption DEF AcceptorOf, LearnerOf

----------------------------------------------------------------------------
(* Types: the messages. *)

\* An accept that comes in is filed under the slot it names and announced.
LEMMA OnAcceptType ==
  ASSUME TypeOK, NEW n \in Proposers, OnAccept(n)
  PROVE  TypeOK'
<1> DEFINE a == AcceptorOf(n)
<1>1. PICK m \in Inbox(a, "accept") :
        /\ \/ accepted' = accepted
           \/ accepted' = [accepted EXCEPT ![a][m.slot] = [ballot |-> m.ballot, value |-> m.value]]
        /\ \/ Reply(m, Remote(n, Announce(a, m)))
           \/ Reply(m, {})
        /\ UNCHANGED <<promised, learnerVars, proposerVars>>
  BY DEF OnAccept
<1>2. a \in Acceptors /\ m \in Accepts
  BY OwnComponents, InboxTypes DEF TypeOK
<1> HIDE DEF a
<1>3. Remote(n, Announce(a, m)) \subseteq Messages
  BY <1>2, AnnounceType DEF Remote
<1>4. network' \subseteq Messages
  BY <1>1, <1>3 DEF TypeOK, Reply
<1>5. m.slot \in Slots /\ [ballot |-> m.ballot, value |-> m.value] \in PValue
  BY <1>2 DEF Accepts, PValue
<1>6. accepted' \in [Acceptors -> AcceptedMap]
  <2> DEFINE new == [accepted[a] EXCEPT ![m.slot] = [ballot |-> m.ballot, value |-> m.value]]
  <2>1. accepted \in [Acceptors -> AcceptedMap] /\ accepted[a] \in AcceptedMap
    BY <1>2 DEF TypeOK, AcceptorTypeOK
  <2>2. new \in AcceptedMap
    BY <1>5, <2>1 DEF AcceptedMap
  <2>3. accepted' = accepted \/ accepted' = [accepted EXCEPT ![a] = new]
    BY <1>1
  <2> HIDE DEF new
  <2> QED
    BY <1>2, <2>1, <2>2, <2>3
<1>7. AcceptorTypeOK'
  BY <1>1, <1>6 DEF TypeOK, AcceptorTypeOK
<1> QED
  BY <1>1, <1>4, <1>7 DEF TypeOK, learnerVars, proposerVars, LearnerTypeOK, ProposerTypeOK

\* The buffer that is left after sending a batch of results is one of results.
LEMMA RestType ==
  ASSUME NEW buf \in Seq(Result)
  PROVE  LET k == IF LearnersSendExecuted THEN DispatchSize(Len(buf), TRUE) ELSE 0
         IN SubSeq(buf, k + 1, Len(buf)) \in Seq(Result)
<1> DEFINE k == IF LearnersSendExecuted THEN DispatchSize(Len(buf), TRUE) ELSE 0
<1>1. Len(buf) \in Nat /\ \A i \in 1 .. Len(buf) : buf[i] \in Result
  BY LenProperties, ElementOfSeq
<1>2. k \in 0 .. Len(buf)
  <2>1. PICK n \in Nat : n = Len(buf)
    BY <1>1
  <2>2. DispatchSize(n, TRUE) \in 0 .. n /\ 0 \in 0 .. n
    BY BatchAssumption DEF DispatchSize
  <2> QED
    BY <2>1, <2>2
<1> HIDE DEF k
<1>3. \A i \in k + 1 .. Len(buf) : buf[i] \in Result
  BY <1>1, <1>2
<1>4. SubSeq(buf, k + 1, Len(buf)) \in Seq(Result)
  BY <1>1, <1>2, <1>3, SubSeqProperties
<1> QED
  BY <1>4 DEF k

\* What a learn that comes in does to the learner of the node.
OnLearnStep(l, map, adu) ==
  LET buf  == execBuffer[l] \o Results(map, learnerAdu[l] + 1, adu)
      sent == IF LearnersSendExecuted THEN DispatchSize(Len(buf), TRUE) ELSE 0
  IN /\ learned' = [learned EXCEPT ![l] = map]
     /\ learnerAdu' = [learnerAdu EXCEPT ![l] = adu]
     /\ history' = [history EXCEPT ![l] = @ \o Executed(map, learnerAdu[l], adu)]
     /\ execBuffer' = [execBuffer EXCEPT ![l] = SubSeq(buf, sent + 1, Len(buf))]

\* A learn that comes in is recorded, and what is contiguous is executed at once
\* (learner-agent.rs, handle_message).
LEMMA OnLearnCases ==
  ASSUME TypeOK, NEW n \in Proposers, OnLearn(n)
  PROVE  \E m \in Inbox(LearnerOf(n), "learn") :
           LET l     == LearnerOf(n)
               votes == IF AcceptorsSendLearns THEN [slotLearns[l][m.slot] EXCEPT ![m.from] = m.value]
                                               ELSE slotLearns[l][m.slot]
           IN /\ m \in Learns /\ m \in network
              /\ slotLearns' = [slotLearns EXCEPT ![l][m.slot] = votes]
              /\ \/ UNCHANGED <<learned, learnerAdu, history, execBuffer>>
                 \/ /\ learned[l][m.slot] = None
                    /\ \E v \in Learnable(votes, m.value) :
                         OnLearnStep(l, [learned[l] EXCEPT ![m.slot] = v],
                                     Contiguous([learned[l] EXCEPT ![m.slot] = v], learnerAdu[l]))
              /\ Reply(m, {})
              /\ UNCHANGED <<acceptorVars, proposerVars>>
<1> DEFINE l == LearnerOf(n)
           votes(m) == IF AcceptorsSendLearns THEN [slotLearns[l][m.slot] EXCEPT ![m.from] = m.value]
                                              ELSE slotLearns[l][m.slot]
           map(m, v) == [learned[l] EXCEPT ![m.slot] = v]
           adu(m, v) == Contiguous(map(m, v), learnerAdu[l])
           new(m, v) == Results(map(m, v), learnerAdu[l] + 1, adu(m, v))
           buf(m, v) == execBuffer[l] \o new(m, v)
           sent(m, v) == IF LearnersSendExecuted THEN DispatchSize(Len(buf(m, v)), TRUE) ELSE 0
<1>1. PICK m \in Inbox(l, "learn") :
        /\ slotLearns' = [slotLearns EXCEPT ![l][m.slot] = votes(m)]
        /\ \/ UNCHANGED <<learned, learnerAdu, history, execBuffer>>
           \/ /\ learned[l][m.slot] = None
              /\ \E v \in Learnable(votes(m), m.value) :
                   /\ learned' = [learned EXCEPT ![l] = map(m, v)]
                   /\ learnerAdu' = [learnerAdu EXCEPT ![l] = adu(m, v)]
                   /\ history' = [history EXCEPT ![l] = @ \o [i \in DOMAIN new(m, v) |-> new(m, v)[i].value]]
                   /\ execBuffer' = [execBuffer EXCEPT ![l] =
                        SubSeq(buf(m, v), sent(m, v) + 1, Len(buf(m, v)))]
        /\ Reply(m, {})
        /\ UNCHANGED <<acceptorVars, proposerVars>>
  BY DEF OnLearn
<1>2. m \in Learns /\ m \in network /\ l \in Learners
  BY OwnComponents, InboxTypes DEF TypeOK, Inbox
<1>3. ASSUME NEW v \in Learnable(votes(m), m.value),
             learned' = [learned EXCEPT ![l] = map(m, v)],
             learnerAdu' = [learnerAdu EXCEPT ![l] = adu(m, v)],
             history' = [history EXCEPT ![l] = @ \o [i \in DOMAIN new(m, v) |-> new(m, v)[i].value]],
             execBuffer' = [execBuffer EXCEPT ![l] =
                              SubSeq(buf(m, v), sent(m, v) + 1, Len(buf(m, v)))]
      PROVE  OnLearnStep(l, map(m, v), adu(m, v))
  <2>1. v \in Values
    BY <1>2 DEF Learnable, Learns
  <2>2. map(m, v) \in [Slots -> Values \cup {None}] /\ learnerAdu[l] \in 0 .. MaxSlot
    BY <1>2, <2>1 DEF TypeOK, LearnerTypeOK, Learns
  <2>3. adu(m, v) = Contiguous(map(m, v), learnerAdu[l])
    OBVIOUS
  <2> HIDE DEF map, adu
  <2>4. [i \in DOMAIN new(m, v) |-> new(m, v)[i].value] = Executed(map(m, v), learnerAdu[l], adu(m, v))
    BY <2>2, <2>3, ExecutedTypes
  <2> QED
    BY <1>3, <2>4 DEF OnLearnStep
<1> QED
  BY <1>1, <1>2, <1>3

\* The learner keeps its types.
LEMMA OnLearnType ==
  ASSUME TypeOK, NEW n \in Proposers, OnLearn(n)
  PROVE  TypeOK'
<1> DEFINE l == LearnerOf(n)
           votes(m) == IF AcceptorsSendLearns THEN [slotLearns[l][m.slot] EXCEPT ![m.from] = m.value]
                                              ELSE slotLearns[l][m.slot]
           map(m, v) == [learned[l] EXCEPT ![m.slot] = v]
           adu(m, v) == Contiguous(map(m, v), learnerAdu[l])
<1>1. PICK m \in Inbox(l, "learn") :
        /\ m \in Learns
        /\ slotLearns' = [slotLearns EXCEPT ![l][m.slot] = votes(m)]
        /\ \/ UNCHANGED <<learned, learnerAdu, history, execBuffer>>
           \/ \E v \in Learnable(votes(m), m.value) : OnLearnStep(l, map(m, v), adu(m, v))
        /\ Reply(m, {})
        /\ UNCHANGED <<acceptorVars, proposerVars>>
  BY OnLearnCases
<1>2. l \in Learners /\ LearnerTypeOK
  BY OwnComponents DEF TypeOK
<1>3. slotLearns' \in [Learners -> [Slots -> [Acceptors -> Values \cup {None}]]]
  BY <1>1, <1>2 DEF LearnerTypeOK, Learns
<1>4. ASSUME NEW v \in Learnable(votes(m), m.value), OnLearnStep(l, map(m, v), adu(m, v))
      PROVE  LearnerTypeOK'
  <2>1. v \in Values
    BY <1>1 DEF Learnable, Learns
  <2>2. map(m, v) \in [Slots -> Values \cup {None}] /\ learnerAdu[l] \in 0 .. MaxSlot
    BY <1>1, <1>2, <2>1 DEF LearnerTypeOK, Learns
  <2> DEFINE mp == map(m, v)
             new == Results(mp, learnerAdu[l] + 1, adu(m, v))
             buf == execBuffer[l] \o new
             sent == IF LearnersSendExecuted THEN DispatchSize(Len(buf), TRUE) ELSE 0
  <2>3. /\ learned' = [learned EXCEPT ![l] = mp]
        /\ learnerAdu' = [learnerAdu EXCEPT ![l] = adu(m, v)]
        /\ history' = [history EXCEPT ![l] = @ \o Executed(mp, learnerAdu[l], adu(m, v))]
        /\ execBuffer' = [execBuffer EXCEPT ![l] = SubSeq(buf, sent + 1, Len(buf))]
    BY <1>4 DEF OnLearnStep
  <2>4. adu(m, v) = Contiguous(mp, learnerAdu[l]) /\ mp \in [Slots -> Values \cup {None}]
    BY <2>2
  <2> HIDE DEF map, adu, mp
  <2>5. /\ adu(m, v) \in learnerAdu[l] .. MaxSlot /\ MaxSlot \in Nat
        /\ new \in Seq(Result)
        /\ Executed(mp, learnerAdu[l], adu(m, v)) \in Seq(Values)
    BY <2>2, <2>4, ExecutedTypes
  <2> HIDE DEF new
  <2>6. buf \in Seq(Result)
    BY <1>2, <2>5, ConcatProperties DEF LearnerTypeOK
  <2> HIDE DEF buf
  <2>7. SubSeq(buf, sent + 1, Len(buf)) \in Seq(Result)
    BY <2>6, RestType
  <2> HIDE DEF sent
  <2>8. history[l] \o Executed(mp, learnerAdu[l], adu(m, v)) \in Seq(Values)
    BY <1>2, <2>5, ConcatProperties DEF LearnerTypeOK
  <2>9. adu(m, v) \in 0 .. MaxSlot
    BY <2>2, <2>5
  <2> QED
    BY <1>2, <1>3, <2>3, <2>4, <2>7, <2>8, <2>9 DEF LearnerTypeOK
<1>5. LearnerTypeOK'
  BY <1>1, <1>2, <1>3, <1>4 DEF LearnerTypeOK
<1> QED
  BY <1>1, <1>5 DEF TypeOK, Reply, acceptorVars, proposerVars, AcceptorTypeOK, ProposerTypeOK

----------------------------------------------------------------------------
(* Types: the parts of a tick. *)

\* The results drained are those of the log after the adu, and the history grows
\* by them (learner-agent.rs, collect_executed).
LEMMA DrainedType ==
  ASSUME TypeOK, NEW n \in Proposers, DriveLearner(n)
  PROVE  /\ Drained(n) \in Seq(Result)
         /\ learnerAdu' \in [Learners -> 0 .. MaxSlot]
         /\ history' \in [Learners -> Seq(Values)]
         /\ execBuffer' \in [Learners -> Seq(Result)]
         /\ Contiguous(learned[LearnerOf(n)], learnerAdu[LearnerOf(n)]) \in 0 .. MaxSlot
<1> DEFINE l   == LearnerOf(n)
           adu == Contiguous(learned[l], learnerAdu[l])
<1>1. l \in Learners /\ LearnerTypeOK
  BY OwnComponents DEF TypeOK
<1>2. /\ learnerAdu' = [learnerAdu EXCEPT ![l] = adu]
      /\ history' = [history EXCEPT ![l] = @ \o Executed(learned[l], learnerAdu[l], adu)]
      /\ execBuffer' = [execBuffer EXCEPT ![l] = <<>>]
  BY DEF DriveLearner, Executed
<1>3. learned[l] \in [Slots -> Values \cup {None}] /\ learnerAdu[l] \in 0 .. MaxSlot
  BY <1>1 DEF LearnerTypeOK
<1>4. adu = Contiguous(learned[l], learnerAdu[l])
  OBVIOUS
<1>5. Drained(n) = execBuffer[l] \o Results(learned[l], learnerAdu[l] + 1, adu)
  BY DEF Drained
<1> HIDE DEF l, adu
<1>6. /\ adu \in learnerAdu[l] .. MaxSlot /\ MaxSlot \in Nat
      /\ Results(learned[l], learnerAdu[l] + 1, adu) \in Seq(Result)
      /\ Executed(learned[l], learnerAdu[l], adu) \in Seq(Values)
  BY <1>3, <1>4, ExecutedTypes
<1>7. Drained(n) \in Seq(Result)
  BY <1>1, <1>5, <1>6, ConcatProperties DEF LearnerTypeOK
<1>8. history[l] \o Executed(learned[l], learnerAdu[l], adu) \in Seq(Values)
  BY <1>1, <1>6, ConcatProperties DEF LearnerTypeOK
<1>9. adu \in 0 .. MaxSlot
  BY <1>3, <1>6
<1>10. <<>> \in Seq(Result)
  OBVIOUS
<1> QED
  BY <1>1, <1>2, <1>7, <1>8, <1>9, <1>10 DEF LearnerTypeOK, l, adu

\* Processing results ends proposals and queues their commands again; slots,
\* values and what is chosen stay (proposer-agent.rs, process_executed).
LEMMA AfterExecutedType ==
  ASSUME NEW c \in CoreState, NEW results \in Seq(Result), NEW adu \in 0 .. MaxSlot,
         NEW d \in AfterExecuted(c, results, adu)
  PROVE  /\ d \in CoreState
         /\ d.chosenSlots = c.chosenSlots /\ d.currentSlot = c.currentSlot /\ d.isLeader = c.isLeader
         /\ \A s \in Slots : \/ d.proposals[s] = c.proposals[s]
                            \/ /\ c.proposals[s] \in Entry \ {None}
                               /\ d.proposals[s] = [c.proposals[s] EXCEPT !.status = "Finalized"]
<1> DEFINE done == Ended(c, results)
           mine == [i \in done |-> c.proposals[results[i].slot].value]
           lost == ToRepropose(results, mine)
           props == [s \in Slots |-> IF \E i \in done : results[i].slot = s
                                       THEN [c.proposals[s] EXCEPT !.status = "Finalized"]
                                       ELSE c.proposals[s]]
<1>1. d = c \/ \E q \in Enqueued(c.prioritized, lost) :
        d = [c EXCEPT !.adu = GreatestOf({c.adu, adu}), !.prioritized = q, !.proposals = props]
  BY DEF AfterExecuted
<1>2. \A i \in done : c.proposals[results[i].slot] \in Entry \ {None}
  <2>1. \A i \in DOMAIN results : results[i] \in Result
    BY LenProperties, ElementOfSeq
  <2> QED
    BY <2>1 DEF Ended, Result, CoreState
<1>3. IsFiniteSet(DOMAIN results) /\ done \in SUBSET DOMAIN results
  <2>1. Len(results) \in Int /\ 1 \in Int /\ DOMAIN results = 1 .. Len(results)
    BY LenProperties
  <2> QED
    BY <2>1, FS_Interval DEF Ended
<1> HIDE DEF done
<1>4. mine \in [done -> Commands]
  BY <1>2 DEF Entry
<1>5. Enqueued(c.prioritized, lost) \subseteq Seq(Commands)
  <2> DEFINE I == {j \in done : results[j].value = NoOp}
  <2>1. lost \in [I -> Commands]
    <3>1. DOMAIN mine = done
      OBVIOUS
    <3>2. lost = [i \in I |-> mine[i]]
      BY <3>1 DEF ToRepropose
    <3> QED
      BY <1>4, <3>2
  <2>2. IsFiniteSet(I)
    BY <1>3, FS_Subset
  <2>3. c.prioritized \in Seq(Commands)
    BY DEF CoreState
  <2> HIDE DEF lost, I
  <2> QED
    BY <2>1, <2>2, <2>3, EnqueuedType
<1>6. \A s \in Slots : \/ props[s] = c.proposals[s]
                     \/ /\ c.proposals[s] \in Entry \ {None}
                        /\ props[s] = [c.proposals[s] EXCEPT !.status = "Finalized"]
  BY <1>2
<1>7. props \in [Slots -> Entry \cup {None}]
  <2>1. \A e \in Entry : [e EXCEPT !.status = "Finalized"] \in Entry
    BY DEF Entry, Statuses
  <2> QED
    BY <1>6, <2>1 DEF CoreState
<1>8. GreatestOf({c.adu, adu}) \in 0 .. MaxSlot
  <2>1. c.adu \in 0 .. MaxSlot /\ MaxSlot \in Nat
    BY BoundsAssumption DEF CoreState
  <2> QED
    BY <2>1, GreatestOfTwo
<1> HIDE DEF props, lost
<1>9. CASE d = c
  BY <1>9
<1>10. ASSUME NEW q \in Seq(Commands), NEW g \in 0 .. MaxSlot,
              d = [c EXCEPT !.adu = g, !.prioritized = q, !.proposals = props]
       PROVE  /\ d \in CoreState
              /\ d.chosenSlots = c.chosenSlots /\ d.currentSlot = c.currentSlot
              /\ d.isLeader = c.isLeader /\ d.proposals = props
  BY <1>7, <1>10 DEF CoreState
<1> QED
  BY <1>1, <1>5, <1>6, <1>8, <1>9, <1>10

\* The responses queued name the commands of the node's own proposals.
LEMMA ResponsesType ==
  ASSUME TypeOK, NEW n \in Proposers, NEW results \in Seq(Result)
  PROVE  ResponsesAfter(n, results) \in [Slots -> Response \cup {None}]
<1> DEFINE r(s) == LET i == CHOOSE j \in Ended(core[n], results) : results[j].slot = s
                   IN [slot |-> s, value |-> core[n].proposals[s].value, executed |-> results[i].value]
<1>1. core[n] \in CoreState /\ agent[n] \in AgentState
  BY DEF TypeOK, ProposerTypeOK
<1>2. ASSUME NEW s \in Slots, \E i \in Ended(core[n], results) : results[i].slot = s
      PROVE  r(s) \in Response
  <2> DEFINE i == CHOOSE j \in Ended(core[n], results) : results[j].slot = s
  <2>1. i \in Ended(core[n], results) /\ results[i].slot = s
    BY <1>2
  <2>2. results[i] \in Result /\ core[n].proposals[s] # None
    BY <2>1, LenProperties, ElementOfSeq DEF Ended
  <2>3. core[n].proposals[s] \in Entry
    BY <1>1, <2>2 DEF CoreState
  <2> HIDE DEF i
  <2>4. [slot |-> s, value |-> core[n].proposals[s].value, executed |-> results[i].value] \in Response
    BY <2>2, <2>3 DEF Response, Result, Entry
  <2> QED
    BY <2>4 DEF i
<1>3. \A s \in Slots : agent[n].responses[s] \in Response \cup {None}
  BY <1>1 DEF AgentState
<1>4. ResponsesAfter(n, results) = [s \in Slots |->
        IF core[n].isLeader /\ \E i \in Ended(core[n], results) : results[i].slot = s
          THEN r(s) ELSE agent[n].responses[s]]
  BY DEF ResponsesAfter
<1> HIDE DEF r
<1> QED
  BY <1>2, <1>3, <1>4

\* What a learner that looks for missing slots makes its own node send.
LEMMA RetrySentType ==
  ASSUME TypeOK, NEW n \in Proposers, NEW S \in SUBSET Slots
  PROVE  RetrySent(n, S) \subseteq Messages
<1>1. Resent(n, S) \subseteq Messages
  <2>1. core[n] \in CoreState
    BY DEF TypeOK, ProposerTypeOK
  <2>2. \A status : \A s \in S : HasStatus(core[n], s, status) => core[n].proposals[s] \in Entry
    BY <2>1 DEF HasStatus, CoreState
  <2>3. \A status : \A s \in S : HasStatus(core[n], s, status) =>
          ProposalAccepts(n, core[n], s) \subseteq Messages /\ ProposalLearns(n, core[n], s) \subseteq Messages
    BY <2>1, <2>2, ProposalMessageTypes
  <2> QED
    BY <2>3 DEF Resent, Remote
<1>2. Retold(n, S) \subseteq Messages
  <2>1. AcceptorOf(n) \in Acceptors
    BY OwnComponents
  <2>2. \A s \in Slots : RetryValue(AcceptorOf(n), s) \in Values
    BY <2>1 DEF RetryValue, TypeOK, AcceptorTypeOK, AcceptedMap, PValue, Values
  <2>3. \A s \in S, l \in Learners : LearnMsg(AcceptorOf(n), l, s, RetryValue(AcceptorOf(n), s)) \in Messages
    BY <2>1, <2>2 DEF LearnMsg, Learns, Messages
  <2> QED
    BY <2>3 DEF Retold, Remote
<1> QED
  BY <1>1, <1>2 DEF RetrySent

\* What processing results leaves of a core: proposals may have ended, and the
\* queue and the adu may have grown.
OnlyEnds(c, d) ==
  /\ d.chosenSlots = c.chosenSlots /\ d.currentSlot = c.currentSlot /\ d.isLeader = c.isLeader
  /\ \A s \in Slots : \/ d.proposals[s] = c.proposals[s]
                      \/ /\ c.proposals[s] \in Entry \ {None}
                         /\ d.proposals[s] = [c.proposals[s] EXCEPT !.status = "Finalized"]

\* A tick: the learner first, then what the phase asks for (coordinator.rs,
\* handle_tick).
LEMMA TickParts ==
  ASSUME TypeOK, NEW n \in Proposers, Tick(n)
  PROVE  /\ DriveLearner(n)
         /\ \E S \in SUBSET Slots, c \in CoreState, responses \in [Slots -> Response \cup {None}] :
              /\ OnlyEnds(core[n], c)
              /\ ~LearnersRetry => S = {}
              /\ RetrySent(n, S) \subseteq Messages
              /\ \/ Wait(n, c, responses, RetrySent(n, S))
                 \/ PreparePhase(n, c, responses, RetrySent(n, S))
                 \/ AcceptPhase(n, c, [agent[n] EXCEPT !.responses = responses], RetrySent(n, S))
<1> DEFINE results   == Drained(n)
           adu       == Contiguous(learned[LearnerOf(n)], learnerAdu[LearnerOf(n)])
           responses == ResponsesAfter(n, results)
<1>1. PICK S \in Retryable(LearnerOf(n)), c \in AfterExecuted(core[n], results, adu) :
        /\ DriveLearner(n)
        /\ \/ Wait(n, c, responses, RetrySent(n, S))
           \/ PreparePhase(n, c, responses, RetrySent(n, S))
           \/ AcceptPhase(n, c, [agent[n] EXCEPT !.responses = responses], RetrySent(n, S))
  BY DEF Tick
<1>2. S \in SUBSET Slots /\ (~LearnersRetry => S = {})
  <2>1. S \in SUBSET Slots /\ (~LearnersRetry => Cardinality(S) <= 0)
    BY DEF Retryable
  <2>2. IsFiniteSet(Slots)
    BY FS_Interval, BoundsAssumption DEF Slots
  <2>3. IsFiniteSet(S) /\ Cardinality(S) \in Nat /\ (Cardinality(S) = 0 => S = {})
    BY <2>1, <2>2, FS_Subset, FS_CardinalityType, FS_EmptySet
  <2> QED
    BY <2>1, <2>3
<1>3. results \in Seq(Result) /\ adu \in 0 .. MaxSlot
  BY <1>1, DrainedType
<1> HIDE DEF results, adu
<1>4. core[n] \in CoreState
  BY DEF TypeOK, ProposerTypeOK
<1>5. c \in CoreState /\ OnlyEnds(core[n], c)
  BY <1>1, <1>3, <1>4, AfterExecutedType DEF OnlyEnds
<1>6. responses \in [Slots -> Response \cup {None}]
  BY <1>3, ResponsesType
<1>7. RetrySent(n, S) \subseteq Messages
  BY <1>2, RetrySentType
<1> HIDE DEF responses
<1> QED
  BY <1>1, <1>2, <1>5, <1>6, <1>7

\* A tick without a phase to run changes the core, the phase and the timer.
LEMMA WaitType ==
  ASSUME TypeOK, NEW n \in Proposers, NEW c \in CoreState,
         NEW responses \in [Slots -> Response \cup {None}], NEW sent \in SUBSET Messages,
         Wait(n, c, responses, sent)
  PROVE  /\ network' \subseteq Messages /\ AcceptorTypeOK' /\ ProposerTypeOK'
         /\ UNCHANGED <<acceptorVars, slotLearns, learned>>
<1>1. PICK phase \in PhaseAfter(n, c) :
        /\ core' = [core EXCEPT ![n] = c]
        /\ agent' = [agent EXCEPT ![n].responses = responses, ![n].phase = phase,
                                  ![n].timer = @ /\ phase = agent[n].phase]
        /\ Send(sent)
        /\ UNCHANGED <<acceptorVars, slotLearns, learned, clientVars, panicked>>
  BY DEF Wait
<1>2. core \in [Proposers -> CoreState] /\ agent \in [Proposers -> AgentState] /\ agent[n] \in AgentState
  BY DEF TypeOK, ProposerTypeOK
<1>3. phase \in Phases
  <2>1. agent[n].phase \in Phases
    BY <1>2 DEF AgentState
  <2>2. CASE ~c.isLeader
    BY <1>1, <2>1, <2>2 DEF PhaseAfter
  <2>3. CASE c.isLeader /\ agent[n].phase = "Start"
    BY <1>1, <2>3 DEF PhaseAfter, Phases
  <2>4. CASE c.isLeader /\ agent[n].phase = "PreparePending"
    BY <1>1, <2>1, <2>4 DEF PhaseAfter, Phases
  <2> QED
    BY <1>1, <2>2, <2>3, <2>4 DEF PhaseAfter
<1> DEFINE tick == agent[n].timer /\ phase = agent[n].phase
<1>4. tick \in BOOLEAN
  BY <1>2 DEF AgentState
<1>5. agent' = [agent EXCEPT ![n] = [agent[n] EXCEPT !.responses = responses, !.phase = phase,
                                                    !.timer = tick]]
  BY <1>1, <1>2
<1> HIDE DEF tick
<1>6. [agent[n] EXCEPT !.responses = responses, !.phase = phase, !.timer = tick] \in AgentState
  BY <1>2, <1>3, <1>4 DEF AgentState
<1>7. agent' \in [Proposers -> AgentState]
  BY <1>2, <1>5, <1>6
<1>8. core' \in [Proposers -> CoreState]
  BY <1>1, <1>2
<1>9. network' \subseteq Messages
  BY <1>1 DEF TypeOK, Send
<1> QED
  BY <1>1, <1>7, <1>8, <1>9 DEF TypeOK, acceptorVars, AcceptorTypeOK, clientVars, ProposerTypeOK

\* A prepare asks from the slot after the adu on, and the node's own promise is
\* filed first (proposer-agent.rs, prepare_phase).
LEMMA PreparePhaseType ==
  ASSUME TypeOK, NEW n \in Proposers, NEW c \in CoreState,
         NEW responses \in [Slots -> Response \cup {None}], NEW sent \in SUBSET Messages,
         learnerAdu' \in [Learners -> 0 .. MaxSlot],
         PreparePhase(n, c, responses, sent)
  PROVE  network' \subseteq Messages /\ AcceptorTypeOK' /\ ProposerTypeOK'
<1> DEFINE a    == AcceptorOf(n)
           slot == learnerAdu'[LearnerOf(n)] + 1
           own  == PromiseMsg(a, n, slot, c.ballot, CollectAcceptedFrom(a, slot))
           kept == {r \in agent[n].promises : r.ballot # c.ballot \/ r.from # a} \cup {own}
           out  == Remote(n, {PrepareMsg(n, b, slot, c.ballot) : b \in Acceptors})
<1>1. /\ core' = [core EXCEPT ![n] = c]
      /\ \/ Send(sent) /\ UNCHANGED <<acceptorVars, agent>>
         \/ /\ promised' = [promised EXCEPT ![a] = c.ballot]
            /\ agent' = [agent EXCEPT ![n].responses = responses, ![n].timer = TRUE,
                    ![n].phase = AdvancePhase(@, FALSE),
                    ![n].promises = {r \in @ : r.ballot # c.ballot \/ r.from # a} \cup {own}]
            /\ Send(sent \cup out)
            /\ UNCHANGED accepted
      /\ UNCHANGED clientVars
  BY DEF PreparePhase
<1>2. a \in Acceptors /\ LearnerOf(n) \in Learners
  BY OwnComponents
<1>3. slot \in FirstSlots /\ c.ballot \in Ballots
  BY <1>2, BoundsAssumption DEF FirstSlots, CoreState
<1> HIDE DEF slot
<1>4. CollectAcceptedFrom(a, slot) \in AcceptedMap
  BY <1>2 DEF TypeOK, AcceptorTypeOK, CollectAcceptedFrom, AcceptedMap
<1> HIDE DEF a
<1>5. own \in Promises
  BY <1>2, <1>3, <1>4 DEF PromiseMsg, Promises
<1> HIDE DEF own
<1>6. core \in [Proposers -> CoreState] /\ agent \in [Proposers -> AgentState] /\ agent[n] \in AgentState
  BY DEF TypeOK, ProposerTypeOK
<1>7. out \subseteq Messages
  BY <1>3 DEF PrepareMsg, Prepares, Messages, Remote
<1> HIDE DEF out
<1>8. network' \subseteq Messages
  BY <1>1, <1>7 DEF Send, TypeOK
<1>9. AcceptorTypeOK'
  BY <1>1, <1>2, <1>3 DEF TypeOK, AcceptorTypeOK, acceptorVars
<1>10. kept \subseteq Promises /\ AdvancePhase(agent[n].phase, FALSE) \in Phases
  BY <1>5, <1>6, NextPhaseType DEF AgentState
<1>11. agent' \in [Proposers -> AgentState]
  <2> DEFINE phase == AdvancePhase(agent[n].phase, FALSE)
  <2>1. phase \in Phases
    BY <1>10
  <2>2. agent' = agent \/
        agent' = [agent EXCEPT ![n] = [agent[n] EXCEPT !.responses = responses, !.timer = TRUE,
                                         !.phase = phase, !.promises = kept]]
    BY <1>1, <1>6
  <2> HIDE DEF phase, kept
  <2>3. [agent[n] EXCEPT !.responses = responses, !.timer = TRUE, !.phase = phase, !.promises = kept]
          \in AgentState
    BY <1>6, <1>10, <2>1 DEF AgentState
  <2> QED
    BY <1>6, <2>2, <2>3
<1>12. core' \in [Proposers -> CoreState]
  BY <1>1, <1>6
<1> QED
  BY <1>1, <1>8, <1>9, <1>11, <1>12 DEF TypeOK, ProposerTypeOK, clientVars

\* New proposals are in flight, in the slots after the slot counter; the others
\* and the list of the chosen ones stay (proposer.rs, create_proposal).
LEMMA CreateProposalsKeeps ==
  ASSUME NEW c \in CoreState
  PROVE  LET d == CreateProposals(c) IN
         /\ d \in CoreState /\ d.chosenSlots = c.chosenSlots
         /\ \A s \in c.currentSlot + 1 .. d.currentSlot :
              s \in Slots /\ d.proposals[s] \in Entry /\ d.proposals[s].status = "InFlight"
         /\ \A s \in Slots : s \notin c.currentSlot + 1 .. d.currentSlot => d.proposals[s] = c.proposals[s]
<1> DEFINE d == CreateProposals(c)
           n == NumProposals(c)
           k == LeastOf({n, Len(c.prioritized)})
           queue == c.prioritized \o c.pending
           props == [s \in Slots |->
                       IF s \in c.currentSlot + 1 .. c.currentSlot + n
                         THEN [ballot |-> c.ballot, value |-> queue[s - c.currentSlot],
                               status |-> "InFlight"]
                         ELSE c.proposals[s]]
<1>1. d \in CoreState /\ \A s \in c.currentSlot + 1 .. d.currentSlot : s \in Slots /\ d.proposals[s] \in Entry
  BY CreateProposalsType
<1>2. d = [c EXCEPT !.currentSlot = @ + n,
                    !.prioritized = SubSeq(@, k + 1, Len(@)),
                    !.pending = SubSeq(@, n - k + 1, Len(@)),
                    !.proposals = props]
  BY DEF CreateProposals
<1>3. \A s \in Slots : /\ s \in c.currentSlot + 1 .. c.currentSlot + n => props[s].status = "InFlight"
                       /\ s \notin c.currentSlot + 1 .. c.currentSlot + n => props[s] = c.proposals[s]
  OBVIOUS
<1> HIDE DEF props, n, k, queue, d
<1>4. d.currentSlot = c.currentSlot + n /\ d.proposals = props /\ d.chosenSlots = c.chosenSlots
  BY <1>2 DEF CoreState
<1> QED
  BY <1>1, <1>3, <1>4 DEF d

\* Commits are of slots listed as chosen, keep the values, and never happen when
\* the acceptors send the learns (proposer-agent.rs, learns_to_commit).
LEMMA CommitChosenKeeps ==
  ASSUME NEW c \in CoreState
  PROVE  LET d == CommitChosen(c) IN
         /\ d \in CoreState
         /\ \A s \in Committing(c) : \E i \in DOMAIN c.chosenSlots : s = c.chosenSlots[i]
         /\ \A s \in Committing(c) : /\ s \in Slots /\ c.proposals[s] \in Entry \ {None}
                                     /\ d.proposals[s] \in Entry
                                     /\ d.proposals[s].value = c.proposals[s].value
         /\ \A s \in Slots \ Committing(c) : d.proposals[s] = c.proposals[s]
         /\ \A i \in DOMAIN d.chosenSlots : \E j \in DOMAIN c.chosenSlots : d.chosenSlots[i] = c.chosenSlots[j]
         /\ AcceptorsSendLearns => Committing(c) = {}
<1> DEFINE d   == CommitChosen(c)
           q   == c.chosenSlots
           len == Len(q)
           k   == NumCommits(c)
<1>1. q \in Seq(Slots) /\ len \in Nat /\ DOMAIN q = 1 .. len
  BY LenProperties DEF CoreState
<1>2. k \in 0 .. len /\ (AcceptorsSendLearns => k = 0)
  <2>1. PICK m \in Nat : m = len
    BY <1>1
  <2>2. LeastOf({BatchSize, m}) \in 0 .. m
    BY LeastOfTwo, BatchAssumption
  <2> QED
    BY <2>1, <2>2 DEF NumCommits
<1>3. d \in CoreState /\ \A s \in Committing(c) : s \in Slots /\ d.proposals[s] \in Entry
  BY CommitChosenType
<1>4. \A s \in Committing(c) : c.proposals[s] # None /\ \E i \in 1 .. k : s = q[i]
  BY DEF Committing
<1> DEFINE props == [s \in Slots |-> IF s \in Committing(c)
                                       THEN [c.proposals[s] EXCEPT !.status = "CommitPending"]
                                       ELSE c.proposals[s]]
           rest  == SubSeq(q, k + 1, len)
<1>5. d = [c EXCEPT !.chosenSlots = rest, !.proposals = props]
  BY DEF CommitChosen
<1>6. \A s \in Committing(c) : c.proposals[s] \in Entry
  BY <1>3, <1>4 DEF CoreState
<1>7. \A s \in Committing(c) : props[s].value = c.proposals[s].value
  BY <1>3, <1>6 DEF Entry
<1>8. \A s \in Slots \ Committing(c) : props[s] = c.proposals[s]
  OBVIOUS
<1>9. \A i \in DOMAIN rest : \E j \in DOMAIN q : rest[i] = q[j]
  <2>1. \A i \in k + 1 .. len : q[i] \in Slots
    BY <1>1, <1>2, ElementOfSeq
  <2>2. k + 1 \in Int /\ len \in Int /\ len - (k + 1) + 1 = len - k
    BY <1>1, <1>2
  <2> HIDE DEF rest, k, len, q
  <2>3. /\ SubSeq(q, k + 1, len) \in Seq(Slots)
        /\ Len(SubSeq(q, k + 1, len)) = IF k + 1 <= len THEN len - (k + 1) + 1 ELSE 0
        /\ \A i \in 1 .. len - (k + 1) + 1 : SubSeq(q, k + 1, len)[i] = q[k + 1 + i - 1]
    BY <2>1, <2>2, SubSeqProperties
  <2>4. rest \in Seq(Slots) /\ Len(rest) = len - k /\ \A i \in 1 .. len - k : rest[i] = q[k + 1 + i - 1]
    BY <1>2, <2>2, <2>3, <1>1 DEF rest
  <2>5. DOMAIN rest = 1 .. len - k
    BY <2>4, LenProperties
  <2>6. \A i \in 1 .. len - k : k + 1 + i - 1 \in DOMAIN q
    BY <1>1, <1>2
  <2> QED
    BY <2>4, <2>5, <2>6
<1> HIDE DEF props, rest, k, q, len, d
<1>10. d.chosenSlots = rest /\ d.proposals = props
  BY <1>5 DEF CoreState
<1>11. \A s \in Committing(c) : \E i \in DOMAIN q : s = q[i]
  BY <1>1, <1>2, <1>4
<1>12. AcceptorsSendLearns => Committing(c) = {}
  <2>1. AcceptorsSendLearns => 1 .. k = {}
    BY <1>2
  <2> QED
    BY <1>4, <2>1
<1>13. \A s \in Committing(c) : /\ s \in Slots /\ c.proposals[s] \in Entry \ {None}
                                /\ d.proposals[s] \in Entry
                                /\ d.proposals[s].value = c.proposals[s].value
  BY <1>3, <1>4, <1>6, <1>7, <1>10
<1>14. \A s \in Slots \ Committing(c) : d.proposals[s] = c.proposals[s]
  BY <1>8, <1>10
<1>15. \A i \in DOMAIN d.chosenSlots : \E j \in DOMAIN q : d.chosenSlots[i] = q[j]
  BY <1>9, <1>10
<1> QED
  BY <1>3, <1>11, <1>12, <1>13, <1>14, <1>15 DEF d, q

\* What the own learner is told is a command, and so is what it learns from it.
LEMMA OwnLearnedType ==
  ASSUME TypeOK, NEW n \in Proposers, NEW c \in CoreState, NEW S \in SUBSET Slots,
         \A s \in S : c.proposals[s] \in Entry
  PROVE  /\ OwnVotes(n, c, S) \in [Slots -> [Acceptors -> Values \cup {None}]]
         /\ OwnLearned(n, c, S) \in [Slots -> Values \cup {None}]
<1> DEFINE l == LearnerOf(n)
           votes(s) == IF AcceptorsSendLearns /\ s \in S
                         THEN [slotLearns[l][s] EXCEPT ![AcceptorOf(n)] = c.proposals[s].value]
                         ELSE slotLearns[l][s]
           known(s) == Learnable(OwnVotes(n, c, S)[s], c.proposals[s].value)
<1>1. /\ slotLearns[l] \in [Slots -> [Acceptors -> Values \cup {None}]]
      /\ learned[l] \in [Slots -> Values \cup {None}]
  BY OwnComponents DEF TypeOK, LearnerTypeOK
<1>2. \A s \in S : c.proposals[s].value \in Values
  BY DEF Entry, Values
<1>3. OwnVotes(n, c, S) = [s \in Slots |-> votes(s)]
  BY DEF OwnVotes
<1>4. \A s \in Slots : votes(s) \in [Acceptors -> Values \cup {None}]
  BY <1>1, <1>2
<1>5. \A s \in S : known(s) # {} => (CHOOSE v \in known(s) : TRUE) \in Values
  <2> SUFFICES ASSUME NEW s \in S, known(s) # {} PROVE (CHOOSE v \in known(s) : TRUE) \in Values
    OBVIOUS
  <2>1. (CHOOSE v \in known(s) : TRUE) \in known(s)
    <3> HIDE DEF known
    <3> QED
      OBVIOUS
  <2>2. known(s) \subseteq Values
    BY <1>2 DEF Learnable
  <2> HIDE DEF known
  <2> QED
    BY <2>1, <2>2
<1>6. OwnLearned(n, c, S) = [s \in Slots |->
        IF s \in S /\ learned[l][s] = None /\ known(s) # {} THEN CHOOSE v \in known(s) : TRUE ELSE learned[l][s]]
  BY DEF OwnLearned
<1> HIDE DEF votes, known, l
<1>7. OwnLearned(n, c, S) \in [Slots -> Values \cup {None}]
  BY <1>1, <1>5, <1>6
<1> QED
  BY <1>3, <1>4, <1>7

\* The slots a tick proposes, and those it tells the own learner of: the own
\* acceptor refuses none of the first.
NewSlots(n, c)   == {s \in c.currentSlot + 1 .. CreateProposals(c).currentSlot :
                       \A t \in Refused(n, CreateProposals(c)) : s < t}
LearnSlots(n, c) == IF AcceptorsSendLearns THEN NewSlots(n, c) ELSE Committing(CreateProposals(c))

\* The slots a tick proposes and commits hold commands, which committing keeps
\* (proposer.rs, create_proposal and reserve_next_chosen_proposal).
LEMMA NewSlotsType ==
  ASSUME NEW n, NEW c \in CoreState
  PROVE  LET c1 == CreateProposals(c)
             c2 == CommitChosen(c1)
         IN /\ c1 \in CoreState /\ c2 \in CoreState
            /\ NewSlots(n, c) \subseteq Slots /\ LearnSlots(n, c) \subseteq Slots
            /\ \A s \in NewSlots(n, c) : c1.proposals[s] \in Entry
            /\ \A s \in LearnSlots(n, c) : /\ c1.proposals[s] \in Entry /\ c2.proposals[s] \in Entry
                                           /\ c2.proposals[s].value = c1.proposals[s].value
<1> DEFINE c1 == CreateProposals(c)
           c2 == CommitChosen(c1)
<1>1. c1 \in CoreState /\ \A s \in c.currentSlot + 1 .. c1.currentSlot : s \in Slots /\ c1.proposals[s] \in Entry
  BY CreateProposalsKeeps
<1>2. NewSlots(n, c) \subseteq Slots /\ \A s \in NewSlots(n, c) : c1.proposals[s] \in Entry
  BY <1>1 DEF NewSlots
<1> HIDE DEF c1
<1>3. /\ c2 \in CoreState
      /\ \A s \in Committing(c1) : /\ s \in Slots /\ c1.proposals[s] \in Entry
                                   /\ c2.proposals[s] \in Entry
                                   /\ c2.proposals[s].value = c1.proposals[s].value
      /\ \A s \in Slots \ Committing(c1) : c2.proposals[s] = c1.proposals[s]
      /\ AcceptorsSendLearns => Committing(c1) = {}
  BY <1>1, CommitChosenKeeps
<1> HIDE DEF c2
<1>4. \A s \in LearnSlots(n, c) : /\ s \in Slots /\ c1.proposals[s] \in Entry /\ c2.proposals[s] \in Entry
                                  /\ c2.proposals[s].value = c1.proposals[s].value
  BY <1>2, <1>3 DEF LearnSlots, c1
<1> QED
  BY <1>1, <1>2, <1>3, <1>4 DEF c1, c2

\* Phase 2 of a tick keeps the types (coordinator.rs, handle_tick).
LEMMA AcceptPhaseType ==
  ASSUME TypeOK, NEW n \in Proposers, NEW c \in CoreState, c.currentSlot = core[n].currentSlot,
         NEW responses \in [Slots -> Response \cup {None}], NEW sent \in SUBSET Messages,
         AcceptPhase(n, c, [agent[n] EXCEPT !.responses = responses], sent)
  PROVE  /\ network' \subseteq Messages /\ AcceptorTypeOK' /\ ProposerTypeOK'
         /\ slotLearns' \in [Learners -> [Slots -> [Acceptors -> Values \cup {None}]]]
         /\ learned' \in [Learners -> [Slots -> Values \cup {None}]]
<1> DEFINE a      == AcceptorOf(n)
           l      == LearnerOf(n)
           c1     == CreateProposals(c)
           c2     == CommitChosen(c1)
           bad    == Refused(n, c1)
           slots  == NewSlots(n, c)
           learns == LearnSlots(n, c)
           ag     == [agent[n] EXCEPT !.responses = responses]
           rs     == Responding(ag)
           mine   == [s \in Slots |->
                        IF s \in slots /\ accepted[a][s] = None
                          THEN [ballot |-> c1.proposals[s].ballot, value |-> c1.proposals[s].value]
                          ELSE accepted[a][s]]
           left   == [s \in Slots |-> IF s \in rs /\ bad = {} THEN None ELSE ag.responses[s]]
           accs   == UNION {ProposalAccepts(n, c1, s) : s \in slots}
           told   == {LearnMsg(a, k, s, c1.proposals[s].value) : s \in slots, k \in Learners}
           lrns   == UNION {ProposalLearns(n, c2, s) : s \in learns}
<1>1. /\ accepted' = [accepted EXCEPT ![a] = mine]
      /\ core' = [core EXCEPT ![n] = IF bad = {} THEN c2 ELSE c1]
      /\ agent' = [agent EXCEPT ![n] = [ag EXCEPT !.accepts = OwnAccepts(n, c1, ag.accepts, slots),
                                                  !.responses = left]]
      /\ replies' = replies \cup IF bad = {} THEN {ag.responses[s] : s \in rs} ELSE {}
      /\ slotLearns' = [slotLearns EXCEPT ![l] = OwnVotes(n, c2, learns)]
      /\ learned' = [learned EXCEPT ![l] = IF bad = {} \/ AcceptorsSendLearns
                                             THEN OwnLearned(n, c2, learns) ELSE learned[l]]
      /\ Send(sent \cup Remote(n, accs \cup
              IF AcceptorsSendLearns THEN told ELSE IF bad = {} THEN lrns ELSE {}))
      /\ UNCHANGED <<promised, submitted>>
  BY DEF AcceptPhase, NewSlots, LearnSlots
<1>2. /\ c1 \in CoreState /\ c2 \in CoreState /\ slots \subseteq Slots /\ learns \subseteq Slots
      /\ \A s \in slots : c1.proposals[s] \in Entry
      /\ \A s \in learns : c2.proposals[s] \in Entry
  BY NewSlotsType
<1>3. a \in Acceptors /\ l \in Learners
  BY OwnComponents
<1>4. /\ core \in [Proposers -> CoreState] /\ agent \in [Proposers -> AgentState]
      /\ agent[n] \in AgentState
  BY DEF TypeOK, ProposerTypeOK
<1> HIDE DEF c1, c2, bad, slots, learns
<1>5. OwnVotes(n, c2, learns) \in [Slots -> [Acceptors -> Values \cup {None}]]
      /\ OwnLearned(n, c2, learns) \in [Slots -> Values \cup {None}]
  BY <1>2, OwnLearnedType
<1>6. slotLearns' \in [Learners -> [Slots -> [Acceptors -> Values \cup {None}]]]
      /\ learned' \in [Learners -> [Slots -> Values \cup {None}]]
  BY <1>1, <1>3, <1>5 DEF TypeOK, LearnerTypeOK
<1>7. mine \in AcceptedMap
  BY <1>2, <1>3 DEF TypeOK, AcceptorTypeOK, AcceptedMap, PValue, Entry
<1> HIDE DEF mine
<1>8. AcceptorTypeOK'
  BY <1>1, <1>7 DEF TypeOK, AcceptorTypeOK
<1>9. core' \in [Proposers -> CoreState]
  BY <1>1, <1>2, <1>4
<1>10. ag \in AgentState
  BY <1>4 DEF AgentState
<1> HIDE DEF ag
<1>11. \A s \in rs : s \in Slots /\ ag.responses[s] \in Response
  BY <1>10 DEF Responding, AgentState
<1> HIDE DEF rs
<1>12. left \in [Slots -> Response \cup {None}]
  BY <1>10 DEF AgentState
<1> HIDE DEF left
<1>13. OwnAccepts(n, c1, ag.accepts, slots) \in [Slots -> [Acceptors -> Ballots \cup {None}]]
  BY <1>2, <1>10 DEF AgentState, OwnAccepts, Entry
<1>14. agent' \in [Proposers -> AgentState]
  <2> DEFINE votes == OwnAccepts(n, c1, ag.accepts, slots)
  <2>1. votes \in [Slots -> [Acceptors -> Ballots \cup {None}]]
    BY <1>13
  <2>2. agent' = [agent EXCEPT ![n] = [ag EXCEPT !.accepts = votes, !.responses = left]]
    BY <1>1
  <2> HIDE DEF votes
  <2>3. [ag EXCEPT !.accepts = votes, !.responses = left] \in AgentState
    BY <1>10, <1>12, <2>1 DEF AgentState
  <2> QED
    BY <1>4, <2>2, <2>3
<1>15. replies' \subseteq Response
  BY <1>1, <1>11 DEF TypeOK, ProposerTypeOK
<1>16. accs \subseteq Messages /\ told \subseteq Messages /\ lrns \subseteq Messages
  <2>1. \A s \in slots : ProposalAccepts(n, c1, s) \subseteq Messages
    BY <1>2, ProposalMessageTypes
  <2>2. \A s \in learns : ProposalLearns(n, c2, s) \subseteq Messages
    BY <1>2, ProposalMessageTypes
  <2>3. \A s \in slots, k \in Learners : LearnMsg(a, k, s, c1.proposals[s].value) \in Messages
    BY <1>2, <1>3 DEF LearnMsg, Learns, Messages, Entry, Values
  <2> QED
    BY <2>1, <2>2, <2>3
<1> HIDE DEF accs, told, lrns
<1>17. network' \subseteq Messages
  BY <1>1, <1>16 DEF TypeOK, Send, Remote
<1> QED
  BY <1>1, <1>6, <1>8, <1>9, <1>14, <1>15, <1>17 DEF TypeOK, ProposerTypeOK

\* Every step of every node keeps the types.
LEMMA TickTypes ==
  ASSUME TypeOK, NEW n \in Proposers, Tick(n)
  PROVE  TypeOK'
<1>1. PICK S \in SUBSET Slots, c \in CoreState, responses \in [Slots -> Response \cup {None}] :
        /\ OnlyEnds(core[n], c)
        /\ RetrySent(n, S) \subseteq Messages
        /\ \/ Wait(n, c, responses, RetrySent(n, S))
           \/ PreparePhase(n, c, responses, RetrySent(n, S))
           \/ AcceptPhase(n, c, [agent[n] EXCEPT !.responses = responses], RetrySent(n, S))
  BY TickParts
<1>2. DriveLearner(n)
  BY TickParts
<1>3. /\ learnerAdu' \in [Learners -> 0 .. MaxSlot]
      /\ history' \in [Learners -> Seq(Values)]
      /\ execBuffer' \in [Learners -> Seq(Result)]
  BY <1>2, DrainedType
<1>4. PICK sent \in SUBSET Messages : sent = RetrySent(n, S)
  BY <1>1
<1>5. CASE Wait(n, c, responses, sent)
  BY <1>3, <1>5, WaitType DEF TypeOK, LearnerTypeOK
<1>6. CASE PreparePhase(n, c, responses, sent)
  <2>1. UNCHANGED <<slotLearns, learned>>
    BY <1>6 DEF PreparePhase
  <2> QED
    BY <1>3, <1>6, <2>1, PreparePhaseType DEF TypeOK, LearnerTypeOK
<1>7. CASE AcceptPhase(n, c, [agent[n] EXCEPT !.responses = responses], sent)
  BY <1>1, <1>3, <1>7, AcceptPhaseType DEF OnlyEnds, TypeOK, LearnerTypeOK
<1> QED
  BY <1>1, <1>4, <1>5, <1>6, <1>7

\* Every step of a node, a message, a tick, a client or a change of leader, keeps the
\* types (coordinator.rs, handle_message and handle_tick).
LEMMA CoordinatorTypeStep ==
  ASSUME TypeOK, [CoordinatorNext]_coordinatorVars
  PROVE  TypeOK'
<1>1. ASSUME NEW n \in Proposers, HandleMessage(n)
      PROVE  TypeOK'
  <2>1. CASE OnPromise(n)
    BY <2>1, HandlePromiseTypeOK
       DEF OnPromise, acceptorVars, learnerVars, TypeOK, AcceptorTypeOK, LearnerTypeOK
  <2>2. CASE OnAccepted(n)
    BY <2>2, HandleAcceptedTypeOK
       DEF OnAccepted, acceptorVars, learnerVars, TypeOK, AcceptorTypeOK, LearnerTypeOK
  <2>3. CASE OnPrepare(n)
    BY <2>3, OwnComponents, PromiseTypeOK
       DEF OnPrepare, learnerVars, proposerVars, TypeOK, LearnerTypeOK, ProposerTypeOK
  <2> QED
    BY <1>1, <2>1, <2>2, <2>3, OnAcceptType, OnLearnType DEF HandleMessage
<1>2. ASSUME NEW n \in Proposers, SubmitClientRequest(n) \/ FailureService(n),
             UNCHANGED <<acceptorVars, learnerVars>>
      PROVE  TypeOK'
  BY <1>2, OutsideTypeOK
     DEF FailureService, acceptorVars, learnerVars, TypeOK, AcceptorTypeOK, LearnerTypeOK
<1>3. CASE UNCHANGED coordinatorVars
  BY <1>3 DEF coordinatorVars, nodeVars, acceptorVars, learnerVars, proposerVars, TypeOK,
              AcceptorTypeOK, LearnerTypeOK, ProposerTypeOK
<1> QED
  BY <1>1, <1>2, <1>3, TickTypes DEF CoordinatorNext

\* A new node has the types (coordinator.rs, new).
LEMMA CoordinatorTypeInit == CoordinatorInit => TypeOK
BY TypeInit DEF CoordinatorInit, Init

\* Messages and components of collocated nodes keep their types, through panics
\* too (coordinator.rs).
THEOREM CoordinatorTypeCorrect == CoordinatorSpec => []TypeOK
BY CoordinatorTypeInit, CoordinatorTypeStep, PTL DEF CoordinatorSpec

----------------------------------------------------------------------------
(* What a node's proposals, votes and learns rest on: its own acceptor comes  *)
(* first, and an acceptor keeps the first value it accepts in a slot.         *)

\* Two acceptors hold the same command in slot s; the own acceptor of n holds
\* what is chosen there.
SameValue(a, b, s) == \E v \in Commands : a \in VotedFor(s, v) /\ b \in VotedFor(s, v)
OwnChosen(n, s)    == \E v \in Chosen(s) : AcceptorOf(n) \in VotedFor(s, v)

\* The own acceptor holds what the core proposes, and what the core takes for
\* chosen is chosen.
CoreHeld(n, c) ==
  /\ \A s \in Slots : c.proposals[s] # None => AcceptorOf(n) \in VotedFor(s, c.proposals[s].value)
  /\ \A s \in Slots : HasStatus(c, s, "CommitPending") => OwnChosen(n, s)
  /\ \A i \in DOMAIN c.chosenSlots : OwnChosen(n, c.chosenSlots[i])
\* A vote that a node counts is one for the value its own acceptor holds.
VoteHeld(n) == \A s \in Slots, a \in Acceptors :
  agent[n].accepts[s][a] # None => SameValue(a, AcceptorOf(n), s)
MessageHeld(m) ==
  /\ m.type = "accept" => AcceptorOf(m.from) \in VotedFor(m.slot, m.value)
  /\ m.type = "accepted" => SameValue(m.from, AcceptorOf(m.to), m.slot)
  /\ m.type = "learn" => /\ m.from \in Proposers => m.value \in Chosen(m.slot)
                         /\ m.from \in Acceptors /\ m.value \in Commands
                              => m.from \in VotedFor(m.slot, m.value)
                         /\ m.from \in Proposers \/ AcceptorsSendLearns
LearnerHeld(l) ==
  /\ \A s \in Slots, a \in Acceptors :
       slotLearns[l][s][a] \in Commands => a \in VotedFor(s, slotLearns[l][s][a])
  /\ \A s \in Slots : learned[l][s] \in Commands => learned[l][s] \in Chosen(s)

Held == /\ \A n \in Proposers \ panicked : CoreHeld(n, core[n])
        /\ \A n \in Proposers : VoteHeld(n)
        /\ \A m \in network : MessageHeld(m)
        /\ \A l \in Learners : LearnerHeld(l)

\* An acceptor keeps what it holds, so votes are never withdrawn and what is chosen
\* stays chosen (acceptor.rs, accept).
AcceptedKept == \A a \in Acceptors, s \in Slots : accepted[a][s] # None => accepted'[a][s] = accepted[a][s]
Grows == \A s \in Slots : /\ Chosen(s) \subseteq Chosen(s)'
                          /\ \A v \in Commands : VotedFor(s, v) \subseteq VotedFor(s, v)'

\* As long as acceptors keep what they hold, votes and what is chosen grow
\* (acceptor.rs, accept).
LEMMA KeptGrows ==
  ASSUME AcceptedKept
  PROVE  Grows
<1>1. \A s \in Slots, v \in Commands : VotedFor(s, v) \subseteq VotedFor(s, v)'
  BY DEF AcceptedKept, VotedFor
<1>2. ASSUME NEW s \in Slots, NEW v \in Chosen(s)
      PROVE  v \in Chosen(s)'
  <2>1. VotedFor(s, v) \subseteq VotedFor(s, v)' /\ VotedFor(s, v)' \in SUBSET Acceptors
        /\ IsQuorum(VotedFor(s, v)) /\ v \in Commands
    BY <1>1 DEF VotedFor, Chosen
  <2>2. IsQuorum(VotedFor(s, v)')
    BY <2>1, QuorumsGrow
  <2> QED
    BY <2>1, <2>2 DEF Chosen
<1> QED
  BY <1>1, <1>2 DEF Grows

\* Steps without an accept change no vote (acceptor.rs).
LEMMA UnchangedGrows ==
  ASSUME accepted' = accepted
  PROVE  Grows
<1>1. AcceptedKept
  BY DEF AcceptedKept
<1> QED
  BY <1>1, KeptGrows

\* An acceptor holds one value per slot.
LEMMA HoldsOne ==
  ASSUME NEW a, NEW s, NEW v, NEW w, a \in VotedFor(s, v), a \in VotedFor(s, w)
  PROVE  v = w
BY DEF VotedFor

\* What two acceptors share, and what is chosen with the own vote, stays so.
LEMMA SharedStays ==
  ASSUME Grows, NEW s \in Slots
  PROVE  /\ \A a, b : SameValue(a, b, s) => SameValue(a, b, s)'
         /\ \A n : OwnChosen(n, s) => OwnChosen(n, s)'
<1>1. \A v \in Chosen(s) : v \in Commands
  BY DEF Chosen
<1> QED
  BY <1>1 DEF Grows, SameValue, OwnChosen

\* What a core rests on stays, however the votes grow.
LEMMA CoreStaysHeld ==
  ASSUME Grows, NEW n \in Proposers, NEW c \in CoreState, CoreHeld(n, c), core'[n] = c
  PROVE  CoreHeld(n, core[n])'
<1>1. ASSUME NEW s \in Slots, c.proposals[s] # None
      PROVE  AcceptorOf(n) \in VotedFor(s, c.proposals[s].value)'
  <2>1. c.proposals[s].value \in Commands
    BY <1>1 DEF CoreState, Entry
  <2> QED
    BY <1>1, <2>1 DEF CoreHeld, Grows
<1>2. ASSUME NEW s \in Slots, HasStatus(c, s, "CommitPending")
      PROVE  OwnChosen(n, s)'
  BY <1>2, SharedStays DEF CoreHeld
<1>3. ASSUME NEW i \in DOMAIN c.chosenSlots
      PROVE  OwnChosen(n, c.chosenSlots[i])'
  <2>1. c.chosenSlots[i] \in Slots /\ OwnChosen(n, c.chosenSlots[i])
    BY LenProperties, ElementOfSeq DEF CoreState, CoreHeld
  <2> QED
    BY <2>1, SharedStays
<1> QED
  BY <1>1, <1>2, <1>3 DEF CoreHeld

\* Votes a node has counted stay votes for its own value (proposer-agent.rs,
\* insert_and_check_accepted).
LEMMA VotesStayHeld ==
  ASSUME Grows, NEW n \in Proposers, VoteHeld(n), agent'[n].accepts = agent[n].accepts
  PROVE  VoteHeld(n)'
BY SharedStays DEF VoteHeld

\* What a message tells stays true while it is under way, however long that is.
LEMMA MessageStaysHeld ==
  ASSUME Grows, NEW m \in Messages, MessageHeld(m)
  PROVE  MessageHeld(m)'
<1>1. CASE m \in Accepts
  BY <1>1 DEF Accepts, MessageHeld, Grows
<1>2. CASE m \in Accepteds
  BY <1>2, SharedStays DEF Accepteds, MessageHeld
<1>3. CASE m \in Learns
  BY <1>3 DEF Learns, MessageHeld, Grows
<1>4. CASE m \notin Accepts \cup Accepteds \cup Learns
  BY <1>4 DEF Messages, Prepares, Promises, Retries, Executeds, Adus, MessageHeld
<1> QED
  BY <1>1, <1>2, <1>3, <1>4

\* What a learner was told and has learned stays true (learner.rs).
LEMMA LearnerStaysHeld ==
  ASSUME Grows, NEW l \in Learners, LearnerHeld(l),
         slotLearns'[l] = slotLearns[l], learned'[l] = learned[l]
  PROVE  LearnerHeld(l)'
BY DEF LearnerHeld, Grows

\* A step of node n is about its own state and the messages it sends.
LEMMA StepHeld ==
  ASSUME TypeOK, Held, Grows, NEW n \in Proposers, panicked \subseteq panicked',
         \A k \in Proposers \ {n} : core'[k] = core[k] /\ agent'[k] = agent[k],
         \A l \in Learners \ {LearnerOf(n)} : slotLearns'[l] = slotLearns[l] /\ learned'[l] = learned[l],
         n \notin panicked' => CoreHeld(n, core[n])', VoteHeld(n)', LearnerHeld(LearnerOf(n))',
         \A m \in network' \ network : MessageHeld(m)'
  PROVE  Held'
<1>1. ASSUME NEW k \in Proposers \ panicked'
      PROVE  CoreHeld(k, core[k])'
  <2>1. CASE k = n
    BY <1>1, <2>1
  <2>2. CASE k # n
    <3>1. core[k] \in CoreState /\ CoreHeld(k, core[k]) /\ core'[k] = core[k]
      BY <1>1, <2>2 DEF Held, TypeOK, ProposerTypeOK
    <3>2. PICK c \in CoreState : c = core[k]
      BY <3>1
    <3>3. CoreHeld(k, c) /\ core'[k] = c
      BY <3>1, <3>2
    <3> QED
      BY <3>3, CoreStaysHeld
  <2> QED
    BY <2>1, <2>2
<1>2. ASSUME NEW k \in Proposers
      PROVE  VoteHeld(k)'
  <2>1. k # n => agent'[k].accepts = agent[k].accepts /\ VoteHeld(k)
    BY DEF Held
  <2> QED
    BY <2>1, VotesStayHeld
<1>3. \A m \in network' : MessageHeld(m)'
  <2>1. \A m \in network : m \in Messages /\ MessageHeld(m)
    BY DEF Held, TypeOK
  <2> QED
    BY <2>1, MessageStaysHeld
<1>4. \A l \in Learners : LearnerHeld(l)'
  <2>1. \A l \in Learners : LearnerHeld(l)
    BY DEF Held
  <2> QED
    BY <2>1, LearnerStaysHeld
<1> QED
  BY <1>1, <1>2, <1>3, <1>4 DEF Held

----------------------------------------------------------------------------
(* The steps. *)

\* What the late recovery of a promise sets back are the slot counter and the queue
\* (proposer.rs, process_prepare).
LEMMA OnPromiseHeld ==
  ASSUME TypeOK, Held, NEW n \in Proposers \ panicked, UNCHANGED panicked, OnPromise(n)
  PROVE  Held'
<1>1. /\ UNCHANGED <<acceptorVars, learnerVars>>
      /\ \E m : Reply(m, {})
      /\ \/ UNCHANGED core
         \/ \E R, s : \E c \in AfterCollect(core[n], R, s) : core' = [core EXCEPT ![n] = c]
  BY DEF OnPromise, HandlePromise
<1>2. core \in [Proposers -> CoreState] /\ agent \in [Proposers -> AgentState]
      /\ core[n] \in CoreState /\ CoreHeld(n, core[n])
  BY DEF TypeOK, ProposerTypeOK, Held
<1>3. PICK d \in CoreState : /\ d.proposals = core[n].proposals /\ d.chosenSlots = core[n].chosenSlots
                             /\ core' = [core EXCEPT ![n] = d]
  <2>1. CASE UNCHANGED core
    <3>1. core' = [core EXCEPT ![n] = core[n]]
      BY <1>2, <2>1
    <3> QED
      BY <1>2, <3>1
  <2>2. CASE ~UNCHANGED core
    <3>1. PICK R, s : \E c \in AfterCollect(core[n], R, s) : core' = [core EXCEPT ![n] = c]
      BY <1>1, <2>2
    <3>2. PICK c \in AfterCollect(core[n], R, s) : core' = [core EXCEPT ![n] = c]
      BY <3>1
    <3>3. c.proposals = core[n].proposals /\ c.chosenSlots = core[n].chosenSlots
      BY <1>2, <3>2 DEF AfterCollect, CoreState
    <3>4. core'[n] \in CoreState
      BY HandlePromiseTypeOK DEF OnPromise, ProposerTypeOK
    <3>5. c \in CoreState
      BY <1>2, <3>2, <3>4
    <3> QED
      BY <3>2, <3>3, <3>5
  <2> QED
    BY <2>1, <2>2
<1>4. CoreHeld(n, d)
  BY <1>2, <1>3 DEF CoreHeld, HasStatus
<1>5. Grows
  BY <1>1, UnchangedGrows DEF acceptorVars
<1>6. CoreHeld(n, core[n])'
  BY <1>2, <1>3, <1>4, <1>5, CoreStaysHeld
<1>7. agent'[n].accepts = agent[n].accepts /\ \A k \in Proposers \ {n} : agent'[k] = agent[k]
  <2>1. \/ \E R : agent' = [agent EXCEPT ![n].promises = R]
        \/ \E R, phase : agent' = [agent EXCEPT ![n].promises = R, ![n].phase = phase]
    BY DEF OnPromise, HandlePromise
  <2> QED
    BY <1>2, <2>1 DEF AgentState
<1>8. VoteHeld(n)'
  BY <1>5, <1>7, VotesStayHeld DEF Held
<1>9. LearnerHeld(LearnerOf(n))'
  BY <1>1, <1>5, OwnComponents, LearnerStaysHeld DEF Held, learnerVars
<1>10. \A k \in Proposers \ {n} : core'[k] = core[k]
  BY <1>2, <1>3
<1>11. network' \ network = {}
  BY <1>1 DEF Reply
<1> QED
  BY <1>1, <1>5, <1>6, <1>7, <1>8, <1>9, <1>10, <1>11, StepHeld DEF learnerVars

\* A vote that comes in is for the value its own acceptor holds; a quorum of such
\* votes makes the proposal chosen (proposer.rs, process_accept).
LEMMA OnAcceptedHeld ==
  ASSUME TypeOK, Held, NEW n \in Proposers \ panicked, UNCHANGED panicked, OnAccepted(n)
  PROVE  Held'
<1>1. PICK m \in Inbox(n, "accepted") :
        LET filed == FileAccepted(agent[n].accepts[m.slot], m)
            won   == HasStatus(core[n], m.slot, "InFlight") /\ PhaseTwoDone(core[n], filed, m.slot)
        IN /\ Reply(m, {})
           /\ agent' = [agent EXCEPT ![n].accepts[m.slot] = filed]
           /\ core' = IF won THEN [core EXCEPT ![n] = MarkChosen(core[n], m.slot)] ELSE core
  BY DEF OnAccepted, HandleAccepted
<1> DEFINE filed == FileAccepted(agent[n].accepts[m.slot], m)
           won   == HasStatus(core[n], m.slot, "InFlight") /\ PhaseTwoDone(core[n], filed, m.slot)
<1>2. core \in [Proposers -> CoreState] /\ agent \in [Proposers -> AgentState]
      /\ core[n] \in CoreState /\ CoreHeld(n, core[n]) /\ agent[n] \in AgentState
  BY DEF TypeOK, ProposerTypeOK, Held
<1>3. m \in Accepteds /\ m \in network /\ m.to = n
  BY InboxTypes DEF TypeOK, Inbox
<1>4. SameValue(m.from, AcceptorOf(n), m.slot) /\ m.slot \in Slots /\ m.from \in Acceptors
  BY <1>3 DEF Held, MessageHeld, Accepteds
<1>5. filed \in [Acceptors -> Ballots \cup {None}]
      /\ \A a \in Acceptors : filed[a] # None => SameValue(a, AcceptorOf(n), m.slot)
  <2>1. agent[n].accepts[m.slot] \in [Acceptors -> Ballots \cup {None}]
    BY <1>2, <1>4 DEF AgentState
  <2>2. m.ballot \in Ballots
    BY <1>3 DEF Accepteds
  <2>3. \A a \in Acceptors : agent[n].accepts[m.slot][a] # None => SameValue(a, AcceptorOf(n), m.slot)
    BY <1>4 DEF Held, VoteHeld
  <2> QED
    BY <1>4, <2>1, <2>2, <2>3 DEF FileAccepted
<1> HIDE DEF filed
<1>6. /\ agent' = [agent EXCEPT ![n].accepts[m.slot] = filed]
      /\ core' = IF won THEN [core EXCEPT ![n] = MarkChosen(core[n], m.slot)] ELSE core
  BY <1>1 DEF filed
<1>7. accepted' = accepted /\ UNCHANGED learnerVars
  BY DEF OnAccepted, acceptorVars
<1>8. Grows
  BY <1>7, UnchangedGrows
<1>9. won => OwnChosen(n, m.slot)
  <2> SUFFICES ASSUME won PROVE OwnChosen(n, m.slot)
    OBVIOUS
  <2> DEFINE e == core[n].proposals[m.slot]
             Q == {a \in Acceptors : filed[a] = e.ballot}
  <2>1. e \in Entry
    BY <1>2, <1>4 DEF HasStatus, CoreState
  <2>2. AcceptorOf(n) \in VotedFor(m.slot, e.value)
    BY <1>2, <1>4, <2>1 DEF CoreHeld, HasStatus
  <2>3. \A a \in Q : filed[a] # None
    BY <2>1, NoneAssumption DEF Entry
  <2>4. \A a \in Q : a \in VotedFor(m.slot, e.value)
    <3> SUFFICES ASSUME NEW a \in Q PROVE a \in VotedFor(m.slot, e.value)
      OBVIOUS
    <3>1. PICK v \in Commands : a \in VotedFor(m.slot, v) /\ AcceptorOf(n) \in VotedFor(m.slot, v)
      BY <1>5, <2>3 DEF SameValue
    <3>2. v = e.value
      BY <2>2, <3>1, HoldsOne
    <3> QED
      BY <3>1, <3>2
  <2>5. IsQuorum(Q)
    BY DEF PhaseTwoDone
  <2>6. VotedFor(m.slot, e.value) \in SUBSET Acceptors /\ Q \in SUBSET VotedFor(m.slot, e.value)
    BY <2>4 DEF VotedFor
  <2>7. IsQuorum(VotedFor(m.slot, e.value))
    BY <2>5, <2>6, QuorumsGrow
  <2> QED
    BY <2>1, <2>2, <2>7 DEF OwnChosen, Chosen, Entry
<1>10. CoreHeld(n, core[n])'
  <2>1. CASE ~won
    <3>1. PICK c \in CoreState : c = core[n]
      BY <1>2
    <3> QED
      BY <1>2, <1>6, <1>8, <2>1, <3>1, CoreStaysHeld
  <2>2. CASE won
    <3> DEFINE c == core[n]
               props == [c.proposals EXCEPT ![m.slot].status = "Chosen"]
    <3>1. MarkChosen(c, m.slot) = [c EXCEPT !.proposals = props, !.chosenSlots = Append(@, m.slot)]
      BY <1>2 DEF MarkChosen, CoreState
    <3>2. core'[n] = MarkChosen(c, m.slot)
      BY <1>2, <1>6, <2>2
    <3>3. c.proposals[m.slot] \in Entry /\ c.proposals[m.slot] # None
      BY <1>2, <1>4, <2>2 DEF HasStatus, CoreState
    <3> HIDE DEF props
    <3>4. core'[n].proposals = props /\ core'[n].chosenSlots = Append(c.chosenSlots, m.slot)
      BY <1>2, <3>1, <3>2 DEF CoreState
    <3>5. PICK d \in CoreState : d = core'[n]
      BY HandleAcceptedTypeOK DEF OnAccepted, ProposerTypeOK
    <3>6. \A s \in Slots \ {m.slot} : d.proposals[s] = c.proposals[s]
      BY <1>2, <3>4, <3>5 DEF props, CoreState
    <3>7. /\ d.proposals[m.slot].value = c.proposals[m.slot].value
          /\ d.proposals[m.slot].status = "Chosen"
      <4> DEFINE e == c.proposals[m.slot]
      <4>1. d.proposals[m.slot] = [e EXCEPT !.status = "Chosen"]
        BY <1>2, <1>4, <3>4, <3>5 DEF props, CoreState
      <4>2. e \in Entry
        BY <3>3
      <4> HIDE DEF e
      <4>3. d.proposals[m.slot].value = e.value /\ d.proposals[m.slot].status = "Chosen"
        BY <4>1, <4>2 DEF Entry
      <4> QED
        BY <4>3 DEF e
    <3>8. \A i \in DOMAIN d.chosenSlots : OwnChosen(n, d.chosenSlots[i])
      <4> DEFINE q == c.chosenSlots
      <4>1. q \in Seq(Slots) /\ DOMAIN q = 1 .. Len(q) /\ Len(q) \in Nat
        BY <1>2, LenProperties DEF CoreState
      <4>2. \A i \in DOMAIN q : OwnChosen(n, q[i])
        BY <1>2 DEF CoreHeld
      <4> HIDE DEF q
      <4>3. /\ Append(q, m.slot) \in Seq(Slots)
            /\ Len(Append(q, m.slot)) = Len(q) + 1
            /\ \A i \in 1 .. Len(q) : Append(q, m.slot)[i] = q[i]
            /\ Append(q, m.slot)[Len(q) + 1] = m.slot
        BY <1>4, <4>1, AppendProperties
      <4>4. d.chosenSlots = Append(q, m.slot)
        BY <3>4, <3>5 DEF q
      <4>5. DOMAIN d.chosenSlots = 1 .. Len(q) + 1
        BY <4>3, <4>4, LenProperties
      <4>6. \A i \in 1 .. Len(q) + 1 : i \in 1 .. Len(q) \/ i = Len(q) + 1
        BY <4>1
      <4> QED
        BY <1>9, <2>2, <4>1, <4>2, <4>3, <4>4, <4>5, <4>6
    <3> HIDE DEF c
    <3>9. CoreHeld(n, c)
      BY <1>2 DEF c
    <3>10. CoreHeld(n, d)
      BY <3>3, <3>6, <3>7, <3>8, <3>9 DEF CoreHeld, HasStatus
    <3> QED
      BY <1>8, <3>5, <3>10, CoreStaysHeld
  <2> QED
    BY <2>1, <2>2
<1>11. VoteHeld(n)'
  <2>1. \A s \in Slots, a \in Acceptors : agent'[n].accepts[s][a] # None => SameValue(a, AcceptorOf(n), s)
    <3>1. \A s \in Slots : agent'[n].accepts[s] = IF s = m.slot THEN filed ELSE agent[n].accepts[s]
      BY <1>2, <1>6 DEF AgentState
    <3> QED
      BY <1>5, <3>1 DEF Held, VoteHeld
  <2> QED
    BY <1>8, <2>1, SharedStays DEF VoteHeld
<1>12. LearnerHeld(LearnerOf(n))'
  BY <1>7, <1>8, OwnComponents, LearnerStaysHeld DEF Held, learnerVars
<1>13. \A k \in Proposers \ {n} : core'[k] = core[k] /\ agent'[k] = agent[k]
  BY <1>2, <1>6
<1>14. network' \ network = {}
  BY <1>1 DEF Reply
<1> QED
  BY <1>7, <1>8, <1>10, <1>11, <1>12, <1>13, <1>14, StepHeld DEF learnerVars

\* A promise, or its refusal, is about no value.
LEMMA OnPrepareHeld ==
  ASSUME TypeOK, Held, NEW n \in Proposers \ panicked, UNCHANGED panicked, OnPrepare(n)
  PROVE  Held'
<1> DEFINE a == AcceptorOf(n)
<1>1. /\ accepted' = accepted /\ UNCHANGED <<learnerVars, proposerVars>>
      /\ \E m, p, s, b, acc : Reply(m, {PromiseMsg(a, p, s, b, acc)}) \/ Reply(m, {})
  BY DEF OnPrepare, HandlePrepare, Promise, RejectPrepare, acceptorVars
<1>2. Grows
  BY <1>1, UnchangedGrows
<1>3. core[n] \in CoreState /\ CoreHeld(n, core[n])
  BY DEF TypeOK, ProposerTypeOK, Held
<1>4. PICK c \in CoreState : c = core[n]
  BY <1>3
<1>5. CoreHeld(n, core[n])'
  BY <1>1, <1>2, <1>3, <1>4, CoreStaysHeld DEF proposerVars
<1>6. VoteHeld(n)'
  BY <1>1, <1>2, VotesStayHeld DEF Held, proposerVars
<1>7. LearnerHeld(LearnerOf(n))'
  BY <1>1, <1>2, OwnComponents, LearnerStaysHeld DEF Held, learnerVars
<1>8. \A m \in network' \ network : m.type = "promise"
  BY <1>1 DEF Reply, PromiseMsg
<1>9. \A m \in network' \ network : MessageHeld(m)'
  BY <1>8 DEF MessageHeld
<1> QED
  BY <1>1, <1>2, <1>5, <1>6, <1>7, <1>9, StepHeld DEF learnerVars, proposerVars

\* An acceptor announces what it holds, to the proposer whose own acceptor holds
\* the same (acceptor.rs, accept).
LEMMA OnAcceptHeld ==
  ASSUME TypeOK, Held, NEW n \in Proposers \ panicked, UNCHANGED panicked, OnAccept(n)
  PROVE  Held'
<1> DEFINE a == AcceptorOf(n)
<1>1. PICK m \in Inbox(a, "accept") :
        LET ok == WouldAccept(a, m.slot, m.ballot, m.value)
        IN /\ accepted' = IF ok /\ accepted[a][m.slot] = None
                            THEN [accepted EXCEPT ![a][m.slot] = [ballot |-> m.ballot, value |-> m.value]]
                            ELSE accepted
           /\ Reply(m, IF ok THEN Remote(n, Announce(a, m)) ELSE {})
           /\ UNCHANGED <<promised, learnerVars, proposerVars>>
  BY DEF OnAccept
<1> DEFINE ok == WouldAccept(a, m.slot, m.ballot, m.value)
<1>2. a \in Acceptors /\ m \in Accepts /\ m \in network
  BY OwnComponents, InboxTypes DEF TypeOK, Inbox
<1>3. m.slot \in Slots /\ m.value \in Commands /\ m.from \in Proposers /\ m.type = "accept"
      /\ accepted \in [Acceptors -> AcceptedMap]
  BY <1>2 DEF Accepts, TypeOK, AcceptorTypeOK
<1> HIDE DEF a
<1>4. AcceptedKept
  BY <1>1, <1>2, <1>3 DEF AcceptedKept, AcceptedMap
<1>5. Grows
  BY <1>4, KeptGrows
<1>6. ok => a \in VotedFor(m.slot, m.value)'
  <2> SUFFICES ASSUME ok PROVE accepted'[a][m.slot] # None /\ accepted'[a][m.slot].value = m.value
    BY <1>2 DEF VotedFor
  <2>1. CASE accepted[a][m.slot] = None
    <3>1. accepted'[a][m.slot] = [ballot |-> m.ballot, value |-> m.value]
      BY <1>1, <1>2, <1>3, <2>1 DEF AcceptedMap
    <3>2. [ballot |-> m.ballot, value |-> m.value] \in PValue
      BY <1>2 DEF Accepts, PValue
    <3> QED
      BY <3>1, <3>2, NoneAssumption
  <2>2. CASE accepted[a][m.slot] # None
    BY <1>1, <2>2 DEF WouldAccept
  <2> QED
    BY <2>1, <2>2
<1>7. AcceptorOf(m.from) \in VotedFor(m.slot, m.value)'
  BY <1>2, <1>3, <1>5 DEF Held, MessageHeld, Grows
<1>8. ASSUME NEW r \in network' \ network
      PROVE  MessageHeld(r)'
  <2>1. ok /\ r \in Announce(a, m)
    BY <1>1, <1>8 DEF Reply, Remote
  <2>2. CASE AcceptorsSendLearns
    <3>1. r.type = "learn" /\ r.from = a /\ r.slot = m.slot /\ r.value = m.value
      BY <2>1, <2>2 DEF Announce, LearnMsg
    <3> QED
      BY <1>2, <1>6, <2>1, <2>2, <3>1, DisjointAssumption DEF MessageHeld
  <2>3. CASE ~AcceptorsSendLearns
    <3>1. r.type = "accepted" /\ r.from = a /\ r.to = m.from /\ r.slot = m.slot
      BY <2>1, <2>3 DEF Announce, AcceptedMsg
    <3>2. SameValue(a, AcceptorOf(m.from), m.slot)'
      BY <1>3, <1>6, <1>7, <2>1 DEF SameValue
    <3> QED
      BY <3>1, <3>2 DEF MessageHeld
  <2> QED
    BY <2>2, <2>3
<1>9. core[n] \in CoreState /\ CoreHeld(n, core[n])
  BY DEF TypeOK, ProposerTypeOK, Held
<1>10. PICK c \in CoreState : c = core[n]
  BY <1>9
<1>11. CoreHeld(n, core[n])'
  BY <1>1, <1>5, <1>9, <1>10, CoreStaysHeld DEF proposerVars
<1>12. VoteHeld(n)'
  BY <1>1, <1>5, VotesStayHeld DEF Held, proposerVars
<1>13. LearnerHeld(LearnerOf(n))'
  BY <1>1, <1>5, OwnComponents, LearnerStaysHeld DEF Held, learnerVars
<1> QED
  BY <1>1, <1>5, <1>8, <1>11, <1>12, <1>13, StepHeld DEF learnerVars, proposerVars

\* A learner believes a majority of acceptors, or a proposer (learner.rs,
\* check_quorum).
LEMMA LearnableHeld ==
  ASSUME NEW s \in Slots, NEW votes \in [Acceptors -> Values \cup {None}], NEW w, NEW v \in Learnable(votes, w),
         \A a \in Acceptors : votes[a] \in Commands => a \in VotedFor(s, votes[a]),
         ~AcceptorsSendLearns /\ w \in Commands => w \in Chosen(s), v \in Commands
  PROVE  v \in Chosen(s)
<1>1. CASE AcceptorsSendLearns
  <2>1. IsQuorum(Votes(votes, v))
    BY <1>1 DEF Learnable
  <2>2. Votes(votes, v) \in SUBSET VotedFor(s, v) /\ VotedFor(s, v) \in SUBSET Acceptors
    BY DEF Votes, VotedFor
  <2> QED
    BY <2>1, <2>2, QuorumsGrow DEF Chosen
<1>2. CASE ~AcceptorsSendLearns
  BY <1>2 DEF Learnable
<1> QED
  BY <1>1, <1>2

\* A learn that comes in is recorded and believed by its quorum, or at once when a
\* proposer sent it (learner-agent.rs, record_learn and handle_message).
LEMMA OnLearnHeld ==
  ASSUME TypeOK, Held, NEW n \in Proposers \ panicked, UNCHANGED panicked, OnLearn(n)
  PROVE  Held'
<1> DEFINE l == LearnerOf(n)
           votes(m) == IF AcceptorsSendLearns THEN [slotLearns[l][m.slot] EXCEPT ![m.from] = m.value]
                                              ELSE slotLearns[l][m.slot]
           map(m, v) == [learned[l] EXCEPT ![m.slot] = v]
           adu(m, v) == Contiguous(map(m, v), learnerAdu[l])
<1>1. PICK m \in Inbox(l, "learn") :
        /\ m \in Learns /\ m \in network
        /\ slotLearns' = [slotLearns EXCEPT ![l][m.slot] = votes(m)]
        /\ \/ UNCHANGED <<learned, learnerAdu, history, execBuffer>>
           \/ \E v \in Learnable(votes(m), m.value) : OnLearnStep(l, map(m, v), adu(m, v))
        /\ Reply(m, {})
        /\ UNCHANGED <<acceptorVars, proposerVars>>
  BY OnLearnCases
<1>2. accepted' = accepted /\ UNCHANGED proposerVars
  BY <1>1 DEF acceptorVars
<1>3. Grows
  BY <1>2, UnchangedGrows
<1>4. l \in Learners /\ m.slot \in Slots /\ m.type = "learn" /\ m.value \in Values
      /\ slotLearns \in [Learners -> [Slots -> [Acceptors -> Values \cup {None}]]]
      /\ learned \in [Learners -> [Slots -> Values \cup {None}]]
  BY <1>1, OwnComponents DEF Learns, TypeOK, LearnerTypeOK
<1>5. MessageHeld(m) /\ LearnerHeld(l)
  BY <1>1, <1>4 DEF Held
<1>6. /\ votes(m) \in [Acceptors -> Values \cup {None}]
      /\ \A a \in Acceptors : votes(m)[a] \in Commands => a \in VotedFor(m.slot, votes(m)[a])
      /\ ~AcceptorsSendLearns /\ m.value \in Commands => m.value \in Chosen(m.slot)
  <2> DEFINE old == slotLearns[l][m.slot]
  <2>0. /\ old \in [Acceptors -> Values \cup {None}]
        /\ \A a \in Acceptors : old[a] \in Commands => a \in VotedFor(m.slot, old[a])
    BY <1>4, <1>5 DEF LearnerHeld
  <2>1. CASE AcceptorsSendLearns
    <3>1. votes(m) = [old EXCEPT ![m.from] = m.value]
      BY <2>1
    <3>2. \A a \in Acceptors : votes(m)[a] = IF a = m.from THEN m.value ELSE old[a]
      <4> HIDE DEF votes, old
      <4> QED
        BY <2>0, <3>1
    <3>3. m.from \in Acceptors /\ m.value \in Commands => m.from \in VotedFor(m.slot, m.value)
      BY <1>4, <1>5 DEF MessageHeld
    <3>4. votes(m) \in [Acceptors -> Values \cup {None}]
      <4> HIDE DEF votes, old
      <4> QED
        BY <1>4, <2>0, <3>1
    <3> HIDE DEF votes, old
    <3> QED
      BY <2>0, <2>1, <3>2, <3>3, <3>4
  <2>2. CASE ~AcceptorsSendLearns
    <3>1. votes(m) = old
      BY <2>2
    <3>2. m.value \in Chosen(m.slot)
      BY <1>4, <1>5, <2>2 DEF MessageHeld
    <3> QED
      BY <2>0, <2>2, <3>1, <3>2
  <2> QED
    BY <2>1, <2>2
<1>7. \A s \in Slots : slotLearns'[l][s] = IF s = m.slot THEN votes(m) ELSE slotLearns[l][s]
  BY <1>1, <1>4
<1>8. /\ \A s \in Slots : \/ learned'[l][s] = learned[l][s]
                          \/ s = m.slot /\ learned'[l][s] \in Learnable(votes(m), m.value)
      /\ \A k \in Learners \ {l} : slotLearns'[k] = slotLearns[k] /\ learned'[k] = learned[k]
  <2> HIDE DEF votes, l
  <2>1. UNCHANGED learned \/ \E v \in Learnable(votes(m), m.value) :
                                learned' = [learned EXCEPT ![l] = [learned[l] EXCEPT ![m.slot] = v]]
    BY <1>1 DEF OnLearnStep
  <2> QED
    BY <1>1, <1>4, <2>1
<1> HIDE DEF votes, l
<1>9. LearnerHeld(l)'
  <2>1. ASSUME NEW s \in Slots, NEW a \in Acceptors, slotLearns'[l][s][a] \in Commands
        PROVE  a \in VotedFor(s, slotLearns'[l][s][a])
    BY <1>5, <1>6, <1>7, <2>1 DEF LearnerHeld
  <2>2. ASSUME NEW s \in Slots, learned'[l][s] \in Commands
        PROVE  learned'[l][s] \in Chosen(s)
    <3>1. CASE learned'[l][s] = learned[l][s]
      BY <1>5, <2>2, <3>1 DEF LearnerHeld
    <3>2. CASE s = m.slot /\ learned'[l][s] \in Learnable(votes(m), m.value)
      <4>1. PICK v \in Learnable(votes(m), m.value) : v = learned'[l][s]
        BY <3>2
      <4>2. PICK vs \in [Acceptors -> Values \cup {None}] : vs = votes(m)
        BY <1>6
      <4> QED
        BY <1>6, <2>2, <3>2, <4>1, <4>2, LearnableHeld
    <3> QED
      BY <1>8, <3>1, <3>2
  <2> QED
    BY <1>3, <2>1, <2>2 DEF LearnerHeld, Grows
<1>10. core[n] \in CoreState /\ CoreHeld(n, core[n])
  BY DEF TypeOK, ProposerTypeOK, Held
<1>11. PICK c \in CoreState : c = core[n]
  BY <1>10
<1>12. CoreHeld(n, core[n])'
  BY <1>2, <1>3, <1>10, <1>11, CoreStaysHeld DEF proposerVars
<1>13. VoteHeld(n)'
  BY <1>2, <1>3, VotesStayHeld DEF Held, proposerVars
<1>14. network' \ network = {}
  BY <1>1 DEF Reply
<1> QED
  BY <1>2, <1>3, <1>8, <1>9, <1>12, <1>13, <1>14, StepHeld DEF l, proposerVars

\* A client's command or a change of leader touches no proposal (proposer.rs,
\* become_leader, resign_leader).
LEMMA OutsideHeld ==
  ASSUME TypeOK, Held, NEW n \in Proposers \ panicked,
         SubmitClientRequest(n) \/ FailureService(n), UNCHANGED <<panicked, acceptorVars, learnerVars>>
  PROVE  Held'
<1>1. accepted' = accepted /\ UNCHANGED <<agent, network, learnerVars>>
  BY DEF SubmitClientRequest, FailureService, BecomeLeader, ResignLeader, acceptorVars
<1>2. core \in [Proposers -> CoreState] /\ core[n] \in CoreState /\ CoreHeld(n, core[n])
  BY DEF TypeOK, ProposerTypeOK, Held
<1>3. Grows
  BY <1>1, UnchangedGrows
<1>4. /\ core'[n].proposals = core[n].proposals /\ core'[n].chosenSlots = core[n].chosenSlots
      /\ \A k \in Proposers \ {n} : core'[k] = core[k]
  <2>1. \/ \E q : core' = [core EXCEPT ![n].pending = q]
        \/ \E b : core' = [core EXCEPT ![n].ballot = b, ![n].isLeader = TRUE]
        \/ core' = [core EXCEPT ![n].isLeader = FALSE]
    BY DEF SubmitClientRequest, FailureService, BecomeLeader, ResignLeader
  <2>2. CASE \E q : core' = [core EXCEPT ![n].pending = q]
    BY <1>2, <2>2 DEF CoreState
  <2>3. CASE \E b : core' = [core EXCEPT ![n].ballot = b, ![n].isLeader = TRUE]
    BY <1>2, <2>3 DEF CoreState
  <2>4. CASE core' = [core EXCEPT ![n].isLeader = FALSE]
    BY <1>2, <2>4 DEF CoreState
  <2> QED
    BY <2>1, <2>2, <2>3, <2>4
<1>5. PICK c \in CoreState : c = core'[n]
  BY OutsideTypeOK DEF FailureService, ProposerTypeOK
<1>6. CoreHeld(n, c)
  BY <1>2, <1>4, <1>5 DEF CoreHeld, HasStatus
<1>7. CoreHeld(n, core[n])'
  BY <1>3, <1>5, <1>6, CoreStaysHeld
<1>8. VoteHeld(n)'
  BY <1>1, <1>3, VotesStayHeld DEF Held
<1>9. LearnerHeld(LearnerOf(n))'
  BY <1>1, <1>3, OwnComponents, LearnerStaysHeld DEF Held, learnerVars
<1> QED
  BY <1>1, <1>3, <1>4, <1>7, <1>8, <1>9, StepHeld DEF learnerVars

\* What a node sends again for the slots its learner misses is true of its own
\* acceptor, or is a value already chosen (proposer-agent.rs, retry_learns).
LEMMA RetryHeld ==
  ASSUME TypeOK, Held, NEW n \in Proposers \ panicked, NEW S \in SUBSET Slots, NEW m \in RetrySent(n, S)
  PROVE  MessageHeld(m)
<1> DEFINE a == AcceptorOf(n)
           c == core[n]
<1>1. a \in Acceptors /\ a \notin Proposers /\ n \notin Acceptors /\ c \in CoreState /\ CoreHeld(n, c)
  BY OwnComponents, DisjointAssumption DEF TypeOK, ProposerTypeOK, Held
<1>2. CASE AcceptorsSendLearns
  <2>1. PICK s \in S, l \in Learners : m = LearnMsg(a, l, s, RetryValue(a, s))
    BY <1>2 DEF RetrySent, Retold, Remote
  <2>2. m.type = "learn" /\ m.from = a /\ m.slot = s /\ m.value = RetryValue(a, s)
    BY <2>1 DEF LearnMsg
  <2>3. m.value \in Commands => a \in VotedFor(s, m.value)
    BY <1>1, <2>2, ValuesAssumption DEF RetryValue, VotedFor
  <2> QED
    BY <1>1, <1>2, <2>2, <2>3 DEF MessageHeld
<1>3. CASE ~AcceptorsSendLearns
  <2>1. \/ \E s \in S : HasStatus(c, s, "CommitPending") /\ m \in ProposalLearns(n, c, s)
        \/ \E s \in S : HasStatus(c, s, "InFlight") /\ m \in ProposalAccepts(n, c, s)
    BY <1>3 DEF RetrySent, Resent, Remote
  <2>2. CASE \E s \in S : HasStatus(c, s, "CommitPending") /\ m \in ProposalLearns(n, c, s)
    <3>1. PICK s \in S : HasStatus(c, s, "CommitPending") /\ m \in ProposalLearns(n, c, s)
      BY <2>2
    <3>2. m.type = "learn" /\ m.from = n /\ m.slot = s /\ m.value = c.proposals[s].value
      BY <3>1 DEF ProposalLearns, LearnMsg
    <3>3. PICK v \in Chosen(s) : a \in VotedFor(s, v)
      BY <1>1, <3>1 DEF CoreHeld, OwnChosen
    <3>4. a \in VotedFor(s, c.proposals[s].value)
      BY <1>1, <3>1 DEF CoreHeld, HasStatus
    <3>5. v = c.proposals[s].value
      BY <3>3, <3>4, HoldsOne
    <3> QED
      BY <1>1, <3>2, <3>3, <3>5 DEF MessageHeld
  <2>3. CASE \E s \in S : HasStatus(c, s, "InFlight") /\ m \in ProposalAccepts(n, c, s)
    <3>1. PICK s \in S : HasStatus(c, s, "InFlight") /\ m \in ProposalAccepts(n, c, s)
      BY <2>3
    <3>2. m.type = "accept" /\ m.from = n /\ m.slot = s /\ m.value = c.proposals[s].value
      BY <3>1 DEF ProposalAccepts, AcceptMsg
    <3> QED
      BY <1>1, <3>1, <3>2 DEF MessageHeld, CoreHeld, HasStatus
  <2> QED
    BY <2>1, <2>2, <2>3
<1> QED
  BY <1>2, <1>3

\* A proposal that has ended keeps its value (proposer.rs, mark_proposal_finalized).
LEMMA EndsHeld ==
  ASSUME NEW n, NEW b \in CoreState, NEW c \in CoreState, CoreHeld(n, b), OnlyEnds(b, c)
  PROVE  CoreHeld(n, c)
<1>1. ASSUME NEW s \in Slots, c.proposals[s] # None
      PROVE  /\ b.proposals[s] # None /\ c.proposals[s].value = b.proposals[s].value
             /\ c.proposals[s].status = "CommitPending" => b.proposals[s].status = "CommitPending"
  <2>1. CASE c.proposals[s] = b.proposals[s]
    BY <1>1, <2>1
  <2>2. CASE b.proposals[s] \in Entry \ {None} /\ c.proposals[s] = [b.proposals[s] EXCEPT !.status = "Finalized"]
    <3> DEFINE e == b.proposals[s]
    <3>1. e \in Entry /\ e # None /\ c.proposals[s] = [e EXCEPT !.status = "Finalized"]
      BY <2>2
    <3> HIDE DEF e
    <3>2. c.proposals[s].value = e.value /\ c.proposals[s].status = "Finalized"
      BY <3>1 DEF Entry
    <3> QED
      BY <3>1, <3>2 DEF e
  <2> QED
    BY <2>1, <2>2 DEF OnlyEnds
<1> QED
  BY <1>1 DEF CoreHeld, OnlyEnds, HasStatus

\* A tick that proposes nothing: no acceptor accepts anything.
LEMMA QuietTickHeld ==
  ASSUME TypeOK, Held, NEW n \in Proposers \ panicked, NEW c \in CoreState, OnlyEnds(core[n], c),
         NEW responses, NEW S \in SUBSET Slots,
         Wait(n, c, responses, RetrySent(n, S)) \/ PreparePhase(n, c, responses, RetrySent(n, S))
  PROVE  Held'
<1>1. /\ core' = [core EXCEPT ![n] = c]
      /\ accepted' = accepted /\ UNCHANGED <<slotLearns, learned>>
      /\ panicked \subseteq panicked'
  BY DEF Wait, PreparePhase, acceptorVars
<1>2. core \in [Proposers -> CoreState] /\ agent \in [Proposers -> AgentState]
      /\ core[n] \in CoreState /\ CoreHeld(n, core[n])
  BY DEF TypeOK, ProposerTypeOK, Held
<1>3. Grows
  BY <1>1, UnchangedGrows
<1>4. CoreHeld(n, c) /\ core'[n] = c
  <2>1. PICK b \in CoreState : b = core[n]
    BY <1>2
  <2> QED
    BY <1>1, <1>2, <2>1, EndsHeld
<1>5. CoreHeld(n, core[n])'
  BY <1>3, <1>4, CoreStaysHeld
<1>6. agent'[n].accepts = agent[n].accepts /\ \A k \in Proposers \ {n} : agent'[k] = agent[k]
  <2>1. \/ agent' = agent
        \/ \E phase, timer : agent' = [agent EXCEPT ![n].responses = responses, ![n].phase = phase,
                                                   ![n].timer = timer]
        \/ \E phase, timer, promises :
             agent' = [agent EXCEPT ![n].responses = responses, ![n].timer = timer,
                                    ![n].phase = phase, ![n].promises = promises]
    <3>1. CASE Wait(n, c, responses, RetrySent(n, S))
      <4>1. PICK phase : agent' = [agent EXCEPT ![n].responses = responses, ![n].phase = phase,
                                               ![n].timer = @ /\ phase = agent[n].phase]
        BY <3>1 DEF Wait
      <4>2. agent' = [agent EXCEPT ![n].responses = responses, ![n].phase = phase,
                                  ![n].timer = (agent[n].timer /\ phase = agent[n].phase)]
        BY <1>2, <4>1
      <4> QED
        BY <4>2
    <3>2. CASE PreparePhase(n, c, responses, RetrySent(n, S))
      <4>1. \/ agent' = agent
            \/ \E own : agent' = [agent EXCEPT ![n].responses = responses, ![n].timer = TRUE,
                                   ![n].phase = AdvancePhase(@, FALSE),
                                   ![n].promises = {r \in @ : r.ballot # c.ballot \/ r.from # AcceptorOf(n)}
                                                     \cup {own}]
        BY <3>2 DEF PreparePhase
      <4>2. ASSUME NEW own,
                   agent' = [agent EXCEPT ![n].responses = responses, ![n].timer = TRUE,
                               ![n].phase = AdvancePhase(@, FALSE),
                               ![n].promises = {r \in @ : r.ballot # c.ballot \/ r.from # AcceptorOf(n)}
                                                 \cup {own}]
            PROVE  agent' = [agent EXCEPT ![n].responses = responses, ![n].timer = TRUE,
                               ![n].phase = AdvancePhase(agent[n].phase, FALSE),
                               ![n].promises = {r \in agent[n].promises :
                                                  r.ballot # c.ballot \/ r.from # AcceptorOf(n)}
                                                 \cup {own}]
        BY <1>2, <4>2
      <4> QED
        BY <4>1, <4>2
    <3> QED
      BY <3>1, <3>2
  <2>2. CASE \E phase, timer : agent' = [agent EXCEPT ![n].responses = responses, ![n].phase = phase,
                                                     ![n].timer = timer]
    BY <1>2, <2>2 DEF AgentState
  <2>3. CASE \E phase, timer, promises :
             agent' = [agent EXCEPT ![n].responses = responses, ![n].timer = timer,
                                    ![n].phase = phase, ![n].promises = promises]
    BY <1>2, <2>3 DEF AgentState
  <2> QED
    BY <2>1, <2>2, <2>3
<1>7. VoteHeld(n)'
  BY <1>3, <1>6, VotesStayHeld DEF Held
<1>8. LearnerHeld(LearnerOf(n))'
  BY <1>1, <1>3, OwnComponents, LearnerStaysHeld DEF Held
<1>9. ASSUME NEW m \in network' \ network
      PROVE  MessageHeld(m)'
  <2>1. m \in RetrySent(n, S) \/ \E b, s, d : m = PrepareMsg(n, b, s, d)
    <3>1. CASE Wait(n, c, responses, RetrySent(n, S))
      BY <1>9, <3>1 DEF Wait, Send
    <3>2. CASE PreparePhase(n, c, responses, RetrySent(n, S))
      <4>1. PICK s : \/ Send(RetrySent(n, S))
                     \/ Send(RetrySent(n, S) \cup Remote(n, {PrepareMsg(n, b, s, c.ballot) : b \in Acceptors}))
        <5> DEFINE slot == learnerAdu'[LearnerOf(n)] + 1
        <5>1. \/ Send(RetrySent(n, S))
              \/ Send(RetrySent(n, S) \cup Remote(n, {PrepareMsg(n, b, slot, c.ballot) : b \in Acceptors}))
          BY <3>2 DEF PreparePhase
        <5> HIDE DEF slot
        <5> QED
          BY <5>1
      <4>2. \A r \in Remote(n, {PrepareMsg(n, b, s, c.ballot) : b \in Acceptors}) :
              \E b : r = PrepareMsg(n, b, s, c.ballot)
        BY DEF Remote
      <4> QED
        BY <1>9, <4>1, <4>2 DEF Send
    <3> QED
      BY <3>1, <3>2
  <2>2. CASE m \in RetrySent(n, S)
    BY <1>3, <2>2, RetrySentType, RetryHeld, MessageStaysHeld
  <2>3. CASE \E b, s, d : m = PrepareMsg(n, b, s, d)
    BY <2>3 DEF PrepareMsg, MessageHeld
  <2> QED
    BY <2>1, <2>2, <2>3
<1> QED
  BY <1>1, <1>2, <1>3, <1>5, <1>6, <1>7, <1>8, <1>9, StepHeld

\* The slots a tick proposes end up with the proposed values in the own acceptor,
\* which refuses none of them (coordinator.rs, accept_phase).
LEMMA NewSlotsVoted ==
  ASSUME TypeOK, NEW n \in Proposers, NEW c \in CoreState, OnlyEnds(core[n], c),
         NEW responses, NEW sent,
         AcceptPhase(n, c, [agent[n] EXCEPT !.responses = responses], sent)
  PROVE  /\ AcceptedKept
         /\ \A s \in NewSlots(n, c) : AcceptorOf(n) \in VotedFor(s, CreateProposals(c).proposals[s].value)'
         /\ Refused(n, CreateProposals(c)) = {}
              => NewSlots(n, c) = c.currentSlot + 1 .. CreateProposals(c).currentSlot
<1> DEFINE a     == AcceptorOf(n)
           c1    == CreateProposals(c)
           slots == NewSlots(n, c)
           mine  == [s \in Slots |->
                       IF s \in slots /\ accepted[a][s] = None
                         THEN [ballot |-> c1.proposals[s].ballot, value |-> c1.proposals[s].value]
                         ELSE accepted[a][s]]
<1>1. accepted' = [accepted EXCEPT ![a] = mine] /\ c.currentSlot = core[n].currentSlot
  BY DEF AcceptPhase, NewSlots, OnlyEnds
<1>2. a \in Acceptors /\ accepted \in [Acceptors -> AcceptedMap]
  BY OwnComponents DEF TypeOK, AcceptorTypeOK
<1>3. slots \subseteq Slots /\ \A s \in slots : c1.proposals[s] \in Entry
  BY NewSlotsType
<1>4. \A s \in slots : WouldAccept(a, s, c1.proposals[s].ballot, c1.proposals[s].value)
  <2> SUFFICES ASSUME NEW s \in slots PROVE s \notin Refused(n, c1)
    BY <1>1 DEF NewSlots, Refused
  <2>1. s \in Int /\ \A t \in Refused(n, c1) : s < t
    BY <1>3 DEF NewSlots, Slots
  <2> QED
    BY <2>1
<1>5. Refused(n, c1) = {} => slots = c.currentSlot + 1 .. c1.currentSlot
  BY DEF NewSlots
<1> HIDE DEF a, c1, slots
<1>6. \A s \in Slots : accepted'[a][s] = mine[s]
  BY <1>1, <1>2
<1>7. AcceptedKept
  <2>1. \A s \in Slots : accepted[a][s] # None => accepted'[a][s] = accepted[a][s]
    BY <1>6
  <2>2. \A b \in Acceptors \ {a} : accepted'[b] = accepted[b]
    BY <1>1, <1>2
  <2> QED
    BY <2>1, <2>2 DEF AcceptedKept
<1>8. ASSUME NEW s \in slots
      PROVE  a \in VotedFor(s, c1.proposals[s].value)'
  <2> DEFINE e == c1.proposals[s]
  <2>1. e \in Entry /\ s \in Slots
    BY <1>3
  <2>2. CASE accepted[a][s] = None
    <3>1. accepted'[a][s] = [ballot |-> e.ballot, value |-> e.value]
      BY <1>6, <2>1, <2>2
    <3>2. [ballot |-> e.ballot, value |-> e.value] \in PValue
      BY <2>1 DEF Entry, PValue
    <3> QED
      BY <1>2, <3>1, <3>2, NoneAssumption DEF VotedFor
  <2>3. CASE accepted[a][s] # None
    <3>1. accepted[a][s].value = e.value
      BY <1>4, <2>3 DEF WouldAccept
    <3>2. accepted'[a][s] = accepted[a][s]
      BY <1>6, <2>1, <2>3
    <3> QED
      BY <1>2, <2>3, <3>1, <3>2 DEF VotedFor
  <2> QED
    BY <2>2, <2>3
<1> QED
  BY <1>5, <1>7, <1>8 DEF a, c1, slots

\* Without a refusal the new core rests on the own acceptor, and what it commits
\* is chosen (proposer-agent.rs, learns_to_commit).
LEMMA NewCoreHeld ==
  ASSUME Grows, NEW n \in Proposers, NEW c \in CoreState, CoreHeld(n, c),
         NEW b \in CoreState, b = CreateProposals(c), NEW d \in CoreState, d = CommitChosen(b),
         \A s \in c.currentSlot + 1 .. b.currentSlot : AcceptorOf(n) \in VotedFor(s, b.proposals[s].value)'
  PROVE  /\ CoreHeld(n, d)'
         /\ \A s \in Committing(b) : d.proposals[s].value \in Chosen(s)'
<1> DEFINE a == AcceptorOf(n)
<1>1. /\ b.chosenSlots = c.chosenSlots
      /\ \A s \in c.currentSlot + 1 .. b.currentSlot : b.proposals[s].status = "InFlight"
      /\ \A s \in Slots : s \notin c.currentSlot + 1 .. b.currentSlot => b.proposals[s] = c.proposals[s]
  BY CreateProposalsKeeps
<1>2. /\ \A s \in Committing(b) : \E i \in DOMAIN b.chosenSlots : s = b.chosenSlots[i]
      /\ \A s \in Committing(b) : /\ s \in Slots /\ b.proposals[s] \in Entry
                                  /\ d.proposals[s].value = b.proposals[s].value
      /\ \A s \in Slots \ Committing(b) : d.proposals[s] = b.proposals[s]
      /\ \A i \in DOMAIN d.chosenSlots : \E j \in DOMAIN b.chosenSlots : d.chosenSlots[i] = b.chosenSlots[j]
  BY CommitChosenKeeps
<1>3. \A i \in DOMAIN b.chosenSlots : OwnChosen(n, b.chosenSlots[i])'
  <2> SUFFICES ASSUME NEW i \in DOMAIN c.chosenSlots PROVE OwnChosen(n, c.chosenSlots[i])'
    BY <1>1
  <2>1. c.chosenSlots[i] \in Slots /\ OwnChosen(n, c.chosenSlots[i])
    BY LenProperties, ElementOfSeq DEF CoreState, CoreHeld
  <2> QED
    BY <2>1, SharedStays
<1>4. \A s \in Committing(b) : OwnChosen(n, s)'
  BY <1>2, <1>3
<1>5. ASSUME NEW s \in Slots, b.proposals[s] # None
      PROVE  a \in VotedFor(s, b.proposals[s].value)'
  <2>1. CASE s \in c.currentSlot + 1 .. b.currentSlot
    BY <2>1
  <2>2. CASE s \notin c.currentSlot + 1 .. b.currentSlot
    <3>1. b.proposals[s] = c.proposals[s] /\ c.proposals[s].value \in Commands
      BY <1>1, <1>5, <2>2 DEF CoreState, Entry
    <3> QED
      BY <1>5, <3>1 DEF CoreHeld, Grows
  <2> QED
    BY <2>1, <2>2
<1>6. \A s \in Committing(b) : b.proposals[s] # None
  BY DEF Committing
<1>7. ASSUME NEW s \in Slots, d.proposals[s] # None
      PROVE  a \in VotedFor(s, d.proposals[s].value)'
  BY <1>2, <1>5, <1>6, <1>7
<1>8. ASSUME NEW s \in Slots, HasStatus(d, s, "CommitPending")
      PROVE  OwnChosen(n, s)'
  <2>1. CASE s \in Committing(b)
    BY <1>4, <2>1
  <2>2. CASE s \notin Committing(b)
    <3>1. HasStatus(c, s, "CommitPending")
      BY <1>1, <1>2, <1>8, <2>2 DEF HasStatus
    <3> QED
      BY <3>1, SharedStays DEF CoreHeld
  <2> QED
    BY <2>1, <2>2
<1>9. \A i \in DOMAIN d.chosenSlots : OwnChosen(n, d.chosenSlots[i])'
  BY <1>2, <1>3
<1>10. ASSUME NEW s \in Committing(b)
       PROVE  d.proposals[s].value \in Chosen(s)'
  <2>1. PICK v : v \in Chosen(s)' /\ a \in VotedFor(s, v)'
    BY <1>4 DEF OwnChosen
  <2>2. a \in VotedFor(s, b.proposals[s].value)'
    BY <1>2, <1>5, <1>6
  <2>3. v = b.proposals[s].value
    BY <2>1, <2>2 DEF VotedFor
  <2> QED
    BY <1>2, <2>1, <2>3
<1> QED
  BY <1>7, <1>8, <1>9, <1>10 DEF CoreHeld

\* The own learner is told only what its acceptor has just accepted, or what is chosen.
LEMMA OwnLearnerHeld ==
  ASSUME TypeOK, Grows, NEW n \in Proposers, LearnerHeld(LearnerOf(n)),
         NEW d \in CoreState, NEW S \in SUBSET Slots,
         \A s \in S : d.proposals[s] \in Entry,
         AcceptorsSendLearns => \A s \in S : AcceptorOf(n) \in VotedFor(s, d.proposals[s].value)',
         slotLearns' = [slotLearns EXCEPT ![LearnerOf(n)] = OwnVotes(n, d, S)],
         \/ learned' = learned
         \/ /\ learned' = [learned EXCEPT ![LearnerOf(n)] = OwnLearned(n, d, S)]
            /\ ~AcceptorsSendLearns => \A s \in S : d.proposals[s].value \in Chosen(s)'
  PROVE  LearnerHeld(LearnerOf(n))'
<1> DEFINE l == LearnerOf(n)
           a == AcceptorOf(n)
           votes == OwnVotes(n, d, S)
<1>1. /\ l \in Learners /\ a \in Acceptors
      /\ slotLearns \in [Learners -> [Slots -> [Acceptors -> Values \cup {None}]]]
      /\ learned \in [Learners -> [Slots -> Values \cup {None}]]
  BY OwnComponents DEF TypeOK, LearnerTypeOK
<1>2. slotLearns'[l] = votes
  BY <1>1
<1>3. ASSUME NEW s \in Slots, NEW x \in Acceptors, NEW v \in Commands, v = votes[s][x]
      PROVE  x \in VotedFor(s, v)'
  <2>1. CASE AcceptorsSendLearns /\ s \in S /\ x = a
    <3>1. votes[s] = [slotLearns[l][s] EXCEPT ![a] = d.proposals[s].value]
      BY <1>3, <2>1 DEF OwnVotes
    <3>2. votes[s][x] = d.proposals[s].value
      BY <1>1, <2>1, <3>1
    <3> QED
      BY <1>3, <2>1, <3>2
  <2>2. CASE ~(AcceptorsSendLearns /\ s \in S /\ x = a)
    <3>1. votes[s][x] = slotLearns[l][s][x]
      BY <1>1, <1>3, <2>2 DEF OwnVotes
    <3> QED
      BY <1>3, <3>1 DEF LearnerHeld, Grows
  <2> QED
    BY <2>1, <2>2
<1> HIDE DEF votes
<1>4. ASSUME NEW s \in Slots, NEW v \in Commands, v = learned'[l][s]
      PROVE  v \in Chosen(s)'
  <2>1. CASE learned'[l][s] = learned[l][s]
    BY <1>4, <2>1 DEF LearnerHeld, Grows
  <2>2. CASE learned'[l][s] # learned[l][s]
    <3> DEFINE known == Learnable(votes[s], d.proposals[s].value)
    <3>1. learned' = [learned EXCEPT ![l] = OwnLearned(n, d, S)]
          /\ (~AcceptorsSendLearns => \A t \in S : d.proposals[t].value \in Chosen(t)')
      BY <2>2
    <3>2. learned'[l][s] = OwnLearned(n, d, S)[s]
      BY <1>1, <3>1
    <3>3. s \in S /\ known # {} /\ learned'[l][s] = CHOOSE w \in known : TRUE
      BY <1>4, <2>2, <3>2 DEF OwnLearned, votes
    <3> HIDE DEF known
    <3>4. v \in known
      BY <1>4, <3>3
    <3>5. CASE AcceptorsSendLearns
      <4>1. IsQuorum(Votes(votes[s], v))
        BY <3>4, <3>5 DEF Learnable, known
      <4>2. PICK V : V = VotedFor(s, v)'
        OBVIOUS
      <4>3. Votes(votes[s], v) \in SUBSET V /\ V \in SUBSET Acceptors
        BY <1>3, <1>4, <3>4, <4>2 DEF Votes, VotedFor
      <4>4. IsQuorum(V)
        BY <4>1, <4>3, QuorumsGrow
      <4> QED
        BY <1>4, <3>4, <4>2, <4>4 DEF Chosen
    <3>6. CASE ~AcceptorsSendLearns
      <4>1. v = d.proposals[s].value
        BY <3>4, <3>6 DEF Learnable, known
      <4> QED
        BY <3>1, <3>3, <3>4, <3>6, <4>1
    <3> QED
      BY <3>5, <3>6
  <2> QED
    BY <2>1, <2>2
<1>5. ASSUME NEW s \in Slots, NEW x \in Acceptors, slotLearns'[l][s][x] \in Commands
      PROVE  x \in VotedFor(s, slotLearns[l][s][x])'
  BY <1>2, <1>3, <1>5
<1>6. ASSUME NEW s \in Slots, learned'[l][s] \in Commands
      PROVE  learned'[l][s] \in Chosen(s)'
  BY <1>4, <1>6
<1> QED
  BY <1>5, <1>6 DEF LearnerHeld

\* Phase 2 of a tick: the own acceptor first, then the own vote, the own learner and
\* the other nodes; a refusal ends the node (coordinator.rs, accept_phase).
LEMMA AcceptPhaseHeld ==
  ASSUME TypeOK, Held, NEW n \in Proposers \ panicked, NEW c \in CoreState, OnlyEnds(core[n], c),
         NEW responses, NEW S \in SUBSET Slots,
         AcceptPhase(n, c, [agent[n] EXCEPT !.responses = responses], RetrySent(n, S))
  PROVE  Held'
<1> DEFINE a      == AcceptorOf(n)
           l      == LearnerOf(n)
           c1     == CreateProposals(c)
           c2     == CommitChosen(c1)
           bad    == Refused(n, c1)
           slots  == NewSlots(n, c)
           learns == LearnSlots(n, c)
           ag     == [agent[n] EXCEPT !.responses = responses]
           left   == [s \in Slots |-> IF s \in Responding(ag) /\ bad = {} THEN None ELSE ag.responses[s]]
           accs   == UNION {ProposalAccepts(n, c1, s) : s \in slots}
           told   == {LearnMsg(a, k, s, c1.proposals[s].value) : s \in slots, k \in Learners}
           lrns   == UNION {ProposalLearns(n, c2, s) : s \in learns}
<1>1. /\ panicked' = IF bad = {} THEN panicked ELSE panicked \cup {n}
      /\ core' = [core EXCEPT ![n] = IF bad = {} THEN c2 ELSE c1]
      /\ agent' = [agent EXCEPT ![n] = [ag EXCEPT !.accepts = OwnAccepts(n, c1, ag.accepts, slots),
                                                  !.responses = left]]
      /\ slotLearns' = [slotLearns EXCEPT ![l] = OwnVotes(n, c2, learns)]
      /\ learned' = [learned EXCEPT ![l] = IF bad = {} \/ AcceptorsSendLearns
                                             THEN OwnLearned(n, c2, learns) ELSE learned[l]]
      /\ Send(RetrySent(n, S) \cup Remote(n, accs \cup
              IF AcceptorsSendLearns THEN told ELSE IF bad = {} THEN lrns ELSE {}))
  BY DEF AcceptPhase, NewSlots, LearnSlots
<1>2. /\ c1 \in CoreState /\ c2 \in CoreState /\ slots \subseteq Slots /\ learns \subseteq Slots
      /\ \A s \in slots : c1.proposals[s] \in Entry
      /\ \A s \in learns : /\ c2.proposals[s] \in Entry /\ c2.proposals[s].value = c1.proposals[s].value
      /\ AcceptorsSendLearns => learns = slots
      /\ ~AcceptorsSendLearns => learns = Committing(c1)
  <2>1. c.currentSlot = core[n].currentSlot
    BY DEF OnlyEnds
  <2> QED
    BY <2>1, NewSlotsType DEF LearnSlots
<1>3. /\ a \in Acceptors /\ l \in Learners /\ a \notin Proposers /\ n \notin Acceptors
      /\ core \in [Proposers -> CoreState] /\ agent \in [Proposers -> AgentState]
      /\ learned \in [Learners -> [Slots -> Values \cup {None}]]
      /\ slotLearns \in [Learners -> [Slots -> [Acceptors -> Values \cup {None}]]]
  BY OwnComponents, DisjointAssumption DEF TypeOK, ProposerTypeOK, LearnerTypeOK
<1>4. AcceptedKept /\ (bad = {} => slots = c.currentSlot + 1 .. c1.currentSlot)
  BY NewSlotsVoted
<1>5. Grows
  BY <1>4, KeptGrows
<1>6. CoreHeld(n, c)
  <2>1. PICK b \in CoreState : b = core[n] /\ CoreHeld(n, b)
    BY <1>3 DEF Held
  <2> QED
    BY <2>1, EndsHeld
<1>7. PICK b \in CoreState, d \in CoreState, T \in SUBSET Slots, U \in SUBSET Slots :
        b = c1 /\ d = c2 /\ T = slots /\ U = learns
  BY <1>2
<1>8. \A s \in T : a \in VotedFor(s, b.proposals[s].value)'
  <2> SUFFICES ASSUME NEW s \in T PROVE a \in VotedFor(s, b.proposals[s].value)'
    OBVIOUS
  <2>1. a \in VotedFor(s, CreateProposals(c).proposals[s].value)'
    BY <1>7, NewSlotsVoted
  <2> QED
    BY <1>7, <2>1
<1>9. ASSUME bad = {}
      PROVE  CoreHeld(n, d)' /\ \A s \in Committing(b) : d.proposals[s].value \in Chosen(s)'
  <2>1. b = CreateProposals(c) /\ d = CommitChosen(b)
    BY <1>7
  <2>2. \A s \in c.currentSlot + 1 .. b.currentSlot : a \in VotedFor(s, b.proposals[s].value)'
    BY <1>4, <1>7, <1>8, <1>9
  <2> HIDE DEF c1, c2
  <2> QED
    BY <1>5, <1>6, <2>1, <2>2, NewCoreHeld
<1>10. /\ panicked' = IF bad = {} THEN panicked ELSE panicked \cup {n}
       /\ core' = [core EXCEPT ![n] = IF bad = {} THEN d ELSE b]
       /\ slotLearns' = [slotLearns EXCEPT ![l] = OwnVotes(n, d, U)]
       /\ learned' = [learned EXCEPT ![l] = IF bad = {} \/ AcceptorsSendLearns
                                              THEN OwnLearned(n, d, U) ELSE learned[l]]
       /\ \A s \in T : b.proposals[s] \in Entry
       /\ \A s \in U : d.proposals[s] \in Entry /\ d.proposals[s].value = b.proposals[s].value
       /\ AcceptorsSendLearns => U = T
       /\ ~AcceptorsSendLearns => U = Committing(b)
  BY <1>1, <1>2, <1>7
<1>11. /\ agent'[n].accepts = OwnAccepts(n, b, agent[n].accepts, T)
       /\ \A k \in Proposers \ {n} : core'[k] = core[k] /\ agent'[k] = agent[k]
  <2>1. agent[n] \in AgentState
    BY <1>3
  <2>2. ag \in [phase : Phases, promises : SUBSET Promises, timer : BOOLEAN, hasAdu : BOOLEAN,
                accepts : {agent[n].accepts}, responses : {responses}]
    BY <2>1 DEF AgentState
  <2>3. ag.accepts = agent[n].accepts
    BY <2>2
  <2> DEFINE votes == OwnAccepts(n, c1, ag.accepts, slots)
  <2>4. votes = OwnAccepts(n, b, agent[n].accepts, T)
    BY <1>7, <2>3
  <2>5. agent' = [agent EXCEPT ![n] = [ag EXCEPT !.accepts = votes, !.responses = left]]
    BY <1>1
  <2> HIDE DEF votes, left, ag, bad, c1, c2, slots
  <2>6. [ag EXCEPT !.accepts = votes, !.responses = left].accepts = votes
    BY <2>2
  <2>7. agent'[n] = [ag EXCEPT !.accepts = votes, !.responses = left]
    BY <1>3, <2>5
  <2> QED
    BY <1>3, <1>10, <2>4, <2>5, <2>6, <2>7
<1>12. \A m \in network' \ network :
         \/ m \in RetrySent(n, S)
         \/ m \in UNION {ProposalAccepts(n, b, s) : s \in T}
         \/ m \in {LearnMsg(a, k, s, b.proposals[s].value) : s \in T, k \in Learners} /\ AcceptorsSendLearns
         \/ m \in UNION {ProposalLearns(n, d, s) : s \in U} /\ ~AcceptorsSendLearns /\ bad = {}
  <2>1. \A m \in network' \ network :
          \/ m \in RetrySent(n, S)
          \/ m \in accs
          \/ m \in told /\ AcceptorsSendLearns
          \/ m \in lrns /\ ~AcceptorsSendLearns /\ bad = {}
    <3> HIDE DEF accs, told, lrns, bad
    <3> QED
      BY <1>1 DEF Send, Remote
  <2>2. /\ accs = UNION {ProposalAccepts(n, b, s) : s \in T}
        /\ told = {LearnMsg(a, k, s, b.proposals[s].value) : s \in T, k \in Learners}
        /\ lrns = UNION {ProposalLearns(n, d, s) : s \in U}
    BY <1>7
  <2> HIDE DEF accs, told, lrns, bad
  <2> QED
    BY <2>1, <2>2
<1> HIDE DEF a, l, c1, c2, bad, slots, learns, ag, left, accs, told, lrns
<1>13. n \notin panicked' => CoreHeld(n, core[n])'
  <2> SUFFICES ASSUME n \notin panicked' PROVE CoreHeld(n, core[n])'
    OBVIOUS
  <2>1. bad = {}
    BY <1>10
  <2>2. core'[n] = d
    BY <1>3, <1>10, <2>1
  <2> QED
    BY <1>9, <2>1, <2>2 DEF CoreHeld
<1>14. VoteHeld(n)'
  <2>1. ASSUME NEW s \in Slots, NEW x \in Acceptors, agent'[n].accepts[s][x] # None
        PROVE  SameValue(x, a, s)'
    <3>1. CASE s \in T /\ x = a
      <4>1. b.proposals[s].value \in Commands
        BY <1>10, <3>1 DEF Entry
      <4> QED
        BY <1>8, <3>1, <4>1 DEF SameValue
    <3>2. CASE ~(s \in T /\ x = a)
      <4>1. agent[n].accepts[s] \in [Acceptors -> Ballots \cup {None}]
        BY <1>3 DEF AgentState
      <4>2. agent'[n].accepts[s][x] = agent[n].accepts[s][x]
        BY <1>11, <3>2, <4>1 DEF OwnAccepts, a
      <4>3. SameValue(x, a, s)
        BY <2>1, <4>2 DEF Held, VoteHeld, a
      <4> QED
        BY <1>3, <1>5, <4>3, SharedStays
    <3> QED
      BY <3>1, <3>2
  <2> QED
    BY <2>1 DEF VoteHeld, a
<1>15. LearnerHeld(LearnerOf(n))'
  <2>1. LearnerHeld(l) /\ l = LearnerOf(n) /\ a = AcceptorOf(n)
    BY <1>3 DEF Held, l, a
  <2>2. AcceptorsSendLearns => \A s \in U : a \in VotedFor(s, d.proposals[s].value)'
    BY <1>8, <1>10
  <2>3. \/ learned' = learned
        \/ /\ learned' = [learned EXCEPT ![l] = OwnLearned(n, d, U)]
           /\ ~AcceptorsSendLearns => \A s \in U : d.proposals[s].value \in Chosen(s)'
    <3>1. CASE bad = {} \/ AcceptorsSendLearns
      BY <1>9, <1>10, <3>1
    <3>2. CASE ~(bad = {} \/ AcceptorsSendLearns)
      BY <1>3, <1>10, <3>2
    <3> QED
      BY <3>1, <3>2
  <2> QED
    BY <1>5, <1>10, <2>1, <2>2, <2>3, OwnLearnerHeld
<1>16. \A k \in Learners \ {LearnerOf(n)} : slotLearns'[k] = slotLearns[k] /\ learned'[k] = learned[k]
  BY <1>3, <1>10 DEF l
<1>17. ASSUME NEW m \in network' \ network
       PROVE  MessageHeld(m)'
  <2>2. CASE m \in RetrySent(n, S)
    BY <1>5, <2>2, RetrySentType, RetryHeld, MessageStaysHeld
  <2>3. CASE m \in UNION {ProposalAccepts(n, b, s) : s \in T}
    <3>1. PICK s \in T : m \in ProposalAccepts(n, b, s)
      BY <2>3
    <3>2. m.type = "accept" /\ m.from = n /\ m.slot = s /\ m.value = b.proposals[s].value
      BY <3>1 DEF ProposalAccepts, AcceptMsg
    <3> QED
      BY <1>8, <3>2 DEF MessageHeld, a
  <2>4. CASE /\ AcceptorsSendLearns
             /\ m \in {LearnMsg(a, k, s, b.proposals[s].value) : s \in T, k \in Learners}
    <3>1. PICK s \in T, k \in Learners : m = LearnMsg(a, k, s, b.proposals[s].value)
      BY <2>4
    <3>2. m.type = "learn" /\ m.from = a /\ m.slot = s /\ m.value = b.proposals[s].value
      BY <3>1 DEF LearnMsg
    <3> QED
      BY <1>3, <1>8, <2>4, <3>2 DEF MessageHeld
  <2>5. CASE m \in UNION {ProposalLearns(n, d, s) : s \in U} /\ ~AcceptorsSendLearns /\ bad = {}
    <3>1. PICK s \in U : m \in ProposalLearns(n, d, s)
      BY <2>5
    <3>2. m.type = "learn" /\ m.from = n /\ m.slot = s /\ m.value = d.proposals[s].value
      BY <3>1 DEF ProposalLearns, LearnMsg
    <3>3. d.proposals[s].value \in Chosen(s)'
      BY <1>9, <1>10, <2>5
    <3> QED
      BY <1>3, <2>5, <3>2, <3>3 DEF MessageHeld
  <2> QED
    BY <1>12, <2>2, <2>3, <2>4, <2>5
<1>18. panicked \subseteq panicked'
  BY <1>10
<1> QED
  BY <1>3, <1>5, <1>11, <1>13, <1>14, <1>15, <1>16, <1>17, <1>18, StepHeld

\* Whatever a node does, what proposals, votes and learns rest on stays
\* (coordinator.rs, handle_message and handle_tick).
LEMMA HeldStep ==
  ASSUME TypeOK, Held, [CoordinatorNext]_coordinatorVars
  PROVE  Held'
<1>1. ASSUME NEW n \in Proposers \ panicked, UNCHANGED panicked, HandleMessage(n)
      PROVE  Held'
  BY <1>1, OnPromiseHeld, OnAcceptedHeld, OnPrepareHeld, OnAcceptHeld, OnLearnHeld DEF HandleMessage
<1>2. ASSUME NEW n \in Proposers \ panicked, Tick(n)
      PROVE  Held'
  <2>1. PICK S \in SUBSET Slots, c \in CoreState, responses \in [Slots -> Response \cup {None}] :
          /\ OnlyEnds(core[n], c)
          /\ \/ Wait(n, c, responses, RetrySent(n, S))
             \/ PreparePhase(n, c, responses, RetrySent(n, S))
             \/ AcceptPhase(n, c, [agent[n] EXCEPT !.responses = responses], RetrySent(n, S))
    BY <1>2, TickParts
  <2> QED
    BY <2>1, QuietTickHeld, AcceptPhaseHeld
<1>3. CASE UNCHANGED coordinatorVars
  <2>1. /\ UNCHANGED <<network, accepted, slotLearns, learned, core, agent, panicked>>
        /\ \A s, v : VotedFor(s, v)' = VotedFor(s, v)
        /\ \A s : Chosen(s)' = Chosen(s)
    BY <1>3 DEF coordinatorVars, nodeVars, acceptorVars, learnerVars, proposerVars, VotedFor, Chosen
  <2>2. \A n \in Proposers : CoreHeld(n, core[n]) => CoreHeld(n, core[n])'
    BY <2>1 DEF CoreHeld, OwnChosen
  <2>3. \A n \in Proposers : VoteHeld(n) => VoteHeld(n)'
    BY <2>1 DEF VoteHeld, SameValue
  <2>4. \A m \in network : MessageHeld(m) => MessageHeld(m)'
    BY <2>1 DEF MessageHeld, SameValue
  <2>5. \A l \in Learners : LearnerHeld(l) => LearnerHeld(l)'
    BY <2>1 DEF LearnerHeld
  <2> QED
    BY <2>1, <2>2, <2>3, <2>4, <2>5 DEF Held
<1> QED
  BY <1>1, <1>2, <1>3, OutsideHeld DEF CoordinatorNext

\* At first nothing is proposed, counted, sent or learned.
LEMMA HeldInit == CoordinatorInit => Held
<1> SUFFICES ASSUME CoordinatorInit PROVE Held
  OBVIOUS
<1>1. \A n \in Proposers : CoreHeld(n, core[n])
  <2> SUFFICES ASSUME NEW n \in Proposers PROVE CoreHeld(n, core[n])
    OBVIOUS
  <2>1. core[n].chosenSlots = <<>> /\ \A s \in Slots : core[n].proposals[s] = None
    BY DEF CoordinatorInit, ProposerInit, NewCore
  <2>2. DOMAIN core[n].chosenSlots = {}
    BY <2>1
  <2> QED
    BY <2>1, <2>2 DEF CoreHeld, HasStatus
<1>2. \A n \in Proposers : VoteHeld(n)
  <2>1. \A n \in Proposers, s \in Slots, a \in Acceptors : agent[n].accepts[s][a] = None
    BY DEF CoordinatorInit, ProposerInit, NewAgent
  <2> QED
    BY <2>1 DEF VoteHeld
<1>3. \A l \in Learners : LearnerHeld(l)
  BY ValuesAssumption DEF CoordinatorInit, LearnerInit, LearnerHeld
<1> QED
  BY <1>1, <1>2, <1>3 DEF CoordinatorInit, Held

\* Whatever a node of the collocated deployment learns, a majority of the acceptors
\* has accepted: whether acceptors or proposers send the learns, and with retries
\* and panics (coordinator.rs, accept_phase and commit_phase).
THEOREM NodesLearnChosen == CoordinatorSpec => []LearnsOnlyChosen
<1>1. CoordinatorInit => TypeOK /\ Held
  BY CoordinatorTypeInit, HeldInit
<1>2. TypeOK /\ Held /\ [CoordinatorNext]_coordinatorVars => Held'
  BY HeldStep
<1>3. TypeOK /\ Held => LearnsOnlyChosen
  BY DEF Held, LearnerHeld, LearnsOnlyChosen
<1> QED
  BY <1>1, <1>2, <1>3, CoordinatorTypeCorrect, PTL DEF CoordinatorSpec

----------------------------------------------------------------------------
(* The histories the nodes apply. *)

\* Phase 2 of a tick tells the own learner, and the others, of commands only, and
\* the own learner keeps what it has (coordinator.rs, accept_phase and commit_phase).
LEMMA AcceptPhaseLearns ==
  ASSUME TypeOK, NEW n \in Proposers, NEW c \in CoreState, c.currentSlot = core[n].currentSlot,
         NEW responses, NEW sent,
         AcceptPhase(n, c, [agent[n] EXCEPT !.responses = responses], sent)
  PROVE  \E d \in CoreState, U \in SUBSET Slots :
           /\ \A s \in U : d.proposals[s] \in Entry
           /\ slotLearns' = [slotLearns EXCEPT ![LearnerOf(n)] = OwnVotes(n, d, U)]
           /\ learned' = learned \/ learned' = [learned EXCEPT ![LearnerOf(n)] = OwnLearned(n, d, U)]
           /\ \A m \in network' \ network : m \in sent \/ (m.type = "learn" => m.value \in Commands)
<1> DEFINE a      == AcceptorOf(n)
           l      == LearnerOf(n)
           c1     == CreateProposals(c)
           c2     == CommitChosen(c1)
           bad    == Refused(n, c1)
           slots  == NewSlots(n, c)
           learns == LearnSlots(n, c)
           accs   == UNION {ProposalAccepts(n, c1, s) : s \in slots}
           told   == {LearnMsg(a, k, s, c1.proposals[s].value) : s \in slots, k \in Learners}
           lrns   == UNION {ProposalLearns(n, c2, s) : s \in learns}
<1>1. /\ slotLearns' = [slotLearns EXCEPT ![l] = OwnVotes(n, c2, learns)]
      /\ learned' = [learned EXCEPT ![l] = IF bad = {} \/ AcceptorsSendLearns
                                             THEN OwnLearned(n, c2, learns) ELSE learned[l]]
      /\ Send(sent \cup Remote(n, accs \cup
              IF AcceptorsSendLearns THEN told ELSE IF bad = {} THEN lrns ELSE {}))
  BY DEF AcceptPhase, NewSlots, LearnSlots
<1>2. /\ c2 \in CoreState /\ learns \in SUBSET Slots
      /\ \A s \in slots : c1.proposals[s] \in Entry
      /\ \A s \in learns : c2.proposals[s] \in Entry
  BY NewSlotsType
<1>3. l \in Learners /\ learned \in [Learners -> [Slots -> Values \cup {None}]]
  BY OwnComponents DEF TypeOK, LearnerTypeOK
<1> HIDE DEF c1, c2, bad, slots, learns
<1>4. \A m \in accs : m.type = "accept"
  BY DEF ProposalAccepts, AcceptMsg
<1>5. \A m \in told : m.value \in Commands
  BY <1>2 DEF LearnMsg, Entry
<1>6. \A m \in lrns : m.value \in Commands
  BY <1>2 DEF ProposalLearns, LearnMsg, Entry
<1> HIDE DEF accs, told, lrns
<1>7. \A m \in network' \ network : m \in sent \/ m \in accs \/ m \in told \/ m \in lrns
  BY <1>1 DEF Send, Remote
<1>8. learned' = learned \/ learned' = [learned EXCEPT ![l] = OwnLearned(n, c2, learns)]
  <2>1. [learned EXCEPT ![l] = learned[l]] = learned
    BY <1>3
  <2> QED
    BY <1>1, <2>1
<1> QED
  BY <1>1, <1>2, <1>4, <1>5, <1>6, <1>7, <1>8

\* A tick executes first and learns afterwards: what the learner had is kept, and it
\* is the only learner of the tick (coordinator.rs, handle_tick).
LEMMA TickLearns ==
  ASSUME TypeOK, NEW n \in Proposers, Tick(n)
  PROVE  /\ DriveLearner(n)
         /\ \A k \in Learners \ {LearnerOf(n)} : learned'[k] = learned[k]
         /\ \A s \in Slots : learned[LearnerOf(n)][s] # None
                               => learned'[LearnerOf(n)][s] = learned[LearnerOf(n)][s]
<1>1. PICK S \in SUBSET Slots, c \in CoreState, responses \in [Slots -> Response \cup {None}] :
        /\ OnlyEnds(core[n], c)
        /\ \/ Wait(n, c, responses, RetrySent(n, S))
           \/ PreparePhase(n, c, responses, RetrySent(n, S))
           \/ AcceptPhase(n, c, [agent[n] EXCEPT !.responses = responses], RetrySent(n, S))
  BY TickParts
<1>2. DriveLearner(n)
  BY TickParts
<1>3. LearnerOf(n) \in Learners /\ learned \in [Learners -> [Slots -> Values \cup {None}]]
  BY OwnComponents DEF TypeOK, LearnerTypeOK
<1>4. learned' = learned \/ \E d, U : learned' = [learned EXCEPT ![LearnerOf(n)] = OwnLearned(n, d, U)]
  <2>1. CASE Wait(n, c, responses, RetrySent(n, S))
    BY <2>1 DEF Wait
  <2>2. CASE PreparePhase(n, c, responses, RetrySent(n, S))
    BY <2>2 DEF PreparePhase
  <2>3. CASE AcceptPhase(n, c, [agent[n] EXCEPT !.responses = responses], RetrySent(n, S))
    <3>1. c.currentSlot = core[n].currentSlot
      BY <1>1 DEF OnlyEnds
    <3> QED
      BY <2>3, <3>1, AcceptPhaseLearns
  <2> QED
    BY <1>1, <2>1, <2>2, <2>3
<1>5. ASSUME NEW d, NEW U, learned' = [learned EXCEPT ![LearnerOf(n)] = OwnLearned(n, d, U)],
             NEW s \in Slots, learned[LearnerOf(n)][s] # None
      PROVE  learned'[LearnerOf(n)][s] = learned[LearnerOf(n)][s]
  BY <1>3, <1>5 DEF OwnLearned
<1> QED
  BY <1>2, <1>3, <1>4, <1>5

\* A learner of a node has applied its log up to the adu, whether a message or a tick
\* makes it execute (coordinator.rs, drive_learner; learner-agent.rs, handle_message).
LEMMA NodeHistoryStep ==
  ASSUME TypeOK, HistoryIsLog, [CoordinatorNext]_coordinatorVars
  PROVE  HistoryIsLog'
<1>1. CASE UNCHANGED <<learned, learnerAdu, history>>
  BY <1>1 DEF HistoryIsLog, Applied
<1>2. ASSUME NEW n \in Proposers, OnLearn(n)
      PROVE  HistoryIsLog'
  <2> DEFINE l == LearnerOf(n)
  <2>1. l \in Learners /\ MaxSlot \in Nat /\ LearnerTypeOK
    BY OwnComponents, BoundsAssumption DEF TypeOK
  <2>2. PICK m \in Inbox(l, "learn") :
          /\ m \in Learns
          /\ \/ UNCHANGED <<learned, learnerAdu, history, execBuffer>>
             \/ /\ learned[l][m.slot] = None
                /\ \E v : OnLearnStep(l, [learned[l] EXCEPT ![m.slot] = v],
                                      Contiguous([learned[l] EXCEPT ![m.slot] = v], learnerAdu[l]))
    BY <1>2, OnLearnCases
  <2>3. learned' \in [Learners -> [Slots -> Values \cup {None}]]
    BY <1>2, OnLearnType DEF TypeOK, LearnerTypeOK
  <2>4. ASSUME NEW v, learned[l][m.slot] = None,
               OnLearnStep(l, [learned[l] EXCEPT ![m.slot] = v],
                           Contiguous([learned[l] EXCEPT ![m.slot] = v], learnerAdu[l]))
        PROVE  HistoryIsLog'
    <3> DEFINE map == [learned[l] EXCEPT ![m.slot] = v]
               adu == Contiguous(map, learnerAdu[l])
    <3>1. /\ learned' = [learned EXCEPT ![l] = map]
          /\ learnerAdu' = [learnerAdu EXCEPT ![l] = adu]
          /\ history' = [history EXCEPT ![l] = @ \o Executed(map, learnerAdu[l], adu)]
      BY <2>4 DEF OnLearnStep
    <3>2. learned'[l] = map /\ \A k \in Learners \ {l} : learned'[k] = learned[k]
      BY <2>1, <3>1 DEF LearnerTypeOK
    <3>3. map \in [Slots -> Values \cup {None}]
      <4> HIDE DEF map
      <4> QED
        BY <2>1, <2>3, <3>2
    <3>4. Applied(l, map)
      <4>1. \A i \in 1 .. learnerAdu[l] : i \in Slots /\ i # m.slot
        BY <2>1, <2>4 DEF HistoryIsLog, Applied, Slots, LearnerTypeOK
      <4> QED
        BY <2>1, <4>1 DEF HistoryIsLog, Applied, LearnerTypeOK
    <3>5. adu = Contiguous(map, learnerAdu[l])
      OBVIOUS
    <3> HIDE DEF map, adu, l
    <3>6. /\ Len(history'[l]) = learnerAdu'[l]
          /\ \A i \in 1 .. learnerAdu'[l] : history'[l][i] = map[i] /\ map[i] # None
          /\ \A k \in Learners \ {l} : learnerAdu'[k] = learnerAdu[k] /\ history'[k] = history[k]
      BY <2>1, <3>1, <3>3, <3>4, <3>5, ExecuteApplies
    <3> QED
      BY <2>1, <3>2, <3>6 DEF HistoryIsLog, Applied
  <2> QED
    BY <1>1, <2>2, <2>4
<1>3. ASSUME NEW n \in Proposers, Tick(n)
      PROVE  HistoryIsLog'
  <2> DEFINE l   == LearnerOf(n)
             adu == Contiguous(learned[l], learnerAdu[l])
  <2>1. l \in Learners /\ MaxSlot \in Nat /\ LearnerTypeOK
    BY OwnComponents, BoundsAssumption DEF TypeOK
  <2>2. /\ DriveLearner(n)
        /\ \A k \in Learners \ {l} : learned'[k] = learned[k]
        /\ \A s \in Slots : learned[l][s] # None => learned'[l][s] = learned[l][s]
    BY <1>3, TickLearns
  <2>3. /\ learnerAdu' = [learnerAdu EXCEPT ![l] = adu]
        /\ history' = [history EXCEPT ![l] = @ \o Executed(learned[l], learnerAdu[l], adu)]
    BY <2>2 DEF DriveLearner, Executed
  <2>4. learnerAdu' \in [Learners -> 0 .. MaxSlot]
    BY <2>2, DrainedType
  <2>5. adu = Contiguous(learned[l], learnerAdu[l])
    OBVIOUS
  <2> HIDE DEF l, adu
  <2>6. learned[l] \in [Slots -> Values \cup {None}] /\ Applied(l, learned[l])
    BY <2>1 DEF LearnerTypeOK, HistoryIsLog
  <2>7. /\ Len(history'[l]) = learnerAdu'[l]
        /\ \A i \in 1 .. learnerAdu'[l] : history'[l][i] = learned[l][i] /\ learned[l][i] # None
        /\ \A k \in Learners \ {l} : learnerAdu'[k] = learnerAdu[k] /\ history'[k] = history[k]
    BY <2>1, <2>3, <2>5, <2>6, ExecuteApplies
  <2>8. \A i \in 1 .. learnerAdu'[l] : i \in Slots
    BY <2>1, <2>4 DEF Slots
  <2> QED
    BY <2>1, <2>2, <2>7, <2>8 DEF HistoryIsLog, Applied
<1> QED
  BY <1>1, <1>2, <1>3
     DEF CoordinatorNext, HandleMessage, coordinatorVars, nodeVars, learnerVars, OnPromise, OnAccepted,
         OnPrepare, OnAccept

\* A node starts with nothing applied (learner.rs, new).
LEMMA NodeHistoryInit == CoordinatorInit => HistoryIsLog
<1> SUFFICES ASSUME LearnerInit, NEW l \in Learners PROVE Applied(l, learned[l])
  BY DEF CoordinatorInit, HistoryIsLog
<1>1. history[l] = <<>> /\ learnerAdu[l] = 0
  BY DEF LearnerInit
<1>2. 1 .. 0 = {}
  OBVIOUS
<1> QED
  BY <1>1, <1>2 DEF Applied

----------------------------------------------------------------------------
(* Do the nodes apply the same? *)

\* No two nodes apply different commands at a position, in both ways of sending
\* learns, with retries and panics: both are chosen in that slot (coordinator.rs,
\* accept_phase and commit_phase).
THEOREM NodesApplyTheLog == CoordinatorSpec => []CommandsAgree
<1>1. CoordinatorInit => HistoryIsLog
  BY NodeHistoryInit
<1>2. TypeOK /\ HistoryIsLog /\ [CoordinatorNext]_coordinatorVars => HistoryIsLog'
  BY NodeHistoryStep
<1>3. TypeOK /\ HistoryIsLog /\ LearnsOnlyChosen => CommandsAgree
  <2>1. LearnsOnlyChosen => LearnedIsChosen
    BY DEF LearnsOnlyChosen, LearnedIsChosen
  <2> QED
    BY <2>1, AppliedIsChosen, ChosenIsUnique DEF CommandsAgree, ChosenUnique
<1> QED
  BY <1>1, <1>2, <1>3, CoordinatorTypeCorrect, NodesLearnChosen, PTL DEF CoordinatorSpec

\* No node makes a no-op up: acceptors do only for a learner that asks again.
NodesNoOpFree ==
  /\ \A m \in network : m.type = "learn" => m.value \in Commands
  /\ \A l \in Learners, s \in Slots, a \in Acceptors : slotLearns[l][s][a] # NoOp
  /\ \A l \in Learners, s \in Slots : learned[l][s] # NoOp

\* A tick tells the learners of proposed commands (coordinator.rs, handle_tick;
\* acceptor-agent.rs, retry_learns).
LEMMA TickNoOpFree ==
  ASSUME AcceptorsSendLearns => ~LearnersRetry, TypeOK, NEW n \in Proposers, Tick(n)
  PROVE  /\ \A m \in network' \ network : m.type = "learn" => m.value \in Commands
         /\ UNCHANGED <<slotLearns, learned>> \/
            \E d \in CoreState, U \in SUBSET Slots :
              /\ \A s \in U : d.proposals[s] \in Entry
              /\ slotLearns' = [slotLearns EXCEPT ![LearnerOf(n)] = OwnVotes(n, d, U)]
              /\ learned' = learned \/ learned' = [learned EXCEPT ![LearnerOf(n)] = OwnLearned(n, d, U)]
<1>1. PICK S \in SUBSET Slots, c \in CoreState, responses \in [Slots -> Response \cup {None}] :
        /\ OnlyEnds(core[n], c)
        /\ ~LearnersRetry => S = {}
        /\ \/ Wait(n, c, responses, RetrySent(n, S))
           \/ PreparePhase(n, c, responses, RetrySent(n, S))
           \/ AcceptPhase(n, c, [agent[n] EXCEPT !.responses = responses], RetrySent(n, S))
  BY TickParts
<1>2. ASSUME NEW m \in RetrySent(n, S), m.type = "learn"
      PROVE  m.value \in Commands
  <2>1. CASE AcceptorsSendLearns
    BY <1>1, <1>2, <2>1 DEF RetrySent, Retold, Remote
  <2>2. CASE ~AcceptorsSendLearns
    <3>1. \/ \E s \in S : HasStatus(core[n], s, "CommitPending") /\ m \in ProposalLearns(n, core[n], s)
          \/ \E s \in S : HasStatus(core[n], s, "InFlight") /\ m \in ProposalAccepts(n, core[n], s)
      BY <1>2, <2>2 DEF RetrySent, Resent, Remote
    <3>2. PICK s \in S : HasStatus(core[n], s, "CommitPending") /\ m \in ProposalLearns(n, core[n], s)
      BY <1>2, <3>1 DEF ProposalAccepts, AcceptMsg
    <3>3. core[n].proposals[s] \in Entry
      BY <3>2 DEF HasStatus, TypeOK, ProposerTypeOK, CoreState
    <3> QED
      BY <3>2, <3>3 DEF ProposalLearns, LearnMsg, Entry
  <2> QED
    BY <2>1, <2>2
<1>3. CASE Wait(n, c, responses, RetrySent(n, S))
  BY <1>2, <1>3 DEF Wait, Send
<1>4. CASE PreparePhase(n, c, responses, RetrySent(n, S))
  <2>1. UNCHANGED <<slotLearns, learned>>
    BY <1>4 DEF PreparePhase
  <2> DEFINE slot == learnerAdu'[LearnerOf(n)] + 1
             sent == RetrySent(n, S)
  <2>2. \/ Send(sent)
        \/ Send(sent \cup Remote(n, {PrepareMsg(n, b, slot, c.ballot) : b \in Acceptors}))
    BY <1>4 DEF PreparePhase
  <2> HIDE DEF slot
  <2>3. \A m \in network' \ network : m \in RetrySent(n, S) \/ m.type = "prepare"
    BY <2>2 DEF Send, Remote, PrepareMsg
  <2> QED
    BY <1>2, <2>1, <2>3
<1>5. CASE AcceptPhase(n, c, [agent[n] EXCEPT !.responses = responses], RetrySent(n, S))
  <2>1. c.currentSlot = core[n].currentSlot
    BY <1>1 DEF OnlyEnds
  <2>2. PICK d \in CoreState, U \in SUBSET Slots :
          /\ \A s \in U : d.proposals[s] \in Entry
          /\ slotLearns' = [slotLearns EXCEPT ![LearnerOf(n)] = OwnVotes(n, d, U)]
          /\ learned' = learned \/ learned' = [learned EXCEPT ![LearnerOf(n)] = OwnLearned(n, d, U)]
          /\ \A m \in network' \ network : m \in RetrySent(n, S) \/ (m.type = "learn" => m.value \in Commands)
    BY <1>5, <2>1, AcceptPhaseLearns
  <2>3. \A m \in network' \ network : m.type = "learn" => m.value \in Commands
    BY <1>2, <2>2
  <2> QED
    BY <2>2, <2>3
<1> QED
  BY <1>1, <1>3, <1>4, <1>5

\* What a learn is filed and learned as is no no-op: a majority that agrees on a
\* value has a member, and a proposer is believed (learner.rs, check_quorum).
LEMMA LearnableNoOpFree ==
  ASSUME NEW votes, \A a \in Acceptors : votes[a] # NoOp, NEW w \in Commands, NEW v \in Learnable(votes, w)
  PROVE  v # NoOp
<1>1. CASE AcceptorsSendLearns /\ v = NoOp
  <2>1. Votes(votes, NoOp) = {}
    BY DEF Votes
  <2>2. ~IsQuorum({})
    BY FS_EmptySet, FS_CardinalityType, AcceptorsAssumption DEF IsQuorum, QuorumSize
  <2> QED
    BY <1>1, <2>1, <2>2 DEF Learnable
<1>2. CASE ~AcceptorsSendLearns
  BY <1>2, ValuesAssumption DEF Learnable
<1> QED
  BY <1>1, <1>2

\* No step makes a no-op up, when acceptors are not asked again for what they miss
\* (acceptor-agent.rs, retry_learns).
LEMMA NodesStayNoOpFree ==
  ASSUME AcceptorsSendLearns => ~LearnersRetry, TypeOK, NodesNoOpFree, [CoordinatorNext]_coordinatorVars
  PROVE  NodesNoOpFree'
<1>1. CASE /\ UNCHANGED <<slotLearns, learned>>
           /\ \A m \in network' \ network : m.type = "learn" => m.value \in Commands
  BY <1>1 DEF NodesNoOpFree
<1>2. ASSUME NEW n \in Proposers, OnLearn(n)
      PROVE  NodesNoOpFree'
  <2> DEFINE l == LearnerOf(n)
             votes(m) == IF AcceptorsSendLearns THEN [slotLearns[l][m.slot] EXCEPT ![m.from] = m.value]
                                                ELSE slotLearns[l][m.slot]
  <2>1. PICK m \in Inbox(l, "learn") :
          /\ m \in Learns /\ m \in network
          /\ slotLearns' = [slotLearns EXCEPT ![l][m.slot] = votes(m)]
          /\ \/ UNCHANGED <<learned, learnerAdu, history, execBuffer>>
             \/ \E v \in Learnable(votes(m), m.value) :
                  OnLearnStep(l, [learned[l] EXCEPT ![m.slot] = v],
                              Contiguous([learned[l] EXCEPT ![m.slot] = v], learnerAdu[l]))
          /\ Reply(m, {})
    BY <1>2, OnLearnCases
  <2>2. /\ l \in Learners /\ m.slot \in Slots /\ m.value \in Commands
        /\ slotLearns \in [Learners -> [Slots -> [Acceptors -> Values \cup {None}]]]
        /\ learned \in [Learners -> [Slots -> Values \cup {None}]]
    BY <2>1, OwnComponents DEF Learns, TypeOK, LearnerTypeOK, NodesNoOpFree
  <2>3. \A a \in Acceptors : votes(m)[a] # NoOp
    <3> DEFINE old == slotLearns[l][m.slot]
    <3>1. old \in [Acceptors -> Values \cup {None}] /\ \A a \in Acceptors : old[a] # NoOp
      BY <2>2 DEF NodesNoOpFree
    <3> HIDE DEF old
    <3>2. \A a \in Acceptors : [old EXCEPT ![m.from] = m.value][a] # NoOp
      BY <2>2, <3>1, ValuesAssumption
    <3> QED
      BY <3>1, <3>2 DEF old
  <2> HIDE DEF votes, l
  <2>4. \A k \in Learners, s \in Slots, a \in Acceptors : slotLearns'[k][s][a] # NoOp
    BY <2>1, <2>2, <2>3 DEF NodesNoOpFree
  <2>5. \A v \in Learnable(votes(m), m.value) : v # NoOp
    BY <2>2, <2>3, LearnableNoOpFree
  <2>6. learned' = learned \/ \E v \in Learnable(votes(m), m.value) :
                                learned' = [learned EXCEPT ![l] = [learned[l] EXCEPT ![m.slot] = v]]
    BY <2>1 DEF OnLearnStep
  <2>7. \A k \in Learners, s \in Slots : learned'[k][s] # NoOp
    BY <2>2, <2>5, <2>6 DEF NodesNoOpFree
  <2> QED
    BY <2>1, <2>4, <2>7 DEF Reply, NodesNoOpFree
<1>3. ASSUME NEW n \in Proposers, Tick(n)
      PROVE  NodesNoOpFree'
  <2>1. ASSUME NEW d \in CoreState, NEW U \in SUBSET Slots, \A s \in U : d.proposals[s] \in Entry,
               slotLearns' = [slotLearns EXCEPT ![LearnerOf(n)] = OwnVotes(n, d, U)],
               learned' = learned \/ learned' = [learned EXCEPT ![LearnerOf(n)] = OwnLearned(n, d, U)]
        PROVE  \A k \in Learners, s \in Slots : /\ \A a \in Acceptors : slotLearns'[k][s][a] # NoOp
                                                /\ learned'[k][s] # NoOp
    <3> DEFINE l     == LearnerOf(n)
               votes == OwnVotes(n, d, U)
    <3>1. /\ l \in Learners
          /\ slotLearns \in [Learners -> [Slots -> [Acceptors -> Values \cup {None}]]]
          /\ learned \in [Learners -> [Slots -> Values \cup {None}]]
      BY OwnComponents DEF TypeOK, LearnerTypeOK
    <3>2. \A s \in U : d.proposals[s].value \in Commands
      BY <2>1 DEF Entry
    <3>3. \A s \in Slots, a \in Acceptors : votes[s][a] # NoOp
      <4> SUFFICES ASSUME NEW s \in Slots, NEW a \in Acceptors PROVE votes[s][a] # NoOp
        OBVIOUS
      <4>1. \/ votes[s] = slotLearns[l][s]
            \/ s \in U /\ votes[s] = [slotLearns[l][s] EXCEPT ![AcceptorOf(n)] = d.proposals[s].value]
        BY DEF OwnVotes
      <4>2. slotLearns[l][s] \in [Acceptors -> Values \cup {None}] /\ slotLearns[l][s][a] # NoOp
        BY <3>1 DEF NodesNoOpFree
      <4> HIDE DEF votes, l
      <4> QED
        BY <3>2, <4>1, <4>2, ValuesAssumption
    <3>4. \A s \in Slots : OwnLearned(n, d, U)[s] # NoOp
      <4> SUFFICES ASSUME NEW s \in Slots PROVE OwnLearned(n, d, U)[s] # NoOp
        OBVIOUS
      <4>1. \/ OwnLearned(n, d, U)[s] = learned[l][s]
            \/ s \in U /\ OwnLearned(n, d, U)[s] \in Learnable(votes[s], d.proposals[s].value)
        BY DEF OwnLearned
      <4>2. learned[l][s] # NoOp
        BY <3>1 DEF NodesNoOpFree
      <4> QED
        BY <3>2, <3>3, <4>1, <4>2, LearnableNoOpFree
    <3> HIDE DEF votes, l
    <3>5. /\ slotLearns' = [slotLearns EXCEPT ![l] = votes]
          /\ learned' = learned \/ learned' = [learned EXCEPT ![l] = OwnLearned(n, d, U)]
      BY <2>1 DEF votes, l
    <3> QED
      BY <3>1, <3>3, <3>4, <3>5 DEF NodesNoOpFree
  <2> QED
    BY <1>1, <1>3, <2>1, TickNoOpFree DEF NodesNoOpFree
<1>4. ASSUME NEW n \in Proposers, HandleMessage(n), ~OnLearn(n)
      PROVE  NodesNoOpFree'
  <2>1. UNCHANGED <<slotLearns, learned>>
    BY <1>4 DEF HandleMessage, OnPromise, OnAccepted, OnPrepare, OnAccept, learnerVars
  <2>2. \A m \in network' \ network : m.type = "learn" => m.value \in Commands
    <3>1. CASE OnPromise(n) \/ OnAccepted(n)
      BY <3>1 DEF OnPromise, HandlePromise, OnAccepted, HandleAccepted, Reply
    <3>2. CASE OnPrepare(n)
      BY <3>2 DEF OnPrepare, HandlePrepare, Promise, RejectPrepare, Reply, PromiseMsg
    <3>3. CASE OnAccept(n)
      <4>1. PICK m \in Inbox(AcceptorOf(n), "accept") :
              \E S \in {{}, Remote(n, Announce(AcceptorOf(n), m))} : Reply(m, S)
        BY <3>3 DEF OnAccept
      <4>2. m \in Accepts
        BY OwnComponents, InboxTypes DEF TypeOK
      <4>3. \A r \in Announce(AcceptorOf(n), m) : r.type = "learn" => r.value \in Commands
        BY <4>2 DEF Announce, LearnMsg, AcceptedMsg, Accepts
      <4> QED
        BY <4>1, <4>3 DEF Reply, Remote
    <3> QED
      BY <1>4, <3>1, <3>2, <3>3 DEF HandleMessage
  <2> QED
    BY <1>1, <2>1, <2>2
<1>5. ASSUME NEW n \in Proposers, SubmitClientRequest(n) \/ FailureService(n),
             UNCHANGED <<acceptorVars, learnerVars>>
      PROVE  NodesNoOpFree'
  BY <1>1, <1>5 DEF SubmitClientRequest, FailureService, BecomeLeader, ResignLeader, learnerVars
<1>6. CASE UNCHANGED coordinatorVars
  BY <1>1, <1>6 DEF coordinatorVars, nodeVars, learnerVars
<1> QED
  BY <1>2, <1>3, <1>4, <1>5, <1>6 DEF CoordinatorNext

\* The nodes of the collocated deployment apply the same log, through changes of
\* leader and panics, with proposers sending learns, or with acceptors sending them
\* and no learner asking again (coordinator.rs, handle_message and handle_tick).
THEOREM NodesApplyTheSame ==
  ASSUME AcceptorsSendLearns => ~LearnersRetry
  PROVE  CoordinatorSpec => []NodesAgree
<1>1. CoordinatorInit => NodesNoOpFree
  BY ValuesAssumption DEF CoordinatorInit, LearnerInit, NodesNoOpFree
<1>2. TypeOK /\ NodesNoOpFree /\ [CoordinatorNext]_coordinatorVars => NodesNoOpFree'
  BY NodesStayNoOpFree
<1>3. CoordinatorInit => HistoryIsLog
  BY NodeHistoryInit
<1>4. TypeOK /\ HistoryIsLog /\ [CoordinatorNext]_coordinatorVars => HistoryIsLog'
  BY NodeHistoryStep
<1>5. TypeOK /\ NodesNoOpFree /\ HistoryIsLog /\ CommandsAgree => NodesAgree
  <2> SUFFICES ASSUME TypeOK, NodesNoOpFree, HistoryIsLog, CommandsAgree,
                      NEW k \in Learners, NEW i \in DOMAIN history[k]
               PROVE  history[k][i] \in Commands
    BY DEF NodesAgree, CommandsAgree
  <2>1. /\ learnerAdu[k] \in 0 .. MaxSlot /\ MaxSlot \in Nat
        /\ history[k] \in Seq(Values) /\ Len(history[k]) = learnerAdu[k]
    BY BoundsAssumption DEF TypeOK, LearnerTypeOK, HistoryIsLog, Applied
  <2>2. i \in 1 .. learnerAdu[k] /\ i \in Slots /\ history[k][i] \in Values
    BY <2>1, LenProperties DEF Slots
  <2>3. history[k][i] = learned[k][i]
    BY <2>2 DEF HistoryIsLog, Applied
  <2> QED
    BY <2>2, <2>3 DEF NodesNoOpFree, Values
<1> QED
  BY <1>1, <1>2, <1>3, <1>4, <1>5, CoordinatorTypeCorrect, NodesApplyTheLog, PTL DEF CoordinatorSpec
=============================================================================
