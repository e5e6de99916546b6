----------------------------- MODULE LogProofs ------------------------------
(***************************************************************************)
(* The log, the promises and phase 2, for any number of nodes, slots and   *)
(* ballots: the acceptors implement the abstract log; what a ballot and a  *)
(* promise are worth; what learners learn, told by the acceptors or by the *)
(* proposers; and what the clients are answered; with crashes of proposers *)
(* and changes of the leader, and with messages lost, late or reordered.   *)
(***************************************************************************)
EXTENDS TypeProofs

\* Any two majorities of the acceptors have a member in common
\* (proposer.rs, quorum).
LEMMA QuorumsMeet ==
  ASSUME NEW P \in SUBSET Acceptors, NEW Q \in SUBSET Acceptors, IsQuorum(P), IsQuorum(Q)
  PROVE  P \cap Q # {}
<1>1. IsFiniteSet(P) /\ IsFiniteSet(Q) /\ IsFiniteSet(Acceptors)
  BY FS_Subset, AcceptorsAssumption
<1>2. Cardinality(P) \in Nat /\ Cardinality(Q) \in Nat /\ Cardinality(Acceptors) \in Nat
  BY <1>1, FS_CardinalityType
<1>3. Cardinality(P) + Cardinality(Q) > Cardinality(Acceptors)
  BY <1>2 DEF IsQuorum, QuorumSize
<1> QED
  BY <1>1, <1>3, FS_MajoritiesIntersect

\* A set of acceptors that includes a majority is one.
LEMMA QuorumsGrow ==
  ASSUME NEW P \in SUBSET Acceptors, NEW Q \in SUBSET P, IsQuorum(Q)
  PROVE  IsQuorum(P)
<1>1. IsFiniteSet(P) /\ IsFiniteSet(Acceptors)
  BY FS_Subset, AcceptorsAssumption
<1>2. Cardinality(Q) <= Cardinality(P) /\ IsFiniteSet(Q)
  BY <1>1, FS_Subset
<1>3. Cardinality(P) \in Nat /\ Cardinality(Q) \in Nat /\ Cardinality(Acceptors) \in Nat
  BY <1>1, <1>2, FS_CardinalityType
<1> QED
  BY <1>2, <1>3 DEF IsQuorum, QuorumSize

\* A slot never has two chosen values: an acceptor holds one value per slot.
LEMMA ChosenIsUnique == ChosenUnique
<1> SUFFICES ASSUME NEW s \in Slots, NEW v \in Chosen(s), NEW w \in Chosen(s)
             PROVE  v = w
  BY DEF ChosenUnique
<1>1. VotedFor(s, v) \cap VotedFor(s, w) # {}
  BY QuorumsMeet DEF Chosen, VotedFor
<1> QED
  BY <1>1 DEF VotedFor

----------------------------------------------------------------------------
(* What a step does to accepted. *)

\* accepted is indexed by acceptors and slots; nothing else about its type
\* matters here.
AcceptedShape == accepted = [a \in Acceptors |-> [s \in Slots |-> accepted[a][s]]]

\* Only an acceptor that accepts a value for an empty slot changes accepted
\* (acceptor.rs, accept).
LEMMA OnlyAcceptNewWrites ==
  ASSUME [Next]_vars, accepted' # accepted
  PROVE  \E a \in Acceptors, m \in network : AcceptNew(a, m)
<1>1. accepted' = accepted \/ AcceptorNext
  BY DEF Next, vars, acceptorVars, LearnerNext, ProposerNext, RoleNext, RestartNext
<1>2. PICK a \in Acceptors : AcceptorStep(a)
  BY <1>1 DEF AcceptorNext
<1>3. HandlePrepare(a) => accepted' = accepted
  BY DEF HandlePrepare, Promise, RejectPrepare, acceptorVars
<1>4. HandleRetryLearns(a) => accepted' = accepted
  BY DEF HandleRetryLearns, acceptorVars
<1>5. HandleAccept(a)
  BY <1>2, <1>3, <1>4 DEF AcceptorStep
<1> QED
  BY <1>5 DEF HandleAccept, AcceptAgain, RejectAccept, acceptorVars, Inbox

\* The acceptors' logs keep their slots (acceptor.rs, accept).
LEMMA ShapeInvariant == Spec => []AcceptedShape
<1>1. Init => AcceptedShape
  BY DEF Init, AcceptorInit, AcceptedShape
<1>2. AcceptedShape /\ [Next]_vars => AcceptedShape'
  <2> SUFFICES ASSUME AcceptedShape, [Next]_vars, accepted' # accepted
               PROVE  AcceptedShape'
    BY DEF AcceptedShape
  <2>1. PICK a \in Acceptors, m \in network : AcceptNew(a, m)
    BY OnlyAcceptNewWrites
  <2> QED
    BY <2>1 DEF AcceptNew, AcceptedShape
<1> QED
  BY <1>1, <1>2, PTL DEF Spec

\* A vote is never withdrawn, and one step adds votes in one slot at most.
LEMMA VotesGrow ==
  ASSUME AcceptedShape, [Next]_vars, accepted' # accepted
  PROVE  \E t \in Slots : /\ \A v \in Commands : VotedFor(t, v) \subseteq VotedFor(t, v)'
                          /\ \A s \in Slots \ {t} : Chosen(s)' = Chosen(s)
<1>1. PICK a \in Acceptors, m \in network : AcceptNew(a, m)
  BY OnlyAcceptNewWrites
<1>2. m.slot \in Slots
  BY <1>1 DEF AcceptNew, AcceptedShape
<1>3. \A v \in Commands : VotedFor(m.slot, v) \subseteq VotedFor(m.slot, v)'
  BY <1>1, <1>2 DEF AcceptNew, AcceptedShape, VotedFor
<1>4. ASSUME NEW s \in Slots \ {m.slot}
      PROVE  Chosen(s)' = Chosen(s)
  <2>1. \A b \in Acceptors : accepted'[b][s] = accepted[b][s]
    BY <1>1, <1>2 DEF AcceptNew, AcceptedShape
  <2> QED
    BY <2>1 DEF Chosen, VotedFor
<1> QED
  BY <1>2, <1>3, <1>4

----------------------------------------------------------------------------
(* Refinement. *)

\* No value is chosen at the start.
LEMMA LogInit == Init => Log!Init
<1> SUFFICES ASSUME Init, NEW s \in Slots PROVE Chosen(s) = {}
  BY DEF Log!Init, Decided, ValueOf
<1>1. \A v \in Commands : VotedFor(s, v) = {}
  BY DEF Init, AcceptorInit, VotedFor
<1>2. ~IsQuorum({})
  BY FS_EmptySet, FS_CardinalityType, AcceptorsAssumption DEF IsQuorum, QuorumSize
<1> QED
  BY <1>1, <1>2 DEF Chosen

\* A step decides one slot of the abstract log, or leaves it alone.
LEMMA LogStep == AcceptedShape /\ AcceptedShape' /\ [Next]_vars => [Log!Next]_Decided
<1> SUFFICES ASSUME AcceptedShape, [Next]_vars, Decided' # Decided
             PROVE  Log!Next
  OBVIOUS
<1>1. accepted' # accepted
  <2> SUFFICES ASSUME accepted' = accepted, NEW s \in Slots PROVE Chosen(s)' = Chosen(s)
    BY DEF Decided
  <2> QED
    BY DEF Chosen, VotedFor
<1>2. PICK t \in Slots : /\ \A v \in Commands : VotedFor(t, v) \subseteq VotedFor(t, v)'
                         /\ \A s \in Slots \ {t} : Chosen(s)' = Chosen(s)
  BY <1>1, VotesGrow
<1>3. \A s \in Slots \ {t} : Decided'[s] = Decided[s]
  BY <1>2 DEF Decided
<1>4. Chosen(t) \subseteq Chosen(t)'
  <2> SUFFICES ASSUME NEW v \in Chosen(t) PROVE IsQuorum(VotedFor(t, v)')
    BY DEF Chosen
  <2>1. VotedFor(t, v)' \in SUBSET Acceptors
    BY DEF VotedFor
  <2> QED
    BY <1>2, <2>1, QuorumsGrow DEF Chosen
<1>5. Decided = [s \in Slots |-> Decided[s]] /\ Decided' = [s \in Slots |-> Decided'[s]]
  BY DEF Decided
<1>6. Decided'[t] # Decided[t]
  BY <1>3, <1>5
<1>7. ChosenUnique'
  BY ChosenIsUnique, PTL
<1>8. Chosen(t) = {} /\ Chosen(t)' # {}
  BY <1>4, <1>6, <1>7 DEF ChosenUnique, Decided, ValueOf
<1>9. Decided[t] = None /\ Decided'[t] \in Commands
  BY <1>8 DEF Decided, ValueOf, Chosen
<1> QED
  BY <1>3, <1>5, <1>9 DEF Log!Next, Log!Decide

\* Every behaviour of the deployment is one of the abstract log: a value that a
\* majority of the acceptors has accepted stays the only one of its slot.
THEOREM AcceptorsImplementLog == Spec => ImplementsLog
<1>1. Spec => []AcceptedShape
  BY ShapeInvariant
<1> QED
  BY <1>1, LogInit, LogStep, PTL DEF Spec, ImplementsLog, Log!Spec

----------------------------------------------------------------------------
(* The learners, when the acceptors send the learns. *)

\* A learn an acceptor has sent, and one a learner has filed, names a command
\* only if the acceptor has accepted it in that slot.
LearnsTruthful == \A m \in network :
  m.type = "learn" /\ m.from \in Acceptors /\ m.value \in Commands
    => m.from \in VotedFor(m.slot, m.value)
VotesTruthful == \A l \in Learners, s \in Slots, a \in Acceptors :
  slotLearns[l][s][a] \in Commands => a \in VotedFor(s, slotLearns[l][s][a])

\* Votes are never withdrawn, so what is chosen stays chosen.
LEMMA VotesStay ==
  ASSUME TypeOK, [Next]_vars, NEW s \in Slots, NEW v \in Commands
  PROVE  VotedFor(s, v) \subseteq VotedFor(s, v)'
<1>1. CASE accepted' = accepted
  BY <1>1 DEF VotedFor
<1>2. CASE accepted' # accepted
  <2>1. PICK a \in Acceptors, m \in network : AcceptNew(a, m)
    BY <1>2, OnlyAcceptNewWrites
  <2> QED
    BY <2>1 DEF AcceptNew, VotedFor, TypeOK, AcceptorTypeOK, AcceptedMap
<1> QED
  BY <1>1, <1>2

\* A value once chosen stays chosen (acceptor.rs, accept).
LEMMA ChosenStays ==
  ASSUME TypeOK, [Next]_vars, NEW s \in Slots
  PROVE  Chosen(s) \subseteq Chosen(s)'
<1> SUFFICES ASSUME NEW v \in Commands, IsQuorum(VotedFor(s, v))
             PROVE  IsQuorum(VotedFor(s, v)')
  BY DEF Chosen
<1>1. VotedFor(s, v) \subseteq VotedFor(s, v)' /\ VotedFor(s, v)' \in SUBSET Acceptors
  BY VotesStay DEF VotedFor
<1> QED
  BY <1>1, QuorumsGrow

----------------------------------------------------------------------------
(* Who sends learns. *)

\* An acceptor announces what it has just accepted, or has accepted before.
LEMMA AcceptorLearns ==
  ASSUME TypeOK, NEW a \in Acceptors, AcceptorStep(a), NEW m \in network' \ network,
         m.type = "learn", m.value \in Commands
  PROVE  m.from \in VotedFor(m.slot, m.value)'
<1>1. CASE HandlePrepare(a)
  <2>1. m.type # "learn"
    BY <1>1 DEF HandlePrepare, Promise, RejectPrepare, Reply, PromiseMsg
  <2> QED
    BY <2>1
<1>2. CASE HandleAccept(a)
  <2>1. PICK r \in Inbox(a, "accept") : AcceptNew(a, r) \/ AcceptAgain(a, r) \/ RejectAccept(a, r)
    BY <1>2 DEF HandleAccept
  <2>2. r \in Accepts
    BY InboxTypes DEF TypeOK
  <2>3. m \in Announce(a, r) /\ (AcceptNew(a, r) \/ AcceptAgain(a, r))
    BY <2>1 DEF AcceptNew, AcceptAgain, RejectAccept, Reply
  <2>4. m.from = a /\ m.slot = r.slot /\ m.value = r.value
    BY <2>3 DEF Announce, LearnMsg, AcceptedMsg
  <2>5. r.slot \in Slots /\ accepted'[a][r.slot] # None /\ accepted'[a][r.slot].value = r.value
    <3>1. r.slot \in Slots /\ accepted[a] \in AcceptedMap
      BY <2>2 DEF Accepts, TypeOK, AcceptorTypeOK
    <3>2. CASE AcceptNew(a, r)
      <4>1. accepted'[a][r.slot] = [ballot |-> r.ballot, value |-> r.value]
        BY <3>1, <3>2 DEF AcceptNew, TypeOK, AcceptorTypeOK, AcceptedMap
      <4>2. accepted'[a][r.slot] # None
        BY <2>2, <4>1, NoneAssumption DEF Accepts, PValue
      <4> QED
        BY <3>1, <4>1, <4>2
    <3>3. CASE AcceptAgain(a, r)
      BY <3>1, <3>3 DEF AcceptAgain, acceptorVars
    <3> QED
      BY <2>3, <3>2, <3>3
  <2> QED
    BY <2>4, <2>5 DEF VotedFor
<1>3. CASE HandleRetryLearns(a)
  <2>1. PICK r \in Inbox(a, "retry-learns") :
          /\ Reply(r, {LearnMsg(a, l, s, RetryValue(a, s)) : s \in r.slots, l \in Learners})
          /\ UNCHANGED acceptorVars
    BY <1>3 DEF HandleRetryLearns
  <2>2. PICK s \in r.slots, l \in Learners : m = LearnMsg(a, l, s, RetryValue(a, s))
    BY <2>1 DEF Reply
  <2>3. m.from = a /\ m.slot = s /\ m.value = RetryValue(a, s)
    BY <2>2 DEF LearnMsg
  <2> QED
    BY <2>1, <2>3, ValuesAssumption DEF RetryValue, VotedFor, acceptorVars
<1> QED
  BY <1>1, <1>2, <1>3 DEF AcceptorStep

\* Executing and dispatching puts nothing but results on the network
\* (learner-agent.rs, dispatch_executed).
LEMMA DispatchLearns ==
  ASSUME NEW l, NEW map, NEW r, NEW S, NEW full, ExecuteAndDispatch(l, map, r, S, full),
         NEW m \in network' \ network
  PROVE  m \in S \/ m.type = "executed"
<1> DEFINE adu  == Contiguous(map, learnerAdu[l])
           new  == Results(map, learnerAdu[l] + 1, adu)
           buf  == execBuffer[l] \o new
           k    == IF LearnersSendExecuted THEN DispatchSize(Len(buf), full) ELSE 0
           sent == SubSeq(buf, 1, k)
<1>1. Reply(r, S \cup IF sent = <<>> THEN {} ELSE {ExecutedMsg(l, p, sent, adu) : p \in Proposers})
  BY DEF ExecuteAndDispatch
<1> HIDE DEF adu, sent
<1>2. m \in S \/ \E p \in Proposers : m = ExecutedMsg(l, p, sent, adu)
  BY <1>1 DEF Reply
<1> QED
  BY <1>2 DEF ExecutedMsg

\* A learner sends none, and a proposer sends them in its own name.
LEMMA LearnerLearns ==
  ASSUME NEW l \in Learners, LearnerStep(l), NEW m \in network' \ network
  PROVE  m.type # "learn"
<1>1. CASE HandleLearn(l)
  <2>1. \/ \E r, map : ExecuteAndDispatch(l, map, r, {}, TRUE)
        \/ \E r : Reply(r, {})
    BY <1>1 DEF HandleLearn
  <2> QED
    <3>1. CASE \E r, map : ExecuteAndDispatch(l, map, r, {}, TRUE)
      <4>1. PICK r, map : ExecuteAndDispatch(l, map, r, {}, TRUE)
        BY <3>1
      <4>2. \A S : S = {} /\ ExecuteAndDispatch(l, map, r, S, TRUE) => m \in S \/ m.type = "executed"
        BY DispatchLearns
      <4> QED
        BY <4>1, <4>2
    <3>2. CASE \E r : Reply(r, {})
      BY <3>2 DEF Reply
    <3> QED
      BY <2>1, <3>1, <3>2
<1>2. CASE LearnerTick(l)
  <2>1. PICK S : \/ ExecuteAndDispatch(l, learned[l], None,
                      IF S = {} THEN {} ELSE {RetryLearnsMsg(l, n, S) : n \in RetryTargets}, FALSE)
                 \/ Send(IF S = {} THEN {} ELSE {RetryLearnsMsg(l, n, S) : n \in RetryTargets})
    BY <1>2 DEF LearnerTick
  <2> DEFINE retries == IF S = {} THEN {} ELSE {RetryLearnsMsg(l, n, S) : n \in RetryTargets}
  <2>2. \A n \in retries : n.type = "retry-learns"
    BY DEF RetryLearnsMsg
  <2> HIDE DEF retries
  <2>3. CASE ExecuteAndDispatch(l, learned[l], None, retries, FALSE)
    <3>1. m \in retries \/ m.type = "executed"
      BY <2>3, DispatchLearns
    <3> QED
      BY <2>2, <3>1
  <2>4. CASE Send(retries)
    BY <2>2, <2>4 DEF Send
  <2> QED
    BY <2>1, <2>3, <2>4 DEF retries
<1>3. CASE HandleAduRequest(l)
  BY <1>3 DEF HandleAduRequest, Reply, AduMsg
<1> QED
  BY <1>1, <1>2, <1>3 DEF LearnerStep

\* A learn a proposer sends has its own id (proposer-agent.rs, broadcast_learn).
LEMMA ProposerLearns ==
  ASSUME NEW p \in Proposers, NEW m \in network' \ network,
         ProposerStep(p) \/ Leadership(p) \/ RestartProposer(p)
  PROVE  m.type # "learn" \/ m.from = p
<1>1. \A c, s : (\A n \in ProposalAccepts(p, c, s) : n.from = p)
             /\ (\A n \in ProposalLearns(p, c, s) : n.from = p)
  BY DEF ProposalAccepts, ProposalLearns, AcceptMsg, LearnMsg
<1>2. CASE AcceptCommit(p)
  <2> DEFINE c1 == CreateProposals(core[p])
             c2 == CommitChosen(c1)
  <2>1. Send((UNION {ProposalAccepts(p, c1, s) : s \in core[p].currentSlot + 1 .. c1.currentSlot})
             \cup (UNION {ProposalLearns(p, c2, s) : s \in Committing(c1)}))
    BY <1>2 DEF AcceptCommit
  <2>2. \/ \E s : m \in ProposalAccepts(p, c1, s)
        \/ \E s : m \in ProposalLearns(p, c2, s)
    <3> HIDE DEF c1, c2
    <3> QED
      BY <2>1 DEF Send
  <2> QED
    BY <1>1, <2>2
<1>3. CASE HandleRetryLearn(p)
  <2>1. PICK r \in Inbox(p, "retry-learns") :
          Reply(r, IF core[p].isLeader
            THEN (UNION {ProposalLearns(p, core[p], s) :
                           s \in {t \in r.slots : HasStatus(core[p], t, "CommitPending")}})
                 \cup (UNION {ProposalAccepts(p, core[p], s) :
                           s \in {t \in r.slots : HasStatus(core[p], t, "InFlight")}})
            ELSE {})
    BY <1>3 DEF HandleRetryLearn
  <2>2. \/ \E s : m \in ProposalAccepts(p, core[p], s)
        \/ \E s : m \in ProposalLearns(p, core[p], s)
    BY <2>1 DEF Reply
  <2> QED
    BY <1>1, <2>2
<1>4. CASE RequestAdu(p) \/ SendPrepare(p)
  <2>1. CASE RequestAdu(p)
    BY <2>1 DEF RequestAdu, Send, AduMsg
  <2>2. CASE SendPrepare(p)
    <3>1. PICK slot, b : Send({PrepareMsg(p, a, slot, b) : a \in Acceptors})
      BY <2>2 DEF SendPrepare
    <3> QED
      BY <3>1 DEF Send, PrepareMsg
  <2> QED
    BY <1>4, <2>1, <2>2
<1>5. CASE HandlePromise(p) \/ HandleAccepted(p) \/ HandleExecuted(p) \/ HandleAdu(p)
  BY <1>5 DEF HandlePromise, HandleAccepted, HandleExecuted, HandleAdu, Reply
<1>6. CASE \/ StartLeaderLoop(p) \/ PrepareTimeout(p) \/ SubmitClientRequest(p)
           \/ Leadership(p) \/ RestartProposer(p)
  BY <1>6 DEF StartLeaderLoop, PrepareTimeout, SubmitClientRequest, Leadership,
              BecomeLeader, ResignLeader, RestartProposer
<1> QED
  BY <1>2, <1>3, <1>4, <1>5, <1>6 DEF ProposerStep, HandleProposerMessage, ProposerTick

\* The learns of the acceptors stay truthful.
LEMMA LearnsStayTruthful ==
  ASSUME TypeOK, TypeOK', LearnsTruthful, [Next]_vars
  PROVE  LearnsTruthful'
<1> SUFFICES ASSUME NEW m \in network', m.type = "learn", m.from \in Acceptors, m.value \in Commands
             PROVE  m.from \in VotedFor(m.slot, m.value)'
  BY DEF LearnsTruthful
<1>1. CASE m \in network
  <2>1. m.slot \in Slots
    BY <1>1 DEF TypeOK, Messages, Prepares, Promises, Accepts, Accepteds, Learns,
                Retries, Executeds, Adus
  <2>2. m.from \in VotedFor(m.slot, m.value)
    BY <1>1 DEF LearnsTruthful
  <2> QED
    BY <2>1, <2>2, VotesStay
<1>2. CASE m \notin network
  <2>1. CASE AcceptorNext
    BY <1>2, <2>1, AcceptorLearns DEF AcceptorNext
  <2>2. CASE LearnerNext
    BY <1>2, <2>2, LearnerLearns DEF LearnerNext
  <2>3. CASE ProposerNext \/ RoleNext \/ RestartNext
    <3>1. PICK p \in Proposers : ProposerStep(p) \/ Leadership(p) \/ RestartProposer(p)
      BY <2>3, RolesAssumption DEF ProposerNext, RoleNext, RestartNext
    <3>2. m.from = p
      BY <1>2, <3>1, ProposerLearns
    <3> QED
      BY <3>2, DisjointAssumption
  <2>4. CASE UNCHANGED vars
    BY <1>2, <2>4 DEF vars
  <2> QED
    BY <2>1, <2>2, <2>3, <2>4 DEF Next
<1> QED
  BY <1>1, <1>2

----------------------------------------------------------------------------
(* What a learner does with them. *)

\* Only a learn changes what a learner has filed or learned.
LEMMA OnlyLearnWrites ==
  ASSUME [Next]_vars, ~(UNCHANGED <<slotLearns, learned>>)
  PROVE  \E l \in Learners : HandleLearn(l)
<1>1. PICK l \in Learners : LearnerStep(l)
  BY DEF Next, vars, learnerVars, AcceptorNext, LearnerNext, ProposerNext, RoleNext, RestartNext
<1>2. ~LearnerTick(l)
  BY DEF LearnerTick
<1>3. ~HandleAduRequest(l)
  BY DEF HandleAduRequest, learnerVars
<1> QED
  BY <1>1, <1>2, <1>3 DEF LearnerStep

\* The inductive step: a learn is filed truthfully, and a value is learned
\* only when a majority of truthful learns names it.
LEMMA LearnStep ==
  ASSUME AcceptorsSendLearns, TypeOK, LearnsTruthful, VotesTruthful, LearnedIsChosen, [Next]_vars
  PROVE  VotesTruthful' /\ LearnedIsChosen'
<1>1. CASE UNCHANGED <<slotLearns, learned>>
  <2>1. VotesTruthful'
    BY <1>1, VotesStay DEF VotesTruthful
  <2>2. LearnedIsChosen'
    BY <1>1, ChosenStays DEF LearnedIsChosen
  <2> QED
    BY <2>1, <2>2
<1>2. CASE ~(UNCHANGED <<slotLearns, learned>>)
  <2>1. PICK l \in Learners : HandleLearn(l)
    BY <1>2, OnlyLearnWrites
  <2>2. PICK m \in Inbox(l, "learn") :
          LET votes == [slotLearns[l][m.slot] EXCEPT ![m.from] = m.value]
          IN /\ slotLearns' = [slotLearns EXCEPT ![l][m.slot] = votes]
             /\ \/ UNCHANGED learned
                \/ \E v \in Learnable(votes, m.value) :
                     learned' = [learned EXCEPT ![l][m.slot] = v]
    BY <2>1 DEF HandleLearn
  <2> DEFINE votes == [slotLearns[l][m.slot] EXCEPT ![m.from] = m.value]
  <2>3. m \in Learns /\ m \in network
    BY InboxTypes DEF TypeOK, Inbox
  <2>4. m.slot \in Slots /\ m.type = "learn" /\ slotLearns[l][m.slot] \in [Acceptors -> Values \cup {None}]
    BY <2>3 DEF Learns, TypeOK, LearnerTypeOK
  <2>5. \A a \in Acceptors : votes[a] \in Commands => a \in VotedFor(m.slot, votes[a])
    BY <2>3, <2>4 DEF LearnsTruthful, VotesTruthful
  <2> HIDE DEF votes
  <2>6. \A k \in Learners, s \in Slots : slotLearns'[k][s] =
          IF k = l /\ s = m.slot THEN votes ELSE slotLearns[k][s]
    BY <2>2, <2>4 DEF votes, TypeOK, LearnerTypeOK
  <2>7. \A k \in Learners, s \in Slots, a \in Acceptors :
          slotLearns'[k][s][a] \in Commands => a \in VotedFor(s, slotLearns'[k][s][a])
    BY <2>5, <2>6 DEF VotesTruthful
  <2>8. VotesTruthful'
    BY <2>7, VotesStay DEF VotesTruthful
  <2>9. ASSUME NEW k \in Learners, NEW s \in Slots, learned'[k][s] \in Commands
        PROVE  learned'[k][s] \in Chosen(s)
    <3>1. CASE learned'[k][s] = learned[k][s]
      BY <2>9, <3>1 DEF LearnedIsChosen
    <3>2. CASE learned'[k][s] # learned[k][s]
      <4>1. PICK v \in Learnable(votes, m.value) : learned' = [learned EXCEPT ![l][m.slot] = v]
        BY <2>2, <3>2 DEF votes
      <4>2. s = m.slot /\ learned'[k][s] = v /\ v \in Commands
        BY <2>4, <2>9, <3>2, <4>1 DEF TypeOK, LearnerTypeOK
      <4>3. IsQuorum(Votes(votes, v))
        BY <4>1 DEF Learnable
      <4>4. Votes(votes, v) \in SUBSET VotedFor(s, v) /\ VotedFor(s, v) \in SUBSET Acceptors
        BY <2>5, <4>2 DEF Votes, VotedFor
      <4>5. IsQuorum(VotedFor(s, v))
        BY <4>3, <4>4, QuorumsGrow
      <4> QED
        BY <4>2, <4>5 DEF Chosen
    <3> QED
      BY <3>1, <3>2
  <2>10. LearnedIsChosen'
    BY <2>9, ChosenStays DEF LearnedIsChosen
  <2> QED
    BY <2>8, <2>10
<1> QED
  BY <1>1, <1>2

\* Nothing is learned at the start.
LEMMA LearnedInit == Init => LearnsTruthful /\ VotesTruthful /\ LearnedIsChosen
<1> SUFFICES ASSUME Init PROVE LearnsTruthful /\ VotesTruthful /\ LearnedIsChosen
  OBVIOUS
<1>1. LearnsTruthful
  BY DEF Init, LearnsTruthful
<1>2. VotesTruthful /\ LearnedIsChosen
  BY ValuesAssumption DEF Init, LearnerInit, VotesTruthful, LearnedIsChosen
<1> QED
  BY <1>1, <1>2

\* When the acceptors send the learns, a learner knows a command for a slot only
\* if a majority of the acceptors has accepted it there (learner.rs,
\* check_quorum): duplicated, late and reordered learns and the no-ops of the
\* retries never make it learn anything else.
THEOREM LearnersLearnChosen ==
  ASSUME AcceptorsSendLearns
  PROVE  Spec => []LearnedIsChosen
<1> DEFINE IInv == LearnsTruthful /\ VotesTruthful /\ LearnedIsChosen
<1>1. Init => IInv
  BY LearnedInit
<1>2. TypeOK /\ TypeOK' /\ IInv /\ [Next]_vars => IInv'
  BY LearnsStayTruthful, LearnStep
<1>3. Spec => []TypeOK
  BY TypeCorrect
<1>4. Spec => []IInv
  <2> HIDE DEF IInv
  <2> QED
    BY <1>1, <1>2, <1>3, PTL DEF Spec
<1> QED
  BY <1>4, PTL

----------------------------------------------------------------------------
(* The histories the learners apply. *)

\* A learner has applied what map holds in the slots up to its adu, in order.
Applied(l, map) == /\ Len(history[l]) = learnerAdu[l]
                   /\ \A i \in 1 .. learnerAdu[l] : history[l][i] = map[i] /\ map[i] # None
HistoryIsLog == \A l \in Learners : Applied(l, learned[l])

\* What map holds in the slots after old up to adu.
Executed(map, old, adu) == [i \in 1 .. adu - old |-> map[old + i]]

\* The results of an execution are one per slot, and tell what was in it
\* (learner-agent.rs, execute_chosen_learns).
LEMMA ExecutedTypes ==
  ASSUME NEW map \in [Slots -> Values \cup {None}], NEW old \in 0 .. MaxSlot,
         NEW adu, adu = Contiguous(map, old)
  PROVE  LET new == Results(map, old + 1, adu) IN
         /\ adu \in old .. MaxSlot /\ MaxSlot \in Nat
         /\ \A s \in old + 1 .. adu : map[s] \in Values
         /\ new \in Seq(Result)
         /\ [i \in DOMAIN new |-> new[i].value] = Executed(map, old, adu)
         /\ Executed(map, old, adu) \in Seq(Values)
         /\ Len(Executed(map, old, adu)) = adu - old
<1> DEFINE new == Results(map, old + 1, adu)
<1>1. /\ MaxSlot \in Nat /\ adu \in old .. MaxSlot
      /\ \A s \in old + 1 .. adu : map[s] \in Values
  BY ContiguousType, BoundsAssumption
<1>2. new = [i \in 1 .. adu - old |-> [slot |-> old + 1 + i - 1, value |-> map[old + 1 + i - 1]]]
  <2>1. adu - (old + 1) + 1 = adu - old
    BY <1>1
  <2> QED
    BY <2>1 DEF Results
<1> HIDE DEF new
<1>3. \A i \in 1 .. adu - old : /\ old + 1 + i - 1 = old + i
                                /\ map[old + i] \in Values /\ old + i \in Slots
  BY <1>1 DEF Slots
<1>4. adu - old \in Nat
  BY <1>1
<1>5. new \in Seq(Result)
  <2>1. new \in [1 .. adu - old -> Result]
    BY <1>2, <1>3 DEF Result
  <2> QED
    BY <1>4, <2>1, SeqDef
<1>6. [i \in DOMAIN new |-> new[i].value] = Executed(map, old, adu)
  <2>1. DOMAIN new = 1 .. adu - old
    BY <1>2
  <2>2. \A i \in 1 .. adu - old : new[i] = [slot |-> old + i, value |-> map[old + i]]
    BY <1>2, <1>3
  <2>3. ASSUME NEW i \in 1 .. adu - old
        PROVE  new[i].value = map[old + i]
    <3> DEFINE s == old + i
    <3>1. new[i] = [slot |-> s, value |-> map[s]]
      BY <2>2
    <3> HIDE DEF s
    <3>2. new[i].value = map[s]
      BY <3>1
    <3> QED
      BY <3>2 DEF s
  <2> QED
    BY <2>1, <2>3 DEF Executed
<1>7. Executed(map, old, adu) \in Seq(Values) /\ Len(Executed(map, old, adu)) = adu - old
  BY <1>3, <1>4, SeqDef, LenProperties DEF Executed
<1> QED
  BY <1>1, <1>5, <1>6, <1>7 DEF new

\* Executing appends the values of the contiguous slots after the adu, and
\* touches no other learner (learner-agent.rs, execute_chosen_learns).
LEMMA ExecuteApplies ==
  ASSUME LearnerTypeOK, NEW l \in Learners, NEW map \in [Slots -> Values \cup {None}],
         Applied(l, map), NEW adu, adu = Contiguous(map, learnerAdu[l]),
         learnerAdu' = [learnerAdu EXCEPT ![l] = adu],
         history' = [history EXCEPT ![l] = @ \o Executed(map, learnerAdu[l], adu)]
  PROVE  /\ Len(history'[l]) = learnerAdu'[l]
         /\ \A i \in 1 .. learnerAdu'[l] : history'[l][i] = map[i] /\ map[i] # None
         /\ learnerAdu'[l] >= learnerAdu[l]
         /\ \A k \in Learners \ {l} : learnerAdu'[k] = learnerAdu[k] /\ history'[k] = history[k]
<1> DEFINE old == learnerAdu[l]
           add == Executed(map, old, adu)
<1>1. learnerAdu' = [learnerAdu EXCEPT ![l] = adu] /\ history' = [history EXCEPT ![l] = @ \o add]
  OBVIOUS
<1>2. /\ MaxSlot \in Nat /\ old \in 0 .. MaxSlot /\ adu \in old .. MaxSlot
      /\ \A s \in old + 1 .. adu : map[s] \in Values
      /\ add \in Seq(Values) /\ Len(add) = adu - old
  BY ExecutedTypes DEF LearnerTypeOK
<1> HIDE DEF old
<1>3. add = [i \in 1 .. adu - old |-> map[old + i]]
  BY DEF Executed
<1> HIDE DEF add
<1>4. history[l] \in Seq(Values) /\ Len(history[l]) = old
  BY DEF LearnerTypeOK, Applied, old
<1>5. Len(history[l] \o add) = adu
      /\ \A i \in 1 .. adu : (history[l] \o add)[i] = IF i <= old THEN history[l][i] ELSE add[i - old]
  <2> DEFINE h == history[l]
  <2>1. h \in Seq(Values) /\ Len(h) = old
    BY <1>4
  <2> HIDE DEF h
  <2>2. /\ Len(h \o add) = Len(h) + Len(add)
        /\ \A i \in 1 .. Len(h) + Len(add) :
             (h \o add)[i] = IF i <= Len(h) THEN h[i] ELSE add[i - Len(h)]
    BY <1>2, <2>1, ConcatProperties
  <2>3. Len(h) + Len(add) = adu
    BY <1>2, <2>1
  <2>4. /\ Len(h \o add) = adu
        /\ \A i \in 1 .. adu : (h \o add)[i] = IF i <= old THEN h[i] ELSE add[i - old]
    BY <2>1, <2>2, <2>3
  <2> QED
    BY <2>4 DEF h
<1>6. history'[l] = history[l] \o add /\ learnerAdu'[l] = adu
  BY <1>1 DEF LearnerTypeOK
<1>7. ASSUME NEW i \in 1 .. adu
      PROVE  (history[l] \o add)[i] = map[i] /\ map[i] # None
  <2>1. CASE i <= old
    <3>1. i \in 1 .. learnerAdu[l]
      BY <1>2, <2>1 DEF old
    <3> QED
      BY <1>5, <2>1, <3>1 DEF Applied
  <2>2. CASE i > old
    <3>1. i - old \in 1 .. adu - old /\ old + (i - old) = i /\ i \in old + 1 .. adu
      BY <1>2, <2>2
    <3>2. add[i - old] = map[i]
      BY <1>3, <3>1
    <3>3. map[i] \in Values
      BY <1>2, <3>1
    <3>4. (history[l] \o add)[i] = add[i - old]
      BY <1>2, <1>5, <2>2
    <3>5. map[i] # None
      BY <3>3, ValuesAssumption DEF Values
    <3> QED
      BY <3>2, <3>4, <3>5
  <2>3. i <= old \/ i > old
    BY <1>2
  <2> QED
    BY <2>1, <2>2, <2>3
<1>8. \A k \in Learners \ {l} : learnerAdu'[k] = learnerAdu[k] /\ history'[k] = history[k]
  BY <1>1 DEF LearnerTypeOK
<1>9. learnerAdu'[l] >= learnerAdu[l]
  BY <1>2, <1>6 DEF old
<1> QED
  BY <1>5, <1>6, <1>7, <1>8, <1>9

\* A learner files a learn for one slot, and learns there only what was missing;
\* it applies what it holds and never un-applies (learner-agent.rs, record_learn).
LEMMA LearnApplies ==
  ASSUME TypeOK, HistoryIsLog, NEW l \in Learners, LearnerStep(l)
  PROVE  HistoryIsLog' /\ \A k \in Learners : learnerAdu'[k] >= learnerAdu[k]
<1>1. \A k \in Learners : learnerAdu[k] \in Int /\ learned[k] \in [Slots -> Values \cup {None}]
  BY DEF TypeOK, LearnerTypeOK
<1>2. CASE UNCHANGED <<learned, learnerAdu, history>>
  BY <1>1, <1>2 DEF HistoryIsLog, Applied
<1>3. ASSUME NEW map \in [Slots -> Values \cup {None}], NEW r, NEW S, NEW full,
             learned' = [learned EXCEPT ![l] = map], Applied(l, map),
             ExecuteAndDispatch(l, map, r, S, full)
      PROVE  HistoryIsLog' /\ \A k \in Learners : learnerAdu'[k] >= learnerAdu[k]
  <2>1. /\ Len(history'[l]) = learnerAdu'[l]
        /\ \A i \in 1 .. learnerAdu'[l] : history'[l][i] = map[i] /\ map[i] # None
        /\ learnerAdu'[l] >= learnerAdu[l]
        /\ \A k \in Learners \ {l} : learnerAdu'[k] = learnerAdu[k] /\ history'[k] = history[k]
    <3> DEFINE adu == Contiguous(map, learnerAdu[l])
               new == Results(map, learnerAdu[l] + 1, adu)
    <3>1. /\ learnerAdu' = [learnerAdu EXCEPT ![l] = adu]
          /\ history' = [history EXCEPT ![l] = @ \o [i \in DOMAIN new |-> new[i].value]]
      BY <1>3 DEF ExecuteAndDispatch
    <3>2. learnerAdu[l] \in 0 .. MaxSlot
      BY DEF TypeOK, LearnerTypeOK
    <3>3. [i \in DOMAIN new |-> new[i].value] = Executed(map, learnerAdu[l], adu)
      BY <3>2, ExecutedTypes
    <3> HIDE DEF new
    <3>4. adu = Contiguous(map, learnerAdu[l])
      OBVIOUS
    <3> HIDE DEF adu
    <3> QED
      BY <1>3, <3>1, <3>3, <3>4, ExecuteApplies DEF TypeOK
  <2>2. learned'[l] = map /\ \A k \in Learners \ {l} : learned'[k] = learned[k]
    BY <1>3 DEF TypeOK, LearnerTypeOK
  <2> QED
    BY <1>1, <2>1, <2>2 DEF HistoryIsLog, Applied
<1>4. CASE HandleLearn(l)
  <2>1. PICK m \in Inbox(l, "learn") :
          \/ UNCHANGED <<learned, learnerAdu, history>>
          \/ /\ learned[l][m.slot] = None
             /\ \E v, votes : /\ v \in Learnable(votes, m.value)
                              /\ learned' = [learned EXCEPT ![l][m.slot] = v]
                              /\ ExecuteAndDispatch(l, learned'[l], m, {}, TRUE)
    BY <1>4 DEF HandleLearn
  <2>2. m \in Learns
    BY InboxTypes DEF TypeOK
  <2>3. CASE learned[l][m.slot] = None /\ \E v, votes :
               /\ v \in Learnable(votes, m.value)
               /\ learned' = [learned EXCEPT ![l][m.slot] = v]
               /\ ExecuteAndDispatch(l, learned'[l], m, {}, TRUE)
    <3>1. PICK v, votes : /\ v \in Learnable(votes, m.value)
                          /\ learned' = [learned EXCEPT ![l][m.slot] = v]
                          /\ ExecuteAndDispatch(l, learned'[l], m, {}, TRUE)
      BY <2>3
    <3> DEFINE map == [learned[l] EXCEPT ![m.slot] = v]
    <3>2. v \in Values
      BY <2>2, <3>1 DEF Learnable, Learns
    <3>3. map \in [Slots -> Values \cup {None}] /\ learned' = [learned EXCEPT ![l] = map] /\ learned'[l] = map
      BY <1>1, <2>2, <3>1, <3>2 DEF Learns, TypeOK, LearnerTypeOK
    <3>4. Applied(l, map)
      <4>1. \A i \in 1 .. learnerAdu[l] : i \in Slots /\ i # m.slot
        BY <1>1, <2>3, BoundsAssumption DEF HistoryIsLog, Applied, Slots, TypeOK, LearnerTypeOK
      <4> QED
        BY <1>1, <4>1 DEF HistoryIsLog, Applied
    <3> HIDE DEF map
    <3>5. ExecuteAndDispatch(l, map, m, {}, TRUE)
      BY <3>1, <3>3
    <3> QED
      BY <1>3, <3>3, <3>4, <3>5
  <2> QED
    BY <1>2, <2>1, <2>3
<1>5. CASE LearnerTick(l)
  <2>1. \/ UNCHANGED <<learned, learnerAdu, history>>
        \/ UNCHANGED learned /\ \E S : ExecuteAndDispatch(l, learned[l], None, S, FALSE)
    BY <1>5 DEF LearnerTick
  <2>2. CASE UNCHANGED learned /\ \E S : ExecuteAndDispatch(l, learned[l], None, S, FALSE)
    <3>1. PICK S : ExecuteAndDispatch(l, learned[l], None, S, FALSE)
      BY <2>2
    <3>2. learned' = [learned EXCEPT ![l] = learned[l]]
      BY <2>2 DEF TypeOK, LearnerTypeOK
    <3>3. Applied(l, learned[l])
      BY DEF HistoryIsLog
    <3> QED
      BY <1>1, <1>3, <3>1, <3>2, <3>3
  <2> QED
    BY <1>2, <2>1, <2>2
<1>6. CASE HandleAduRequest(l)
  BY <1>2, <1>6 DEF HandleAduRequest, learnerVars
<1> QED
  BY <1>4, <1>5, <1>6 DEF LearnerStep

\* Nobody but a learner touches what it has learned and applied.
LEMMA HistoryStep ==
  ASSUME TypeOK, HistoryIsLog, [Next]_vars
  PROVE  HistoryIsLog' /\ \A k \in Learners : learnerAdu'[k] >= learnerAdu[k]
<1>1. UNCHANGED learnerVars \/ \E l \in Learners : LearnerStep(l)
  BY DEF Next, vars, AcceptorNext, LearnerNext, ProposerNext, RoleNext, RestartNext
<1>2. \A k \in Learners : learnerAdu[k] \in Int
  BY DEF TypeOK, LearnerTypeOK
<1>3. CASE UNCHANGED learnerVars
  BY <1>2, <1>3 DEF learnerVars, HistoryIsLog, Applied
<1> QED
  BY <1>1, <1>3, LearnApplies

\* A learner starts with nothing applied.
LEMMA HistoryInit == Init => HistoryIsLog
<1> SUFFICES ASSUME LearnerInit, NEW l \in Learners PROVE Applied(l, learned[l])
  BY DEF Init, HistoryIsLog
<1>1. history[l] = <<>> /\ learnerAdu[l] = 0
  BY DEF LearnerInit
<1>2. 1 .. 0 = {}
  OBVIOUS
<1> QED
  BY <1>1, <1>2 DEF Applied

\* A learner's history is its log up to the adu, in both ways of sending learns,
\* with gaps, retries and no-ops (learner-agent.rs, execute_chosen_learns).
THEOREM HistoryInvariant == Spec => []HistoryIsLog
<1>1. TypeOK /\ HistoryIsLog /\ [Next]_vars => HistoryIsLog'
  BY HistoryStep
<1> QED
  BY <1>1, HistoryInit, TypeCorrect, PTL DEF Spec

----------------------------------------------------------------------------
(* Do the learners apply the same? *)

\* Two learners that have both applied a command at a position have applied the
\* same one, also when the retries make one of them skip it with a no-op
\* (acceptor.rs, retry-learns of an empty slot).
CommandsAgree == \A k, l \in Learners : \A i \in DOMAIN history[k] \cap DOMAIN history[l] :
  history[k][i] \in Commands /\ history[l][i] \in Commands => history[k][i] = history[l][i]

\* A command at a position of a history is chosen in that slot.
LEMMA AppliedIsChosen ==
  ASSUME TypeOK, HistoryIsLog, LearnedIsChosen,
         NEW l \in Learners, NEW i \in DOMAIN history[l], history[l][i] \in Commands
  PROVE  i \in Slots /\ history[l][i] \in Chosen(i)
<1>1. /\ learnerAdu[l] \in 0 .. MaxSlot /\ MaxSlot \in Nat
      /\ history[l] \in Seq(Values) /\ Len(history[l]) = learnerAdu[l]
  BY BoundsAssumption DEF TypeOK, LearnerTypeOK, HistoryIsLog, Applied
<1>2. i \in 1 .. learnerAdu[l]
  BY <1>1, LenProperties
<1>3. i \in Slots
  BY <1>1, <1>2 DEF Slots
<1>4. history[l][i] = learned[l][i]
  BY <1>2 DEF HistoryIsLog, Applied
<1> QED
  BY <1>3, <1>4 DEF LearnedIsChosen

\* With acceptors sending learns, no two learners apply different commands at
\* the same position: both are chosen in that slot, which has one chosen value.
THEOREM LearnersApplyTheLog ==
  ASSUME AcceptorsSendLearns
  PROVE  Spec => []CommandsAgree
<1>1. TypeOK /\ HistoryIsLog /\ LearnedIsChosen => CommandsAgree
  BY AppliedIsChosen, ChosenIsUnique DEF CommandsAgree, ChosenUnique
<1> QED
  BY <1>1, TypeCorrect, HistoryInvariant, LearnersLearnChosen, PTL

----------------------------------------------------------------------------
(* Who sends what. *)

\* An acceptor answers; a learn it sends names a command, unless it is asked for
\* slots that a learner misses.
LEMMA SentByAcceptor ==
  ASSUME TypeOK, NEW a \in Acceptors, AcceptorStep(a), NEW m \in network' \ network
  PROVE  /\ m.type \in {"promise", "accepted", "learn"}
         /\ m.type = "learn" /\ (\A r \in network : r.type # "retry-learns") => m.value \in Commands
<1>1. CASE HandlePrepare(a)
  BY <1>1 DEF HandlePrepare, Promise, RejectPrepare, Reply, PromiseMsg
<1>2. CASE HandleAccept(a)
  <2>1. PICK r \in Inbox(a, "accept") : AcceptNew(a, r) \/ AcceptAgain(a, r) \/ RejectAccept(a, r)
    BY <1>2 DEF HandleAccept
  <2>2. r \in Accepts
    BY InboxTypes DEF TypeOK
  <2>3. m \in Announce(a, r)
    BY <2>1 DEF AcceptNew, AcceptAgain, RejectAccept, Reply
  <2> QED
    BY <2>2, <2>3 DEF Announce, LearnMsg, AcceptedMsg, Accepts
<1>3. CASE HandleRetryLearns(a)
  <2>1. PICK r \in Inbox(a, "retry-learns") :
          network' = (network \ {r}) \cup {LearnMsg(a, l, s, RetryValue(a, s)) : s \in r.slots, l \in Learners}
    BY <1>3 DEF HandleRetryLearns, Reply
  <2>2. m.type = "learn"
    BY <2>1 DEF Reply, LearnMsg
  <2>3. r \in network /\ r.type = "retry-learns"
    BY DEF Inbox
  <2> QED
    BY <2>2, <2>3
<1> QED
  BY <1>1, <1>2, <1>3 DEF AcceptorStep

\* Results go out with the adu the learner has after executing.
LEMMA SentByDispatch ==
  ASSUME LearnerTypeOK, NEW l \in Learners, NEW map, NEW r, NEW S, NEW full,
         ExecuteAndDispatch(l, map, r, S, full)
  PROVE  \A m \in network' : \/ m \in network \/ m \in S
                             \/ \E p, sent : m = ExecutedMsg(l, p, sent, learnerAdu'[l])
<1> DEFINE adu  == Contiguous(map, learnerAdu[l])
           new  == Results(map, learnerAdu[l] + 1, adu)
           buf  == execBuffer[l] \o new
           k    == IF LearnersSendExecuted THEN DispatchSize(Len(buf), full) ELSE 0
           sent == SubSeq(buf, 1, k)
<1>1. /\ Reply(r, S \cup IF sent = <<>> THEN {} ELSE {ExecutedMsg(l, p, sent, adu) : p \in Proposers})
      /\ learnerAdu' = [learnerAdu EXCEPT ![l] = adu]
  BY DEF ExecuteAndDispatch
<1> HIDE DEF adu, sent
<1>2. \A m \in network' : \/ m \in network \/ m \in S
                         \/ \E p \in Proposers : m = ExecutedMsg(l, p, sent, adu)
  BY <1>1 DEF Reply
<1>3. learnerAdu'[l] = adu
  BY <1>1 DEF LearnerTypeOK
<1> QED
  BY <1>2, <1>3

\* A learner sends results, the adu it has, and, when it looks for missing slots,
\* retries.
LEMMA SentByLearner ==
  ASSUME TypeOK, NEW l \in Learners, LearnerStep(l), NEW m \in network' \ network
  PROVE  /\ m.from = l
         /\ \/ m.type = "retry-learns" /\ LearnersRetry
            \/ m.type = "executed" /\ m.adu = learnerAdu'[l]
            \/ m.type = "adu" /\ m.adu = learnerAdu[l] /\ UNCHANGED learnerAdu
<1>0. LearnerTypeOK
  BY DEF TypeOK
<1>1. CASE HandleLearn(l)
  <2>1. PICK r : \/ \E map : ExecuteAndDispatch(l, map, r, {}, TRUE)
                 \/ Reply(r, {})
    BY <1>1 DEF HandleLearn
  <2>2. CASE \E map : ExecuteAndDispatch(l, map, r, {}, TRUE)
    <3>1. PICK map : ExecuteAndDispatch(l, map, r, {}, TRUE)
      BY <2>2
    <3> DEFINE S == {}
    <3>2. ExecuteAndDispatch(l, map, r, S, TRUE)
      BY <3>1
    <3>3. m \notin S
      OBVIOUS
    <3> HIDE DEF S
    <3>4. m \in network \/ m \in S \/ \E p, sent : m = ExecutedMsg(l, p, sent, learnerAdu'[l])
      BY <1>0, <3>2, SentByDispatch
    <3> QED
      BY <3>3, <3>4 DEF ExecutedMsg
  <2>3. CASE Reply(r, {})
    BY <2>3 DEF Reply
  <2> QED
    BY <2>1, <2>2, <2>3
<1>2. CASE LearnerTick(l)
  <2>1. PICK S \in Retryable(l) :
          \/ ExecuteAndDispatch(l, learned[l], None,
               IF S = {} THEN {} ELSE {RetryLearnsMsg(l, n, S) : n \in RetryTargets}, FALSE)
          \/ Send(IF S = {} THEN {} ELSE {RetryLearnsMsg(l, n, S) : n \in RetryTargets})
    BY <1>2 DEF LearnerTick
  <2> DEFINE retries == IF S = {} THEN {} ELSE {RetryLearnsMsg(l, n, S) : n \in RetryTargets}
  <2>2. \A n \in retries : n.type = "retry-learns" /\ n.from = l /\ S # {}
    BY DEF RetryLearnsMsg
  <2>3. S # {} => LearnersRetry
    <3>1. S \in SUBSET Slots /\ Cardinality(S) <= IF LearnersRetry THEN MessageBatchSize ELSE 0
      BY DEF Retryable
    <3>2. IsFiniteSet(S)
      BY <3>1, SlotsFinite, FS_Subset
    <3>3. S # {} => Cardinality(S) # 0
      BY <3>2, FS_EmptySet
    <3> QED
      BY <3>1, <3>2, <3>3, FS_CardinalityType
  <2> HIDE DEF retries
  <2>4. CASE ExecuteAndDispatch(l, learned[l], None, retries, FALSE)
    <3>1. m \in retries \/ \E p, sent : m = ExecutedMsg(l, p, sent, learnerAdu'[l])
      BY <1>0, <2>4, SentByDispatch
    <3> QED
      BY <2>2, <2>3, <3>1 DEF ExecutedMsg
  <2>5. CASE Send(retries)
    BY <2>2, <2>3, <2>5 DEF Send
  <2> QED
    BY <2>1, <2>4, <2>5 DEF retries
<1>3. CASE HandleAduRequest(l)
  BY <1>3 DEF HandleAduRequest, Reply, AduMsg, learnerVars
<1> QED
  BY <1>1, <1>2, <1>3 DEF LearnerStep

\* A proposer asks the learners for their adu, prepares, proposes and commits.
LEMMA SentByProposer ==
  ASSUME NEW p \in Proposers, NEW m \in network' \ network,
         ProposerStep(p) \/ Leadership(p) \/ RestartProposer(p)
  PROVE  /\ m.from = p
         /\ m.type \in {"prepare", "accept", "learn"} \/ (m.type = "adu" /\ m.to \in Learners)
<1>1. \A c, s : \A n \in ProposalAccepts(p, c, s) \cup ProposalLearns(p, c, s) :
        n.from = p /\ n.type \in {"accept", "learn"}
  BY DEF ProposalAccepts, ProposalLearns, AcceptMsg, LearnMsg
<1>2. CASE AcceptCommit(p)
  <2> DEFINE c1 == CreateProposals(core[p])
             c2 == CommitChosen(c1)
  <2>1. Send((UNION {ProposalAccepts(p, c1, s) : s \in core[p].currentSlot + 1 .. c1.currentSlot})
             \cup (UNION {ProposalLearns(p, c2, s) : s \in Committing(c1)}))
    BY <1>2 DEF AcceptCommit
  <2>2. \E c, s : m \in ProposalAccepts(p, c, s) \cup ProposalLearns(p, c, s)
    <3> HIDE DEF c1, c2
    <3> QED
      BY <2>1 DEF Send
  <2> QED
    BY <1>1, <2>2
<1>3. CASE HandleRetryLearn(p)
  <2>1. PICK r \in Inbox(p, "retry-learns") :
          Reply(r, IF core[p].isLeader
            THEN (UNION {ProposalLearns(p, core[p], s) :
                           s \in {t \in r.slots : HasStatus(core[p], t, "CommitPending")}})
                 \cup (UNION {ProposalAccepts(p, core[p], s) :
                           s \in {t \in r.slots : HasStatus(core[p], t, "InFlight")}})
            ELSE {})
    BY <1>3 DEF HandleRetryLearn
  <2>2. \E c, s : m \in ProposalAccepts(p, c, s) \cup ProposalLearns(p, c, s)
    BY <2>1 DEF Reply
  <2> QED
    BY <1>1, <2>2
<1>4. CASE RequestAdu(p)
  BY <1>4 DEF RequestAdu, Send, AduMsg
<1>5. CASE SendPrepare(p)
  <2>1. PICK slot, b : Send({PrepareMsg(p, a, slot, b) : a \in Acceptors})
    BY <1>5 DEF SendPrepare
  <2> QED
    BY <2>1 DEF Send, PrepareMsg
<1>6. CASE HandlePromise(p) \/ HandleAccepted(p) \/ HandleExecuted(p) \/ HandleAdu(p)
  BY <1>6 DEF HandlePromise, HandleAccepted, HandleExecuted, HandleAdu, Reply
<1>7. CASE \/ StartLeaderLoop(p) \/ PrepareTimeout(p) \/ SubmitClientRequest(p)
           \/ Leadership(p) \/ RestartProposer(p)
  BY <1>7 DEF StartLeaderLoop, PrepareTimeout, SubmitClientRequest, Leadership,
              BecomeLeader, ResignLeader, RestartProposer
<1> QED
  BY <1>2, <1>3, <1>4, <1>5, <1>6, <1>7 DEF ProposerStep, HandleProposerMessage, ProposerTick

\* The components take their steps one at a time (main loops of the runners).
LEMMA OneSteps ==
  ASSUME [Next]_vars
  PROVE  \/ UNCHANGED vars
         \/ \E a \in Acceptors : AcceptorStep(a) /\ UNCHANGED <<learnerVars, proposerVars>>
         \/ \E l \in Learners : LearnerStep(l) /\ UNCHANGED <<acceptorVars, proposerVars>>
         \/ \E p \in Proposers : /\ ProposerStep(p) \/ Leadership(p) \/ RestartProposer(p)
                                 /\ UNCHANGED <<acceptorVars, learnerVars>>
BY RolesAssumption DEF Next, AcceptorNext, LearnerNext, ProposerNext, RoleNext, RestartNext

----------------------------------------------------------------------------
(* Without retries: no no-op is ever learned. *)

\* Nobody is asked for missing slots, so no acceptor makes a no-op up, and no
\* learner files or learns one.
NoOpFree ==
  /\ \A m \in network : m.type # "retry-learns"
  /\ \A m \in network : m.type = "learn" /\ m.from \in Acceptors => m.value \in Commands
  /\ \A l \in Learners, s \in Slots, a \in Acceptors : slotLearns[l][s][a] # NoOp
  /\ \A l \in Learners, s \in Slots : learned[l][s] # NoOp

\* What is under way stays free of them.
LEMMA NoOpFreeNetwork ==
  ASSUME ~LearnersRetry, TypeOK, NoOpFree, [Next]_vars, NEW m \in network'
  PROVE  /\ m.type # "retry-learns"
         /\ m.type = "learn" /\ m.from \in Acceptors => m.value \in Commands
<1>1. CASE m \in network
  BY <1>1 DEF NoOpFree
<1>2. CASE m \notin network
  <2>1. ASSUME NEW a \in Acceptors, AcceptorStep(a)
        PROVE  m.type # "retry-learns" /\ (m.type = "learn" => m.value \in Commands)
    BY <1>2, <2>1, SentByAcceptor DEF NoOpFree
  <2>2. ASSUME NEW l \in Learners, LearnerStep(l)
        PROVE  m.type \notin {"retry-learns", "learn"}
    BY <1>2, <2>2, SentByLearner
  <2>3. ASSUME NEW p \in Proposers, ProposerStep(p) \/ Leadership(p) \/ RestartProposer(p)
        PROVE  m.type # "retry-learns" /\ m.from \notin Acceptors
    BY <1>2, <2>3, SentByProposer, DisjointAssumption
  <2>4. ~UNCHANGED vars
    BY <1>2 DEF vars
  <2> QED
    BY <2>1, <2>2, <2>3, <2>4, OneSteps
<1> QED
  BY <1>1, <1>2

\* What the learners file and learn stays free of them: a majority that agrees
\* on a value has a member.
LEMMA NoOpFreeLearners ==
  ASSUME AcceptorsSendLearns, TypeOK, NoOpFree, [Next]_vars
  PROVE  \A l \in Learners, s \in Slots : /\ \A a \in Acceptors : slotLearns'[l][s][a] # NoOp
                                          /\ learned'[l][s] # NoOp
<1>1. CASE UNCHANGED <<slotLearns, learned>>
  BY <1>1 DEF NoOpFree
<1>2. CASE ~UNCHANGED <<slotLearns, learned>>
  <2>1. PICK l \in Learners : HandleLearn(l)
    BY <1>2, OnlyLearnWrites
  <2>2. PICK m \in Inbox(l, "learn") :
          LET votes == [slotLearns[l][m.slot] EXCEPT ![m.from] = m.value]
          IN /\ slotLearns' = [slotLearns EXCEPT ![l][m.slot] = votes]
             /\ \/ UNCHANGED learned
                \/ \E v \in Learnable(votes, m.value) :
                     learned' = [learned EXCEPT ![l][m.slot] = v]
    BY <2>1 DEF HandleLearn
  <2> DEFINE votes == [slotLearns[l][m.slot] EXCEPT ![m.from] = m.value]
  <2>3. m \in Learns /\ m \in network
    BY InboxTypes DEF TypeOK, Inbox
  <2>4. m.slot \in Slots /\ m.type = "learn" /\ slotLearns[l][m.slot] \in [Acceptors -> Values \cup {None}]
    BY <2>3 DEF Learns, TypeOK, LearnerTypeOK
  <2>5. \A a \in Acceptors : votes[a] # NoOp
    BY <2>3, <2>4, ValuesAssumption DEF NoOpFree
  <2> HIDE DEF votes
  <2>6. \A k \in Learners, s \in Slots : slotLearns'[k][s] =
          IF k = l /\ s = m.slot THEN votes ELSE slotLearns[k][s]
    BY <2>2, <2>4 DEF votes, TypeOK, LearnerTypeOK
  <2>7. NoOp \notin Learnable(votes, m.value)
    <3>1. Votes(votes, NoOp) = {}
      BY <2>5 DEF Votes
    <3>2. ~IsQuorum({})
      BY FS_EmptySet, FS_CardinalityType, AcceptorsAssumption DEF IsQuorum, QuorumSize
    <3> QED
      BY <3>1, <3>2 DEF Learnable
  <2>8. \A k \in Learners, s \in Slots :
          learned'[k][s] = learned[k][s] \/ learned'[k][s] \in Learnable(votes, m.value)
    <3>1. UNCHANGED learned \/ \E v \in Learnable(votes, m.value) :
                                  learned' = [learned EXCEPT ![l][m.slot] = v]
      BY <2>2 DEF votes
    <3>2. ASSUME NEW v \in Learnable(votes, m.value), learned' = [learned EXCEPT ![l][m.slot] = v],
                 NEW k \in Learners, NEW s \in Slots
          PROVE  learned'[k][s] = learned[k][s] \/ learned'[k][s] = v
      BY <2>4, <3>2 DEF TypeOK, LearnerTypeOK
    <3> QED
      BY <3>1, <3>2
  <2> QED
    BY <2>5, <2>6, <2>7, <2>8 DEF NoOpFree
<1> QED
  BY <1>1, <1>2

\* There is none at the start.
LEMMA NoOpFreeInit == Init => NoOpFree
BY ValuesAssumption DEF Init, LearnerInit, NoOpFree

\* With acceptors sending learns and no retries, one learner's history is a
\* prefix of the other's, whatever the proposers do: every position holds a
\* command that is chosen there (learner.rs, check_quorum).
THEOREM LearnersApplyTheSame ==
  ASSUME AcceptorsSendLearns, ~LearnersRetry
  PROVE  Spec => []HistoriesAgree
<1>1. TypeOK /\ NoOpFree /\ [Next]_vars => NoOpFree'
  <2> SUFFICES ASSUME TypeOK, NoOpFree, [Next]_vars PROVE NoOpFree'
    OBVIOUS
  <2> QED
    BY NoOpFreeNetwork, NoOpFreeLearners DEF NoOpFree
<1>2. TypeOK /\ NoOpFree /\ HistoryIsLog /\ CommandsAgree => HistoriesAgree
  <2> SUFFICES ASSUME TypeOK, NoOpFree, HistoryIsLog, CommandsAgree,
                      NEW k \in Learners, NEW i \in DOMAIN history[k]
               PROVE  history[k][i] \in Commands
    BY DEF HistoriesAgree, CommandsAgree
  <2>1. /\ learnerAdu[k] \in 0 .. MaxSlot /\ MaxSlot \in Nat
        /\ history[k] \in Seq(Values) /\ Len(history[k]) = learnerAdu[k]
    BY BoundsAssumption DEF TypeOK, LearnerTypeOK, HistoryIsLog, Applied
  <2>2. i \in 1 .. learnerAdu[k] /\ i \in Slots /\ history[k][i] \in Values
    BY <2>1, LenProperties DEF Slots
  <2>3. history[k][i] = learned[k][i]
    BY <2>2 DEF HistoryIsLog, Applied
  <2> QED
    BY <2>2, <2>3 DEF NoOpFree, Values
<1> QED
  BY <1>1, <1>2, NoOpFreeInit, TypeCorrect, HistoryInvariant, LearnersApplyTheLog, PTL DEF Spec

----------------------------------------------------------------------------
(* What the proposers believe to be executed. *)

\* No adu under way to a proposer, asked for or sent along with results, is ahead
\* of the learner that sent it.
AdusExecuted == \A m \in network :
  /\ m.type = "adu" /\ m.to \in Proposers => m.from \in Learners /\ m.adu <= learnerAdu[m.from]
  /\ m.type = "executed" => m.from \in Learners /\ m.adu <= learnerAdu[m.from]

\* A learner's adu only grows, so what is under way stays behind it.
LEMMA AdusStayExecuted ==
  ASSUME TypeOK, HistoryIsLog, AdusExecuted, [Next]_vars
  PROVE  AdusExecuted'
<1>1. \A k \in Learners : learnerAdu[k] \in Int /\ learnerAdu'[k] \in Int /\ learnerAdu'[k] >= learnerAdu[k]
  <2>1. TypeOK'
    BY TypeStep
  <2> QED
    BY <2>1, HistoryStep DEF TypeOK, LearnerTypeOK
<1> SUFFICES ASSUME NEW m \in network'
             PROVE  /\ m.type = "adu" /\ m.to \in Proposers
                         => m.from \in Learners /\ m.adu <= learnerAdu'[m.from]
                    /\ m.type = "executed" => m.from \in Learners /\ m.adu <= learnerAdu'[m.from]
  BY DEF AdusExecuted
<1>2. CASE m \in network
  <2>1. m.type \in {"adu", "executed"} => m.adu \in Int
    BY <1>2 DEF TypeOK, Messages, Prepares, Promises, Accepts, Accepteds, Learns,
                Retries, Executeds, Adus
  <2> QED
    BY <1>1, <1>2, <2>1 DEF AdusExecuted
<1>3. CASE m \notin network
  <2>1. ASSUME NEW a \in Acceptors, AcceptorStep(a)
        PROVE  m.type \notin {"adu", "executed"}
    BY <1>3, <2>1, SentByAcceptor
  <2>2. ASSUME NEW l \in Learners, LearnerStep(l)
        PROVE  m.type \in {"adu", "executed"} => m.from \in Learners /\ m.adu <= learnerAdu'[m.from]
    <3>1. /\ m.from = l
          /\ \/ m.type = "retry-learns"
             \/ m.adu = learnerAdu'[l]
      BY <1>3, <2>2, SentByLearner
    <3> QED
      BY <1>1, <3>1
  <2>3. ASSUME NEW p \in Proposers, ProposerStep(p) \/ Leadership(p) \/ RestartProposer(p)
        PROVE  m.type # "executed" /\ (m.type = "adu" => m.to \notin Proposers)
    BY <1>3, <2>3, SentByProposer, DisjointAssumption
  <2>4. ~UNCHANGED vars
    BY <1>3 DEF vars
  <2> QED
    BY <2>1, <2>2, <2>3, <2>4, OneSteps
<1> QED
  BY <1>2, <1>3

\* Only the answers and the results of the learners move a proposer's adu; a restart
\* keeps it (proposer.rs, load_state).
LEMMA AduMoves ==
  ASSUME TypeOK, NEW p \in Proposers,
         ProposerStep(p) \/ Leadership(p) \/ RestartProposer(p), NEW q \in Proposers
  PROVE  \/ core'[q].adu = core[q].adu
         \/ \E m \in network : /\ \/ m.type = "adu" /\ m.to \in Proposers
                                  \/ m.type = "executed"
                               /\ core'[q].adu = m.adu
<1>0. core \in [Proposers -> CoreState] /\ core[p] \in CoreState
  BY DEF TypeOK, ProposerTypeOK
<1>1. ASSUME NEW c, c.adu = core[p].adu, core' = [core EXCEPT ![p] = c]
      PROVE  core'[q].adu = core[q].adu
  BY <1>0, <1>1
<1>2. CASE HandlePromise(p)
  <2>1. \/ UNCHANGED core
        \/ \E R, s : \E c \in AfterCollect(core[p], R, s) : core' = [core EXCEPT ![p] = c]
    BY <1>2 DEF HandlePromise
  <2>2. ASSUME NEW R, NEW s, NEW c \in AfterCollect(core[p], R, s)
        PROVE  c.adu = core[p].adu
    BY <1>0, <2>2 DEF AfterCollect, CoreState
  <2> QED
    BY <1>1, <2>1, <2>2
<1>3. CASE AcceptCommit(p)
  <2>1. core' = [core EXCEPT ![p] = CommitChosen(CreateProposals(core[p]))]
    BY <1>3 DEF AcceptCommit
  <2>2. CreateProposals(core[p]).adu = core[p].adu
    BY <1>0 DEF CreateProposals, CoreState
  <2>3. CreateProposals(core[p]) \in CoreState
    BY <1>0, CreateProposalsType
  <2>4. CommitChosen(CreateProposals(core[p])).adu = CreateProposals(core[p]).adu
    BY <2>3 DEF CommitChosen, CoreState
  <2> QED
    BY <1>1, <2>1, <2>2, <2>4
<1>4. CASE HandleAccepted(p)
  <2>1. core' = core \/ \E s : core' = [core EXCEPT ![p] = MarkChosen(core[p], s)]
    BY <1>4 DEF HandleAccepted
  <2>2. ASSUME NEW s PROVE MarkChosen(core[p], s).adu = core[p].adu
    BY <1>0 DEF MarkChosen, CoreState
  <2> QED
    BY <1>1, <2>1, <2>2
<1>5. CASE HandleExecuted(p)
  <2> DEFINE c == core[p]
             done(m) == {i \in DOMAIN m.results : /\ c.proposals[m.results[i].slot] # None
                                                  /\ ~HasStatus(c, m.results[i].slot, "Finalized")}
             lost(m) == ToRepropose(m.results, [i \in done(m) |-> c.proposals[m.results[i].slot].value])
             adu(m)  == GreatestOf({c.adu, m.adu})
             finalized(m) == [s \in Slots |-> IF {i \in done(m) : m.results[i].slot = s} # {}
                                THEN MarkFinalized(c.proposals[s]) ELSE c.proposals[s]]
  <2>1. PICK m \in Inbox(p, "executed") :
          \/ core' = [core EXCEPT ![p].adu = adu(m)]
          \/ \E r : core' = [core EXCEPT ![p].adu = adu(m), ![p].prioritized = r,
                                         ![p].proposals = finalized(m)]
    <3>1. PICK m \in Inbox(p, "executed") :
            \/ core' = [core EXCEPT ![p].adu = adu(m)]
            \/ \E r \in Enqueued(c.prioritized, lost(m)) :
                 core' = [core EXCEPT ![p].adu = adu(m), ![p].prioritized = r,
                            ![p].proposals = [s \in Slots |->
                               IF {i \in done(m) : m.results[i].slot = s} # {}
                                 THEN MarkFinalized(@[s]) ELSE @[s]]]
      BY <1>5 DEF HandleExecuted
    <3> QED
      BY <3>1
  <2> HIDE DEF finalized, adu, c
  <2>2. core'[p].adu = adu(m) /\ \A k \in Proposers \ {p} : core'[k] = core[k]
    BY <1>0, <2>1 DEF CoreState
  <2>3. m \in Executeds /\ m \in network /\ m.type = "executed"
    BY InboxTypes DEF TypeOK, Inbox
  <2>4. m.adu \in Nat /\ core[p].adu \in Nat
    BY <1>0, <2>3, BoundsAssumption DEF Executeds, CoreState
  <2>5. core'[p].adu = core[p].adu \/ core'[p].adu = m.adu
    BY <2>2, <2>4, GreatestOfTwo DEF adu, c
  <2> QED
    BY <2>2, <2>3, <2>5
<1>6. CASE HandleAdu(p)
  <2>1. PICK m \in Inbox(p, "adu") : core' = [core EXCEPT ![p].adu = m.adu]
    BY <1>6 DEF HandleAdu
  <2>2. m \in network /\ m.type = "adu" /\ m.to = p
    BY DEF Inbox
  <2>3. core'[q].adu = core[q].adu \/ core'[q].adu = m.adu
    BY <1>0, <2>1 DEF CoreState
  <2> QED
    BY <2>2, <2>3
<1>7. CASE \/ RequestAdu(p) \/ StartLeaderLoop(p) \/ PrepareTimeout(p) \/ HandleRetryLearn(p)
  BY <1>7 DEF RequestAdu, StartLeaderLoop, PrepareTimeout, HandleRetryLearn, proposerVars
<1>8. CASE SendPrepare(p) \/ SubmitClientRequest(p) \/ Leadership(p)
  <2>1. ASSUME NEW b, core' = [core EXCEPT ![p].ballot = b]
        PROVE  core'[q].adu = core[q].adu
    BY <1>0, <2>1 DEF CoreState
  <2>2. ASSUME NEW b, core' = [core EXCEPT ![p].pending = b]
        PROVE  core'[q].adu = core[q].adu
    BY <1>0, <2>2 DEF CoreState
  <2>3. ASSUME core' = [core EXCEPT ![p].isLeader = FALSE]
        PROVE  core'[q].adu = core[q].adu
    BY <1>0, <2>3 DEF CoreState
  <2>4. ASSUME NEW b, core' = [core EXCEPT ![p].ballot = b, ![p].isLeader = TRUE]
        PROVE  core'[q].adu = core[q].adu
    BY <1>0, <2>4 DEF CoreState
  <2> QED
    BY <1>8, <2>1, <2>2, <2>3, <2>4
       DEF SendPrepare, SubmitClientRequest, Leadership, BecomeLeader, ResignLeader
<1>9. CASE RestartProposer(p)
  BY <1>0, <1>9 DEF RestartProposer, NewCore
<1> QED
  BY <1>2, <1>3, <1>4, <1>5, <1>6, <1>7, <1>8, <1>9 DEF ProposerStep, HandleProposerMessage, ProposerTick

\* A proposer's adu stays behind some learner's.
LEMMA AduStaysExecuted ==
  ASSUME TypeOK, HistoryIsLog, AdusExecuted, AduIsExecuted, [Next]_vars
  PROVE  AduIsExecuted'
<1>1. TypeOK'
  BY TypeStep
<1>2. /\ \A k \in Learners : /\ learnerAdu[k] \in Int /\ learnerAdu'[k] \in Int
                             /\ learnerAdu'[k] >= learnerAdu[k]
      /\ \A q \in Proposers : core[q].adu \in Int
  BY <1>1, HistoryStep DEF TypeOK, LearnerTypeOK, ProposerTypeOK, CoreState
<1>3. ASSUME NEW q \in Proposers, core'[q].adu = core[q].adu
      PROVE  core'[q].adu = 0 \/ \E l \in Learners : core'[q].adu <= learnerAdu'[l]
  BY <1>2, <1>3 DEF AduIsExecuted
<1>4. ASSUME NEW q \in Proposers, NEW m \in network, core'[q].adu = m.adu,
             \/ m.type = "adu" /\ m.to \in Proposers
             \/ m.type = "executed"
      PROVE  \E l \in Learners : core'[q].adu <= learnerAdu'[l]
  <2>1. m.adu \in Int
    BY <1>4 DEF TypeOK, Messages, Prepares, Promises, Accepts, Accepteds, Learns,
                Retries, Executeds, Adus
  <2>2. m.from \in Learners /\ m.adu <= learnerAdu[m.from]
    BY <1>4 DEF AdusExecuted
  <2> QED
    BY <1>2, <1>4, <2>1, <2>2
<1>5. ASSUME NEW q \in Proposers
      PROVE  core'[q].adu = 0 \/ \E l \in Learners : core'[q].adu <= learnerAdu'[l]
  <2>1. core' = core \/ \E p \in Proposers : ProposerStep(p) \/ Leadership(p) \/ RestartProposer(p)
    BY OneSteps DEF vars, proposerVars
  <2> QED
    BY <1>3, <1>4, <2>1, AduMoves
<1> QED
  BY <1>5 DEF AduIsExecuted

\* No proposer ever believes in an execution that no learner has made, so no
\* prepare skips a slot that is executed nowhere: late, duplicated and reordered
\* adus, results of several learners, and restarts included (proposer-agent.rs,
\* handle_adu, process_executed).
THEOREM AduIsNeverAhead == Spec => []AduIsExecuted
<1> DEFINE IInv == AdusExecuted /\ AduIsExecuted
<1>1. Init => IInv
  BY DEF Init, AdusExecuted, ProposerInit, NewCore, AduIsExecuted
<1>2. TypeOK /\ HistoryIsLog /\ IInv /\ [Next]_vars => IInv'
  BY AdusStayExecuted, AduStaysExecuted
<1>3. Spec => []IInv
  <2> HIDE DEF IInv
  <2> QED
    BY <1>1, <1>2, TypeCorrect, HistoryInvariant, PTL DEF Spec
<1> QED
  BY <1>3, PTL

----------------------------------------------------------------------------
(* Phase 1: what a proposer's ballot and an acceptor's promise are worth.  *)

\* The proposals of p that a step leaves are earlier ones, with their ballots.
KeepsProposals(p) == \A s \in Slots : core'[p].proposals[s] # None =>
  core[p].proposals[s] # None /\ core'[p].proposals[s].ballot = core[p].proposals[s].ballot

\* Or they are new ones, of the present ballot.
AddsProposals(p) == \A s \in Slots : core'[p].proposals[s] # None =>
  \/ core[p].proposals[s] # None /\ core'[p].proposals[s].ballot = core[p].proposals[s].ballot
  \/ s > core[p].currentSlot /\ core'[p].proposals[s].ballot = core[p].ballot

----------------------------------------------------------------------------
(* What the steps of a proposer make of its ballot and its proposals. *)

\* proposer.rs, collect_accepted_values
LEMMA CollectMoves ==
  ASSUME NEW c \in CoreState, NEW R, NEW s, NEW d \in AfterCollect(c, R, s)
  PROVE  d.ballot = c.ballot /\ d.proposals = c.proposals
<1>1. d = c \/ \E q : d = [c EXCEPT !.currentSlot = s - 1, !.prioritized = q]
  BY DEF AfterCollect
<1> QED
  BY <1>1 DEF CoreState

\* proposer.rs, create_proposal
LEMMA CreateMoves ==
  ASSUME NEW c \in CoreState
  PROVE  /\ CreateProposals(c).ballot = c.ballot
         /\ \A s \in Slots : \/ CreateProposals(c).proposals[s] = c.proposals[s]
                             \/ s > c.currentSlot /\ CreateProposals(c).proposals[s].ballot = c.ballot
<1> DEFINE n     == NumProposals(c)
           queue == c.prioritized \o c.pending
           k     == LeastOf({n, Len(c.prioritized)})
           new   == [s \in Slots |-> IF s \in c.currentSlot + 1 .. c.currentSlot + n
                       THEN [ballot |-> c.ballot, value |-> queue[s - c.currentSlot], status |-> "InFlight"]
                       ELSE c.proposals[s]]
<1>1. CreateProposals(c) = [c EXCEPT !.currentSlot = @ + n, !.prioritized = SubSeq(@, k + 1, Len(@)),
                                     !.pending = SubSeq(@, n - k + 1, Len(@)), !.proposals = new]
  BY DEF CreateProposals
<1>2. \A s \in Slots : new[s] = c.proposals[s] \/ (s > c.currentSlot /\ new[s].ballot = c.ballot)
  <2> HIDE DEF n, queue
  <2>1. c.currentSlot \in Nat /\ Slots \subseteq Nat
    BY BoundsAssumption DEF CoreState, Slots
  <2>2. \A s \in Slots : s \in c.currentSlot + 1 .. c.currentSlot + n => s > c.currentSlot
    BY <2>1
  <2> QED
    BY <2>2
<1> HIDE DEF n, queue, k, new
<1>3. CreateProposals(c).ballot = c.ballot /\ CreateProposals(c).proposals = new
  BY <1>1 DEF CoreState
<1> QED
  BY <1>2, <1>3

\* proposer.rs, take_chosen_proposals
LEMMA CommitMoves ==
  ASSUME NEW c \in CoreState
  PROVE  /\ CommitChosen(c).ballot = c.ballot
         /\ \A s \in Slots : CommitChosen(c).proposals[s] # None =>
              c.proposals[s] # None /\ CommitChosen(c).proposals[s].ballot = c.proposals[s].ballot
<1> DEFINE new == [s \in Slots |-> IF s \in Committing(c) THEN [c.proposals[s] EXCEPT !.status = "CommitPending"]
                                                          ELSE c.proposals[s]]
<1>1. CommitChosen(c) = [c EXCEPT !.chosenSlots = SubSeq(@, NumCommits(c) + 1, Len(@)), !.proposals = new]
  BY DEF CommitChosen
<1>2. \A s \in Slots : new[s] # None => c.proposals[s] # None /\ new[s].ballot = c.proposals[s].ballot
  <2> TAKE s \in Slots
  <2>1. CASE s \in Committing(c)
    <3>1. c.proposals[s] \in Entry /\ c.proposals[s] # None
      BY <2>1 DEF Committing, CoreState
    <3> QED
      BY <2>1, <3>1 DEF Entry
  <2>2. CASE s \notin Committing(c)
    BY <2>2
  <2> QED
    BY <2>1, <2>2
<1> HIDE DEF new
<1>3. CommitChosen(c).ballot = c.ballot /\ CommitChosen(c).proposals = new
  BY <1>1 DEF CoreState
<1> QED
  BY <1>2, <1>3

\* A tick of phase 2 proposes with the present ballot (proposer-agent.rs, handle_tick).
LEMMA AcceptCommitMoves ==
  ASSUME TypeOK, NEW p \in Proposers, AcceptCommit(p)
  PROVE  core'[p].ballot = core[p].ballot /\ AddsProposals(p)
<1> DEFINE c1 == CreateProposals(core[p])
<1>1. core[p] \in CoreState /\ core' = [core EXCEPT ![p] = CommitChosen(c1)]
  BY DEF AcceptCommit, TypeOK, ProposerTypeOK
<1>2. c1 \in CoreState
  BY <1>1, CreateProposalsType
<1>3. /\ c1.ballot = core[p].ballot
      /\ \A s \in Slots : \/ c1.proposals[s] = core[p].proposals[s]
                          \/ s > core[p].currentSlot /\ c1.proposals[s].ballot = core[p].ballot
  BY <1>1, CreateMoves
<1> HIDE DEF c1
<1>4. core'[p] = CommitChosen(c1)
  BY <1>1 DEF TypeOK, ProposerTypeOK
<1>5. /\ core'[p].ballot = c1.ballot
      /\ \A s \in Slots : core'[p].proposals[s] # None =>
           c1.proposals[s] # None /\ core'[p].proposals[s].ballot = c1.proposals[s].ballot
  BY <1>2, <1>4, CommitMoves
<1> QED
  BY <1>3, <1>5 DEF AddsProposals

\* A step that leaves core alone, or its ballot and its proposals.
LEMMA CoreKept ==
  ASSUME TypeOK, NEW p \in Proposers,
         core'[p].ballot = core[p].ballot, core'[p].proposals = core[p].proposals
  PROVE  core'[p].ballot = core[p].ballot /\ KeepsProposals(p)
BY DEF KeepsProposals

\* proposer-agent.rs, process_promises
LEMMA PromiseMoves ==
  ASSUME TypeOK, NEW p \in Proposers, HandlePromise(p)
  PROVE  core'[p].ballot = core[p].ballot /\ KeepsProposals(p)
<1>1. PICK R, s : core' = core \/ \E c \in AfterCollect(core[p], R, s) : core' = [core EXCEPT ![p] = c]
  BY DEF HandlePromise
<1>2. core[p] \in CoreState
  BY DEF TypeOK, ProposerTypeOK
<1>3. CASE core' = core
  BY <1>3, CoreKept
<1>4. CASE \E c \in AfterCollect(core[p], R, s) : core' = [core EXCEPT ![p] = c]
  <2>1. PICK c \in AfterCollect(core[p], R, s) : core'[p] = c
    BY <1>4 DEF TypeOK, ProposerTypeOK
  <2>2. c.ballot = core[p].ballot /\ c.proposals = core[p].proposals
    BY <1>2, CollectMoves
  <2> QED
    BY <2>1, <2>2, CoreKept
<1> QED
  BY <1>1, <1>3, <1>4

\* proposer-agent.rs, accept_commit
LEMMA AcceptedMoves ==
  ASSUME TypeOK, NEW p \in Proposers, HandleAccepted(p)
  PROVE  core'[p].ballot = core[p].ballot /\ KeepsProposals(p)
<1>1. PICK m \in Inbox(p, "accepted") :
        core' = core \/ (HasStatus(core[p], m.slot, "InFlight") /\ core' = [core EXCEPT ![p] = MarkChosen(core[p], m.slot)])
  BY DEF HandleAccepted
<1>2. core[p] \in CoreState /\ m.slot \in Slots
  BY InboxTypes DEF TypeOK, ProposerTypeOK, Accepteds
<1>3. CASE core' = core
  BY <1>3, CoreKept
<1>4. CASE HasStatus(core[p], m.slot, "InFlight") /\ core' = [core EXCEPT ![p] = MarkChosen(core[p], m.slot)]
  <2>1. core'[p] = MarkChosen(core[p], m.slot)
    BY <1>4 DEF TypeOK, ProposerTypeOK
  <2>2. core[p].proposals[m.slot] \in Entry /\ core[p].proposals[m.slot] # None
    BY <1>2, <1>4 DEF HasStatus, CoreState
  <2> DEFINE e == [core[p].proposals[m.slot] EXCEPT !.status = "Chosen"]
  <2>3. e.ballot = core[p].proposals[m.slot].ballot
    BY <2>2 DEF Entry
  <2>4. core'[p].ballot = core[p].ballot /\ core'[p].proposals = [core[p].proposals EXCEPT ![m.slot] = e]
    BY <1>2, <2>1 DEF MarkChosen, CoreState
  <2> HIDE DEF e
  <2>5. core[p].proposals \in [Slots -> Entry \cup {None}]
    BY <1>2 DEF CoreState
  <2>6. \A s \in Slots : core'[p].proposals[s] = IF s = m.slot THEN e ELSE core[p].proposals[s]
    BY <1>2, <2>4, <2>5
  <2> QED
    BY <2>2, <2>3, <2>4, <2>6 DEF KeepsProposals
<1> QED
  BY <1>1, <1>3, <1>4

\* proposer-agent.rs, process_executed
LEMMA ExecutedMoves ==
  ASSUME TypeOK, NEW p \in Proposers, HandleExecuted(p)
  PROVE  core'[p].ballot = core[p].ballot /\ KeepsProposals(p)
<1> DEFINE done(m)  == {i \in DOMAIN m.results : /\ core[p].proposals[m.results[i].slot] # None
                                                 /\ ~HasStatus(core[p], m.results[i].slot, "Finalized")}
           at(m, s) == {i \in done(m) : m.results[i].slot = s}
           new(m)   == [s \in Slots |-> IF at(m, s) # {} THEN MarkFinalized(core[p].proposals[s]) ELSE core[p].proposals[s]]
<1>0. PICK m \in Inbox(p, "executed") :
        \/ core' = [core EXCEPT ![p].adu = GreatestOf({core[p].adu, m.adu})]
        \/ \E q : core' = [core EXCEPT ![p].adu = GreatestOf({core[p].adu, m.adu}), ![p].prioritized = q,
                      ![p].proposals = [s \in Slots |-> IF at(m, s) # {} THEN MarkFinalized(@[s]) ELSE @[s]]]
  BY DEF HandleExecuted
<1>1. PICK adu, q :
        \/ core' = [core EXCEPT ![p].adu = adu]
        \/ core' = [core EXCEPT ![p].adu = adu, ![p].prioritized = q,
                      ![p].proposals = [s \in Slots |-> IF at(m, s) # {} THEN MarkFinalized(@[s]) ELSE @[s]]]
  BY <1>0, Zenon
<1>2. core[p] \in CoreState
  BY DEF TypeOK, ProposerTypeOK
<1>3. CASE core' = [core EXCEPT ![p].adu = adu]
  <2>1. core'[p] = [core[p] EXCEPT !.adu = adu]
    BY <1>3 DEF TypeOK, ProposerTypeOK
  <2>2. core'[p].ballot = core[p].ballot /\ core'[p].proposals = core[p].proposals
    BY <1>2, <2>1 DEF CoreState
  <2> QED
    BY <2>2, CoreKept
<1>4. CASE core' = [core EXCEPT ![p].adu = adu, ![p].prioritized = q, ![p].proposals = new(m)]
  <2>1. \A s \in Slots : new(m)[s] # None => core[p].proposals[s] # None /\ new(m)[s].ballot = core[p].proposals[s].ballot
    <3> TAKE s \in Slots
    <3>1. CASE at(m, s) # {}
      <4>1. core[p].proposals[s] # None /\ core[p].proposals[s] \in Entry
        BY <1>2, <3>1 DEF CoreState
      <4>2. MarkFinalized(core[p].proposals[s]).ballot = core[p].proposals[s].ballot
        BY <4>1 DEF MarkFinalized, Entry
      <4> QED
        BY <3>1, <4>1, <4>2
    <3>2. CASE at(m, s) = {}
      BY <3>2
    <3> QED
      BY <3>1, <3>2
  <2> HIDE DEF new
  <2>2. core'[p] = [core[p] EXCEPT !.adu = adu, !.prioritized = q, !.proposals = new(m)]
    BY <1>4 DEF TypeOK, ProposerTypeOK
  <2>3. core'[p].ballot = core[p].ballot /\ core'[p].proposals = new(m)
    BY <1>2, <2>2 DEF CoreState
  <2> QED
    BY <2>1, <2>3 DEF KeepsProposals
<1>5. (core' = [core EXCEPT ![p].adu = adu, ![p].prioritized = q,
                  ![p].proposals = [s \in Slots |-> IF at(m, s) # {} THEN MarkFinalized(@[s]) ELSE @[s]]])
      => core' = [core EXCEPT ![p].adu = adu, ![p].prioritized = q, ![p].proposals = new(m)]
  BY Zenon
<1> QED
  BY <1>1, <1>3, <1>4, <1>5

\* The clock, the adu, the clients, the failure detector and a restart.
LEMMA OtherMoves ==
  ASSUME TypeOK, NEW p \in Proposers,
         \/ RequestAdu(p) \/ StartLeaderLoop(p) \/ PrepareTimeout(p) \/ HandleRetryLearn(p)
         \/ HandleAdu(p) \/ SubmitClientRequest(p) \/ ResignLeader(p) \/ RestartProposer(p)
  PROVE  core'[p].ballot = core[p].ballot /\ KeepsProposals(p)
<1>1. core[p] \in CoreState /\ core \in [Proposers -> CoreState]
  BY DEF TypeOK, ProposerTypeOK
<1>2. CASE RequestAdu(p) \/ StartLeaderLoop(p) \/ PrepareTimeout(p) \/ HandleRetryLearn(p)
  <2>1. core' = core
    BY <1>2 DEF RequestAdu, StartLeaderLoop, PrepareTimeout, HandleRetryLearn, proposerVars
  <2> QED
    BY <2>1, CoreKept
<1>3. CASE HandleAdu(p)
  <2>1. PICK adu : core' = [core EXCEPT ![p].adu = adu]
    BY <1>3 DEF HandleAdu
  <2> QED
    BY <1>1, <2>1, CoreKept DEF CoreState
<1>4. CASE SubmitClientRequest(p)
  <2>1. PICK v : core' = [core EXCEPT ![p].pending = Append(@, v)]
    BY <1>4 DEF SubmitClientRequest
  <2> QED
    BY <1>1, <2>1, CoreKept DEF CoreState
<1>5. CASE ResignLeader(p)
  BY <1>1, <1>5, CoreKept DEF ResignLeader, CoreState
<1>6. CASE RestartProposer(p)
  <2>1. core'[p] = NewCore(p, core[p].ballot, core[p].adu)
    BY <1>1, <1>6 DEF RestartProposer
  <2>2. core'[p].ballot = core[p].ballot /\ \A s \in Slots : core'[p].proposals[s] = None
    BY <2>1 DEF NewCore
  <2> QED
    BY <2>2 DEF KeepsProposals
<1> QED
  BY <1>2, <1>3, <1>4, <1>5, <1>6

\* Only a prepare and a new leadership take a new ballot (proposer.rs, increase_ballot).
LEMMA BallotMoves ==
  ASSUME TypeOK, NEW p \in Proposers, SendPrepare(p) \/ BecomeLeader(p)
  PROVE  core'[p].ballot = core[p].ballot + BallotDelta /\ KeepsProposals(p)
<1>1. core[p] \in CoreState /\ core \in [Proposers -> CoreState]
  BY DEF TypeOK, ProposerTypeOK
<1>2. CASE SendPrepare(p)
  <2>1. core'[p] = [core[p] EXCEPT !.ballot = core[p].ballot + BallotDelta]
    BY <1>1, <1>2 DEF SendPrepare
  <2> QED
    BY <1>1, <2>1 DEF CoreState, KeepsProposals
<1>3. CASE BecomeLeader(p)
  <2>1. core'[p] = [core[p] EXCEPT !.ballot = core[p].ballot + BallotDelta, !.isLeader = TRUE]
    BY <1>1, <1>3 DEF BecomeLeader
  <2> QED
    BY <1>1, <2>1 DEF CoreState, KeepsProposals
<1> QED
  BY <1>2, <1>3

\* A step is of one proposer, or of none.
StepOf(p) == ProposerStep(p) \/ (p \in MayChangeRole /\ Leadership(p)) \/ RestartProposer(p)

\* A step of one proposer leaves the others alone.
LEMMA OthersKept ==
  ASSUME TypeOK, NEW p \in Proposers, StepOf(p),
         NEW q \in Proposers \ {p}
  PROVE  core'[q] = core[q] /\ agent'[q] = agent[q]
<1>1. core \in [Proposers -> CoreState] /\ agent \in [Proposers -> AgentState]
  BY DEF TypeOK, ProposerTypeOK
<1>2. CASE HandlePromise(p)
  BY <1>1, <1>2 DEF HandlePromise
<1>3. CASE HandleAccepted(p)
  BY <1>1, <1>3 DEF HandleAccepted
<1>4. CASE HandleExecuted(p)
  <2>1. (core'[q] = core[q]) /\ (agent'[q] = agent[q] \/ agent' = agent)
    BY <1>1, <1>4 DEF HandleExecuted
  <2> QED
    BY <2>1
<1>5. CASE HandleRetryLearn(p) \/ HandleAdu(p)
  BY <1>1, <1>5 DEF HandleRetryLearn, HandleAdu, proposerVars
<1>6. CASE RequestAdu(p) \/ StartLeaderLoop(p) \/ SendPrepare(p) \/ PrepareTimeout(p)
  BY <1>1, <1>6 DEF RequestAdu, StartLeaderLoop, SendPrepare, PrepareTimeout, proposerVars
<1>7. CASE AcceptCommit(p)
  BY <1>1, <1>7 DEF AcceptCommit
<1>8. CASE SubmitClientRequest(p) \/ BecomeLeader(p) \/ ResignLeader(p) \/ RestartProposer(p)
  BY <1>1, <1>8 DEF SubmitClientRequest, BecomeLeader, ResignLeader, RestartProposer
<1> QED
  BY <1>2, <1>3, <1>4, <1>5, <1>6, <1>7, <1>8
     DEF StepOf, ProposerStep, HandleProposerMessage, ProposerTick, Leadership

\* Any other step leaves all proposers alone.
LEMMA NotOfAProposer ==
  ASSUME [Next]_vars, ~\E p \in Proposers : StepOf(p)
  PROVE  core' = core /\ agent' = agent
BY RolesAssumption
   DEF StepOf, Next, vars, proposerVars, AcceptorNext, LearnerNext, ProposerNext, RoleNext, RestartNext

\* The ballot stays, or grows by the number of acceptors; only a tick of phase 2
\* proposes something.
LEMMA CoreMoves ==
  ASSUME TypeOK, [Next]_vars, NEW q \in Proposers
  PROVE  /\ \/ core'[q].ballot = core[q].ballot
            \/ core'[q].ballot = core[q].ballot + BallotDelta /\ (SendPrepare(q) \/ q \in MayChangeRole)
         /\ KeepsProposals(q) \/ (AcceptCommit(q) /\ AddsProposals(q))
<1>1. CASE \E p \in Proposers : StepOf(p)
  <2>1. PICK p \in Proposers : StepOf(p)
    BY <1>1
  <2>2. CASE p = q
    BY <2>1, <2>2, PromiseMoves, AcceptedMoves, ExecutedMoves, OtherMoves, BallotMoves, AcceptCommitMoves
       DEF StepOf, ProposerStep, HandleProposerMessage, ProposerTick, Leadership
  <2>3. CASE p # q
    <3>1. core'[q] = core[q]
      BY <2>1, <2>3, OthersKept
    <3> QED
      BY <3>1 DEF KeepsProposals
  <2> QED
    BY <2>2, <2>3
<1>2. CASE ~\E p \in Proposers : StepOf(p)
  <2>1. core' = core
    BY <1>2, NotOfAProposer
  <2> QED
    BY <2>1 DEF KeepsProposals
<1> QED
  BY <1>1, <1>2

\* The cases for the promises that an agent holds and for its phase: no matter,
\* a promise, a restart.
SamePromises(q) == /\ agent'[q].promises = agent[q].promises
                   /\ agent'[q].phase = "AcceptCommit" => agent[q].phase = "AcceptCommit" /\ ~SendPrepare(q)
OnePromise(q) == \E m \in Inbox(q, "promise") :
  LET filed == FilePromise(agent[q].promises, m)
      top   == {r \in filed : \A o \in filed : o.ballot <= r.ballot}
  IN /\ agent'[q].promises = filed /\ core'[q].ballot = core[q].ballot /\ Reply(m, {})
     /\ agent'[q].phase = "AcceptCommit" => agent[q].phase = "AcceptCommit" \/ PhaseOneDone(core[q], top)
NoPromises(q) == agent'[q].promises = {} /\ agent'[q].phase # "AcceptCommit"

\* Handling a promise (handle_prepare_result) files that promise and no other.
LEMMA HandlePromiseFiles ==
  ASSUME TypeOK, NEW q \in Proposers, HandlePromise(q)
  PROVE  OnePromise(q)
<1>1. PICK m \in Inbox(q, "promise") :
        LET filed == FilePromise(agent[q].promises, m)
            top   == {r \in filed : \A o \in filed : o.ballot <= r.ballot}
        IN /\ Reply(m, {})
           /\ \/ /\ PhaseOneDone(core[q], top)
                 /\ agent' = [agent EXCEPT ![q].promises = filed, ![q].phase = AdvancePhase(@, TRUE)]
              \/ agent' = [agent EXCEPT ![q].promises = filed]
  BY DEF HandlePromise
<1> DEFINE filed == FilePromise(agent[q].promises, m)
           top   == {r \in filed : \A o \in filed : o.ballot <= r.ballot}
           next  == AdvancePhase(agent[q].phase, TRUE)
<1>2. agent[q] \in AgentState /\ agent \in [Proposers -> AgentState]
  BY DEF TypeOK, ProposerTypeOK
<1>3. core'[q].ballot = core[q].ballot /\ Reply(m, {})
  BY <1>1, PromiseMoves
<1> HIDE DEF filed, next
<1>4. CASE PhaseOneDone(core[q], top) /\ agent' = [agent EXCEPT ![q].promises = filed, ![q].phase = next]
  <2>1. agent'[q] = [agent[q] EXCEPT !.promises = filed, !.phase = next]
    BY <1>2, <1>4
  <2>2. agent'[q].promises = filed
    BY <1>2, <2>1 DEF AgentState
  <2> QED
    BY <1>3, <1>4, <2>2 DEF OnePromise, filed
<1>5. CASE agent' = [agent EXCEPT ![q].promises = filed]
  <2>1. agent'[q] = [agent[q] EXCEPT !.promises = filed]
    BY <1>2, <1>5
  <2>2. agent'[q].promises = filed /\ agent'[q].phase = agent[q].phase
    BY <1>2, <2>1 DEF AgentState
  <2> QED
    BY <1>3, <2>2 DEF OnePromise, filed
<1>6. \/ PhaseOneDone(core[q], top) /\ agent' = [agent EXCEPT ![q].promises = filed, ![q].phase = next]
      \/ agent' = [agent EXCEPT ![q].promises = filed]
  BY <1>1, Zenon DEF filed, next
<1> QED
  BY <1>4, <1>5, <1>6

\* A tick of the phase machine files no promise.
LEMMA TickFiles ==
  ASSUME TypeOK, NEW q \in Proposers,
         \/ RequestAdu(q) \/ StartLeaderLoop(q) \/ SendPrepare(q) \/ PrepareTimeout(q) \/ AcceptCommit(q)
  PROVE  SamePromises(q)
<1>1. agent[q] \in AgentState /\ agent \in [Proposers -> AgentState]
  BY DEF TypeOK, ProposerTypeOK
<1>2. CASE RequestAdu(q)
  BY <1>2 DEF RequestAdu, SendPrepare, SamePromises, proposerVars
<1>3. CASE StartLeaderLoop(q)
  BY <1>1, <1>3 DEF StartLeaderLoop, SamePromises, AgentState
<1>4. CASE SendPrepare(q)
  <2>1. agent'[q] = [agent[q] EXCEPT !.phase = AdvancePhase(@, FALSE), !.timer = TRUE] /\ agent[q].phase = "PrepareSend"
    BY <1>1, <1>4 DEF SendPrepare
  <2>2. agent'[q].promises = agent[q].promises /\ agent'[q].phase = AdvancePhase("PrepareSend", FALSE)
    BY <1>1, <2>1 DEF AgentState
  <2> QED
    BY <2>2 DEF SamePromises, AdvancePhase
<1>5. CASE PrepareTimeout(q)
  <2>1. agent'[q] = [agent[q] EXCEPT !.phase = AdvancePhase(@, FALSE), !.timer = FALSE] /\ agent[q].phase = "PreparePending"
    BY <1>1, <1>5 DEF PrepareTimeout
  <2>2. agent'[q].promises = agent[q].promises /\ agent'[q].phase = AdvancePhase("PreparePending", FALSE)
    BY <1>1, <2>1 DEF AgentState
  <2> QED
    BY <2>2 DEF SamePromises, AdvancePhase
<1>6. CASE AcceptCommit(q)
  <2>1. PICK f : agent'[q] = [agent[q] EXCEPT !.responses = f]
    BY <1>1, <1>6 DEF AcceptCommit
  <2>2. agent'[q].promises = agent[q].promises /\ agent'[q].phase = agent[q].phase
    BY <1>1, <2>1 DEF AgentState
  <2> QED
    BY <1>6, <2>2 DEF SamePromises, AcceptCommit, SendPrepare
<1> QED
  BY <1>2, <1>3, <1>4, <1>5, <1>6

\* No other handler files a promise; a restart forgets them all.
LEMMA OtherFiles ==
  ASSUME TypeOK, NEW q \in Proposers,
         \/ HandleAccepted(q) \/ HandleRetryLearn(q) \/ HandleExecuted(q) \/ HandleAdu(q)
         \/ SubmitClientRequest(q) \/ Leadership(q) \/ RestartProposer(q)
  PROVE  SamePromises(q) \/ NoPromises(q)
<1>1. agent[q] \in AgentState /\ agent \in [Proposers -> AgentState]
  BY DEF TypeOK, ProposerTypeOK
<1>2. agent[q].phase = "AcceptCommit" => ~SendPrepare(q)
  BY DEF SendPrepare
<1>3. ASSUME agent' = agent PROVE SamePromises(q)
  BY <1>2, <1>3 DEF SamePromises
<1>4. CASE HandleAccepted(q)
  <2>0. PICK m \in Inbox(q, "accepted") :
          agent' = [agent EXCEPT ![q].accepts[m.slot] = FileAccepted(agent[q].accepts[m.slot], m)]
    BY <1>4 DEF HandleAccepted
  <2>1. PICK f : agent'[q] = [agent[q] EXCEPT !.accepts[m.slot] = f]
    BY <1>1, <2>0
  <2>2. agent'[q].promises = agent[q].promises /\ agent'[q].phase = agent[q].phase
    BY <1>1, <2>1 DEF AgentState
  <2> QED
    BY <1>2, <2>2 DEF SamePromises
<1>5. CASE HandleExecuted(q)
  <2>1. agent' = agent \/ \E f : agent' = [agent EXCEPT ![q].responses = f]
    BY <1>5 DEF HandleExecuted
  <2>2. CASE \E f : agent' = [agent EXCEPT ![q].responses = f]
    <3>1. PICK f : agent'[q] = [agent[q] EXCEPT !.responses = f]
      BY <1>1, <2>2
    <3>2. agent'[q].promises = agent[q].promises /\ agent'[q].phase = agent[q].phase
      BY <1>1, <3>1 DEF AgentState
    <3> QED
      BY <1>2, <3>2 DEF SamePromises
  <2> QED
    BY <1>3, <2>1, <2>2
<1>6. CASE HandleAdu(q)
  <2>1. agent'[q] = [agent[q] EXCEPT !.hasAdu = TRUE]
    BY <1>1, <1>6 DEF HandleAdu
  <2>2. agent'[q].promises = agent[q].promises /\ agent'[q].phase = agent[q].phase
    BY <1>1, <2>1 DEF AgentState
  <2> QED
    BY <1>2, <2>2 DEF SamePromises
<1>7. CASE HandleRetryLearn(q) \/ SubmitClientRequest(q) \/ Leadership(q)
  <2>1. agent' = agent
    BY <1>7 DEF HandleRetryLearn, SubmitClientRequest, Leadership, BecomeLeader, ResignLeader, proposerVars
  <2> QED
    BY <1>3, <2>1
<1>8. CASE RestartProposer(q)
  <2>1. agent'[q] = NewAgent
    BY <1>1, <1>8 DEF RestartProposer
  <2> QED
    BY <2>1 DEF NewAgent, NoPromises
<1> QED
  BY <1>4, <1>5, <1>6, <1>7, <1>8

\* Every step treats the promises of a proposer in one of three ways.
LEMMA AgentMoves ==
  ASSUME TypeOK, [Next]_vars, NEW q \in Proposers
  PROVE  SamePromises(q) \/ OnePromise(q) \/ NoPromises(q)
<1>1. agent'[q] = agent[q] => SamePromises(q)
  BY DEF SamePromises, SendPrepare
<1>2. CASE \E p \in Proposers : StepOf(p)
  <2>1. PICK p \in Proposers : StepOf(p)
    BY <1>2
  <2>2. CASE p = q
    BY <2>1, <2>2, HandlePromiseFiles, TickFiles, OtherFiles
       DEF StepOf, ProposerStep, HandleProposerMessage, ProposerTick
  <2>3. CASE p # q
    BY <1>1, <2>1, <2>3, OthersKept
  <2> QED
    BY <2>2, <2>3
<1>3. CASE ~\E p \in Proposers : StepOf(p)
  BY <1>1, <1>3, NotOfAProposer
<1> QED
  BY <1>2, <1>3

----------------------------------------------------------------------------
(* What the steps make of the acceptors. *)

\* A promise only grows, a value accepted stays, and one that is new has at
\* least the promised ballot (acceptor.rs, prepare, accept).
AcceptorsMove == \A a \in Acceptors :
  /\ promised'[a] >= promised[a]
  /\ \A s \in Slots : \/ accepted'[a][s] = accepted[a][s]
                      \/ accepted[a][s] = None /\ accepted'[a][s].ballot >= promised[a]

\* An acceptor's promise never decreases, and a slot is filled once, with a ballot that
\* is not below the promise (acceptor.rs, prepare, accept).
LEMMA AcceptorsOnlyGrow ==
  ASSUME TypeOK, [Next]_vars
  PROVE  AcceptorsMove
<1>0. \A a \in Acceptors : promised[a] \in Nat /\ promised[a] >= promised[a]
  BY DEF TypeOK, AcceptorTypeOK, Ballots
<1>1. CASE UNCHANGED acceptorVars
  BY <1>0, <1>1 DEF acceptorVars, AcceptorsMove
<1>2. CASE \E a \in Acceptors : HandlePrepare(a)
  <2>1. PICK a \in Acceptors, m \in network : Promise(a, m) \/ RejectPrepare(a, m)
    BY <1>2 DEF HandlePrepare, Inbox
  <2> QED
    BY <1>0, <2>1 DEF Promise, RejectPrepare, acceptorVars, AcceptorsMove, TypeOK, AcceptorTypeOK
<1>3. CASE \E a \in Acceptors : HandleAccept(a)
  <2>0. PICK a \in Acceptors : HandleAccept(a)
    BY <1>3
  <2>1. PICK m \in Inbox(a, "accept") : AcceptNew(a, m) \/ AcceptAgain(a, m) \/ RejectAccept(a, m)
    BY <2>0 DEF HandleAccept
  <2>2. CASE AcceptNew(a, m)
    <3>1. m.slot \in Slots
      BY InboxTypes DEF TypeOK, Accepts
    <3> DEFINE pv == [ballot |-> m.ballot, value |-> m.value]
    <3>2. /\ promised' = promised /\ accepted[a][m.slot] = None /\ pv.ballot >= promised[a]
          /\ accepted' = [accepted EXCEPT ![a][m.slot] = pv]
      BY <2>2 DEF AcceptNew
    <3> HIDE DEF pv
    <3>3. \A b \in Acceptors, s \in Slots : accepted'[b][s] = IF b = a /\ s = m.slot THEN pv ELSE accepted[b][s]
      BY <3>1, <3>2 DEF TypeOK, AcceptorTypeOK, AcceptedMap
    <3> QED
      BY <1>0, <3>2, <3>3 DEF AcceptorsMove
  <2>3. CASE AcceptAgain(a, m) \/ RejectAccept(a, m)
    BY <1>1, <2>3 DEF AcceptAgain, RejectAccept
  <2> QED
    BY <2>1, <2>2, <2>3
<1>4. CASE \E a \in Acceptors : HandleRetryLearns(a)
  BY <1>1, <1>4 DEF HandleRetryLearns
<1> QED
  BY <1>1, <1>2, <1>3, <1>4
     DEF Next, vars, AcceptorNext, AcceptorStep, LearnerNext, ProposerNext, RoleNext, RestartNext

----------------------------------------------------------------------------
(* The messages of phase 1. *)

\* A learner sends neither (learner-agent.rs).
LEMMA LearnerSends ==
  ASSUME NEW l \in Learners, LearnerStep(l), NEW m \in network' \ network
  PROVE  m.type \notin {"prepare", "promise"}
<1>1. CASE HandleLearn(l)
  <2>1. \/ \E r, map : ExecuteAndDispatch(l, map, r, {}, TRUE)
        \/ \E r : Reply(r, {})
    BY <1>1 DEF HandleLearn
  <2>2. CASE \E r, map : ExecuteAndDispatch(l, map, r, {}, TRUE)
    <3>1. PICK r, map : ExecuteAndDispatch(l, map, r, {}, TRUE)
      BY <2>2
    <3>2. \A S : S = {} /\ ExecuteAndDispatch(l, map, r, S, TRUE) => m \in S \/ m.type = "executed"
      BY DispatchLearns
    <3>3. m.type = "executed"
      BY <3>1, <3>2
    <3> QED
      BY <3>3
  <2>3. CASE \E r : Reply(r, {})
    BY <2>3 DEF Reply
  <2> QED
    BY <2>1, <2>2, <2>3
<1>2. CASE LearnerTick(l)
  <2>1. PICK S : \/ ExecuteAndDispatch(l, learned[l], None,
                      IF S = {} THEN {} ELSE {RetryLearnsMsg(l, n, S) : n \in RetryTargets}, FALSE)
                 \/ Send(IF S = {} THEN {} ELSE {RetryLearnsMsg(l, n, S) : n \in RetryTargets})
    BY <1>2 DEF LearnerTick
  <2> DEFINE retries == IF S = {} THEN {} ELSE {RetryLearnsMsg(l, n, S) : n \in RetryTargets}
  <2>2. \A n \in retries : n.type = "retry-learns"
    BY DEF RetryLearnsMsg
  <2> HIDE DEF retries
  <2>3. m \in retries \/ m.type = "executed"
    <3>1. CASE ExecuteAndDispatch(l, learned[l], None, retries, FALSE)
      BY <3>1, DispatchLearns
    <3>2. CASE Send(retries)
      BY <3>2 DEF Send
    <3> QED
      BY <2>1, <3>1, <3>2 DEF retries
  <2> QED
    BY <2>2, <2>3
<1>3. CASE HandleAduRequest(l)
  BY <1>3 DEF HandleAduRequest, Reply, AduMsg
<1> QED
  BY <1>1, <1>2, <1>3 DEF LearnerStep

\* Of a proposer's steps only a prepare does (proposer-agent.rs, broadcast_prepare).
LEMMA ProposerSends ==
  ASSUME NEW p \in Proposers, StepOf(p), ~SendPrepare(p), NEW m \in network' \ network
  PROVE  m.type \notin {"prepare", "promise"}
<1>1. \A c, s : /\ \A n \in ProposalAccepts(p, c, s) : n.type = "accept"
               /\ \A n \in ProposalLearns(p, c, s) : n.type = "learn"
  BY DEF ProposalAccepts, ProposalLearns, AcceptMsg, LearnMsg
<1>2. CASE AcceptCommit(p)
  <2> DEFINE c1 == CreateProposals(core[p])
             c2 == CommitChosen(c1)
  <2>1. Send((UNION {ProposalAccepts(p, c1, s) : s \in core[p].currentSlot + 1 .. c1.currentSlot})
             \cup (UNION {ProposalLearns(p, c2, s) : s \in Committing(c1)}))
    BY <1>2 DEF AcceptCommit
  <2> HIDE DEF c1, c2
  <2>2. \/ \E s : m \in ProposalAccepts(p, c1, s)
        \/ \E s : m \in ProposalLearns(p, c2, s)
    BY <2>1 DEF Send
  <2> QED
    BY <1>1, <2>2
<1>3. CASE HandleRetryLearn(p)
  <2>1. PICK r \in Inbox(p, "retry-learns") :
          Reply(r, IF core[p].isLeader
            THEN (UNION {ProposalLearns(p, core[p], s) :
                           s \in {t \in r.slots : HasStatus(core[p], t, "CommitPending")}})
                 \cup (UNION {ProposalAccepts(p, core[p], s) :
                           s \in {t \in r.slots : HasStatus(core[p], t, "InFlight")}})
            ELSE {})
    BY <1>3 DEF HandleRetryLearn
  <2>2. \/ \E s : m \in ProposalAccepts(p, core[p], s)
        \/ \E s : m \in ProposalLearns(p, core[p], s)
    BY <2>1 DEF Reply
  <2> QED
    BY <1>1, <2>2
<1>4. CASE RequestAdu(p)
  BY <1>4 DEF RequestAdu, Send, AduMsg
<1>5. CASE HandlePromise(p) \/ HandleAccepted(p) \/ HandleExecuted(p) \/ HandleAdu(p)
  BY <1>5 DEF HandlePromise, HandleAccepted, HandleExecuted, HandleAdu, Reply
<1>6. CASE \/ StartLeaderLoop(p) \/ PrepareTimeout(p) \/ SubmitClientRequest(p)
           \/ Leadership(p) \/ RestartProposer(p)
  BY <1>6 DEF StartLeaderLoop, PrepareTimeout, SubmitClientRequest, Leadership,
              BecomeLeader, ResignLeader, RestartProposer
<1> QED
  BY <1>2, <1>3, <1>4, <1>5, <1>6 DEF StepOf, ProposerStep, HandleProposerMessage, ProposerTick

\* acceptor-agent.rs, handle_message
LEMMA RetrySends ==
  ASSUME NEW a \in Acceptors, HandleRetryLearns(a)
  PROVE  \A m \in network' \ network : m.type = "learn"
<1>1. PICK r \in Inbox(a, "retry-learns") :
        network' = (network \ {r}) \cup {LearnMsg(a, l, s, RetryValue(a, s)) : s \in r.slots, l \in Learners}
  BY DEF HandleRetryLearns, Reply
<1> QED
  BY <1>1 DEF LearnMsg

\* Only a prepare of the present round, and the promise that answers one, are new.
LEMMA NewPhaseOneMessages ==
  ASSUME TypeOK, [Next]_vars, NEW m \in network' \ network, m.type \in {"prepare", "promise"}
  PROVE  \/ \E p \in Proposers : SendPrepare(p) /\ m.from = p /\ m.ballot = core'[p].ballot
         \/ \E a \in Acceptors : \E r \in Inbox(a, "prepare") :
              Promise(a, r) /\ m = PromiseMsg(a, r.from, r.slot, r.ballot, CollectAcceptedFrom(a, r.slot))
<1>1. CASE AcceptorNext
  <2>1. PICK a \in Acceptors : AcceptorStep(a)
    BY <1>1 DEF AcceptorNext
  <2>2. CASE HandlePrepare(a)
    BY <2>2 DEF HandlePrepare, Promise, RejectPrepare, Reply
  <2>3. ~HandleAccept(a)
    <3> SUFFICES ASSUME HandleAccept(a) PROVE FALSE
      OBVIOUS
    <3>1. PICK r \in Inbox(a, "accept") : Reply(r, Announce(a, r)) \/ Reply(r, {})
      BY DEF HandleAccept, AcceptNew, AcceptAgain, RejectAccept
    <3>2. m \in Announce(a, r)
      BY <3>1 DEF Reply
    <3> QED
      BY <3>2 DEF Announce, LearnMsg, AcceptedMsg
  <2>4. ~HandleRetryLearns(a)
    BY RetrySends, m.type # "learn"
  <2> QED
    BY <2>1, <2>2, <2>3, <2>4 DEF AcceptorStep
<1>2. CASE LearnerNext
  <2>1. PICK l \in Learners : LearnerStep(l)
    BY <1>2 DEF LearnerNext
  <2> QED
    BY <2>1, LearnerSends
<1>3. CASE \E p \in Proposers : StepOf(p)
  <2>1. PICK p \in Proposers : StepOf(p)
    BY <1>3
  <2>2. CASE SendPrepare(p)
    <3>1. core'[p].ballot = core[p].ballot + BallotDelta
      BY <2>2, BallotMoves
    <3>2. \E a \in Acceptors : m = PrepareMsg(p, a, core[p].adu + 1, core[p].ballot + BallotDelta)
      BY <2>2 DEF SendPrepare, Send
    <3> QED
      BY <2>2, <3>1, <3>2 DEF PrepareMsg
  <2>3. CASE ~SendPrepare(p)
    BY <2>1, <2>3, ProposerSends
  <2> QED
    BY <2>2, <2>3
<1>4. network' = network \/ AcceptorNext \/ LearnerNext \/ \E p \in Proposers : StepOf(p)
  BY RolesAssumption DEF Next, vars, StepOf, ProposerNext, RoleNext, RestartNext
<1> QED
  BY <1>1, <1>2, <1>3, <1>4

----------------------------------------------------------------------------
(* Promises bind, and are not ahead. *)

\* The promises under way to p and those its agent holds.
Given(p) == Inbox(p, "promise") \cup agent[p].promises

\* What its sender keeps to.
Kept(r) == /\ r.ballot <= promised[r.from]
           /\ \A s \in Slots : s >= r.slot /\ r.accepted[s] = None /\ accepted[r.from][s] # None
                => accepted[r.from][s].ballot >= r.ballot

\* A prepare has a ballot its sender has taken, and so has every promise.
PreparesTaken == \A m \in network : m.type = "prepare" => m.ballot <= core[m.from].ballot
PromisesTaken == \A p \in Proposers : \A r \in Given(p) : r.ballot <= core[p].ballot
PromisesKept  == \A p \in Proposers : \A r \in Given(p) : Kept(r)

PromiseInv == PreparesTaken /\ PromisesTaken /\ PromisesKept

\* The promises given to a proposer, filed or under way, have their types.
LEMMA GivenType ==
  ASSUME TypeOK, NEW p \in Proposers
  PROVE  Given(p) \subseteq Promises /\ core[p].ballot \in Nat
BY InboxTypes DEF Given, TypeOK, ProposerTypeOK, AgentState, CoreState, Ballots

\* A proposer's ballot never decreases, across restarts too (increase_ballot, load_state).
LEMMA BallotsGrow ==
  ASSUME TypeOK, [Next]_vars, NEW p \in Proposers
  PROVE  core[p].ballot \in Nat /\ core'[p].ballot \in Nat /\ core[p].ballot <= core'[p].ballot
<1>1. core[p].ballot \in Nat
  BY GivenType
<1> QED
  BY <1>1, CoreMoves, DeltaType

\* What a sender keeps to it goes on keeping to.
LEMMA StaysKept ==
  ASSUME TypeOK, TypeOK', [Next]_vars, NEW r \in Promises, Kept(r)
  PROVE  Kept(r)'
<1> DEFINE a == r.from
<1>1. a \in Acceptors /\ r.ballot \in Nat
  BY DEF Promises, Ballots
<1>2. promised[a] \in Nat /\ promised'[a] \in Nat
  BY <1>1 DEF TypeOK, AcceptorTypeOK, Ballots
<1>3. /\ promised'[a] >= promised[a]
      /\ \A s \in Slots : accepted'[a][s] = accepted[a][s] \/ accepted'[a][s].ballot >= promised[a]
  BY <1>1, AcceptorsOnlyGrow DEF AcceptorsMove
<1>4. r.ballot <= promised'[a]
  BY <1>1, <1>2, <1>3 DEF Kept
<1>5. ASSUME NEW s \in Slots, s >= r.slot, r.accepted[s] = None, accepted'[a][s] # None
      PROVE  accepted'[a][s].ballot >= r.ballot
  <2>1. CASE accepted'[a][s] = accepted[a][s]
    BY <1>5, <2>1 DEF Kept
  <2>2. CASE accepted'[a][s].ballot >= promised[a]
    <3>1. accepted'[a][s].ballot \in Nat
      BY <1>1, <1>5 DEF TypeOK, AcceptorTypeOK, AcceptedMap, PValue, Ballots
    <3> QED
      BY <1>1, <1>2, <2>2, <3>1 DEF Kept
  <2> QED
    BY <1>3, <2>1, <2>2
<1> QED
  BY <1>4, <1>5 DEF Kept

\* A promise is kept to when it is given (acceptor.rs, prepare).
LEMMA GivenIsKept ==
  ASSUME TypeOK, NEW a \in Acceptors, NEW m \in Prepares, Promise(a, m),
         NEW r, r = PromiseMsg(a, m.from, m.slot, m.ballot, CollectAcceptedFrom(a, m.slot))
  PROVE  Kept(r)'
<1>1. r.from = a /\ r.ballot = m.ballot /\ r.slot = m.slot /\ r.accepted = CollectAcceptedFrom(a, m.slot)
  BY DEF PromiseMsg
<1>2. promised'[a] = m.ballot /\ accepted' = accepted /\ m.ballot \in Nat
  BY DEF Promise, TypeOK, AcceptorTypeOK, Prepares, Ballots
<1>3. \A s \in Slots : s >= r.slot /\ r.accepted[s] = None => accepted[a][s] = None
  BY <1>1 DEF CollectAcceptedFrom
<1>4. r.ballot <= promised'[r.from]
  BY <1>1, <1>2
<1>5. \A s \in Slots : s >= r.slot /\ r.accepted[s] = None /\ accepted'[r.from][s] # None => FALSE
  BY <1>1, <1>2, <1>3
<1> QED
  BY <1>4, <1>5 DEF Kept

\* A promise is given once, and then filed, lost or forgotten.
LEMMA GivenMoves ==
  ASSUME TypeOK, [Next]_vars, NEW p \in Proposers, NEW r \in Given(p)'
  PROVE  \/ r \in Given(p)
         \/ \E a \in Acceptors : \E m \in Inbox(a, "prepare") :
              /\ Promise(a, m) /\ m.from = p
              /\ r = PromiseMsg(a, m.from, m.slot, m.ballot, CollectAcceptedFrom(a, m.slot))
<1>1. CASE r \in agent'[p].promises
  <2>1. SamePromises(p) \/ OnePromise(p) \/ NoPromises(p)
    BY AgentMoves
  <2> QED
    BY <1>1, <2>1 DEF SamePromises, OnePromise, NoPromises, FilePromise, Given
<1>2. CASE r \in network' /\ r.type = "promise" /\ r.to = p
  <2>1. CASE r \in network
    BY <1>2, <2>1 DEF Given, Inbox
  <2>2. CASE r \notin network
    <3>1. \/ \E q \in Proposers : SendPrepare(q) /\ r.from = q /\ r.ballot = core'[q].ballot
          \/ \E a \in Acceptors : \E m \in Inbox(a, "prepare") :
               Promise(a, m) /\ r = PromiseMsg(a, m.from, m.slot, m.ballot, CollectAcceptedFrom(a, m.slot))
      BY <1>2, <2>2, NewPhaseOneMessages
    <3>2. CASE \E q \in Proposers : SendPrepare(q)
      <4>1. PICK q \in Proposers : SendPrepare(q)
        BY <3>2
      <4>2. \E a : r = PrepareMsg(q, a, core[q].adu + 1, core[q].ballot + BallotDelta)
        BY <2>2, <1>2, <4>1 DEF SendPrepare, Send
      <4> QED
        BY <1>2, <4>2 DEF PrepareMsg
    <3>3. CASE \E a \in Acceptors : \E m \in Inbox(a, "prepare") :
                 Promise(a, m) /\ r = PromiseMsg(a, m.from, m.slot, m.ballot, CollectAcceptedFrom(a, m.slot))
      <4>1. \A a, m : PromiseMsg(a, m.from, m.slot, m.ballot, CollectAcceptedFrom(a, m.slot)).to = m.from
        BY DEF PromiseMsg
      <4> QED
        BY <1>2, <3>3, <4>1
    <3> QED
      BY <3>1, <3>2, <3>3
  <2> QED
    BY <2>1, <2>2
<1> QED
  BY <1>1, <1>2 DEF Given, Inbox

\* Every step keeps the invariant of the promises.
LEMMA PromiseStep ==
  ASSUME TypeOK, TypeOK', PromiseInv, [Next]_vars
  PROVE  PromiseInv'
<1>1. PreparesTaken'
  <2> SUFFICES ASSUME NEW m \in network', m.type = "prepare"
               PROVE  m.ballot <= core'[m.from].ballot
    BY DEF PreparesTaken
  <2>1. m.from \in Proposers /\ m.ballot \in Nat
    BY DEF TypeOK, Messages, Prepares, Promises, Accepts, Accepteds, Learns, Retries, Executeds, Adus, Ballots
  <2>2. /\ core[m.from].ballot \in Nat /\ core'[m.from].ballot \in Nat
        /\ core[m.from].ballot <= core'[m.from].ballot
    BY <2>1, BallotsGrow
  <2>3. CASE m \in network
    BY <2>1, <2>2, <2>3 DEF PromiseInv, PreparesTaken
  <2>4. CASE m \notin network
    <3>1. \A a, r : PromiseMsg(a, r.from, r.slot, r.ballot, CollectAcceptedFrom(a, r.slot)).type = "promise"
      BY DEF PromiseMsg
    <3>2. \E p \in Proposers : m.from = p /\ m.ballot = core'[p].ballot
      BY <2>4, <3>1, NewPhaseOneMessages
    <3> QED
      BY <2>2, <3>2
  <2> QED
    BY <2>3, <2>4
<1>2. ASSUME NEW p \in Proposers, NEW r \in Given(p)'
      PROVE  r.ballot <= core'[p].ballot /\ Kept(r)'
  <2>1. core[p].ballot \in Nat /\ core'[p].ballot \in Nat /\ core[p].ballot <= core'[p].ballot
    BY BallotsGrow
  <2>2. CASE r \in Given(p)
    <3>1. r \in Promises
      BY <2>2, GivenType
    <3>2. r.ballot \in Nat /\ r.ballot <= core[p].ballot /\ Kept(r)
      BY <2>2, <3>1 DEF Promises, Ballots, PromiseInv, PromisesTaken, PromisesKept
    <3>3. Kept(r)'
      BY <3>1, <3>2, StaysKept
    <3> QED
      BY <2>1, <3>2, <3>3
  <2>3. CASE \E a \in Acceptors : \E m \in Inbox(a, "prepare") :
              /\ Promise(a, m) /\ m.from = p
              /\ r = PromiseMsg(a, m.from, m.slot, m.ballot, CollectAcceptedFrom(a, m.slot))
    <3>1. PICK a \in Acceptors : \E m \in Inbox(a, "prepare") :
              /\ Promise(a, m) /\ m.from = p
              /\ r = PromiseMsg(a, m.from, m.slot, m.ballot, CollectAcceptedFrom(a, m.slot))
      BY <2>3
    <3>2. PICK m \in Inbox(a, "prepare") :
              /\ Promise(a, m) /\ m.from = p
              /\ r = PromiseMsg(a, m.from, m.slot, m.ballot, CollectAcceptedFrom(a, m.slot))
      BY <3>1
    <3>3. m \in Prepares /\ m \in network /\ m.type = "prepare"
      BY <3>2, InboxTypes DEF TypeOK, Inbox
    <3>4. Kept(r)'
      BY <3>2, <3>3, GivenIsKept
    <3>5. r.ballot = m.ballot /\ m.ballot \in Nat
      BY <3>2, <3>3 DEF PromiseMsg, Prepares, Ballots
    <3>6. m.ballot <= core[p].ballot
      BY <3>2, <3>3 DEF PromiseInv, PreparesTaken
    <3> QED
      BY <2>1, <3>4, <3>5, <3>6
  <2> QED
    BY <2>2, <2>3, GivenMoves
<1>3. PromisesTaken' /\ PromisesKept'
  BY <1>2 DEF PromisesTaken, PromisesKept
<1> QED
  BY <1>1, <1>3 DEF PromiseInv

\* The invariant of the promises holds in the beginning.
LEMMA PromiseStart == Init => PromiseInv
BY DEF Init, ProposerInit, NewAgent, PromiseInv, PreparesTaken, PromisesTaken, PromisesKept, Given, Inbox

\* A promise under way or held is kept to by the acceptor that gave it, and its
\* ballot is not ahead of its proposer's (acceptor.rs, prepare, accept).
THEOREM PromiseInvariant == Spec => []PromiseInv
BY PromiseStart, PromiseStep, TypeCorrect, PTL DEF Spec

\* What a proposer has been promised stays true, whatever happens until it uses
\* it (acceptor.rs, prepare, accept).
THEOREM PromiseBindsHolds == Spec => []PromiseBinds
<1>1. PromiseInv => PromiseBinds
  BY DEF PromiseInv, PromisesKept, Kept, Given, PromiseBinds
<1> QED
  BY <1>1, PromiseInvariant, PTL

\* No promise is for a ballot its proposer has yet to take, also after a crash
\* (proposer.rs, load_state).
THEOREM PromisesNotAheadHolds == Spec => []PromisesNotAhead
<1>1. PromiseInv => PromisesNotAhead
  BY DEF PromiseInv, PromisesTaken, Given, PromisesNotAhead
<1> QED
  BY <1>1, PromiseInvariant, PTL

----------------------------------------------------------------------------
(* Phase 2 only after phase 1, as long as no failure detector changes its mind. *)

\* The acceptors that have promised a ballot or a higher one.
Promisers(b) == {a \in Acceptors : promised[a] >= b}

\* One promise per ballot and sender is held, and the phase is what it says.
OneEach     == \A p \in Proposers : \A r, o \in agent[p].promises :
                 r.ballot = o.ballot /\ r.from = o.from => r = o
PhaseQuorum == \A p \in Proposers : agent[p].phase = "AcceptCommit" => IsQuorum(Promisers(core[p].ballot))

PhaseInv == OneEach /\ PhaseQuorum /\ ProposedAfterPhase1

\* As many acceptors have promised as there are promises of the ballot
\* (proposer-agent.rs, process_promises).
LEMMA PromisesAreSenders ==
  ASSUME TypeOK, NEW R \in SUBSET Promises, NEW b,
         \A r \in R : r.ballot = b /\ Kept(r),
         \A r, o \in R : r.from = o.from => r = o,
         Cardinality(R) >= QuorumSize
  PROVE  IsQuorum(Promisers(b))
<1> DEFINE f == [r \in R |-> r.from]
<1>1. \A r \in R : r.from \in Promisers(b)
  <2> TAKE r \in R
  <2>1. r.from \in Acceptors /\ r.ballot \in Nat /\ r.ballot = b
    BY DEF Promises, Ballots
  <2>2. b <= promised[r.from] /\ promised[r.from] \in Nat
    BY <2>1 DEF Kept, TypeOK, AcceptorTypeOK, Ballots
  <2> QED
    BY <2>1, <2>2 DEF Promisers
<1>2. f \in Injection(R, Promisers(b))
  BY <1>1 DEF Injection, IsInjective
<1>3. IsFiniteSet(Promisers(b))
  BY AcceptorsAssumption, FS_Subset DEF Promisers
<1>4. IsFiniteSet(R) /\ Cardinality(R) <= Cardinality(Promisers(b))
  BY <1>2, <1>3, FS_Injection
<1>5. Cardinality(R) \in Nat /\ Cardinality(Promisers(b)) \in Nat /\ QuorumSize \in Nat
  <2>1. Cardinality(Acceptors) \in Nat
    BY AcceptorsAssumption, FS_CardinalityType
  <2> QED
    BY <1>3, <1>4, <2>1, FS_CardinalityType DEF QuorumSize
<1> QED
  BY <1>4, <1>5 DEF IsQuorum

\* The acceptors that have promised a ballot stay so many.
LEMMA PromisersGrow ==
  ASSUME TypeOK, TypeOK', [Next]_vars, NEW b \in Nat, IsQuorum(Promisers(b))
  PROVE  IsQuorum({a \in Acceptors : promised'[a] >= b})
<1> DEFINE then == {a \in Acceptors : promised'[a] >= b}
<1>1. \A a \in Acceptors : promised[a] \in Nat /\ promised'[a] \in Nat /\ promised'[a] >= promised[a]
  BY AcceptorsOnlyGrow DEF AcceptorsMove, TypeOK, AcceptorTypeOK, Ballots
<1>2. Promisers(b) \in SUBSET then /\ then \in SUBSET Acceptors
  BY <1>1 DEF Promisers
<1> HIDE DEF then
<1>3. IsQuorum(then)
  BY <1>2, QuorumsGrow
<1> QED
  BY <1>3 DEF then

\* A proposer goes on holding one promise of each acceptor and ballot
\* (insert_and_check_promises).
LEMMA OneEachStep ==
  ASSUME TypeOK, OneEach, [Next]_vars
  PROVE  OneEach'
<1> SUFFICES ASSUME NEW p \in Proposers, NEW r \in agent'[p].promises, NEW o \in agent'[p].promises,
                    r.ballot = o.ballot, r.from = o.from
             PROVE  r = o
  BY DEF OneEach
<1>1. SamePromises(p) \/ OnePromise(p) \/ NoPromises(p)
  BY AgentMoves
<1>2. CASE SamePromises(p)
  BY <1>2 DEF SamePromises, OneEach
<1>3. CASE OnePromise(p)
  <2>1. PICK m : agent'[p].promises = FilePromise(agent[p].promises, m)
    BY <1>3 DEF OnePromise
  <2> QED
    BY <2>1 DEF FilePromise, OneEach
<1>4. CASE NoPromises(p)
  BY <1>4 DEF NoPromises
<1> QED
  BY <1>1, <1>2, <1>3, <1>4

\* Every step keeps phase 2 behind a quorum of promises for its ballot, while no
\* leadership changes.
LEMMA PhaseStep ==
  ASSUME MayChangeRole = {}, TypeOK, TypeOK', PromiseInv, PhaseInv, [Next]_vars
  PROVE  PhaseInv'
<1>1. OneEach'
  BY OneEachStep DEF PhaseInv
<1>2. ASSUME NEW p \in Proposers, agent'[p].phase = "AcceptCommit"
      PROVE  IsQuorum({a \in Acceptors : promised'[a] >= core'[p].ballot})
  <2>1. core[p].ballot \in Nat
    BY GivenType
  <2>2. SamePromises(p) \/ OnePromise(p)
    BY <1>2, AgentMoves DEF NoPromises
  <2>3. core'[p].ballot = core[p].ballot
    <3>1. CASE SamePromises(p)
      BY <1>2, <3>1, CoreMoves DEF SamePromises
    <3>2. CASE OnePromise(p)
      BY <3>2 DEF OnePromise
    <3> QED
      BY <2>2, <3>1, <3>2
  <2>4. IsQuorum(Promisers(core[p].ballot))
    <3>1. CASE agent[p].phase = "AcceptCommit"
      BY <3>1 DEF PhaseInv, PhaseQuorum
    <3>2. CASE agent[p].phase # "AcceptCommit"
      <4>1. PICK m \in Inbox(p, "promise") :
              LET filed == FilePromise(agent[p].promises, m)
                  top   == {r \in filed : \A o \in filed : o.ballot <= r.ballot}
              IN agent'[p].promises = filed /\ PhaseOneDone(core[p], top)
        BY <1>2, <2>2, <3>2 DEF SamePromises, OnePromise
      <4> DEFINE filed == FilePromise(agent[p].promises, m)
                 top   == {r \in filed : \A o \in filed : o.ballot <= r.ballot}
      <4>2. filed \subseteq Given(p) /\ filed = agent'[p].promises
        BY <4>1 DEF FilePromise, Given
      <4> HIDE DEF filed
      <4>3. \A r, o \in filed : r.ballot = o.ballot /\ r.from = o.from => r = o
        BY <1>1, <4>2 DEF OneEach
      <4>4. PhaseOneDone(core[p], top)
        BY <4>1 DEF filed
      <4>5. top \subseteq filed
        OBVIOUS
      <4> HIDE DEF top
      <4>6. Cardinality(top) >= QuorumSize /\ \A r \in top : r.ballot = core[p].ballot
        BY <4>4 DEF PhaseOneDone
      <4>7. top \in SUBSET Promises /\ \A r \in top : Kept(r)
        BY <4>2, <4>5, GivenType DEF PromiseInv, PromisesKept
      <4>8. \A r, o \in top : r.from = o.from => r = o
        BY <4>3, <4>5, <4>6
      <4> QED
        BY <4>6, <4>7, <4>8, PromisesAreSenders
    <3> QED
      BY <3>1, <3>2
  <2> QED
    BY <2>1, <2>3, <2>4, PromisersGrow
<1>3. ASSUME NEW p \in Proposers, NEW s \in Slots, core'[p].proposals[s] # None
      PROVE  IsQuorum({a \in Acceptors : promised'[a] >= core'[p].proposals[s].ballot})
  <2>1. CASE core[p].proposals[s] # None /\ core'[p].proposals[s].ballot = core[p].proposals[s].ballot
    <3>1. core[p].proposals[s].ballot \in Nat
      BY <2>1 DEF TypeOK, ProposerTypeOK, CoreState, Entry, Ballots
    <3>2. IsQuorum(Promisers(core[p].proposals[s].ballot))
      BY <2>1 DEF PhaseInv, ProposedAfterPhase1, Promisers
    <3> QED
      BY <2>1, <3>1, <3>2, PromisersGrow
  <2>2. CASE AcceptCommit(p) /\ core'[p].proposals[s].ballot = core[p].ballot
    <3>1. core[p].ballot \in Nat
      BY GivenType
    <3>2. IsQuorum(Promisers(core[p].ballot))
      BY <2>2 DEF AcceptCommit, PhaseInv, PhaseQuorum
    <3> QED
      BY <2>2, <3>1, <3>2, PromisersGrow
  <2> QED
    BY <1>3, <2>1, <2>2, CoreMoves DEF KeepsProposals, AddsProposals
<1>4. PhaseQuorum' /\ ProposedAfterPhase1'
  BY <1>2, <1>3 DEF PhaseQuorum, Promisers, ProposedAfterPhase1
<1> QED
  BY <1>1, <1>4 DEF PhaseInv

\* The invariant of the phases holds in the beginning.
LEMMA PhaseStart == Init => PhaseInv
BY DEF Init, ProposerInit, NewAgent, NewCore, PhaseInv, OneEach, PhaseQuorum, ProposedAfterPhase1

\* A proposer proposes only with a ballot that a majority has promised, crashes
\* and late promises notwithstanding, as long as leadership does not change: a
\* new leader takes a new ballot and stays in its phase (proposer-agent.rs,
\* become_leader).
THEOREM ProposedAfterPhase1Holds ==
  ASSUME MayChangeRole = {}
  PROVE  Spec => []ProposedAfterPhase1
<1>1. TypeOK /\ TypeOK' /\ PromiseInv /\ PhaseInv /\ [Next]_vars => PhaseInv'
  BY PhaseStep
<1>2. Spec => []PhaseInv
  BY <1>1, PhaseStart, TypeCorrect, PromiseInvariant, PTL DEF Spec
<1>3. PhaseInv => ProposedAfterPhase1
  BY DEF PhaseInv
<1> QED
  BY <1>2, <1>3, PTL

----------------------------------------------------------------------------
(* Ballots. *)

\* The ballot of a proposer is its id and so many rounds.
BallotOf(p) == \E k \in Nat : core[p].ballot = p + k * BallotDelta
BallotInv   == \A p \in Proposers : BallotOf(p)

\* No two proposers ever hold one ballot, if no id is greater than the number of
\* acceptors (proposer.rs, increase_ballot).
THEOREM BallotsDifferHolds ==
  ASSUME \A p \in Proposers : p <= BallotDelta
  PROVE  Spec => []BallotsDiffer
<1>1. Init => BallotInv
  <2> SUFFICES ASSUME Init, NEW p \in Proposers PROVE core[p].ballot = p + 0 * BallotDelta
    BY DEF BallotInv, BallotOf
  <2> QED
    BY ProposersAssumption, DeltaType DEF Init, ProposerInit, NewCore
<1>2. TypeOK /\ BallotInv /\ [Next]_vars => BallotInv'
  <2> SUFFICES ASSUME TypeOK, BallotInv, [Next]_vars, NEW p \in Proposers
               PROVE  BallotOf(p)'
    BY DEF BallotInv
  <2>1. PICK k \in Nat : core[p].ballot = p + k * BallotDelta
    BY DEF BallotInv, BallotOf
  <2>2. p + k * BallotDelta + BallotDelta = p + (k + 1) * BallotDelta
    BY ProposersAssumption, DeltaType
  <2>3. \E j \in {k, k + 1} : core'[p].ballot = p + j * BallotDelta
    BY <2>1, <2>2, CoreMoves
  <2> QED
    BY <2>3 DEF BallotOf
<1>3. BallotInv => BallotsDiffer
  <2> SUFFICES ASSUME BallotInv, NEW p \in Proposers, NEW q \in Proposers, p # q, core[p].ballot = core[q].ballot
               PROVE  FALSE
    BY DEF BallotsDiffer
  <2> DEFINE d == BallotDelta
  <2>1. PICK k \in Nat, j \in Nat : p + k * d = q + j * d
    BY DEF BallotInv, BallotOf
  <2>2. d \in Nat \ {0} /\ p \in 1 .. d /\ q \in 1 .. d
    BY ProposersAssumption, DeltaType
  <2> HIDE DEF d
  <2>3. k = j
    <3>1. ASSUME NEW x \in 1 .. d, NEW y \in 1 .. d, NEW m \in Nat, NEW n \in Nat, m < n
          PROVE  x + m * d # y + n * d
      <4>1. n * d = m * d + (n - m) * d
        BY <2>2
      <4>2. (n - m) * d >= d
        BY <2>2, <3>1
      <4> QED
        BY <2>2, <4>1, <4>2
    <3> QED
      BY <2>1, <2>2, <3>1
  <2> QED
    BY <2>1, <2>2, <2>3
<1> QED
  BY <1>1, <1>2, <1>3, TypeCorrect, PTL DEF Spec

----------------------------------------------------------------------------
(* Phase 2 and the clients, as long as no late promise sets the slot counter *)
(* back of a proposer that proposes already (proposer.rs,                    *)
(* collect_accepted_values): from there on a slot has two proposals of one   *)
(* ballot.  A restart sets the counter back too, but costs phase 2, and the  *)
(* next proposals have another ballot.                                       *)

Leads(p) == agent[p].phase = "AcceptCommit"
RecoversOnce == \A p \in Proposers : Leads(p) /\ Leads(p)' => core'[p].currentSlot >= core[p].currentSlot

\* What a command needs that is to be answered once: no slot is taken a second time, after a
\* restart neither.
SlotsTakenOnce == \A p \in Proposers : core'[p].currentSlot >= core[p].currentSlot

\* Proposer p has proposed v for slot s.
Proposes(p, s, v) == core[p].proposals[s] # None /\ core[p].proposals[s].value = v

\* No slot after the counter has a proposal.
UntakenFree == \A p \in Proposers, s \in Slots : s > core[p].currentSlot => core[p].proposals[s] = None

\* A step that leaves the proposals of p the values they have, and makes new ones only
\* for the slots that the counter passes.
ProposalsStay(p) == \A s \in Slots : /\ \A v \in Commands : Proposes(p, s, v) => Proposes(p, s, v)'
                                     /\ s > core'[p].currentSlot => core'[p].proposals[s] = None

\* What collect_accepted_values leaves: the proposals and all queues but the one it adds to.
LEMMA CollectLeaves ==
  ASSUME NEW c \in CoreState, NEW R, NEW s, NEW d \in AfterCollect(c, R, s)
  PROVE  d.proposals = c.proposals /\ d.chosenSlots = c.chosenSlots /\ d.pending = c.pending
<1>1. d = c \/ \E q : d = [c EXCEPT !.currentSlot = s - 1, !.prioritized = q]
  BY DEF AfterCollect
<1> QED
  BY <1>1 DEF CoreState

\* create_proposal takes n commands, the first k of them from the prioritized queue, and
\* proposes them for the slots after the counter.
Takes(c, d, n, k) ==
  /\ n \in Nat /\ k \in 0 .. n /\ k <= Len(c.prioritized) /\ n - k <= Len(c.pending)
  /\ d.currentSlot = c.currentSlot + n /\ d.chosenSlots = c.chosenSlots
  /\ d.prioritized = SubSeq(c.prioritized, k + 1, Len(c.prioritized))
  /\ d.pending = SubSeq(c.pending, n - k + 1, Len(c.pending))
  /\ \A s \in Slots : IF s \in c.currentSlot + 1 .. c.currentSlot + n
       THEN /\ d.proposals[s] # None /\ d.proposals[s].status = "InFlight"
            /\ d.proposals[s].value = IF s - c.currentSlot <= k THEN c.prioritized[s - c.currentSlot]
                                                                ELSE c.pending[s - c.currentSlot - k]
       ELSE d.proposals[s] = c.proposals[s]
LEMMA CreateTakes ==
  ASSUME NEW c \in CoreState
  PROVE  \E n, k : Takes(c, CreateProposals(c), n, k)
<1> DEFINE n      == NumProposals(c)
           queue  == c.prioritized \o c.pending
           k      == LeastOf({n, Len(c.prioritized)})
           first  == Len(c.prioritized)
           second == Len(c.pending)
           free   == MaxSlot - c.currentSlot
           props  == [s \in Slots |->
                       IF s \in c.currentSlot + 1 .. c.currentSlot + n
                         THEN [ballot |-> c.ballot, value |-> queue[s - c.currentSlot],
                               status |-> "InFlight"]
                         ELSE c.proposals[s]]
<1>1. /\ c.currentSlot \in Nat /\ MaxSlot \in Nat /\ free \in Nat /\ BatchSize \in Nat
      /\ c.prioritized \in Seq(Commands) /\ c.pending \in Seq(Commands)
  BY BoundsAssumption, BatchAssumption DEF CoreState
<1>2. first \in Nat /\ second \in Nat
  BY <1>1, LenProperties
<1>3. n = IF c.isLeader THEN LeastOf({BatchSize, first + second, free}) ELSE 0
  BY DEF NumProposals
<1>4. k = LeastOf({n, first})
  OBVIOUS
<1>5. CreateProposals(c) =
         [c EXCEPT !.currentSlot = @ + n,
                   !.prioritized = SubSeq(@, k + 1, Len(@)),
                   !.pending = SubSeq(@, n - k + 1, Len(@)),
                   !.proposals = props]
  BY DEF CreateProposals
<1>6. \A i \in 1 .. first + second : queue[i] = IF i <= first THEN c.prioritized[i] ELSE c.pending[i - first]
  BY <1>1, ConcatProperties
<1> HIDE DEF n, k, free
<1>7. n \in Nat /\ n <= first + second /\ n <= free
  <2> HIDE DEF first, second
  <2>1. first + second \in Nat
    BY <1>2
  <2> QED
    BY <1>1, <1>2, <1>3, <2>1, LeastOfThree
<1>8. /\ k \in Nat /\ k <= n /\ k <= first /\ n - k <= second
      /\ k < n => k = first
  <2> HIDE DEF first, second
  <2> QED
    BY <1>2, <1>4, <1>7, LeastOfTwo
<1> HIDE DEF queue
<1>9. ASSUME NEW s \in Slots, s \in c.currentSlot + 1 .. c.currentSlot + n
      PROVE  /\ props[s] # None /\ props[s].status = "InFlight"
             /\ props[s].value = IF s - c.currentSlot <= k THEN c.prioritized[s - c.currentSlot]
                                                           ELSE c.pending[s - c.currentSlot - k]
  <2> DEFINE i == s - c.currentSlot
  <2>1. props[s] = [ballot |-> c.ballot, value |-> queue[i], status |-> "InFlight"]
    BY <1>9
  <2>2. s \in Nat /\ i \in 1 .. n /\ i \in Nat
    <3>1. s \in Nat
      BY <1>1, <1>9, <1>7
    <3> QED
      BY <1>1, <1>7, <1>9, <3>1
  <2> HIDE DEF i, first, second
  <2>3. i \in 1 .. first + second
    BY <1>2, <1>7, <2>2
  <2>4. IF i <= k THEN i <= first ELSE ~(i <= first) /\ k = first
    BY <1>2, <1>7, <1>8, <2>2
  <2>5. queue[i] = IF i <= k THEN c.prioritized[i] ELSE c.pending[i - k]
    BY <1>6, <2>3, <2>4
  <2>6. queue[i] \in Commands
    <3>1. queue \in Seq(Commands) /\ Len(queue) = first + second
      BY <1>1, ConcatProperties DEF queue, first, second
    <3> QED
      BY <2>3, <3>1, ElementOfSeq
  <2> HIDE DEF props
  <2>7. [ballot |-> c.ballot, value |-> queue[i], status |-> "InFlight"] \in Entry
    BY <2>6 DEF CoreState, Entry, Statuses
  <2>8. props[s] # None
    BY <2>1, <2>7, SomeAssumption
  <2>9. props[s].value = queue[i] /\ props[s].status = "InFlight"
    BY <2>1
  <2> QED
    BY <2>5, <2>8, <2>9 DEF i
<1>10. \A s \in Slots : s \notin c.currentSlot + 1 .. c.currentSlot + n => props[s] = c.proposals[s]
  OBVIOUS
<1> HIDE DEF props
<1>11. /\ CreateProposals(c).currentSlot = c.currentSlot + n /\ CreateProposals(c).proposals = props
       /\ CreateProposals(c).chosenSlots = c.chosenSlots
       /\ CreateProposals(c).prioritized = SubSeq(c.prioritized, k + 1, first)
       /\ CreateProposals(c).pending = SubSeq(c.pending, n - k + 1, second)
  BY <1>5 DEF CoreState
<1>12. Takes(c, CreateProposals(c), n, k)
  BY <1>7, <1>8, <1>9, <1>10, <1>11 DEF Takes
<1> QED
  BY <1>12

\* take_chosen_proposals changes the status of proposals to commit, and nothing else of
\* them; the slots that stay in its queue were in it.
LEMMA CommitLeaves ==
  ASSUME NEW c \in CoreState
  PROVE  LET d == CommitChosen(c) IN
         /\ d.currentSlot = c.currentSlot /\ d.prioritized = c.prioritized /\ d.pending = c.pending
         /\ \A i \in 1 .. Len(d.chosenSlots) : \E j \in 1 .. Len(c.chosenSlots) : d.chosenSlots[i] = c.chosenSlots[j]
         /\ \A s \in Slots :
              /\ d.proposals[s] = None <=> c.proposals[s] = None
              /\ c.proposals[s] # None => d.proposals[s].value = c.proposals[s].value
              /\ s \in Committing(c) => d.proposals[s].status = "CommitPending"
              /\ d.proposals[s] = c.proposals[s]
                 \/ /\ c.proposals[s] # None /\ d.proposals[s].status = "CommitPending" /\ ~AcceptorsSendLearns
                    /\ \E j \in 1 .. Len(c.chosenSlots) : s = c.chosenSlots[j]
<1> DEFINE d   == CommitChosen(c)
           new == [s \in Slots |-> IF s \in Committing(c) THEN [c.proposals[s] EXCEPT !.status = "CommitPending"]
                                                          ELSE c.proposals[s]]
           k   == NumCommits(c)
           len == Len(c.chosenSlots)
<1>1. d = [c EXCEPT !.chosenSlots = SubSeq(@, NumCommits(c) + 1, Len(@)), !.proposals = new]
  BY DEF CommitChosen
<1>2. c.chosenSlots \in Seq(Slots) /\ len \in Nat /\ k \in Nat /\ k <= len
      /\ (AcceptorsSendLearns => k = 0)
  <2>1. c.chosenSlots \in Seq(Slots) /\ len \in Nat /\ BatchSize \in Nat
    BY LenProperties, BatchAssumption DEF CoreState
  <2>2. k = IF AcceptorsSendLearns THEN 0 ELSE LeastOf({BatchSize, len})
    BY DEF NumCommits
  <2> HIDE DEF k, len
  <2> QED
    BY <2>1, <2>2, LeastOfTwo
<1>3. ASSUME NEW s \in Slots
      PROVE  /\ new[s] = None <=> c.proposals[s] = None
             /\ c.proposals[s] # None => new[s].value = c.proposals[s].value
             /\ s \in Committing(c) => new[s].status = "CommitPending"
             /\ new[s] = c.proposals[s]
                \/ /\ c.proposals[s] # None /\ new[s].status = "CommitPending" /\ ~AcceptorsSendLearns
                   /\ \E j \in 1 .. len : s = c.chosenSlots[j]
  <2>1. CASE s \in Committing(c)
    <3>1. c.proposals[s] # None /\ c.proposals[s] \in Entry
      BY <2>1 DEF Committing, CoreState
    <3>2. \E i \in 1 .. k : s = c.chosenSlots[i]
      BY <2>1 DEF Committing
    <3>3. new[s] \in Entry /\ new[s].value = c.proposals[s].value /\ new[s].status = "CommitPending"
      BY <2>1, <3>1 DEF Entry, Statuses
    <3>4. new[s] # None
      BY <3>3, SomeAssumption
    <3> HIDE DEF new, k, len
    <3>5. ~AcceptorsSendLearns /\ \E j \in 1 .. len : s = c.chosenSlots[j]
      BY <1>2, <3>2, ConfigAssumption
    <3> QED
      BY <3>1, <3>3, <3>4, <3>5
  <2>2. CASE s \notin Committing(c)
    BY <2>2
  <2> QED
    BY <2>1, <2>2
<1> HIDE DEF new
<1>4. /\ d.currentSlot = c.currentSlot /\ d.prioritized = c.prioritized /\ d.pending = c.pending
      /\ d.proposals = new /\ d.chosenSlots = SubSeq(c.chosenSlots, k + 1, len)
  BY <1>1 DEF CoreState
<1>5. ASSUME NEW i \in 1 .. Len(d.chosenSlots)
      PROVE  \E j \in 1 .. len : d.chosenSlots[i] = c.chosenSlots[j]
  <2> DEFINE q == SubSeq(c.chosenSlots, k + 1, len)
  <2>1. q = [j \in 1 .. len - k |-> c.chosenSlots[j + k]] /\ i \in 1 .. Len(q) /\ d.chosenSlots = q
    <3> HIDE DEF k, d, len
    <3>1. \A a, b \in Nat : b - (a + 1) + 1 = b - a
      OBVIOUS
    <3>2. \A j \in 1 .. len - k : (k + 1) + j - 1 = j + k
      BY <1>2
    <3> QED
      BY <1>2, <1>4, <3>1, <3>2 DEF SubSeq
  <2> HIDE DEF q, k, len, d
  <2>2. Len(q) = len - k
    BY <1>2, <2>1
  <2>3. i + k \in 1 .. len /\ q[i] = c.chosenSlots[i + k]
    BY <1>2, <2>1, <2>2
  <2> QED
    BY <2>1, <2>3
<1> QED
  BY <1>3, <1>4, <1>5

----------------------------------------------------------------------------
(* What the steps of a proposer make of its proposals. *)

SameProposals(p) == /\ core'[p].proposals = core[p].proposals
                    /\ core'[p].chosenSlots = core[p].chosenSlots
SameQueues(p) == core'[p].prioritized = core[p].prioritized /\ core'[p].pending = core[p].pending

\* The steps that touch neither proposals nor queues.
LEMMA QuietSteps ==
  ASSUME TypeOK, NEW p \in Proposers, StepOf(p)
  PROVE  \/ HandlePromise(p) \/ HandleAccepted(p) \/ HandleExecuted(p) \/ AcceptCommit(p)
         \/ SubmitClientRequest(p) \/ RestartProposer(p)
         \/ SameProposals(p) /\ SameQueues(p)
<1>1. core[p] \in CoreState /\ core \in [Proposers -> CoreState]
  BY DEF TypeOK, ProposerTypeOK
<1>2. CASE RequestAdu(p) \/ StartLeaderLoop(p) \/ PrepareTimeout(p) \/ HandleRetryLearn(p)
  <2>1. core' = core
    BY <1>2 DEF RequestAdu, StartLeaderLoop, PrepareTimeout, HandleRetryLearn, proposerVars
  <2> QED
    BY <2>1 DEF SameProposals, SameQueues
<1>3. CASE SendPrepare(p)
  <2>1. core'[p] = [core[p] EXCEPT !.ballot = core[p].ballot + BallotDelta]
    BY <1>1, <1>3 DEF SendPrepare
  <2> QED
    BY <1>1, <2>1 DEF CoreState, SameProposals, SameQueues
<1>4. CASE HandleAdu(p)
  <2>1. PICK adu : core'[p] = [core[p] EXCEPT !.adu = adu]
    BY <1>1, <1>4 DEF HandleAdu
  <2> QED
    BY <1>1, <2>1 DEF CoreState, SameProposals, SameQueues
<1>5. CASE BecomeLeader(p)
  <2>1. core'[p] = [core[p] EXCEPT !.ballot = core[p].ballot + BallotDelta, !.isLeader = TRUE]
    BY <1>1, <1>5 DEF BecomeLeader
  <2> QED
    BY <1>1, <2>1 DEF CoreState, SameProposals, SameQueues
<1>6. CASE ResignLeader(p)
  <2>1. core'[p] = [core[p] EXCEPT !.isLeader = FALSE]
    BY <1>1, <1>6 DEF ResignLeader
  <2> QED
    BY <1>1, <2>1 DEF CoreState, SameProposals, SameQueues
<1> QED
  BY <1>2, <1>3, <1>4, <1>5, <1>6
     DEF StepOf, ProposerStep, HandleProposerMessage, ProposerTick, Leadership

\* A promise touches the slot counter and the prioritized queue only.
LEMMA PromiseLeaves ==
  ASSUME TypeOK, NEW p \in Proposers, HandlePromise(p)
  PROVE  SameProposals(p) /\ core'[p].pending = core[p].pending
<1>1. PICK R, s : core' = core \/ \E c \in AfterCollect(core[p], R, s) : core' = [core EXCEPT ![p] = c]
  BY DEF HandlePromise
<1>2. core[p] \in CoreState
  BY DEF TypeOK, ProposerTypeOK
<1>3. CASE core' = core
  BY <1>3 DEF SameProposals
<1>4. CASE \E c \in AfterCollect(core[p], R, s) : core' = [core EXCEPT ![p] = c]
  <2>1. PICK c \in AfterCollect(core[p], R, s) : core'[p] = c
    BY <1>4 DEF TypeOK, ProposerTypeOK
  <2>2. c.proposals = core[p].proposals /\ c.chosenSlots = core[p].chosenSlots /\ c.pending = core[p].pending
    BY <1>2, CollectLeaves
  <2> QED
    BY <2>1, <2>2 DEF SameProposals
<1> QED
  BY <1>1, <1>3, <1>4

\* A request touches the pending queue only.
LEMMA SubmitLeaves ==
  ASSUME TypeOK, NEW p \in Proposers, SubmitClientRequest(p)
  PROVE  /\ SameProposals(p) /\ core'[p].prioritized = core[p].prioritized
         /\ \E v \in Commands \ submitted : /\ core'[p].pending = Append(core[p].pending, v)
                                            /\ submitted' = submitted \cup {v}
<1>1. core[p] \in CoreState /\ core \in [Proposers -> CoreState]
  BY DEF TypeOK, ProposerTypeOK
<1>2. PICK v \in Commands \ submitted :
        core' = [core EXCEPT ![p].pending = Append(@, v)] /\ submitted' = submitted \cup {v}
  BY DEF SubmitClientRequest
<1>3. core'[p] = [core[p] EXCEPT !.pending = Append(core[p].pending, v)]
  BY <1>1, <1>2
<1> QED
  BY <1>1, <1>2, <1>3 DEF CoreState, SameProposals

\* After a restart there is no proposal, and nothing is queued.
LEMMA RestartLeaves ==
  ASSUME TypeOK, NEW p \in Proposers, RestartProposer(p)
  PROVE  /\ \A s \in Slots : core'[p].proposals[s] = None
         /\ core'[p].chosenSlots = <<>> /\ core'[p].prioritized = <<>> /\ core'[p].pending = <<>>
         /\ core'[p].currentSlot = 0 /\ agent'[p] = NewAgent
<1>1. core'[p] = NewCore(p, core[p].ballot, core[p].adu) /\ agent'[p] = NewAgent
  BY DEF RestartProposer, TypeOK, ProposerTypeOK
<1> QED
  BY <1>1 DEF NewCore

\* A vote is counted; with a majority the proposal in flight becomes chosen and its slot
\* is queued for commit.
Counted(p, m) == \A s \in Slots, a \in Acceptors :
  agent'[p].accepts[s][a] = IF s = m.slot /\ a = m.from THEN m.ballot ELSE agent[p].accepts[s][a]
Wins(p, m) ==
  /\ HasStatus(core[p], m.slot, "InFlight")
  /\ PhaseTwoDone(core[p], agent'[p].accepts[m.slot], m.slot)
  /\ core'[p].chosenSlots = Append(core[p].chosenSlots, m.slot)
  /\ core'[p].proposals[m.slot] # None
  /\ core'[p].proposals[m.slot].value = core[p].proposals[m.slot].value
  /\ \A s \in Slots \ {m.slot} : core'[p].proposals[s] = core[p].proposals[s]
LEMMA AcceptedLeaves ==
  ASSUME TypeOK, NEW p \in Proposers, HandleAccepted(p)
  PROVE  SameQueues(p) /\ \E m \in Inbox(p, "accepted") : Counted(p, m) /\ (SameProposals(p) \/ Wins(p, m))
<1>1. PICK m \in Inbox(p, "accepted") :
        LET filed == FileAccepted(agent[p].accepts[m.slot], m)
            won   == HasStatus(core[p], m.slot, "InFlight") /\ PhaseTwoDone(core[p], filed, m.slot)
        IN /\ agent' = [agent EXCEPT ![p].accepts[m.slot] = filed]
           /\ core' = IF won THEN [core EXCEPT ![p] = MarkChosen(core[p], m.slot)] ELSE core
  BY DEF HandleAccepted
<1> DEFINE filed == FileAccepted(agent[p].accepts[m.slot], m)
<1>2. /\ core[p] \in CoreState /\ core \in [Proposers -> CoreState] /\ m \in Accepteds
      /\ agent[p] \in AgentState /\ agent \in [Proposers -> AgentState]
  BY InboxTypes DEF TypeOK, ProposerTypeOK
<1>3. m.slot \in Slots /\ m.from \in Acceptors
  BY <1>2 DEF Accepteds
<1>4. filed = [agent[p].accepts[m.slot] EXCEPT ![m.from] = m.ballot]
  BY DEF FileAccepted
<1> HIDE DEF filed
<1>5. agent'[p] = [agent[p] EXCEPT !.accepts[m.slot] = filed]
  BY <1>1, <1>2 DEF filed
<1>6. agent'[p].accepts = [agent[p].accepts EXCEPT ![m.slot] = filed]
  BY <1>2, <1>5 DEF AgentState
<1>7. agent[p].accepts \in [Slots -> [Acceptors -> Ballots \cup {None}]]
  BY <1>2 DEF AgentState
<1>8. agent'[p].accepts[m.slot] = filed
  BY <1>3, <1>6, <1>7
<1>9. Counted(p, m)
  BY <1>3, <1>4, <1>6, <1>7 DEF Counted
<1>10. \/ core' = core
       \/ /\ HasStatus(core[p], m.slot, "InFlight") /\ PhaseTwoDone(core[p], filed, m.slot)
          /\ core' = [core EXCEPT ![p] = MarkChosen(core[p], m.slot)]
  BY <1>1 DEF filed
<1>11. CASE core' = core
  BY <1>9, <1>11 DEF SameProposals, SameQueues
<1>12. CASE /\ HasStatus(core[p], m.slot, "InFlight") /\ PhaseTwoDone(core[p], filed, m.slot)
            /\ core' = [core EXCEPT ![p] = MarkChosen(core[p], m.slot)]
  <2>1. core'[p] = MarkChosen(core[p], m.slot)
    BY <1>2, <1>12
  <2>2. core[p].proposals[m.slot] \in Entry /\ core[p].proposals[m.slot] # None
    BY <1>2, <1>3, <1>12 DEF HasStatus, CoreState
  <2> DEFINE e == [core[p].proposals[m.slot] EXCEPT !.status = "Chosen"]
  <2>3. e \in Entry /\ e.value = core[p].proposals[m.slot].value
    BY <2>2 DEF Entry, Statuses
  <2>4. e # None
    BY <2>3, SomeAssumption
  <2>5. /\ core'[p].proposals = [core[p].proposals EXCEPT ![m.slot] = e]
        /\ core'[p].chosenSlots = Append(core[p].chosenSlots, m.slot)
        /\ core'[p].prioritized = core[p].prioritized /\ core'[p].pending = core[p].pending
    BY <1>2, <2>1 DEF MarkChosen, CoreState
  <2> HIDE DEF e
  <2>6. core[p].proposals \in [Slots -> Entry \cup {None}]
    BY <1>2 DEF CoreState
  <2>7. core'[p].proposals[m.slot] = e /\ \A s \in Slots \ {m.slot} : core'[p].proposals[s] = core[p].proposals[s]
    BY <1>3, <2>5, <2>6
  <2>8. Wins(p, m)
    BY <1>8, <1>12, <2>3, <2>4, <2>5, <2>7 DEF Wins
  <2> QED
    BY <1>9, <2>5, <2>8 DEF SameQueues
<1> QED
  BY <1>10, <1>11, <1>12

\* Results finalize proposals, and leave their values.
Finalized(p, s) == /\ core[p].proposals[s] # None /\ core'[p].proposals[s] # None
                   /\ core'[p].proposals[s].value = core[p].proposals[s].value
                   /\ core'[p].proposals[s].status = "Finalized"
LEMMA ExecutedLeaves ==
  ASSUME TypeOK, NEW p \in Proposers, HandleExecuted(p)
  PROVE  /\ core'[p].chosenSlots = core[p].chosenSlots /\ core'[p].pending = core[p].pending
         /\ \A s \in Slots : core'[p].proposals[s] = core[p].proposals[s] \/ Finalized(p, s)
<1> DEFINE done(m)  == {i \in DOMAIN m.results : /\ core[p].proposals[m.results[i].slot] # None
                                                 /\ ~HasStatus(core[p], m.results[i].slot, "Finalized")}
           at(m, s) == {i \in done(m) : m.results[i].slot = s}
           new(m)   == [s \in Slots |-> IF at(m, s) # {} THEN MarkFinalized(core[p].proposals[s]) ELSE core[p].proposals[s]]
<1>0. PICK m \in Inbox(p, "executed") :
        \/ core' = [core EXCEPT ![p].adu = GreatestOf({core[p].adu, m.adu})]
        \/ \E q : core' = [core EXCEPT ![p].adu = GreatestOf({core[p].adu, m.adu}), ![p].prioritized = q,
                      ![p].proposals = [s \in Slots |-> IF at(m, s) # {} THEN MarkFinalized(@[s]) ELSE @[s]]]
  BY DEF HandleExecuted
<1>1. PICK adu, q :
        \/ core' = [core EXCEPT ![p].adu = adu]
        \/ core' = [core EXCEPT ![p].adu = adu, ![p].prioritized = q,
                      ![p].proposals = [s \in Slots |-> IF at(m, s) # {} THEN MarkFinalized(@[s]) ELSE @[s]]]
  BY <1>0, Zenon
<1>2. core[p] \in CoreState
  BY DEF TypeOK, ProposerTypeOK
<1>3. CASE core' = [core EXCEPT ![p].adu = adu]
  <2>1. core'[p] = [core[p] EXCEPT !.adu = adu]
    BY <1>3 DEF TypeOK, ProposerTypeOK
  <2> QED
    BY <1>2, <2>1 DEF CoreState
<1>4. CASE core' = [core EXCEPT ![p].adu = adu, ![p].prioritized = q, ![p].proposals = new(m)]
  <2>1. \A s \in Slots : \/ new(m)[s] = core[p].proposals[s]
                         \/ /\ core[p].proposals[s] # None /\ new(m)[s] # None
                            /\ new(m)[s].value = core[p].proposals[s].value
                            /\ new(m)[s].status = "Finalized"
    <3> TAKE s \in Slots
    <3>1. CASE at(m, s) # {}
      <4>1. core[p].proposals[s] # None /\ core[p].proposals[s] \in Entry
        BY <1>2, <3>1 DEF CoreState
      <4> DEFINE e == MarkFinalized(core[p].proposals[s])
      <4>2. e \in Entry /\ e.value = core[p].proposals[s].value /\ e.status = "Finalized"
        BY <4>1 DEF MarkFinalized, Entry, Statuses
      <4>3. e # None /\ new(m)[s] = e
        BY <3>1, <4>2, SomeAssumption
      <4> HIDE DEF e, new
      <4> QED
        BY <4>1, <4>2, <4>3
    <3>2. CASE at(m, s) = {}
      BY <3>2
    <3> QED
      BY <3>1, <3>2
  <2> HIDE DEF new
  <2>2. core'[p] = [core[p] EXCEPT !.adu = adu, !.prioritized = q, !.proposals = new(m)]
    BY <1>4 DEF TypeOK, ProposerTypeOK
  <2>3. core'[p].chosenSlots = core[p].chosenSlots /\ core'[p].pending = core[p].pending /\ core'[p].proposals = new(m)
    BY <1>2, <2>2 DEF CoreState
  <2> QED
    BY <2>1, <2>3 DEF Finalized
<1>5. (core' = [core EXCEPT ![p].adu = adu, ![p].prioritized = q,
                  ![p].proposals = [s \in Slots |-> IF at(m, s) # {} THEN MarkFinalized(@[s]) ELSE @[s]]])
      => core' = [core EXCEPT ![p].adu = adu, ![p].prioritized = q, ![p].proposals = new(m)]
  BY Zenon
<1> QED
  BY <1>1, <1>3, <1>4, <1>5

\* A tick of phase 2 proposes for slots after the counter, and commits slots queued for it.
Committed(p, s) == /\ core[p].proposals[s] # None \/ s > core[p].currentSlot
                   /\ core'[p].proposals[s] # None
                   /\ core'[p].proposals[s].status = "CommitPending"
                   /\ \E j \in 1 .. Len(core[p].chosenSlots) : s = core[p].chosenSlots[j]
LEMMA AcceptCommitLeaves ==
  ASSUME TypeOK, NEW p \in Proposers, AcceptCommit(p)
  PROVE  /\ core'[p].currentSlot >= core[p].currentSlot
         /\ \A i \in 1 .. Len(core'[p].chosenSlots) :
              \E j \in 1 .. Len(core[p].chosenSlots) : core'[p].chosenSlots[i] = core[p].chosenSlots[j]
         /\ \A s \in Slots :
              \/ s <= core[p].currentSlot /\ core'[p].proposals[s] = core[p].proposals[s]
              \/ s > core'[p].currentSlot /\ core'[p].proposals[s] = core[p].proposals[s]
              \/ /\ s > core[p].currentSlot /\ s <= core'[p].currentSlot
                 /\ core'[p].proposals[s] # None /\ core'[p].proposals[s].status = "InFlight"
              \/ Committed(p, s) /\ (s <= core[p].currentSlot \/ s > core'[p].currentSlot
                                      => core'[p].proposals[s].value = core[p].proposals[s].value
                                         /\ core[p].proposals[s] # None)
<1> DEFINE c == core[p]
           c1 == CreateProposals(core[p])
           d == CommitChosen(c1)
<1>1. c \in CoreState /\ core'[p] = d
  BY DEF AcceptCommit, TypeOK, ProposerTypeOK
<1>2. c1 \in CoreState
  BY <1>1, CreateProposalsType
<1>3. PICK n, k : Takes(c, c1, n, k)
  BY <1>1, CreateTakes
<1> HIDE DEF c1
<1>4. /\ d.currentSlot = c1.currentSlot
      /\ \A i \in 1 .. Len(d.chosenSlots) : \E j \in 1 .. Len(c1.chosenSlots) : d.chosenSlots[i] = c1.chosenSlots[j]
      /\ \A s \in Slots :
           /\ c1.proposals[s] # None => d.proposals[s].value = c1.proposals[s].value
           /\ d.proposals[s] = None <=> c1.proposals[s] = None
           /\ d.proposals[s] = c1.proposals[s]
              \/ /\ c1.proposals[s] # None /\ d.proposals[s].status = "CommitPending"
                 /\ \E j \in 1 .. Len(c1.chosenSlots) : s = c1.chosenSlots[j]
  BY <1>2, CommitLeaves
<1> HIDE DEF d
<1>5. /\ n \in Nat /\ c.currentSlot \in Nat /\ c1.currentSlot = c.currentSlot + n
      /\ c1.chosenSlots = c.chosenSlots
      /\ \A s \in Slots : IF s \in c.currentSlot + 1 .. c.currentSlot + n
           THEN c1.proposals[s] # None /\ c1.proposals[s].status = "InFlight"
           ELSE c1.proposals[s] = c.proposals[s]
  BY <1>1, <1>3, BoundsAssumption DEF Takes, CoreState
<1>6. ASSUME NEW s \in Slots
      PROVE  \/ s <= c.currentSlot /\ d.proposals[s] = c.proposals[s]
             \/ s > d.currentSlot /\ d.proposals[s] = c.proposals[s]
             \/ /\ s > c.currentSlot /\ s <= d.currentSlot
                /\ d.proposals[s] # None /\ d.proposals[s].status = "InFlight"
             \/ Committed(p, s) /\ (s <= c.currentSlot \/ s > d.currentSlot
                                      => d.proposals[s].value = c.proposals[s].value
                                         /\ c.proposals[s] # None)
  <2>1. s \in Nat
    BY BoundsAssumption DEF Slots
  <2> HIDE DEF c
  <2>2. CASE s \in c.currentSlot + 1 .. c.currentSlot + n
    <3>1. s > c.currentSlot /\ s <= d.currentSlot /\ ~(s > d.currentSlot) /\ ~(s <= c.currentSlot)
      BY <1>4, <1>5, <2>1, <2>2
    <3>2. c1.proposals[s] # None /\ c1.proposals[s].status = "InFlight" /\ d.proposals[s] # None
      BY <1>4, <1>5, <2>2
    <3>3. CASE d.proposals[s] = c1.proposals[s]
      BY <3>1, <3>2, <3>3
    <3>4. CASE /\ d.proposals[s].status = "CommitPending"
               /\ \E j \in 1 .. Len(c1.chosenSlots) : s = c1.chosenSlots[j]
      <4>1. \E j \in 1 .. Len(c.chosenSlots) : s = c.chosenSlots[j]
        BY <1>5, <3>4
      <4>2. Committed(p, s)
        BY <1>1, <3>1, <3>2, <3>4, <4>1 DEF Committed, c
      <4> QED
        BY <3>1, <4>2
    <3>5. \/ d.proposals[s] = c1.proposals[s]
          \/ /\ d.proposals[s].status = "CommitPending"
             /\ \E j \in 1 .. Len(c1.chosenSlots) : s = c1.chosenSlots[j]
      BY <1>4
    <3> QED
      BY <3>3, <3>4, <3>5
  <2>3. CASE s \notin c.currentSlot + 1 .. c.currentSlot + n
    <3>1. s > d.currentSlot \/ s <= c.currentSlot
      BY <1>4, <1>5, <2>1, <2>3
    <3>2. c1.proposals[s] = c.proposals[s]
      BY <1>5, <2>3
    <3> QED
      BY <1>1, <1>4, <1>5, <3>1, <3>2 DEF Committed, c
  <2> QED
    BY <2>2, <2>3
<1>7. d.currentSlot >= c.currentSlot
  <2> HIDE DEF c
  <2> QED
    BY <1>4, <1>5
<1>8. \A i \in 1 .. Len(d.chosenSlots) : \E j \in 1 .. Len(c.chosenSlots) : d.chosenSlots[i] = c.chosenSlots[j]
  <2> HIDE DEF c
  <2>1. c1.chosenSlots = c.chosenSlots
    BY <1>5
  <2>2. \A i \in 1 .. Len(d.chosenSlots) : \E j \in 1 .. Len(c1.chosenSlots) : d.chosenSlots[i] = c1.chosenSlots[j]
    BY <1>4
  <2> QED
    BY <2>1, <2>2
<1>9. core'[p] = d
  BY <1>1
<1>10. core'[p].currentSlot >= core[p].currentSlot
  BY <1>7, <1>9
<1>11. \A i \in 1 .. Len(core'[p].chosenSlots) :
         \E j \in 1 .. Len(core[p].chosenSlots) : core'[p].chosenSlots[i] = core[p].chosenSlots[j]
  BY <1>8, <1>9
<1>12. ASSUME NEW s \in Slots
       PROVE  \/ s <= core[p].currentSlot /\ core'[p].proposals[s] = core[p].proposals[s]
              \/ s > core'[p].currentSlot /\ core'[p].proposals[s] = core[p].proposals[s]
              \/ /\ s > core[p].currentSlot /\ s <= core'[p].currentSlot
                 /\ core'[p].proposals[s] # None /\ core'[p].proposals[s].status = "InFlight"
              \/ Committed(p, s) /\ (s <= core[p].currentSlot \/ s > core'[p].currentSlot
                                      => core'[p].proposals[s].value = core[p].proposals[s].value
                                         /\ core[p].proposals[s] # None)
  BY <1>6, <1>9
<1> QED
  BY <1>10, <1>11, <1>12

\* A proposal keeps its value, and slots after the counter have none, as long as that
\* does not go back.
LEMMA ProposalsAreKept ==
  ASSUME TypeOK, TypeOK', [Next]_vars, UntakenFree, NEW p \in Proposers,
         core'[p].currentSlot >= core[p].currentSlot
  PROVE  ProposalsStay(p)
<1>1. /\ core[p].currentSlot \in Nat /\ core'[p].currentSlot \in Nat /\ Slots \subseteq Nat
      /\ core'[p].currentSlot >= core[p].currentSlot
      /\ \A s \in Slots : s > core[p].currentSlot => core[p].proposals[s] = None
  BY BoundsAssumption DEF TypeOK, ProposerTypeOK, CoreState, Slots, UntakenFree
<1>2. ASSUME \A s \in Slots : \/ core'[p].proposals[s] = core[p].proposals[s]
                              \/ /\ core[p].proposals[s] # None /\ core'[p].proposals[s] # None
                                 /\ core'[p].proposals[s].value = core[p].proposals[s].value
      PROVE  ProposalsStay(p)
  BY <1>1, <1>2 DEF ProposalsStay, Proposes
<1>3. CASE SameProposals(p)
  BY <1>2, <1>3 DEF SameProposals
<1>4. CASE ~\E q \in Proposers : StepOf(q)
  BY <1>3, <1>4, NotOfAProposer DEF SameProposals
<1>5. CASE \E q \in Proposers : StepOf(q)
  <2>1. PICK q \in Proposers : StepOf(q)
    BY <1>5
  <2>2. CASE p # q
    BY <1>3, <2>1, <2>2, OthersKept DEF SameProposals
  <2>3. CASE p = q
    <3>1. CASE HandlePromise(p) \/ SubmitClientRequest(p)
      BY <1>3, <3>1, PromiseLeaves, SubmitLeaves
    <3>2. CASE HandleAccepted(p)
      <4>1. PICK m \in Inbox(p, "accepted") : SameProposals(p) \/ Wins(p, m)
        BY <3>2, AcceptedLeaves
      <4>2. CASE Wins(p, m)
        <5>1. \A s \in Slots : \/ core'[p].proposals[s] = core[p].proposals[s]
                              \/ /\ core[p].proposals[s] # None /\ core'[p].proposals[s] # None
                                 /\ core'[p].proposals[s].value = core[p].proposals[s].value
          BY <4>2 DEF Wins, HasStatus
        <5> QED
          BY <1>2, <5>1
      <4> QED
        BY <1>3, <4>1, <4>2
    <3>3. CASE HandleExecuted(p)
      <4>1. \A s \in Slots : \/ core'[p].proposals[s] = core[p].proposals[s]
                            \/ /\ core[p].proposals[s] # None /\ core'[p].proposals[s] # None
                               /\ core'[p].proposals[s].value = core[p].proposals[s].value
        BY <3>3, ExecutedLeaves DEF Finalized
      <4> QED
        BY <1>2, <4>1
    <3>4. CASE AcceptCommit(p)
      <4>1. ASSUME NEW s \in Slots
            PROVE  /\ \A v \in Commands : Proposes(p, s, v) => Proposes(p, s, v)'
                   /\ s > core'[p].currentSlot => core'[p].proposals[s] = None
        <5>1. \/ s <= core[p].currentSlot /\ core'[p].proposals[s] = core[p].proposals[s]
              \/ s > core'[p].currentSlot /\ core'[p].proposals[s] = core[p].proposals[s]
              \/ s > core[p].currentSlot /\ core'[p].proposals[s] # None /\ s <= core'[p].currentSlot
              \/ /\ s <= core[p].currentSlot \/ s > core'[p].currentSlot
                 /\ core[p].proposals[s] # None /\ core'[p].proposals[s] # None
                 /\ core'[p].proposals[s].value = core[p].proposals[s].value
          <6>1. \/ s <= core[p].currentSlot /\ core'[p].proposals[s] = core[p].proposals[s]
                \/ s > core'[p].currentSlot /\ core'[p].proposals[s] = core[p].proposals[s]
                \/ s > core[p].currentSlot /\ core'[p].proposals[s] # None /\ s <= core'[p].currentSlot
                \/ Committed(p, s) /\ (s <= core[p].currentSlot \/ s > core'[p].currentSlot
                                        => core'[p].proposals[s].value = core[p].proposals[s].value
                                           /\ core[p].proposals[s] # None)
            BY <3>4, AcceptCommitLeaves
          <6> QED
            BY <1>1, <6>1 DEF Committed
        <5>2. s \in Nat /\ (s > core[p].currentSlot => core[p].proposals[s] = None)
          BY <1>1
        <5> QED
          BY <1>1, <5>1, <5>2 DEF Proposes
      <4> QED
        BY <4>1 DEF ProposalsStay
    <3>5. CASE RestartProposer(p)
      <4>1. core'[p].currentSlot = 0 /\ \A s \in Slots : core'[p].proposals[s] = None
        BY <3>5, RestartLeaves
      <4>2. \A s \in Slots : s > core[p].currentSlot
        BY <1>1, <4>1 DEF Slots
      <4> QED
        BY <1>1, <4>1, <4>2 DEF ProposalsStay, Proposes
    <3> QED
      BY <1>3, <2>1, <2>3, <3>1, <3>2, <3>3, <3>4, <3>5, QuietSteps
  <2> QED
    BY <2>2, <2>3
<1> QED
  BY <1>4, <1>5

----------------------------------------------------------------------------
(* The messages of phase 2. *)

\* A proposer sends accepts and learns for its proposals only, the accepts with their
\* ballot, and learns for those it has committed.
LEMMA ProposalsSent ==
  ASSUME TypeOK, TypeOK', NEW p \in Proposers, ProposerStep(p) \/ Leadership(p) \/ RestartProposer(p),
         NEW m \in network' \ network, m.type \in {"accept", "learn"}
  PROVE  /\ m.from = p /\ Proposes(p, m.slot, m.value)'
         /\ m.type = "learn" => HasStatus(core'[p], m.slot, "CommitPending")
         /\ m.type = "accept" => m.ballot = core'[p].proposals[m.slot].ballot
<1>1. \A c, s : /\ \A n \in ProposalAccepts(p, c, s) \cup ProposalLearns(p, c, s) :
                     n.from = p /\ n.slot = s /\ n.value = c.proposals[s].value
                /\ \A n \in ProposalAccepts(p, c, s) : n.type = "accept" /\ n.ballot = c.proposals[s].ballot
                /\ \A n \in ProposalLearns(p, c, s) : n.type = "learn"
  BY DEF ProposalAccepts, ProposalLearns, AcceptMsg, LearnMsg
<1>2. m.slot \in Slots
  BY DEF TypeOK, Messages, Prepares, Promises, Accepts, Accepteds, Learns, Retries, Executeds, Adus
<1>3. core[p] \in CoreState /\ core \in [Proposers -> CoreState]
  BY DEF TypeOK, ProposerTypeOK
<1>4. CASE AcceptCommit(p)
  <2> DEFINE c1 == CreateProposals(core[p])
             c2 == CommitChosen(c1)
  <2>1. Send((UNION {ProposalAccepts(p, c1, s) : s \in core[p].currentSlot + 1 .. c1.currentSlot})
             \cup (UNION {ProposalLearns(p, c2, s) : s \in Committing(c1)}))
    BY <1>4 DEF AcceptCommit
  <2>2. core'[p] = c2
    BY <1>3, <1>4 DEF AcceptCommit
  <2>3. c1 \in CoreState
    BY <1>3, CreateProposalsType
  <2>4. \A s \in Slots : /\ c2.proposals[s] = None <=> c1.proposals[s] = None
                         /\ c1.proposals[s] # None => c2.proposals[s].value = c1.proposals[s].value
                         /\ s \in Committing(c1) => c2.proposals[s].status = "CommitPending"
    BY <2>3, CommitLeaves
  <2>b. \A s \in Slots : c2.proposals[s] # None => c2.proposals[s].ballot = c1.proposals[s].ballot
    BY <2>3, CommitMoves
  <2>5. PICK n, k : Takes(core[p], c1, n, k)
    BY <1>3, CreateTakes
  <2>6. \A s \in Committing(c1) : c1.proposals[s] # None
    BY DEF Committing
  <2> HIDE DEF c1, c2
  <2>7. \/ \E s \in core[p].currentSlot + 1 .. c1.currentSlot : m \in ProposalAccepts(p, c1, s)
        \/ \E s \in Committing(c1) : m \in ProposalLearns(p, c2, s)
    BY <2>1 DEF Send
  <2>8. CASE \E s \in core[p].currentSlot + 1 .. c1.currentSlot : m \in ProposalAccepts(p, c1, s)
    <3>1. PICK s \in core[p].currentSlot + 1 .. c1.currentSlot : m \in ProposalAccepts(p, c1, s)
      BY <2>8
    <3>2. /\ m.from = p /\ m.slot = s /\ m.value = c1.proposals[s].value /\ m.type # "learn"
          /\ m.ballot = c1.proposals[s].ballot
      BY <1>1, <3>1
    <3>3. c1.proposals[s] # None
      BY <1>2, <2>5, <3>2 DEF Takes
    <3> QED
      BY <1>2, <2>2, <2>4, <2>b, <3>2, <3>3 DEF Proposes
  <2>9. CASE \E s \in Committing(c1) : m \in ProposalLearns(p, c2, s)
    <3>1. PICK s \in Committing(c1) : m \in ProposalLearns(p, c2, s)
      BY <2>9
    <3>2. m.from = p /\ m.slot = s /\ m.value = c2.proposals[s].value /\ m.type # "accept"
      BY <1>1, <3>1
    <3> QED
      BY <1>2, <2>2, <2>4, <2>6, <3>1, <3>2 DEF Proposes, HasStatus
  <2> QED
    BY <2>7, <2>8, <2>9
<1>5. CASE HandleRetryLearn(p)
  <2>1. PICK r \in Inbox(p, "retry-learns") :
          Reply(r, IF core[p].isLeader
            THEN (UNION {ProposalLearns(p, core[p], s) :
                           s \in {t \in r.slots : HasStatus(core[p], t, "CommitPending")}})
                 \cup (UNION {ProposalAccepts(p, core[p], s) :
                           s \in {t \in r.slots : HasStatus(core[p], t, "InFlight")}})
            ELSE {})
    BY <1>5 DEF HandleRetryLearn
  <2>2. \E s : /\ m \in ProposalAccepts(p, core[p], s) \cup ProposalLearns(p, core[p], s)
               /\ core[p].proposals[s] # None
               /\ m \in ProposalAccepts(p, core[p], s) \/ HasStatus(core[p], s, "CommitPending")
    BY <2>1 DEF Reply, HasStatus
  <2>3. core' = core
    BY <1>5 DEF HandleRetryLearn, proposerVars
  <2> QED
    BY <1>1, <2>2, <2>3 DEF Proposes
<1>6. CASE RequestAdu(p)
  BY <1>6 DEF RequestAdu, Send, AduMsg
<1>7. CASE SendPrepare(p)
  <2>1. PICK slot, b : Send({PrepareMsg(p, a, slot, b) : a \in Acceptors})
    BY <1>7 DEF SendPrepare
  <2>2. PICK a \in Acceptors : m = PrepareMsg(p, a, slot, b)
    BY <2>1 DEF Send
  <2>3. m.type = "prepare"
    BY <2>2 DEF PrepareMsg
  <2> QED
    BY <2>3
<1>8. CASE HandlePromise(p) \/ HandleAccepted(p) \/ HandleExecuted(p) \/ HandleAdu(p)
  BY <1>8, Zenon DEF HandlePromise, HandleAccepted, HandleExecuted, HandleAdu, Reply
<1>9. CASE \/ StartLeaderLoop(p) \/ PrepareTimeout(p) \/ SubmitClientRequest(p)
           \/ Leadership(p) \/ RestartProposer(p)
  BY <1>9 DEF StartLeaderLoop, PrepareTimeout, SubmitClientRequest, Leadership,
              BecomeLeader, ResignLeader, RestartProposer
<1> QED
  BY <1>4, <1>5, <1>6, <1>7, <1>8, <1>9 DEF ProposerStep, HandleProposerMessage, ProposerTick

\* An acceptor tells a proposer what it has accepted of that proposer (acceptor.rs, accept).
AnswersTo(a, r, m) == m.from = a /\ m.to = r.from /\ m.slot = r.slot /\ m.ballot = r.ballot /\ r \in Accepts
LEMMA AcceptedSent ==
  ASSUME TypeOK, NEW a \in Acceptors, AcceptorStep(a), NEW m \in network' \ network, m.type = "accepted"
  PROVE  \E r \in Inbox(a, "accept") : AnswersTo(a, r, m) /\ a \in VotedFor(r.slot, r.value)'
<1>1. CASE HandlePrepare(a)
  <2>1. m.type # "accepted"
    BY <1>1 DEF HandlePrepare, Promise, RejectPrepare, Reply, PromiseMsg
  <2> QED
    BY <2>1
<1>2. CASE HandleAccept(a)
  <2>1. PICK r \in Inbox(a, "accept") : AcceptNew(a, r) \/ AcceptAgain(a, r) \/ RejectAccept(a, r)
    BY <1>2 DEF HandleAccept
  <2>2. r \in Accepts
    BY InboxTypes DEF TypeOK
  <2>3. m \in Announce(a, r) /\ (AcceptNew(a, r) \/ AcceptAgain(a, r))
    BY <2>1 DEF AcceptNew, AcceptAgain, RejectAccept, Reply
  <2>4. AnswersTo(a, r, m)
    BY <2>2, <2>3 DEF Announce, LearnMsg, AcceptedMsg, AnswersTo
  <2>5. r.slot \in Slots /\ accepted[a] \in AcceptedMap
    BY <2>2 DEF Accepts, TypeOK, AcceptorTypeOK
  <2>6. CASE AcceptNew(a, r)
    <3>1. accepted'[a][r.slot] = [ballot |-> r.ballot, value |-> r.value]
      BY <2>5, <2>6 DEF AcceptNew, TypeOK, AcceptorTypeOK, AcceptedMap
    <3>2. accepted'[a][r.slot] # None
      BY <2>2, <3>1, NoneAssumption DEF Accepts, PValue
    <3> QED
      BY <2>4, <3>1, <3>2 DEF VotedFor
  <2>7. CASE AcceptAgain(a, r)
    BY <2>4, <2>5, <2>7 DEF AcceptAgain, acceptorVars, VotedFor
  <2> QED
    BY <2>3, <2>6, <2>7
<1>3. CASE HandleRetryLearns(a)
  <2>1. m.type # "accepted"
    BY <1>3 DEF HandleRetryLearns, Reply, LearnMsg
  <2> QED
    BY <2>1
<1> QED
  BY <1>1, <1>2, <1>3 DEF AcceptorStep

----------------------------------------------------------------------------
(* Phase 2: what a proposer takes for chosen. *)

\* p has a proposal for slot s that is chosen, and a slot queued for commit has one.
IsChosen(p, s) == core[p].proposals[s] # None /\ core[p].proposals[s].value \in Chosen(s)
QueuedChosen == \A p \in Proposers : \A i \in 1 .. Len(core[p].chosenSlots) : IsChosen(p, core[p].chosenSlots[i])

\* Its being chosen outlasts the steps.
LEMMA IsChosenStays ==
  ASSUME TypeOK, [Next]_vars, NEW p \in Proposers, NEW s \in Slots, ProposalsStay(p), IsChosen(p, s)
  PROVE  IsChosen(p, s)'
<1>1. PICK v \in Chosen(s) : Proposes(p, s, v) /\ v \in Commands
  BY DEF IsChosen, Proposes, Chosen
<1>2. Proposes(p, s, v)'
  BY <1>1 DEF ProposalsStay
<1>3. v \in Chosen(s)'
  BY <1>1, ChosenStays
<1> QED
  BY <1>2, <1>3 DEF IsChosen, Proposes

\* The votes a proposer holds: it counts one, forgets all, or leaves them alone.
LEMMA VotesCounted ==
  ASSUME TypeOK, [Next]_vars, NEW p \in Proposers
  PROVE  \/ \E m \in Inbox(p, "accepted") : HandleAccepted(p) /\ Counted(p, m)
         \/ \A s \in Slots, a \in Acceptors : agent'[p].accepts[s][a] = None
         \/ agent'[p].accepts = agent[p].accepts
<1>1. agent[p] \in AgentState /\ agent \in [Proposers -> AgentState]
  BY DEF TypeOK, ProposerTypeOK
<1>2. CASE ~\E q \in Proposers : StepOf(q)
  BY <1>2, NotOfAProposer
<1>3. ASSUME NEW q \in Proposers \ {p}, StepOf(q)
      PROVE  agent'[p] = agent[p]
  BY <1>3, OthersKept
<1>4. CASE HandleAccepted(p)
  BY <1>4, AcceptedLeaves
<1>5. CASE RestartProposer(p)
  <2>1. agent'[p] = NewAgent
    BY <1>5, RestartLeaves
  <2> QED
    BY <2>1 DEF NewAgent
<1>6. CASE HandlePromise(p)
  <2>1. PICK f : \/ agent' = [agent EXCEPT ![p].promises = f]
                 \/ agent' = [agent EXCEPT ![p].promises = f, ![p].phase = AdvancePhase(@, TRUE)]
    BY <1>6 DEF HandlePromise
  <2>2. \/ agent'[p] = [agent[p] EXCEPT !.promises = f]
        \/ agent'[p] = [agent[p] EXCEPT !.promises = f, !.phase = AdvancePhase(agent[p].phase, TRUE)]
    BY <1>1, <2>1
  <2> QED
    BY <1>1, <2>2 DEF AgentState
<1>7. CASE HandleExecuted(p) \/ AcceptCommit(p)
  <2>1. agent' = agent \/ \E f : agent' = [agent EXCEPT ![p].responses = f]
    <3>1. CASE HandleExecuted(p)
      BY <3>1 DEF HandleExecuted
    <3>2. CASE AcceptCommit(p)
      <4>1. PICK f : agent'[p] = [agent[p] EXCEPT !.responses = f] /\ agent' = [agent EXCEPT ![p] = agent'[p]]
        BY <1>1, <3>2 DEF AcceptCommit
      <4>2. agent' = [agent EXCEPT ![p].responses = f]
        BY <1>1, <4>1
      <4> QED
        BY <4>2
    <3> QED
      BY <1>7, <3>1, <3>2
  <2>2. CASE \E f : agent' = [agent EXCEPT ![p].responses = f]
    <3>1. PICK f : agent'[p] = [agent[p] EXCEPT !.responses = f]
      BY <1>1, <2>2
    <3> QED
      BY <1>1, <3>1 DEF AgentState
  <2> QED
    BY <2>1, <2>2
<1>8. CASE HandleAdu(p)
  <2>1. agent'[p] = [agent[p] EXCEPT !.hasAdu = TRUE]
    BY <1>1, <1>8 DEF HandleAdu
  <2> QED
    BY <1>1, <2>1 DEF AgentState
<1>9. CASE SendPrepare(p)
  <2>1. agent'[p] = [agent[p] EXCEPT !.phase = AdvancePhase(@, FALSE), !.timer = TRUE]
    BY <1>1, <1>9 DEF SendPrepare
  <2> QED
    BY <1>1, <2>1 DEF AgentState
<1>10. CASE PrepareTimeout(p)
  <2>1. agent'[p] = [agent[p] EXCEPT !.phase = AdvancePhase(@, FALSE), !.timer = FALSE]
    BY <1>1, <1>10 DEF PrepareTimeout
  <2> QED
    BY <1>1, <2>1 DEF AgentState
<1>11. CASE StartLeaderLoop(p)
  <2>1. agent'[p] = [agent[p] EXCEPT !.phase = "PrepareSend"]
    BY <1>1, <1>11 DEF StartLeaderLoop
  <2> QED
    BY <1>1, <2>1 DEF AgentState
<1>12. CASE RequestAdu(p) \/ HandleRetryLearn(p) \/ SubmitClientRequest(p) \/ Leadership(p)
  BY <1>12 DEF RequestAdu, HandleRetryLearn, SubmitClientRequest, Leadership, BecomeLeader, ResignLeader, proposerVars
<1> QED
  BY <1>2, <1>3, <1>4, <1>5, <1>6, <1>7, <1>8, <1>9, <1>10, <1>11, <1>12
     DEF StepOf, ProposerStep, HandleProposerMessage, ProposerTick

\* A majority that a proposer counts is one.
WinsAreChosen(p) == \A m \in Inbox(p, "accepted") :
  Counted(p, m) /\ Wins(p, m) => m.slot \in Slots /\ IsChosen(p, m.slot)

\* The statuses a step gives to a proposal: it keeps the one it has, it becomes chosen by a
\* majority of votes, or it was queued for commit.
LEMMA StatusMoves ==
  ASSUME TypeOK, TypeOK', QueuedChosen, [Next]_vars, NEW p \in Proposers, WinsAreChosen(p),
         NEW s \in Slots,
         HasStatus(core'[p], s, "Chosen") \/ HasStatus(core'[p], s, "CommitPending")
  PROVE  IsChosen(p, s) \/ (core'[p].proposals[s] = core[p].proposals[s])
<1>1. CASE ~\E q \in Proposers : StepOf(q)
  BY <1>1, NotOfAProposer
<1>2. ASSUME NEW q \in Proposers \ {p}, StepOf(q)
      PROVE  core'[p] = core[p]
  BY <1>2, OthersKept
<1>3. CASE HandlePromise(p) \/ SubmitClientRequest(p) \/ (SameProposals(p) /\ SameQueues(p))
  BY <1>3, PromiseLeaves, SubmitLeaves DEF SameProposals
<1>4. CASE HandleAccepted(p)
  <2>1. PICK m \in Inbox(p, "accepted") : Counted(p, m) /\ (SameProposals(p) \/ Wins(p, m))
    BY <1>4, AcceptedLeaves
  <2>2. CASE Wins(p, m)
    <3>1. m.slot \in Slots /\ IsChosen(p, m.slot)
      BY <2>1, <2>2 DEF WinsAreChosen
    <3> QED
      BY <2>2, <3>1 DEF Wins
  <2> QED
    BY <2>1, <2>2 DEF SameProposals
<1>5. CASE HandleExecuted(p)
  <2>1. core'[p].proposals[s] = core[p].proposals[s] \/ Finalized(p, s)
    BY <1>5, ExecutedLeaves
  <2> QED
    BY <2>1 DEF Finalized, HasStatus
<1>6. CASE AcceptCommit(p)
  <2>1. \/ core'[p].proposals[s] = core[p].proposals[s]
        \/ core'[p].proposals[s].status = "InFlight"
        \/ Committed(p, s)
    BY <1>6, AcceptCommitLeaves
  <2>2. CASE Committed(p, s)
    <3>1. PICK j \in 1 .. Len(core[p].chosenSlots) : s = core[p].chosenSlots[j]
      BY <2>2 DEF Committed
    <3> QED
      BY <3>1 DEF QueuedChosen
  <2> QED
    BY <2>1, <2>2 DEF HasStatus
<1>7. CASE RestartProposer(p)
  BY <1>7, RestartLeaves DEF HasStatus
<1> QED
  BY <1>1, <1>2, <1>3, <1>4, <1>5, <1>6, <1>7, QuietSteps

\* A slot is queued for commit when its proposal is chosen.
LEMMA QueueMoves ==
  ASSUME TypeOK, TypeOK', QueuedChosen, [Next]_vars, NEW p \in Proposers, WinsAreChosen(p),
         NEW i \in 1 .. Len(core'[p].chosenSlots)
  PROVE  core'[p].chosenSlots[i] \in Slots /\ IsChosen(p, core'[p].chosenSlots[i])
<1> DEFINE q == core[p].chosenSlots
           r == core'[p].chosenSlots
<1>1. q \in Seq(Slots) /\ r \in Seq(Slots)
  BY DEF TypeOK, ProposerTypeOK, CoreState
<1>2. ASSUME \E j \in 1 .. Len(q) : r[i] = q[j]
      PROVE  r[i] \in Slots /\ IsChosen(p, r[i])
  <2>1. PICK j \in 1 .. Len(q) : r[i] = q[j]
    BY <1>2
  <2>2. q[j] \in Slots
    BY <1>1, <2>1, ElementOfSeq
  <2> QED
    BY <2>1, <2>2 DEF QueuedChosen
<1>3. CASE r = q
  BY <1>2, <1>3
<1>4. CASE ~\E t \in Proposers : StepOf(t)
  BY <1>3, <1>4, NotOfAProposer
<1>5. ASSUME NEW t \in Proposers \ {p}, StepOf(t)
      PROVE  r = q
  BY <1>5, OthersKept
<1>6. CASE HandlePromise(p) \/ SubmitClientRequest(p) \/ (SameProposals(p) /\ SameQueues(p)) \/ HandleExecuted(p)
  BY <1>3, <1>6, PromiseLeaves, SubmitLeaves, ExecutedLeaves DEF SameProposals
<1>7. CASE HandleAccepted(p)
  <2>1. PICK m \in Inbox(p, "accepted") : Counted(p, m) /\ (SameProposals(p) \/ Wins(p, m))
    BY <1>7, AcceptedLeaves
  <2>2. CASE Wins(p, m)
    <3>1. m.slot \in Slots /\ IsChosen(p, m.slot)
      BY <2>1, <2>2 DEF WinsAreChosen
    <3>2. r = Append(q, m.slot)
      BY <2>2 DEF Wins
    <3>3. r[i] = m.slot \/ \E j \in 1 .. Len(q) : r[i] = q[j]
      <4> HIDE DEF q
      <4>1. Len(r) = Len(q) + 1 /\ Len(q) \in Nat
        BY <1>1, <3>1, <3>2, AppendProperties, LenProperties
      <4>2. i \in 1 .. Len(q) \/ i = Len(q) + 1
        BY <4>1
      <4>3. r[Len(q) + 1] = m.slot /\ \A j \in 1 .. Len(q) : r[j] = q[j]
        BY <1>1, <3>1, <3>2, AppendProperties
      <4> QED
        BY <4>2, <4>3
    <3> QED
      BY <1>2, <3>1, <3>3
  <2> QED
    BY <1>3, <2>1, <2>2 DEF SameProposals
<1>8. CASE AcceptCommit(p)
  <2>1. \E j \in 1 .. Len(q) : r[i] = q[j]
    BY <1>8, AcceptCommitLeaves
  <2> QED
    BY <1>2, <2>1
<1>9. CASE RestartProposer(p)
  <2>1. r = <<>>
    BY <1>9, RestartLeaves
  <2> QED
    BY <2>1
<1> QED
  BY <1>3, <1>4, <1>5, <1>6, <1>7, <1>8, <1>9, QuietSteps

----------------------------------------------------------------------------
(* Phase 2 across restarts.  A proposer that was restarted may propose other *)
(* values for the slots of its earlier life, but with a ballot of its own:   *)
(* what is still under way from then has a lower one.                        *)

\* A proposal of p, with its ballot, and a ballot that p had for slot s in an earlier life.
Current(p, s, v, b) == Proposes(p, s, v) /\ core[p].proposals[s].ballot = b
Past(p, s, b) == /\ b <= core[p].ballot /\ (Leads(p) => b < core[p].ballot)
                 /\ core[p].proposals[s] # None => b < core[p].proposals[s].ballot
Vouched(p, s, a, b) == Past(p, s, b) \/ \E v \in Commands : Current(p, s, v, b) /\ a \in VotedFor(s, v)

\* Before phase 2 nothing is proposed.
IdleEmpty == \A p \in Proposers : ~Leads(p) =>
  core[p].chosenSlots = <<>> /\ \A s \in Slots : core[p].proposals[s] = None
ProposalsBelow == \A p \in Proposers, s \in Slots :
  core[p].proposals[s] # None => core[p].proposals[s].ballot <= core[p].ballot

\* What is under way or counted is of a present proposal, or has a ballot of the past.
AcceptsDated == \A m \in network : m.type = "accept" =>
  Current(m.from, m.slot, m.value, m.ballot) \/ Past(m.from, m.slot, m.ballot)
AnswersDated == \A m \in network : m.type = "accepted" => Vouched(m.to, m.slot, m.from, m.ballot)
CountsDated == \A p \in Proposers, s \in Slots, a \in Acceptors, b \in Ballots :
  agent[p].accepts[s][a] = b => Vouched(p, s, a, b)

\* The ballots that p has proposed with, as far as anything of that is left.
Used(p) == {m.ballot : m \in {n \in network : \/ n.type = "accept" /\ n.from = p
                                              \/ n.type = "accepted" /\ n.to = p}}
           \cup ({agent[p].accepts[s][a] : s \in Slots, a \in Acceptors} \ {None})
Unused(p) == core[p].ballot \notin Used(p)

\* The prepares and the promises of p's present ballot, and the acceptors that are asked,
\* that have answered, and whose answer is filed.
PreparesOf(p) == {m \in network : m.type = "prepare" /\ m.from = p /\ m.ballot = core[p].ballot}
Now(p, R) == {r \in R : r.ballot = core[p].ballot}
Asked(p) == {m.to : m \in PreparesOf(p)}
Answering(p) == {r.from : r \in Now(p, Inbox(p, "promise"))}
Holding(p) == {r.from : r \in Now(p, agent[p].promises)}

\* An acceptor is asked for one promise of the ballot and gives it once.
GivenOnce(p) ==
  /\ Asked(p) \cap (Answering(p) \cup Holding(p)) = {} /\ Answering(p) \cap Holding(p) = {}
  /\ \A m, n \in PreparesOf(p) : m.to = n.to => m = n
  /\ \A m, n \in Now(p, Inbox(p, "promise")) : m.from = n.from => m = n

\* A ballot that p has proposed with cannot be promised by a majority once more.
Spent(p) ==
  IF Leads(p) THEN ~IsQuorum(Asked(p) \cup Answering(p))
              ELSE Unused(p) \/ ~IsQuorum(Asked(p) \cup Answering(p) \cup Holding(p))

DatedInv == /\ UntakenFree /\ IdleEmpty /\ ProposalsBelow
            /\ AcceptsDated /\ AnswersDated /\ CountsDated
            /\ QueuedChosen /\ ChosenStatusIsChosen
            /\ \A p \in Proposers : GivenOnce(p) /\ Spent(p)

\* Only a restart leaves phase 2.
LEMMA LeadsUntilRestart ==
  ASSUME TypeOK, [Next]_vars, NEW p \in Proposers, Leads(p)
  PROVE  Leads(p)' \/ RestartProposer(p)
<1>1. agent[p] \in AgentState /\ agent \in [Proposers -> AgentState] /\ agent[p].phase = "AcceptCommit"
  BY DEF TypeOK, ProposerTypeOK, Leads
<1>2. agent'[p].phase = agent[p].phase => Leads(p)'
  BY <1>1 DEF Leads
<1>3. CASE ~\E q \in Proposers : StepOf(q)
  BY <1>2, <1>3, NotOfAProposer
<1>4. ASSUME NEW q \in Proposers \ {p}, StepOf(q)
      PROVE  Leads(p)'
  BY <1>2, <1>4, OthersKept
<1>5. CASE HandlePromise(p)
  <2>1. PICK f : \/ agent' = [agent EXCEPT ![p].promises = f]
                 \/ agent' = [agent EXCEPT ![p].promises = f, ![p].phase = AdvancePhase(@, TRUE)]
    BY <1>5 DEF HandlePromise
  <2>2. \/ agent'[p] = [agent[p] EXCEPT !.promises = f]
        \/ agent'[p] = [agent[p] EXCEPT !.promises = f, !.phase = AdvancePhase(agent[p].phase, TRUE)]
    BY <1>1, <2>1
  <2>3. agent'[p].phase = agent[p].phase \/ agent'[p].phase = AdvancePhase("AcceptCommit", TRUE)
    BY <1>1, <2>2 DEF AgentState
  <2>4. AdvancePhase("AcceptCommit", TRUE) = "AcceptCommit"
    BY DEF AdvancePhase
  <2> QED
    BY <1>1, <1>2, <2>3, <2>4
<1>6. CASE HandleAccepted(p)
  <2>0. PICK m \in Inbox(p, "accepted") :
          agent' = [agent EXCEPT ![p].accepts[m.slot] = FileAccepted(agent[p].accepts[m.slot], m)]
    BY <1>6 DEF HandleAccepted
  <2>1. PICK f : agent'[p] = [agent[p] EXCEPT !.accepts[m.slot] = f]
    BY <1>1, <2>0
  <2> QED
    BY <1>1, <1>2, <2>1 DEF AgentState
<1>7. CASE HandleExecuted(p)
  <2>1. agent' = agent \/ \E f : agent' = [agent EXCEPT ![p].responses = f]
    BY <1>7 DEF HandleExecuted
  <2>2. CASE \E f : agent' = [agent EXCEPT ![p].responses = f]
    <3>1. PICK f : agent'[p] = [agent[p] EXCEPT !.responses = f]
      BY <1>1, <2>2
    <3> QED
      BY <1>1, <1>2, <3>1 DEF AgentState
  <2> QED
    BY <1>2, <2>1, <2>2
<1>8. CASE AcceptCommit(p)
  <2>1. PICK f : agent'[p] = [agent[p] EXCEPT !.responses = f]
    BY <1>1, <1>8 DEF AcceptCommit
  <2> QED
    BY <1>1, <1>2, <2>1 DEF AgentState
<1>9. CASE HandleAdu(p)
  <2>1. agent'[p] = [agent[p] EXCEPT !.hasAdu = TRUE]
    BY <1>1, <1>9 DEF HandleAdu
  <2> QED
    BY <1>1, <1>2, <2>1 DEF AgentState
<1>10. CASE StartLeaderLoop(p) \/ SendPrepare(p) \/ PrepareTimeout(p)
  BY <1>1, <1>10 DEF StartLeaderLoop, SendPrepare, PrepareTimeout
<1>11. CASE RequestAdu(p) \/ HandleRetryLearn(p) \/ SubmitClientRequest(p) \/ Leadership(p)
  BY <1>2, <1>11 DEF RequestAdu, HandleRetryLearn, SubmitClientRequest, Leadership, BecomeLeader,
                     ResignLeader, proposerVars
<1> QED
  BY <1>3, <1>4, <1>5, <1>6, <1>7, <1>8, <1>9, <1>10, <1>11
     DEF StepOf, ProposerStep, HandleProposerMessage, ProposerTick

\* A proposal is an earlier one, or a new one with the present ballot.
LEMMA BallotsOfProposals ==
  ASSUME TypeOK, [Next]_vars, UntakenFree, NEW p \in Proposers, NEW s \in Slots, core'[p].proposals[s] # None
  PROVE  \/ core[p].proposals[s] # None /\ core'[p].proposals[s].ballot = core[p].proposals[s].ballot
         \/ /\ core[p].proposals[s] = None /\ Leads(p)
            /\ core'[p].proposals[s].ballot = core[p].ballot /\ core'[p].ballot = core[p].ballot
<1>1. KeepsProposals(p) \/ (AcceptCommit(p) /\ AddsProposals(p))
  BY CoreMoves
<1>2. AcceptCommit(p) => Leads(p) /\ core'[p].ballot = core[p].ballot
  BY AcceptCommitMoves DEF AcceptCommit, Leads
<1> QED
  BY <1>1, <1>2 DEF KeepsProposals, AddsProposals, UntakenFree

\* A proposer without proposals that does not lead makes none, and queues nothing for commit.
LEMMA IdleStays ==
  ASSUME TypeOK, [Next]_vars, UntakenFree, IdleEmpty, NEW p \in Proposers, ~Leads(p)
  PROVE  core'[p].chosenSlots = <<>> /\ \A s \in Slots : core'[p].proposals[s] = None
<1>1. core[p].chosenSlots = <<>> /\ \A s \in Slots : core[p].proposals[s] = None
  BY DEF IdleEmpty
<1>2. \A s \in Slots : core'[p].proposals[s] = None
  BY <1>1, BallotsOfProposals
<1>3. core'[p].chosenSlots = <<>>
  <2>1. CASE ~\E q \in Proposers : StepOf(q)
    BY <1>1, <2>1, NotOfAProposer
  <2>2. ASSUME NEW q \in Proposers \ {p}, StepOf(q)
        PROVE  core'[p].chosenSlots = <<>>
    BY <1>1, <2>2, OthersKept
  <2>3. CASE HandlePromise(p) \/ SubmitClientRequest(p) \/ (SameProposals(p) /\ SameQueues(p)) \/ HandleExecuted(p)
    BY <1>1, <2>3, PromiseLeaves, SubmitLeaves, ExecutedLeaves DEF SameProposals
  <2>4. CASE HandleAccepted(p)
    <3>1. PICK m \in Inbox(p, "accepted") : SameProposals(p) \/ Wins(p, m)
      BY <2>4, AcceptedLeaves
    <3>2. m.slot \in Slots
      BY InboxTypes DEF TypeOK, Accepteds
    <3> QED
      BY <1>1, <3>1, <3>2 DEF SameProposals, Wins, HasStatus
  <2>5. ~AcceptCommit(p)
    BY DEF AcceptCommit, Leads
  <2>6. CASE RestartProposer(p)
    BY <2>6, RestartLeaves
  <2> QED
    BY <2>1, <2>2, <2>3, <2>4, <2>5, <2>6, QuietSteps
<1> QED
  BY <1>2, <1>3

\* The proposals stay, or p is restarted.
LEMMA KeptUntilRestart ==
  ASSUME TypeOK, TypeOK', [Next]_vars, UntakenFree, IdleEmpty, RecoversOnce, NEW p \in Proposers
  PROVE  ProposalsStay(p) \/ RestartProposer(p)
<1>1. CASE Leads(p)
  BY <1>1, LeadsUntilRestart, ProposalsAreKept DEF RecoversOnce
<1>2. CASE ~Leads(p)
  <2>1. \A s \in Slots : core[p].proposals[s] = None
    BY <1>2 DEF IdleEmpty
  <2>2. \A s \in Slots : core'[p].proposals[s] = None
    BY <1>2, IdleStays
  <2> QED
    BY <2>1, <2>2 DEF ProposalsStay, Proposes
<1> QED
  BY <1>1, <1>2

\* After a restart, and before phase 2, there is no proposal; slots after the counter have none,
\* and no proposal is ahead of its proposer's ballot.
LEMMA ProposalsStep ==
  ASSUME TypeOK, TypeOK', [Next]_vars, UntakenFree, IdleEmpty, ProposalsBelow, RecoversOnce
  PROVE  UntakenFree' /\ IdleEmpty' /\ ProposalsBelow'
<1>1. ASSUME NEW p \in Proposers, NEW s \in Slots, s > core'[p].currentSlot
      PROVE  core'[p].proposals[s] = None
  BY <1>1, KeptUntilRestart, RestartLeaves DEF ProposalsStay
<1>2. ASSUME NEW p \in Proposers, ~Leads(p)'
      PROVE  core'[p].chosenSlots = <<>> /\ \A s \in Slots : core'[p].proposals[s] = None
  BY <1>2, LeadsUntilRestart, IdleStays, RestartLeaves
<1>3. ASSUME NEW p \in Proposers, NEW s \in Slots, core'[p].proposals[s] # None
      PROVE  core'[p].proposals[s].ballot <= core'[p].ballot
  <2>1. core[p].ballot \in Nat /\ core'[p].ballot \in Nat /\ core[p].ballot <= core'[p].ballot
    BY BallotsGrow
  <2>2. core'[p].proposals[s].ballot \in Nat
    BY <1>3 DEF TypeOK, ProposerTypeOK, CoreState, Entry, Ballots
  <2>3. core'[p].proposals[s].ballot <= core[p].ballot
    BY <1>3, <2>1, BallotsOfProposals DEF ProposalsBelow
  <2> QED
    BY <2>1, <2>2, <2>3
<1> QED
  BY <1>1, <1>2, <1>3 DEF UntakenFree, IdleEmpty, ProposalsBelow

\* What is asked, under way and held comes from acceptors.
LEMMA RoundTypes ==
  ASSUME TypeOK, NEW p \in Proposers
  PROVE  /\ Asked(p) \in SUBSET Acceptors /\ Answering(p) \in SUBSET Acceptors /\ Holding(p) \in SUBSET Acceptors
         /\ PreparesOf(p) \subseteq Prepares
         /\ Inbox(p, "promise") \subseteq Promises /\ agent[p].promises \subseteq Promises
<1>1. PreparesOf(p) \subseteq Prepares
  BY DEF PreparesOf, TypeOK, Messages, Prepares, Promises, Accepts, Accepteds, Learns, Retries, Executeds, Adus
<1>2. Inbox(p, "promise") \subseteq Promises /\ agent[p].promises \subseteq Promises
  BY GivenType DEF Given
<1> QED
  BY <1>1, <1>2 DEF Asked, Answering, Holding, Now, Prepares, Promises

\* A proposer enters phase 2 with a quorum of promises of its ballot, which stays
\* (proposer-agent.rs, process_promises).
LEMMA EntersWithQuorum ==
  ASSUME TypeOK, TypeOK', [Next]_vars, OneEach', NEW p \in Proposers, ~Leads(p), Leads(p)'
  PROVE  core'[p].ballot = core[p].ballot /\ IsQuorum(Holding(p)')
<1>0. agent[p].phase # "AcceptCommit" /\ agent'[p].phase = "AcceptCommit"
  BY DEF Leads
<1>1. PICK m \in Inbox(p, "promise") :
        LET filed == FilePromise(agent[p].promises, m)
            top   == {r \in filed : \A o \in filed : o.ballot <= r.ballot}
        IN agent'[p].promises = filed /\ core'[p].ballot = core[p].ballot /\ PhaseOneDone(core[p], top)
  BY <1>0, AgentMoves DEF SamePromises, OnePromise, NoPromises
<1> DEFINE filed == FilePromise(agent[p].promises, m)
           top   == {r \in filed : \A o \in filed : o.ballot <= r.ballot}
<1>2. /\ agent'[p].promises = filed /\ core'[p].ballot = core[p].ballot
      /\ Cardinality(top) >= QuorumSize /\ \A r \in top : r.ballot = core[p].ballot
  BY <1>1 DEF PhaseOneDone
<1>3. top \subseteq agent'[p].promises
  BY <1>2
<1> HIDE DEF filed, top
<1> DEFINE f == [r \in top |-> r.from]
           H == Holding(p)'
<1>4. \A r \in top : r.from \in H
  BY <1>2, <1>3 DEF Holding, Now
<1>5. \A r, o \in top : r.from = o.from => r = o
  BY <1>2, <1>3 DEF OneEach
<1>6. H \subseteq Acceptors
  <2>1. agent'[p].promises \subseteq Promises
    BY DEF TypeOK, ProposerTypeOK, AgentState
  <2> QED
    BY <2>1 DEF Holding, Now, Promises
<1> HIDE DEF H
<1>7. f \in Injection(top, H)
  BY <1>4, <1>5 DEF Injection, IsInjective
<1>8. IsFiniteSet(H)
  BY <1>6, AcceptorsAssumption, FS_Subset
<1>9. IsFiniteSet(top) /\ Cardinality(top) <= Cardinality(H)
  BY <1>7, <1>8, FS_Injection
<1>10. Cardinality(top) \in Nat /\ Cardinality(H) \in Nat /\ QuorumSize \in Nat
  <2>1. Cardinality(Acceptors) \in Nat
    BY AcceptorsAssumption, FS_CardinalityType
  <2> QED
    BY <1>8, <1>9, <2>1, FS_CardinalityType DEF QuorumSize
<1>11. IsQuorum(H)
  BY <1>2, <1>9, <1>10 DEF IsQuorum
<1> QED
  BY <1>2, <1>11 DEF H

\* In a round no prepare is new, and the new promise takes the place of the prepare it answers.
Answered(p, m, r) == /\ m \in PreparesOf(p) /\ m \notin network' /\ r.from = m.to /\ r \notin network
                     /\ Now(p, Inbox(p, "promise"))' \subseteq Now(p, Inbox(p, "promise")) \cup {r}
                     /\ core' = core /\ agent' = agent
LEMMA RoundMessages ==
  ASSUME TypeOK, [Next]_vars, NEW p \in Proposers, core'[p].ballot = core[p].ballot
  PROVE  /\ PreparesOf(p)' \subseteq PreparesOf(p)
         /\ \/ Now(p, Inbox(p, "promise"))' \subseteq Now(p, Inbox(p, "promise"))
            \/ \E m, r : Answered(p, m, r)
<1>1. ASSUME NEW m \in PreparesOf(p)'
      PROVE  m \in PreparesOf(p)
  <2>1. m \in network' /\ m.type = "prepare" /\ m.from = p /\ m.ballot = core[p].ballot
    BY <1>1 DEF PreparesOf
  <2>2. CASE m \notin network
    <3>1. \A a, r : PromiseMsg(a, r.from, r.slot, r.ballot, CollectAcceptedFrom(a, r.slot)).type = "promise"
      BY DEF PromiseMsg
    <3>2. SendPrepare(p)
      BY <2>1, <2>2, <3>1, NewPhaseOneMessages
    <3>3. core'[p].ballot = core[p].ballot + BallotDelta
      BY <3>2, BallotMoves
    <3> QED
      BY <3>3, GivenType, DeltaType
  <2> QED
    BY <2>1, <2>2 DEF PreparesOf
<1>2. ASSUME NEW r \in Now(p, Inbox(p, "promise"))', r \notin Now(p, Inbox(p, "promise"))
      PROVE  \E m : Answered(p, m, r)
  <2>1. r \in network' /\ r.type = "promise" /\ r.to = p /\ r.ballot = core[p].ballot /\ r \notin network
    BY <1>2 DEF Now, Inbox
  <2>2. \A l \in Learners : ~LearnerStep(l)
    BY <2>1, LearnerSends
  <2>3. \A q \in Proposers : ~(ProposerStep(q) \/ Leadership(q) \/ RestartProposer(q))
    BY <2>1, SentByProposer
  <2>4. core' = core /\ agent' = agent
    BY <2>1, <2>2, <2>3, OneSteps DEF vars, proposerVars
  <2>5. PICK a \in Acceptors : \E n \in Inbox(a, "prepare") :
          Promise(a, n) /\ r = PromiseMsg(a, n.from, n.slot, n.ballot, CollectAcceptedFrom(a, n.slot))
    <3>1. \A q \in Proposers : ~SendPrepare(q)
      BY <2>3 DEF ProposerStep, ProposerTick
    <3> QED
      BY <2>1, <3>1, NewPhaseOneMessages
  <2>6. PICK m \in Inbox(a, "prepare") :
          Promise(a, m) /\ r = PromiseMsg(a, m.from, m.slot, m.ballot, CollectAcceptedFrom(a, m.slot))
    BY <2>5
  <2>7. /\ r.from = a /\ r.to = m.from /\ r.ballot = m.ballot
        /\ network' = (network \ {m}) \cup {r}
    BY <2>6 DEF Promise, Reply, PromiseMsg
  <2>8. m \in network /\ m.type = "prepare" /\ m.to = a
    BY <2>6 DEF Inbox
  <2>9. m \in PreparesOf(p) /\ m \notin network'
    BY <2>1, <2>7, <2>8 DEF PreparesOf
  <2>10. Now(p, Inbox(p, "promise"))' \subseteq Now(p, Inbox(p, "promise")) \cup {r}
    BY <2>4, <2>7 DEF Now, Inbox
  <2> QED
    BY <2>1, <2>4, <2>7, <2>8, <2>9, <2>10 DEF Answered
<1> QED
  BY <1>1, <1>2

\* In a round fewer acceptors are asked or about to answer, and only one of these is added to
\* those whose answer is held (acceptor.rs, prepare; proposer-agent.rs, insert_and_check_promises).
LEMMA RoundShrinks ==
  ASSUME TypeOK, [Next]_vars, NEW p \in Proposers, core'[p].ballot = core[p].ballot, GivenOnce(p)
  PROVE  /\ GivenOnce(p)'
         /\ Asked(p)' \cup Answering(p)' \subseteq Asked(p) \cup Answering(p)
         /\ Holding(p)' \subseteq Holding(p) \cup Answering(p)
<1> DEFINE P == PreparesOf(p)
           I == Now(p, Inbox(p, "promise"))
<1>0. /\ Asked(p) \cap (Answering(p) \cup Holding(p)) = {} /\ Answering(p) \cap Holding(p) = {}
      /\ \A m, n \in P : m.to = n.to => m = n
      /\ \A m, n \in I : m.from = n.from => m = n
  BY DEF GivenOnce
<1>1. /\ Asked(p) = {m.to : m \in P} /\ Asked(p)' = {m.to : m \in P'}
      /\ Answering(p) = {r.from : r \in I} /\ Answering(p)' = {r.from : r \in I'}
  BY DEF Asked, Answering
<1>2. P' \subseteq P
  BY RoundMessages
<1>3. P' \subseteq network'
  BY DEF PreparesOf
<1>4. CASE \E m, r : Answered(p, m, r)
  <2>1. PICK m, r : Answered(p, m, r)
    BY <1>4
  <2>2. m \in P /\ m \notin P' /\ r.from = m.to /\ I' \subseteq I \cup {r}
    BY <1>3, <2>1 DEF Answered
  <2>3. Holding(p)' = Holding(p)
    BY <2>1 DEF Answered, Holding, Now
  <2> HIDE DEF P, I
  <2>4. r.from \in Asked(p) /\ r.from \notin Asked(p)' /\ Asked(p)' \subseteq Asked(p)
    BY <1>0, <1>1, <1>2, <2>2
  <2>5. Answering(p)' \subseteq Answering(p) \cup {r.from}
    BY <1>1, <2>2
  <2>6. \A m1, n1 \in P' : m1.to = n1.to => m1 = n1
    BY <1>0, <1>2
  <2>7. \A m1, n1 \in I' : m1.from = n1.from => m1 = n1
    BY <1>0, <1>1, <2>2, <2>4
  <2>8. /\ Asked(p)' \cap (Answering(p)' \cup Holding(p)') = {}
        /\ Answering(p)' \cap Holding(p)' = {}
    BY <1>0, <2>3, <2>4, <2>5
  <2>9. GivenOnce(p)'
    BY <2>6, <2>7, <2>8 DEF GivenOnce, P, I
  <2> QED
    BY <2>3, <2>4, <2>5, <2>9
<1>5. CASE I' \subseteq I
  <2> HIDE DEF P, I
  <2>1. Asked(p)' \subseteq Asked(p) /\ Answering(p)' \subseteq Answering(p)
    BY <1>1, <1>2, <1>5
  <2>2. /\ \A m1, n1 \in P' : m1.to = n1.to => m1 = n1
        /\ \A m1, n1 \in I' : m1.from = n1.from => m1 = n1
    BY <1>0, <1>2, <1>5
  <2>3. ASSUME Holding(p)' \subseteq Holding(p) \cup Answering(p),
               Answering(p)' \cap Holding(p)' = {}
        PROVE  GivenOnce(p)'
    <3>1. Asked(p)' \cap (Answering(p)' \cup Holding(p)') = {}
      BY <1>0, <2>1, <2>3
    <3> QED
      BY <2>2, <2>3, <3>1 DEF GivenOnce, P, I
  <2>4. CASE OnePromise(p)
    <3>1. PICK m \in Inbox(p, "promise") : agent'[p].promises = FilePromise(agent[p].promises, m) /\ Reply(m, {})
      BY <2>4 DEF OnePromise
    <3>2. \A r \in agent'[p].promises : r \in agent[p].promises \/ r = m
      BY <3>1 DEF FilePromise
    <3>3. m.ballot = core[p].ballot => m \in I
      BY <3>1 DEF I, Now
    <3>4. m \notin I'
      BY <3>1 DEF Reply, I, Now, Inbox
    <3>5. Holding(p)' \subseteq Holding(p) \cup (IF m.ballot = core[p].ballot THEN {m.from} ELSE {})
      BY <3>2 DEF Holding, Now
    <3>6. m.ballot = core[p].ballot => m.from \in Answering(p) /\ m.from \notin Answering(p)'
      BY <1>0, <1>1, <1>5, <3>3, <3>4
    <3>7. Holding(p)' \subseteq Holding(p) \cup Answering(p) /\ Answering(p)' \cap Holding(p)' = {}
      BY <1>0, <2>1, <3>5, <3>6
    <3> QED
      BY <2>1, <2>3, <3>7
  <2>5. CASE SamePromises(p) \/ NoPromises(p)
    <3>1. Holding(p)' \subseteq Holding(p)
      BY <2>5 DEF SamePromises, NoPromises, Holding, Now
    <3>2. Answering(p)' \cap Holding(p)' = {}
      BY <1>0, <2>1, <3>1
    <3> QED
      BY <2>1, <2>3, <3>1, <3>2
  <2> QED
    BY <2>4, <2>5, AgentMoves
<1> QED
  BY <1>4, <1>5, RoundMessages

\* In a new round the present ballot is in the new prepares only (increase_ballot).
LEMMA RoundStarts ==
  ASSUME TypeOK, TypeOK', PromiseInv, [Next]_vars, NEW p \in Proposers, core'[p].ballot # core[p].ballot
  PROVE  GivenOnce(p)' /\ Answering(p)' = {} /\ (Leads(p)' => Asked(p)' = {})
<1>1. core[p].ballot \in Nat /\ core'[p].ballot \in Nat /\ core[p].ballot < core'[p].ballot
  BY BallotsGrow
<1>2. ASSUME NEW r \in Given(p)'
      PROVE  r.ballot # core'[p].ballot
  <2>1. CASE r \in Given(p)
    <3>1. r.ballot <= core[p].ballot /\ r.ballot \in Nat
      BY <2>1, GivenType DEF PromiseInv, PromisesTaken, Promises, Ballots
    <3> QED
      BY <1>1, <3>1
  <2>2. CASE \E a \in Acceptors : \E m \in Inbox(a, "prepare") :
               /\ Promise(a, m) /\ m.from = p
               /\ r = PromiseMsg(a, m.from, m.slot, m.ballot, CollectAcceptedFrom(a, m.slot))
    <3>0. PICK a \in Acceptors : \E m \in Inbox(a, "prepare") :
            m.from = p /\ r = PromiseMsg(a, m.from, m.slot, m.ballot, CollectAcceptedFrom(a, m.slot))
      BY <2>2
    <3>1. PICK m \in Inbox(a, "prepare") :
            m.from = p /\ r = PromiseMsg(a, m.from, m.slot, m.ballot, CollectAcceptedFrom(a, m.slot))
      BY <3>0
    <3>2. r.ballot = m.ballot
      BY <3>1 DEF PromiseMsg
    <3>3. m \in network /\ m.type = "prepare" /\ m.ballot \in Nat
      BY <3>1, InboxTypes DEF TypeOK, Inbox, Prepares, Ballots
    <3>4. m.ballot <= core[p].ballot
      BY <3>1, <3>3 DEF PromiseInv, PreparesTaken
    <3> QED
      BY <1>1, <3>2, <3>3, <3>4
  <2> QED
    BY <2>1, <2>2, GivenMoves
<1>3. Now(p, Inbox(p, "promise"))' = {} /\ Now(p, agent[p].promises)' = {}
  BY <1>2 DEF Now, Given
<1>4. Answering(p)' = {} /\ Holding(p)' = {}
  BY <1>3 DEF Answering, Holding
<1>5. ASSUME NEW m \in PreparesOf(p)'
      PROVE  SendPrepare(p) /\ \E a \in Acceptors : m = PrepareMsg(p, a, core[p].adu + 1, core[p].ballot + BallotDelta)
  <2>1. m \in network' /\ m.type = "prepare" /\ m.from = p /\ m.ballot = core'[p].ballot
    BY <1>5 DEF PreparesOf
  <2>2. m \notin network
    <3> SUFFICES ASSUME m \in network PROVE FALSE
      OBVIOUS
    <3>1. m.ballot <= core[p].ballot
      BY <2>1 DEF PromiseInv, PreparesTaken
    <3> QED
      BY <1>1, <2>1, <3>1
  <2>3. \A a, r : PromiseMsg(a, r.from, r.slot, r.ballot, CollectAcceptedFrom(a, r.slot)).type = "promise"
    BY DEF PromiseMsg
  <2>4. SendPrepare(p)
    BY <2>1, <2>2, <2>3, NewPhaseOneMessages
  <2> QED
    BY <2>1, <2>2, <2>4 DEF SendPrepare, Send
<1>6. \A m, n \in PreparesOf(p)' : m.to = n.to => m = n
  BY <1>5 DEF PrepareMsg
<1>7. GivenOnce(p)'
  BY <1>3, <1>4, <1>6 DEF GivenOnce
<1>8. ASSUME Leads(p)'
      PROVE  Asked(p)' = {}
  <2>1. ~SendPrepare(p)
    BY <1>8, TickFiles DEF SamePromises, Leads
  <2> QED
    BY <1>5, <2>1 DEF Asked
<1> QED
  BY <1>4, <1>7, <1>8

\* A ballot that is used is not ahead of the proposer's.
LEMMA UsedBelow ==
  ASSUME TypeOK, ProposalsBelow, AcceptsDated, AnswersDated, CountsDated, NEW p \in Proposers, NEW b \in Used(p)
  PROVE  b \in Nat /\ b <= core[p].ballot
<1>1. PICK s \in Slots : (\E a : Vouched(p, s, a, b)) \/ (\E v : Current(p, s, v, b))
  <2>1. CASE \E m \in network : (m.type = "accept" /\ m.from = p /\ b = m.ballot)
    <3>1. PICK m \in network : m.type = "accept" /\ m.from = p /\ b = m.ballot
      BY <2>1
    <3>2. m.slot \in Slots
      BY <3>1 DEF TypeOK, Messages, Prepares, Promises, Accepts, Accepteds, Learns, Retries, Executeds, Adus
    <3> QED
      BY <3>1, <3>2 DEF AcceptsDated, Vouched
  <2>2. CASE \E m \in network : (m.type = "accepted" /\ m.to = p /\ b = m.ballot)
    <3>1. PICK m \in network : m.type = "accepted" /\ m.to = p /\ b = m.ballot
      BY <2>2
    <3>2. m.slot \in Slots
      BY <3>1 DEF TypeOK, Messages, Prepares, Promises, Accepts, Accepteds, Learns, Retries, Executeds, Adus
    <3> QED
      BY <3>1, <3>2 DEF AnswersDated
  <2>3. CASE \E t \in Slots, a \in Acceptors : (b = agent[p].accepts[t][a] /\ b # None)
    <3>1. \A t \in Slots, a \in Acceptors : agent[p].accepts[t][a] \in Ballots \cup {None}
      BY DEF TypeOK, ProposerTypeOK, AgentState
    <3> QED
      BY <2>3, <3>1 DEF CountsDated
  <2> QED
    BY <2>1, <2>2, <2>3 DEF Used
<1>2. b \in Nat
  <2>1. \A m \in network : m.type = "accept" \/ m.type = "accepted" => m.ballot \in Nat
    BY DEF TypeOK, Messages, Prepares, Promises, Accepts, Accepteds, Learns, Retries, Executeds, Adus, Ballots
  <2>2. \A t \in Slots, a \in Acceptors : agent[p].accepts[t][a] \in Nat \cup {None}
    BY DEF TypeOK, ProposerTypeOK, AgentState, Ballots
  <2> QED
    BY <2>1, <2>2 DEF Used
<1> QED
  BY <1>1, <1>2 DEF Vouched, Past, Current, Proposes, ProposalsBelow

\* A proposer that has not entered phase 2 uses no ballot that it has not used.
LEMMA UsedStays ==
  ASSUME TypeOK, TypeOK', [Next]_vars, IdleEmpty', NEW p \in Proposers, ~Leads(p)'
  PROVE  Used(p)' \subseteq Used(p)
<1>0. \A s \in Slots : core'[p].proposals[s] = None
  BY DEF IdleEmpty
<1>1. ASSUME NEW m \in network', m.type = "accept", m.from = p
      PROVE  m.ballot \in Used(p)
  <2>1. CASE m \notin network
    <3>1. \A a \in Acceptors : ~AcceptorStep(a)
      BY <1>1, <2>1, SentByAcceptor
    <3>2. \A l \in Learners : ~LearnerStep(l)
      BY <1>1, <2>1, SentByLearner
    <3>3. PICK q \in Proposers : ProposerStep(q) \/ Leadership(q) \/ RestartProposer(q)
      BY <2>1, <3>1, <3>2, OneSteps DEF vars
    <3>4. m.from = q /\ Proposes(q, m.slot, m.value)'
      BY <1>1, <2>1, <3>3, ProposalsSent
    <3>5. m.slot \in Slots
      BY <1>1 DEF TypeOK, Messages, Prepares, Promises, Accepts, Accepteds, Learns, Retries, Executeds, Adus
    <3> QED
      BY <1>0, <1>1, <3>4, <3>5 DEF Proposes
  <2> QED
    BY <1>1, <2>1 DEF Used
<1>2. ASSUME NEW m \in network', m.type = "accepted", m.to = p
      PROVE  m.ballot \in Used(p)
  <2>1. CASE m \notin network
    <3>1. \A l \in Learners : ~LearnerStep(l)
      BY <1>2, <2>1, SentByLearner
    <3>2. \A q \in Proposers : ~(ProposerStep(q) \/ Leadership(q) \/ RestartProposer(q))
      BY <1>2, <2>1, SentByProposer
    <3>3. PICK a \in Acceptors : AcceptorStep(a)
      BY <2>1, <3>1, <3>2, OneSteps DEF vars
    <3>4. PICK r \in Inbox(a, "accept") : AnswersTo(a, r, m)
      BY <1>2, <2>1, <3>3, AcceptedSent
    <3>5. r \in network /\ r.type = "accept" /\ r.from = p /\ m.ballot = r.ballot
      BY <1>2, <3>4 DEF AnswersTo, Inbox
    <3> QED
      BY <3>5 DEF Used
  <2> QED
    BY <1>2, <2>1 DEF Used
<1>3. ASSUME NEW s \in Slots, NEW a \in Acceptors, agent'[p].accepts[s][a] # None
      PROVE  agent'[p].accepts[s][a] \in Used(p)
  <2>1. CASE \E m \in Inbox(p, "accepted") : Counted(p, m)
    BY <1>3, <2>1 DEF Counted, Inbox, Used
  <2>2. CASE agent'[p].accepts = agent[p].accepts
    BY <1>3, <2>2 DEF Used
  <2> QED
    BY <1>3, <2>1, <2>2, VotesCounted
<1> QED
  BY <1>1, <1>2, <1>3 DEF Used

\* No proposer enters phase 2 with a ballot that it has used: a majority would have to answer
\* a prepare of that ballot for the second time (proposer-agent.rs, process_promises).
LEMMA EntersUnused ==
  ASSUME TypeOK, TypeOK', [Next]_vars, OneEach', NEW p \in Proposers, GivenOnce(p), Spent(p), ~Leads(p), Leads(p)'
  PROVE  Unused(p)
<1> DEFINE U == Asked(p) \cup Answering(p) \cup Holding(p)
<1>1. core'[p].ballot = core[p].ballot /\ IsQuorum(Holding(p)')
  BY EntersWithQuorum
<1>2. Holding(p)' \in SUBSET U /\ U \in SUBSET Acceptors
  BY <1>1, RoundShrinks, RoundTypes
<1> HIDE DEF U
<1>3. IsQuorum(U)
  BY <1>1, <1>2, QuorumsGrow
<1> QED
  BY <1>3 DEF Spent, U

\* Nobody is no majority.
LEMMA NobodyIsNoQuorum == ~IsQuorum({})
<1>1. Cardinality({}) = 0 /\ Cardinality(Acceptors) \in Nat
  BY FS_EmptySet, FS_CardinalityType, AcceptorsAssumption
<1> QED
  BY <1>1 DEF IsQuorum, QuorumSize

\* A used ballot stays out of reach of a majority, across restarts and changes of the leader.
LEMMA SpentStep ==
  ASSUME TypeOK, TypeOK', PromiseInv, OneEach', [Next]_vars, IdleEmpty',
         ProposalsBelow, AcceptsDated, AnswersDated, CountsDated,
         NEW p \in Proposers, GivenOnce(p), Spent(p)
  PROVE  GivenOnce(p)' /\ Spent(p)'
<1>1. CASE core'[p].ballot # core[p].ballot
  <2>1. GivenOnce(p)' /\ Answering(p)' = {} /\ (Leads(p)' => Asked(p)' = {})
    BY <1>1, RoundStarts
  <2>2. CASE Leads(p)'
    <3>1. Asked(p)' \cup Answering(p)' = {}
      BY <2>1, <2>2
    <3>2. ~IsQuorum(Asked(p)' \cup Answering(p)')
      BY <3>1, NobodyIsNoQuorum
    <3> QED
      BY <2>1, <2>2, <3>2 DEF Spent
  <2>3. CASE ~Leads(p)'
    <3>1. core[p].ballot \in Nat /\ core'[p].ballot \in Nat /\ core[p].ballot < core'[p].ballot
      BY <1>1, BallotsGrow
    <3>2. \A b \in Used(p)' : b \in Nat /\ b <= core[p].ballot
      BY <2>3, UsedStays, UsedBelow
    <3>3. Unused(p)'
      BY <3>1, <3>2 DEF Unused
    <3> QED
      BY <2>1, <2>3, <3>3 DEF Spent
  <2> QED
    BY <2>2, <2>3
<1>2. CASE core'[p].ballot = core[p].ballot
  <2> DEFINE G == Asked(p) \cup Answering(p)
             A == Asked(p)' \cup Answering(p)'
             H == Holding(p)'
             U == Asked(p) \cup Answering(p) \cup Holding(p)
  <2>1. GivenOnce(p)' /\ A \in SUBSET G /\ A \cup H \in SUBSET U
    BY <1>2, RoundShrinks
  <2>2. G \in SUBSET Acceptors /\ U \in SUBSET Acceptors
    BY RoundTypes
  <2>3. A \cap H = {}
    BY <2>1 DEF GivenOnce
  <2>4. /\ Leads(p) => ~IsQuorum(G)
        /\ ~Leads(p) => Unused(p) \/ ~IsQuorum(U)
    BY DEF Spent
  <2>5. /\ Leads(p)' /\ ~IsQuorum(A) => Spent(p)'
        /\ ~Leads(p)' /\ (Unused(p)' \/ ~IsQuorum(A \cup H)) => Spent(p)'
    BY DEF Spent
  <2>6. ~Leads(p)' => Used(p)' \subseteq Used(p)
    BY UsedStays
  <2>7. ~Leads(p) /\ Leads(p)' => IsQuorum(H)
    BY EntersWithQuorum
  <2>8. Leads(p) /\ ~Leads(p)' => H = {}
    <3> SUFFICES ASSUME Leads(p), ~Leads(p)' PROVE H = {}
      OBVIOUS
    <3>1. RestartProposer(p)
      BY LeadsUntilRestart
    <3>2. agent'[p].promises = {}
      BY <3>1, RestartLeaves DEF NewAgent
    <3> QED
      BY <3>2 DEF Holding, Now
  <2>9. ~Leads(p)' /\ Unused(p) => Unused(p)'
    BY <1>2, <2>6 DEF Unused
  <2> HIDE DEF G, A, H, U
  <2>10. CASE Leads(p) /\ Leads(p)'
    <3>1. ~IsQuorum(A)
      BY <2>1, <2>2, <2>4, <2>10, QuorumsGrow
    <3> QED
      BY <2>1, <2>5, <2>10, <3>1
  <2>11. CASE ~Leads(p) /\ Leads(p)'
    <3>1. A \in SUBSET Acceptors /\ H \in SUBSET Acceptors
      BY <2>1, <2>2
    <3>2. ~IsQuorum(A)
      BY <2>3, <2>7, <2>11, <3>1, QuorumsMeet
    <3> QED
      BY <2>1, <2>5, <2>11, <3>2
  <2>12. CASE Leads(p) /\ ~Leads(p)'
    <3>1. A \cup H \in SUBSET G
      BY <2>1, <2>8, <2>12
    <3>2. ~IsQuorum(A \cup H)
      BY <2>2, <2>4, <2>12, <3>1, QuorumsGrow
    <3> QED
      BY <2>1, <2>5, <2>12, <3>2
  <2>13. CASE ~Leads(p) /\ ~Leads(p)'
    <3>1. ~IsQuorum(U) => ~IsQuorum(A \cup H)
      BY <2>1, <2>2, QuorumsGrow
    <3> QED
      BY <2>1, <2>4, <2>5, <2>9, <2>13, <3>1
  <2> QED
    BY <2>10, <2>11, <2>12, <2>13
<1> QED
  BY <1>1, <1>2

\* The ballots of the past stay there, a present proposal stays or comes to the past with a
\* restart, and so do the votes for it.
LEMMA PastStays ==
  ASSUME TypeOK, TypeOK', [Next]_vars, UntakenFree, NEW p \in Proposers, NEW s \in Slots, NEW b \in Nat,
         Past(p, s, b), ~Leads(p) /\ Leads(p)' => b # core[p].ballot
  PROVE  Past(p, s, b)'
<1>1. core[p].ballot \in Nat /\ core'[p].ballot \in Nat /\ core[p].ballot <= core'[p].ballot
  BY BallotsGrow
<1>2. b <= core'[p].ballot
  BY <1>1 DEF Past
<1>3. ASSUME Leads(p)'
      PROVE  b < core'[p].ballot
  BY <1>1, <1>3 DEF Past
<1>4. ASSUME core'[p].proposals[s] # None
      PROVE  b < core'[p].proposals[s].ballot
  BY <1>4, BallotsOfProposals DEF Past
<1> QED
  BY <1>2, <1>3, <1>4 DEF Past
LEMMA CurrentStays ==
  ASSUME TypeOK, TypeOK', [Next]_vars, UntakenFree, IdleEmpty, ProposalsBelow, RecoversOnce,
         NEW p \in Proposers, NEW s \in Slots, NEW v \in Commands, NEW b, Current(p, s, v, b)
  PROVE  Current(p, s, v, b)' \/ Past(p, s, b)'
<1>1. core[p].proposals[s] # None /\ core[p].proposals[s].ballot = b
  BY DEF Current, Proposes
<1>2. CASE ProposalsStay(p)
  <2>1. Proposes(p, s, v)'
    BY <1>2 DEF Current, ProposalsStay
  <2>2. core'[p].proposals[s].ballot = b
    BY <1>1, <2>1, BallotsOfProposals DEF Proposes
  <2> QED
    BY <2>1, <2>2 DEF Current
<1>3. CASE RestartProposer(p)
  <2>1. core'[p].proposals[s] = None /\ agent'[p] = NewAgent
    BY <1>3, RestartLeaves
  <2>2. ~Leads(p)'
    BY <2>1 DEF Leads, NewAgent
  <2>3. b <= core[p].ballot /\ b \in Nat
    BY <1>1 DEF ProposalsBelow, TypeOK, ProposerTypeOK, CoreState, Entry, Ballots
  <2>4. b <= core'[p].ballot
    BY <2>3, BallotsGrow
  <2> QED
    BY <2>1, <2>2, <2>4 DEF Past
<1> QED
  BY <1>2, <1>3, KeptUntilRestart
LEMMA VouchedStays ==
  ASSUME TypeOK, TypeOK', [Next]_vars, UntakenFree, IdleEmpty, ProposalsBelow, RecoversOnce,
         NEW p \in Proposers, NEW s \in Slots, NEW a, NEW b \in Nat, Vouched(p, s, a, b),
         ~Leads(p) /\ Leads(p)' => b # core[p].ballot
  PROVE  Vouched(p, s, a, b)'
<1>1. CASE Past(p, s, b)
  BY <1>1, PastStays DEF Vouched
<1>2. CASE \E v \in Commands : Current(p, s, v, b) /\ a \in VotedFor(s, v)
  <2>1. PICK v \in Commands : Current(p, s, v, b) /\ a \in VotedFor(s, v)
    BY <1>2
  <2>2. Current(p, s, v, b)' \/ Past(p, s, b)'
    BY <2>1, CurrentStays
  <2>3. a \in VotedFor(s, v)'
    BY <2>1, VotesStay
  <2> QED
    BY <2>2, <2>3 DEF Vouched
<1> QED
  BY <1>1, <1>2 DEF Vouched

\* Every step keeps what is under way and what is counted dated.
LEMMA DatesStep ==
  ASSUME TypeOK, TypeOK', [Next]_vars, UntakenFree, IdleEmpty, ProposalsBelow, RecoversOnce,
         AcceptsDated, AnswersDated, CountsDated,
         \A p \in Proposers : ~Leads(p) /\ Leads(p)' => Unused(p)
  PROVE  AcceptsDated' /\ AnswersDated' /\ CountsDated'
<1>1. ASSUME NEW p \in Proposers, NEW b \in Used(p)
      PROVE  b \in Nat /\ (~Leads(p) /\ Leads(p)' => b # core[p].ballot)
  BY <1>1, UsedBelow DEF Unused
<1>2. ASSUME NEW m \in network, m.type = "accept"
      PROVE  Current(m.from, m.slot, m.value, m.ballot)' \/ Past(m.from, m.slot, m.ballot)'
  <2>1. m.from \in Proposers /\ m.slot \in Slots /\ m.value \in Commands
    BY <1>2 DEF TypeOK, Messages, Prepares, Promises, Accepts, Accepteds, Learns, Retries, Executeds, Adus
  <2>2. m.ballot \in Used(m.from)
    BY <1>2 DEF Used
  <2>3. Current(m.from, m.slot, m.value, m.ballot) \/ Past(m.from, m.slot, m.ballot)
    BY <1>2 DEF AcceptsDated
  <2> QED
    BY <1>1, <2>1, <2>2, <2>3, CurrentStays, PastStays
<1>3. ASSUME NEW m \in network', m.type = "accept", m \notin network
      PROVE  Current(m.from, m.slot, m.value, m.ballot)'
  <2>1. \A a \in Acceptors : ~AcceptorStep(a)
    BY <1>3, SentByAcceptor
  <2>2. \A l \in Learners : ~LearnerStep(l)
    BY <1>3, SentByLearner
  <2>3. PICK p \in Proposers : ProposerStep(p) \/ Leadership(p) \/ RestartProposer(p)
    BY <1>3, <2>1, <2>2, OneSteps DEF vars
  <2>4. m.from = p /\ Proposes(p, m.slot, m.value)' /\ m.ballot = core'[p].proposals[m.slot].ballot
    BY <1>3, <2>3, ProposalsSent
  <2> QED
    BY <2>4 DEF Current
<1>4. ASSUME NEW m \in network, m.type = "accepted"
      PROVE  Vouched(m.to, m.slot, m.from, m.ballot)'
  <2>1. m.to \in Proposers /\ m.slot \in Slots
    BY <1>4 DEF TypeOK, Messages, Prepares, Promises, Accepts, Accepteds, Learns, Retries, Executeds, Adus
  <2>2. m.ballot \in Used(m.to)
    BY <1>4 DEF Used
  <2>3. Vouched(m.to, m.slot, m.from, m.ballot)
    BY <1>4 DEF AnswersDated
  <2> QED
    BY <1>1, <2>1, <2>2, <2>3, VouchedStays
<1>5. ASSUME NEW m \in network', m.type = "accepted", m \notin network
      PROVE  Vouched(m.to, m.slot, m.from, m.ballot)'
  <2>1. \A l \in Learners : ~LearnerStep(l)
    BY <1>5, SentByLearner
  <2>2. \A p \in Proposers : ~(ProposerStep(p) \/ Leadership(p) \/ RestartProposer(p))
    BY <1>5, SentByProposer
  <2>3. PICK a \in Acceptors : AcceptorStep(a)
    BY <1>5, <2>1, <2>2, OneSteps DEF vars
  <2>4. PICK r \in Inbox(a, "accept") : AnswersTo(a, r, m) /\ a \in VotedFor(r.slot, r.value)'
    BY <1>5, <2>3, AcceptedSent
  <2>5. /\ r \in network /\ r.type = "accept" /\ r.value \in Commands
        /\ m.from = a /\ m.to = r.from /\ m.slot = r.slot /\ m.ballot = r.ballot
    BY <2>4 DEF AnswersTo, Inbox, Accepts
  <2>6. Current(r.from, r.slot, r.value, r.ballot)' \/ Past(r.from, r.slot, r.ballot)'
    BY <1>2, <2>5
  <2> QED
    BY <2>4, <2>5, <2>6 DEF Vouched
<1>6. ASSUME NEW p \in Proposers, NEW s \in Slots, NEW a \in Acceptors, NEW b \in Ballots,
             agent'[p].accepts[s][a] = b
      PROVE  Vouched(p, s, a, b)'
  <2>0. b # None
    BY NoneAssumption
  <2>1. b \in Used(p) /\ Vouched(p, s, a, b)
    <3>1. CASE agent'[p].accepts = agent[p].accepts
      BY <1>6, <2>0, <3>1 DEF Used, CountsDated
    <3>2. CASE \E m \in Inbox(p, "accepted") : Counted(p, m)
      <4>1. PICK m \in Inbox(p, "accepted") : Counted(p, m)
        BY <3>2
      <4>2. m \in network /\ m.type = "accepted" /\ m.to = p
        BY <4>1 DEF Inbox
      <4>3. CASE s = m.slot /\ a = m.from
        BY <1>6, <4>1, <4>2, <4>3 DEF Counted, Used, AnswersDated
      <4>4. CASE ~(s = m.slot /\ a = m.from)
        BY <1>6, <2>0, <4>1, <4>4 DEF Counted, Used, CountsDated
      <4> QED
        BY <4>3, <4>4
    <3> QED
      BY <1>6, <2>0, <3>1, <3>2, VotesCounted
  <2> QED
    BY <1>1, <2>1, VouchedStays
<1>7. AcceptsDated'
  BY <1>2, <1>3 DEF AcceptsDated
<1>8. AnswersDated'
  BY <1>4, <1>5 DEF AnswersDated
<1>9. CountsDated'
  BY <1>6 DEF CountsDated
<1> QED
  BY <1>7, <1>8, <1>9

\* A majority of votes with the ballot of a proposal is for that proposal: a vote for an earlier
\* one of the slot has a lower ballot (proposer-agent.rs, process_accept).
LEMMA DatedWins ==
  ASSUME TypeOK, AnswersDated, CountsDated, NEW p \in Proposers
  PROVE  WinsAreChosen(p)
<1> SUFFICES ASSUME NEW m \in Inbox(p, "accepted"), Counted(p, m), Wins(p, m)
             PROVE  m.slot \in Slots /\ IsChosen(p, m.slot)
  BY DEF WinsAreChosen
<1> DEFINE s == m.slot
           v == core[p].proposals[s].value
           b == core[p].proposals[s].ballot
           Q == {a \in Acceptors : agent'[p].accepts[s][a] = b}
<1>1. s \in Slots /\ m.from \in Acceptors /\ m \in network /\ m.type = "accepted" /\ m.to = p
  BY InboxTypes DEF TypeOK, Accepteds, Inbox
<1>2. core[p].proposals[s] # None /\ v \in Commands /\ b \in Ballots /\ b \in Nat
  BY <1>1 DEF Wins, HasStatus, TypeOK, ProposerTypeOK, CoreState, Entry, Ballots
<1>3. ASSUME NEW a \in Q
      PROVE  a \in VotedFor(s, v)
  <2>1. Vouched(p, s, a, b)
    <3>1. CASE a = m.from
      BY <1>1, <3>1 DEF AnswersDated, Counted
    <3>2. CASE a # m.from
      BY <1>1, <1>2, <3>2 DEF Counted, CountsDated
    <3> QED
      BY <3>1, <3>2
  <2>2. ~Past(p, s, b)
    BY <1>2 DEF Past
  <2> QED
    BY <2>1, <2>2 DEF Vouched, Current, Proposes
<1>4. IsQuorum(Q)
  BY DEF Wins, PhaseTwoDone
<1>5. Q \subseteq VotedFor(s, v) /\ VotedFor(s, v) \in SUBSET Acceptors
  BY <1>3 DEF VotedFor
<1> HIDE DEF Q
<1>6. IsQuorum(VotedFor(s, v))
  BY <1>4, <1>5, QuorumsGrow
<1> QED
  BY <1>1, <1>2, <1>6 DEF IsChosen, Chosen

\* Every step keeps the invariant, unless a late promise frees a slot.
LEMMA DatedStep ==
  ASSUME TypeOK, TypeOK', PromiseInv, OneEach', DatedInv, [Next]_vars, RecoversOnce
  PROVE  DatedInv'
<1>1. UntakenFree' /\ IdleEmpty' /\ ProposalsBelow'
  BY ProposalsStep DEF DatedInv
<1>2. \A p \in Proposers : GivenOnce(p)' /\ Spent(p)'
  BY <1>1, SpentStep DEF DatedInv
<1>3. AcceptsDated' /\ AnswersDated' /\ CountsDated'
  <2>1. \A p \in Proposers : ~Leads(p) /\ Leads(p)' => Unused(p)
    BY EntersUnused DEF DatedInv
  <2> QED
    BY <2>1, DatesStep DEF DatedInv
<1>4. \A p \in Proposers : WinsAreChosen(p)
  BY DatedWins DEF DatedInv
<1>5. \A p \in Proposers : ProposalsStay(p) \/ RestartProposer(p)
  BY KeptUntilRestart DEF DatedInv
<1>6. ASSUME NEW p \in Proposers, NEW i \in 1 .. Len(core'[p].chosenSlots)
      PROVE  IsChosen(p, core[p].chosenSlots[i])'
  <2>1. PICK s \in Slots : s = core'[p].chosenSlots[i] /\ IsChosen(p, s)
    BY <1>4, QueueMoves DEF DatedInv
  <2>2. ProposalsStay(p)
    <3> SUFFICES ASSUME RestartProposer(p) PROVE FALSE
      BY <1>5
    <3>1. core'[p].chosenSlots = <<>>
      BY RestartLeaves
    <3> QED
      BY <3>1
  <2>3. IsChosen(p, s)'
    BY <2>1, <2>2, IsChosenStays
  <2> QED
    BY <2>1, <2>3 DEF IsChosen
<1>7. ASSUME NEW p \in Proposers, NEW s \in Slots,
             HasStatus(core'[p], s, "Chosen") \/ HasStatus(core'[p], s, "CommitPending")
      PROVE  core'[p].proposals[s].value \in Chosen(s)'
  <2>1. IsChosen(p, s)
    <3>1. CASE core'[p].proposals[s] = core[p].proposals[s]
      BY <1>7, <3>1 DEF HasStatus, DatedInv, ChosenStatusIsChosen, IsChosen
    <3> QED
      BY <1>4, <1>7, <3>1, StatusMoves DEF DatedInv
  <2>2. ProposalsStay(p)
    BY <1>5, <1>7, RestartLeaves DEF HasStatus
  <2>3. IsChosen(p, s)'
    BY <2>1, <2>2, IsChosenStays
  <2> QED
    BY <2>3 DEF IsChosen
<1> QED
  BY <1>1, <1>2, <1>3, <1>6, <1>7 DEF DatedInv, QueuedChosen, ChosenStatusIsChosen

\* At the start nothing is proposed, promised or asked.
LEMMA DatedStart == Init => DatedInv
<1> SUFFICES ASSUME Init PROVE DatedInv
  OBVIOUS
<1>1. ASSUME NEW p \in Proposers
      PROVE  /\ core[p].chosenSlots = <<>> /\ \A s \in Slots : core[p].proposals[s] = None
             /\ \A s \in Slots, a \in Acceptors : agent[p].accepts[s][a] = None
             /\ agent[p].promises = {} /\ ~Leads(p)
  BY DEF Init, ProposerInit, NewCore, NewAgent, Leads
<1>2. network = {}
  BY DEF Init
<1>3. IdleEmpty /\ ProposalsBelow /\ AcceptsDated /\ AnswersDated
  BY <1>1, <1>2 DEF IdleEmpty, ProposalsBelow, AcceptsDated, AnswersDated
<1>4. CountsDated
  BY <1>1, NoneAssumption DEF CountsDated
<1>5. UntakenFree /\ QueuedChosen /\ ChosenStatusIsChosen
  BY <1>1 DEF UntakenFree, QueuedChosen, ChosenStatusIsChosen, HasStatus
<1>6. ASSUME NEW p \in Proposers
      PROVE  GivenOnce(p) /\ Spent(p)
  <2>1. PreparesOf(p) = {} /\ Now(p, Inbox(p, "promise")) = {} /\ Now(p, agent[p].promises) = {}
    BY <1>1, <1>2 DEF PreparesOf, Now, Inbox
  <2>2. Asked(p) = {} /\ Answering(p) = {} /\ Holding(p) = {}
    BY <2>1 DEF Asked, Answering, Holding
  <2>3. GivenOnce(p)
    BY <2>1, <2>2 DEF GivenOnce
  <2>4. Unused(p)
    BY <1>1, <1>2 DEF Unused, Used
  <2> QED
    BY <1>1, <2>3, <2>4 DEF Spent
<1> QED
  BY <1>3, <1>4, <1>5, <1>6 DEF DatedInv

\* What is under way and counted has its date, for any number of proposers, with restarts and
\* changes of the leader.
THEOREM DatedInvariant == Spec /\ [][RecoversOnce]_vars => []DatedInv
<1>1. TypeOK /\ TypeOK' /\ PromiseInv /\ OneEach' /\ DatedInv /\ [Next]_vars /\ [RecoversOnce]_vars => DatedInv'
  <2> SUFFICES ASSUME TypeOK, TypeOK', PromiseInv, OneEach', DatedInv, [Next]_vars, [RecoversOnce]_vars
               PROVE  DatedInv'
    OBVIOUS
  <2>1. RecoversOnce
    <3>1. \A p \in Proposers : core[p].currentSlot \in Nat
      BY BoundsAssumption DEF TypeOK, ProposerTypeOK, CoreState
    <3> QED
      BY <3>1 DEF RecoversOnce, vars, proposerVars
  <2> QED
    BY <2>1, DatedStep
<1>2. Init => OneEach
  BY PhaseStart DEF PhaseInv
<1>3. TypeOK /\ OneEach /\ [Next]_vars => OneEach'
  BY OneEachStep
<1>4. Spec => []OneEach
  BY <1>2, <1>3, TypeCorrect, PTL DEF Spec
<1> QED
  BY <1>1, <1>4, DatedStart, TypeCorrect, PromiseInvariant, PTL DEF Spec

\* As long as no late promise sets a counter back, a proposal that its proposer takes for
\* chosen, or sends to the learners, is chosen (proposer.rs, process_accept), after restarts too.
THEOREM ChosenStatusHolds == Spec /\ [][RecoversOnce]_vars => []ChosenStatusIsChosen
<1>1. DatedInv => ChosenStatusIsChosen
  BY DEF DatedInv
<1> QED
  BY <1>1, DatedInvariant, PTL

----------------------------------------------------------------------------
(* The learners, when the proposers send the learns: what they are told is   *)
(* chosen, since a proposer tells only what it takes for chosen.             *)

\* Retries go to the proposers; a learn names a value that is chosen, and a learner
\* learns nothing else.
ToldInv ==
  /\ \A m \in network : m.type = "retry-learns" => m.to \in Proposers
  /\ \A m \in network : m.type = "learn" => m.value \in Chosen(m.slot)
  /\ \A l \in Learners, s \in Slots : learned[l][s] \in Chosen(s) \cup {None}

\* Whom a learner asks for missing slots (learner-agent.rs, send_retry_learns).
LEMMA RetriesSent ==
  ASSUME NEW l \in Learners, LearnerStep(l), NEW m \in network' \ network, m.type = "retry-learns"
  PROVE  m.to \in RetryTargets
<1>1. CASE HandleLearn(l)
  <2>1. \/ \E r, map : ExecuteAndDispatch(l, map, r, {}, TRUE)
        \/ \E r : Reply(r, {})
    BY <1>1 DEF HandleLearn
  <2>2. CASE \E r, map : ExecuteAndDispatch(l, map, r, {}, TRUE)
    <3>1. PICK r, map : ExecuteAndDispatch(l, map, r, {}, TRUE)
      BY <2>2
    <3>2. \A S : S = {} /\ ExecuteAndDispatch(l, map, r, S, TRUE) => m \in S \/ m.type = "executed"
      BY DispatchLearns
    <3> QED
      BY <3>1, <3>2
  <2>3. CASE \E r : Reply(r, {})
    BY <2>3 DEF Reply
  <2> QED
    BY <2>1, <2>2, <2>3
<1>2. CASE LearnerTick(l)
  <2>1. PICK S : \/ ExecuteAndDispatch(l, learned[l], None,
                      IF S = {} THEN {} ELSE {RetryLearnsMsg(l, n, S) : n \in RetryTargets}, FALSE)
                 \/ Send(IF S = {} THEN {} ELSE {RetryLearnsMsg(l, n, S) : n \in RetryTargets})
    BY <1>2 DEF LearnerTick
  <2> DEFINE retries == IF S = {} THEN {} ELSE {RetryLearnsMsg(l, n, S) : n \in RetryTargets}
  <2>2. \A n \in retries : n.to \in RetryTargets
    BY DEF RetryLearnsMsg
  <2> HIDE DEF retries
  <2>3. CASE ExecuteAndDispatch(l, learned[l], None, retries, FALSE)
    <3>1. m \in retries \/ m.type = "executed"
      BY <2>3, DispatchLearns
    <3> QED
      BY <2>2, <3>1
  <2>4. CASE Send(retries)
    BY <2>2, <2>4 DEF Send
  <2> QED
    BY <2>1, <2>3, <2>4 DEF retries
<1>3. CASE HandleAduRequest(l)
  BY <1>3 DEF HandleAduRequest, Reply, AduMsg
<1> QED
  BY <1>1, <1>2, <1>3 DEF LearnerStep

\* An acceptor that nobody asks and that answers the proposers tells the learners nothing.
LEMMA AcceptorTellsNobody ==
  ASSUME ~AcceptorsSendLearns, TypeOK, ToldInv, NEW a \in Acceptors, AcceptorStep(a), NEW m \in network' \ network
  PROVE  m.type # "learn"
<1>1. CASE HandlePrepare(a)
  BY <1>1 DEF HandlePrepare, Promise, RejectPrepare, Reply, PromiseMsg
<1>2. CASE HandleAccept(a)
  <2>1. PICK r : m \in Announce(a, r)
    BY <1>2 DEF HandleAccept, AcceptNew, AcceptAgain, RejectAccept, Reply
  <2> QED
    BY <2>1 DEF Announce, AcceptedMsg
<1>3. CASE HandleRetryLearns(a)
  <2>1. PICK r \in network : r.type = "retry-learns" /\ r.to = a
    BY <1>3 DEF HandleRetryLearns, Inbox
  <2> QED
    BY <2>1, DisjointAssumption DEF ToldInv
<1> QED
  BY <1>1, <1>2, <1>3 DEF AcceptorStep

\* Every step keeps the learners to what is chosen.
LEMMA ToldStep ==
  ASSUME ~AcceptorsSendLearns, TypeOK, TypeOK', ChosenStatusIsChosen', ToldInv, [Next]_vars
  PROVE  ToldInv'
<1>1. ASSUME NEW m \in network', m.type = "retry-learns"
      PROVE  m.to \in Proposers
  <2>1. CASE m \in network
    BY <1>1, <2>1 DEF ToldInv
  <2>2. CASE m \notin network
    <3>1. \A a \in Acceptors : ~AcceptorStep(a)
      BY <1>1, <2>2, SentByAcceptor
    <3>2. \A p \in Proposers : ~(ProposerStep(p) \/ Leadership(p) \/ RestartProposer(p))
      BY <1>1, <2>2, SentByProposer
    <3>3. PICK l \in Learners : LearnerStep(l)
      BY <2>2, <3>1, <3>2, OneSteps DEF vars
    <3> QED
      BY <1>1, <2>2, <3>3, RetriesSent DEF RetryTargets
  <2> QED
    BY <2>1, <2>2
<1>2. ASSUME NEW m \in network', m.type = "learn"
      PROVE  m.value \in Chosen(m.slot)'
  <2>1. m \in Learns
    BY <1>2 DEF TypeOK, Messages, Prepares, Promises, Accepts, Accepteds, Learns, Retries, Executeds, Adus
  <2>2. CASE m \in network
    BY <1>2, <2>1, <2>2, ChosenStays DEF ToldInv, Learns
  <2>3. CASE m \notin network
    <3>1. \A a \in Acceptors : ~AcceptorStep(a)
      BY <1>2, <2>3, AcceptorTellsNobody
    <3>2. \A l \in Learners : ~LearnerStep(l)
      BY <1>2, <2>3, SentByLearner
    <3>3. PICK p \in Proposers : ProposerStep(p) \/ Leadership(p) \/ RestartProposer(p)
      BY <2>3, <3>1, <3>2, OneSteps DEF vars
    <3>4. Proposes(p, m.slot, m.value)' /\ HasStatus(core'[p], m.slot, "CommitPending")
      BY <1>2, <2>3, <3>3, ProposalsSent
    <3>5. core'[p].proposals[m.slot].value \in Chosen(m.slot)'
      BY <2>1, <3>4 DEF ChosenStatusIsChosen, Learns
    <3> QED
      BY <3>4, <3>5 DEF Proposes
  <2> QED
    BY <2>2, <2>3
<1>3. ASSUME NEW k \in Learners, NEW s \in Slots
      PROVE  learned'[k][s] \in Chosen(s)' \cup {None}
  <2>1. learned'[k][s] \in Chosen(s) \cup {None}
    <3>1. CASE learned' = learned
      BY <3>1 DEF ToldInv
    <3>2. CASE learned' # learned
      <4>1. PICK l \in Learners : HandleLearn(l)
        BY <3>2, OnlyLearnWrites
      <4>2. PICK m \in Inbox(l, "learn") : \/ UNCHANGED learned
                                           \/ learned' = [learned EXCEPT ![l][m.slot] = m.value]
        BY <4>1 DEF HandleLearn, Learnable
      <4>3. m \in Learns /\ m \in network /\ m.type = "learn"
        BY InboxTypes DEF TypeOK, Inbox
      <4>4. m.value \in Chosen(m.slot)
        BY <4>3 DEF ToldInv
      <4>5. learned'[k][s] = learned[k][s] \/ (s = m.slot /\ learned'[k][s] = m.value)
        <5>1. m.slot \in Slots /\ learned \in [Learners -> [Slots -> Values \cup {None}]]
          BY <4>3 DEF Learns, TypeOK, LearnerTypeOK
        <5> QED
          BY <4>2, <5>1
      <4>6. learned[k][s] \in Chosen(s) \cup {None}
        BY DEF ToldInv
      <4> QED
        BY <4>4, <4>5, <4>6
    <3> QED
      BY <3>1, <3>2
  <2> QED
    BY <2>1, ChosenStays
<1> QED
  BY <1>1, <1>2, <1>3 DEF ToldInv

LEMMA ToldStart == Init => ToldInv
BY DEF Init, LearnerInit, ToldInv

\* Told by the proposers, the learners are told and learn what is chosen.
LEMMA ToldInvariant ==
  ASSUME ~AcceptorsSendLearns
  PROVE  Spec /\ [][RecoversOnce]_vars => []ToldInv
<1>1. TypeOK /\ TypeOK' /\ ChosenStatusIsChosen' /\ ToldInv /\ [Next]_vars => ToldInv'
  BY ToldStep
<1> QED
  BY <1>1, ToldStart, ChosenStatusHolds, TypeCorrect, PTL DEF Spec

\* As long as no late promise sets a counter back, a learner that the proposers tell learns only
\* what a majority has accepted (learner.rs, learn, takes the word of any proposer).
THEOREM LearnersLearnCommitted ==
  ASSUME ~AcceptorsSendLearns
  PROVE  Spec /\ [][RecoversOnce]_vars => []LearnedIsChosen
<1>1. ToldInv => LearnedIsChosen
  BY ValuesAssumption DEF ToldInv, LearnedIsChosen
<1> QED
  BY <1>1, ToldInvariant, PTL

\* Then one learner's history is a prefix of the other's, whoever leads and with every retry.
THEOREM LearnersApplyCommitted ==
  ASSUME ~AcceptorsSendLearns
  PROVE  Spec /\ [][RecoversOnce]_vars => []HistoriesAgree
<1>1. TypeOK /\ ToldInv /\ HistoryIsLog => HistoriesAgree
  <2> SUFFICES ASSUME TypeOK, ToldInv, HistoryIsLog, NEW k \in Learners, NEW l \in Learners,
                      NEW i \in DOMAIN history[k] \cap DOMAIN history[l]
               PROVE  history[k][i] = history[l][i]
    BY DEF HistoriesAgree
  <2>1. ASSUME NEW j \in {k, l}
        PROVE  i \in Slots /\ history[j][i] \in Chosen(i)
    <3>1. /\ learnerAdu[j] \in 0 .. MaxSlot /\ MaxSlot \in Nat
          /\ history[j] \in Seq(Values) /\ Len(history[j]) = learnerAdu[j]
      BY BoundsAssumption DEF TypeOK, LearnerTypeOK, HistoryIsLog, Applied
    <3>2. i \in 1 .. learnerAdu[j] /\ i \in Slots
      BY <3>1, LenProperties DEF Slots
    <3>3. history[j][i] = learned[j][i] /\ learned[j][i] # None
      BY <3>2 DEF HistoryIsLog, Applied
    <3> QED
      BY <3>2, <3>3 DEF ToldInv
  <2> QED
    BY <2>1, ChosenIsUnique DEF ChosenUnique
<1> QED
  BY <1>1, ToldInvariant, HistoryInvariant, TypeCorrect, PTL

----------------------------------------------------------------------------
(* The results: what a learner tells of a slot is what it has learned there. *)

TrueResults(map) == {r \in Result : map[r.slot] = r.value}
BufferTold == \A l \in Learners : execBuffer[l] \in Seq(TrueResults(learned[l]))
ResultsTold == \A m \in network : m.type = "executed" => m.results \in Seq(TrueResults(learned[m.from]))

\* Executing and dispatching (learner-agent.rs, dispatch_executed).
LEMMA DispatchTells ==
  ASSUME LearnerTypeOK, NEW l \in Learners, NEW map \in [Slots -> Values \cup {None}], NEW r, NEW S,
         NEW full, ExecuteAndDispatch(l, map, r, S, full), execBuffer[l] \in Seq(TrueResults(map))
  PROVE  /\ execBuffer'[l] \in Seq(TrueResults(map))
         /\ \A k \in Learners \ {l} : execBuffer'[k] = execBuffer[k]
         /\ \A m \in network' \ network :
              m \in S \/ (m.type = "executed" /\ m.from = l /\ m.results \in Seq(TrueResults(map)))
<1> DEFINE adu  == Contiguous(map, learnerAdu[l])
           new  == Results(map, learnerAdu[l] + 1, adu)
           buf  == execBuffer[l] \o new
           k    == IF LearnersSendExecuted THEN DispatchSize(Len(buf), full) ELSE 0
           T    == TrueResults(map)
<1>1. /\ MaxSlot \in Nat /\ learnerAdu[l] \in 0 .. MaxSlot
      /\ adu \in learnerAdu[l] .. MaxSlot
      /\ \A s \in learnerAdu[l] + 1 .. adu : map[s] \in Values
  BY ContiguousType, BoundsAssumption DEF LearnerTypeOK
<1>2. new \in [1 .. adu - learnerAdu[l] -> T]
  <2> HIDE DEF adu, T
  <2>1. ASSUME NEW i \in 1 .. adu - learnerAdu[l]
        PROVE  [slot |-> learnerAdu[l] + 1 + i - 1, value |-> map[learnerAdu[l] + 1 + i - 1]] \in T
    <3> DEFINE s == learnerAdu[l] + 1 + i - 1
    <3>1. s \in Slots /\ map[s] \in Values
      BY <1>1 DEF Slots
    <3> HIDE DEF s
    <3>2. [slot |-> s, value |-> map[s]] \in T
      BY <3>1 DEF T, TrueResults, Result
    <3> QED
      BY <3>2 DEF s
  <2>2. adu - (learnerAdu[l] + 1) + 1 = adu - learnerAdu[l]
    BY <1>1
  <2> QED
    BY <2>1, <2>2 DEF Results
<1>3. new \in Seq(T)
  <2> HIDE DEF adu, new, T
  <2> QED
    BY <1>1, <1>2, SeqDef
<1>4. buf \in Seq(T) /\ Len(buf) \in Nat
  <2> HIDE DEF new
  <2> QED
    BY <1>3, ConcatProperties, LenProperties
<1>5. k \in 0 .. Len(buf)
  <2> HIDE DEF buf
  <2>1. PICK n \in Nat : n = Len(buf)
    BY <1>4
  <2>2. DispatchSize(n, full) \in 0 .. n /\ 0 \in 0 .. n
    BY BatchAssumption DEF DispatchSize
  <2> QED
    BY <2>1, <2>2
<1>6. /\ execBuffer' = [execBuffer EXCEPT ![l] = SubSeq(buf, k + 1, Len(buf))]
      /\ Reply(r, S \cup IF SubSeq(buf, 1, k) = <<>> THEN {}
                         ELSE {ExecutedMsg(l, p, SubSeq(buf, 1, k), adu) : p \in Proposers})
  BY DEF ExecuteAndDispatch
<1> HIDE DEF adu, new, buf, k, T
<1>7. SubSeq(buf, 1, k) \in Seq(T) /\ SubSeq(buf, k + 1, Len(buf)) \in Seq(T)
  <2>1. \A i \in 1 .. Len(buf) : buf[i] \in T
    BY <1>4, ElementOfSeq
  <2>2. k \in Int /\ 1 \in Int /\ k + 1 \in Int /\ Len(buf) \in Int
    BY <1>4, <1>5
  <2>3. (\A i \in 1 .. k : buf[i] \in T) /\ (\A i \in k + 1 .. Len(buf) : buf[i] \in T)
    BY <1>4, <1>5, <2>1
  <2> QED
    BY <2>2, <2>3, SubSeqProperties
<1>8. execBuffer'[l] \in Seq(T) /\ \A n \in Learners \ {l} : execBuffer'[n] = execBuffer[n]
  BY <1>6, <1>7 DEF LearnerTypeOK
<1>9. ASSUME NEW m \in network' \ network
      PROVE  m \in S \/ (m.type = "executed" /\ m.from = l /\ m.results \in Seq(T))
  <2>1. m \in S \/ \E p \in Proposers : m = ExecutedMsg(l, p, SubSeq(buf, 1, k), adu)
    BY <1>6 DEF Reply
  <2>2. PICK q \in Seq(T) : q = SubSeq(buf, 1, k)
    BY <1>7
  <2>3. m \in S \/ \E p \in Proposers : m = ExecutedMsg(l, p, q, adu)
    BY <2>1, <2>2
  <2>4. \A p : LET n == ExecutedMsg(l, p, q, adu) IN n.type = "executed" /\ n.from = l /\ n.results = q
    BY DEF ExecutedMsg
  <2> QED
    BY <2>3, <2>4
<1> QED
  BY <1>8, <1>9 DEF T

\* What is learned stays (learner.rs, learn).
LEMMA LearnedStays ==
  ASSUME TypeOK, [Next]_vars, NEW l \in Learners, NEW s \in Slots, learned[l][s] # None
  PROVE  learned'[l][s] = learned[l][s]
<1>1. CASE learned' = learned
  BY <1>1
<1>2. CASE learned' # learned
  <2>1. PICK k \in Learners : HandleLearn(k)
    BY <1>2, OnlyLearnWrites
  <2>2. PICK m \in Inbox(k, "learn") : \/ UNCHANGED learned
                                       \/ /\ learned[k][m.slot] = None
                                          /\ \E v : learned' = [learned EXCEPT ![k][m.slot] = v]
    BY <2>1 DEF HandleLearn
  <2>3. m.slot \in Slots /\ learned \in [Learners -> [Slots -> Values \cup {None}]]
    BY InboxTypes DEF TypeOK, LearnerTypeOK, Learns
  <2> QED
    BY <1>2, <2>2, <2>3
<1> QED
  BY <1>1, <1>2

\* So a result that is true stays true.
LEMMA TrueResultsStay ==
  ASSUME TypeOK, [Next]_vars, NEW l \in Learners, NEW q \in Seq(TrueResults(learned[l]))
  PROVE  q \in Seq(TrueResults(learned'[l]))
<1> DEFINE T == TrueResults(learned[l])
           U == TrueResults(learned'[l])
<1>1. T \subseteq U
  <2> SUFFICES ASSUME NEW r \in Result, learned[l][r.slot] = r.value
               PROVE  learned'[l][r.slot] = r.value
    BY DEF TrueResults
  <2>1. r.slot \in Slots /\ r.value # None
    BY ValuesAssumption DEF Result, Values
  <2> QED
    BY <2>1, LearnedStays
<1> HIDE DEF T, U
<1>2. q \in Seq(T)
  BY DEF T
<1>3. q \in [1 .. Len(q) -> T] /\ Len(q) \in Nat
  BY <1>2, LenProperties
<1>4. q \in [1 .. Len(q) -> U]
  BY <1>1, <1>3
<1>5. q \in Seq(U)
  BY <1>3, <1>4, SeqDef
<1> QED
  BY <1>5 DEF U

\* Every step keeps the results true, buffered or under way.
LEMMA ResultsStep ==
  ASSUME TypeOK, TypeOK', BufferTold, ResultsTold, [Next]_vars
  PROVE  BufferTold' /\ ResultsTold'
<1>1. \A l \in Learners : execBuffer[l] \in Seq(TrueResults(learned'[l]))
  BY TrueResultsStay DEF BufferTold
<1>2. ASSUME NEW m \in network, m.type = "executed"
      PROVE  m.results \in Seq(TrueResults(learned'[m.from]))
  <2>1. m.from \in Learners
    BY <1>2 DEF TypeOK, Messages, Prepares, Promises, Accepts, Accepteds, Learns, Retries, Executeds, Adus
  <2> QED
    BY <1>2, <2>1, TrueResultsStay DEF ResultsTold
<1>3. ASSUME execBuffer' = execBuffer, \A m \in network' \ network : m.type # "executed"
      PROVE  BufferTold' /\ ResultsTold'
  BY <1>1, <1>2, <1>3 DEF BufferTold, ResultsTold
<1>4. ASSUME NEW l \in Learners, NEW map, map = learned'[l], NEW r, NEW S, NEW full,
             ExecuteAndDispatch(l, map, r, S, full), \A m \in S : m.type # "executed"
      PROVE  BufferTold' /\ ResultsTold'
  <2>1. map \in [Slots -> Values \cup {None}] /\ LearnerTypeOK
    BY <1>4 DEF TypeOK, LearnerTypeOK
  <2>2. execBuffer[l] \in Seq(TrueResults(map))
    BY <1>1, <1>4
  <2>3. /\ execBuffer'[l] \in Seq(TrueResults(map))
        /\ \A k \in Learners \ {l} : execBuffer'[k] = execBuffer[k]
        /\ \A m \in network' \ network :
             m \in S \/ (m.type = "executed" /\ m.from = l /\ m.results \in Seq(TrueResults(map)))
    BY <1>4, <2>1, <2>2, DispatchTells
  <2>4. ASSUME NEW k \in Learners
        PROVE  execBuffer'[k] \in Seq(TrueResults(learned'[k]))
    BY <1>1, <1>4, <2>3
  <2>5. ASSUME NEW m \in network', m.type = "executed"
        PROVE  m.results \in Seq(TrueResults(learned'[m.from]))
    <3>1. CASE m \in network
      BY <1>2, <2>5, <3>1
    <3>2. CASE m \notin network
      BY <1>4, <2>3, <2>5, <3>2
    <3> QED
      BY <3>1, <3>2
  <2> QED
    BY <2>4, <2>5 DEF BufferTold, ResultsTold
<1>5. ASSUME NEW l \in Learners, HandleLearn(l)
      PROVE  BufferTold' /\ ResultsTold'
  <2>1. \/ \E r : ExecuteAndDispatch(l, learned'[l], r, {}, TRUE)
        \/ \E r : Reply(r, {}) /\ execBuffer' = execBuffer
    BY <1>5 DEF HandleLearn
  <2>2. CASE \E r : ExecuteAndDispatch(l, learned'[l], r, {}, TRUE)
    <3>1. PICK r : ExecuteAndDispatch(l, learned'[l], r, {}, TRUE)
      BY <2>2
    <3>2. PICK S : S = {}
      OBVIOUS
    <3>3. ExecuteAndDispatch(l, learned'[l], r, S, TRUE) /\ \A m \in S : m.type # "executed"
      BY <3>1, <3>2
    <3> QED
      BY <1>4, <3>3
  <2>3. CASE \E r : Reply(r, {}) /\ execBuffer' = execBuffer
    BY <1>3, <2>3 DEF Reply
  <2> QED
    BY <2>1, <2>2, <2>3
<1>6. ASSUME NEW l \in Learners, LearnerTick(l)
      PROVE  BufferTold' /\ ResultsTold'
  <2>1. PICK S : \/ /\ UNCHANGED learned
                    /\ ExecuteAndDispatch(l, learned[l], None,
                         IF S = {} THEN {} ELSE {RetryLearnsMsg(l, n, S) : n \in RetryTargets}, FALSE)
                 \/ /\ Send(IF S = {} THEN {} ELSE {RetryLearnsMsg(l, n, S) : n \in RetryTargets})
                    /\ UNCHANGED execBuffer
    BY <1>6 DEF LearnerTick
  <2> DEFINE retries == IF S = {} THEN {} ELSE {RetryLearnsMsg(l, n, S) : n \in RetryTargets}
  <2>2. \A n \in retries : n.type # "executed"
    BY DEF RetryLearnsMsg
  <2> HIDE DEF retries
  <2>3. CASE UNCHANGED learned /\ ExecuteAndDispatch(l, learned[l], None, retries, FALSE)
    <3>1. PICK map : map = learned[l]
      OBVIOUS
    <3>2. map = learned'[l] /\ ExecuteAndDispatch(l, map, None, retries, FALSE)
      BY <2>3, <3>1
    <3> QED
      BY <1>4, <2>2, <3>2
  <2>4. CASE Send(retries) /\ UNCHANGED execBuffer
    BY <1>3, <2>2, <2>4 DEF Send
  <2> QED
    BY <2>1, <2>3, <2>4 DEF retries
<1>7. ASSUME NEW l \in Learners, HandleAduRequest(l)
      PROVE  BufferTold' /\ ResultsTold'
  <2>1. execBuffer' = execBuffer /\ \A m \in network' \ network : m.type # "executed"
    BY <1>7 DEF HandleAduRequest, Reply, AduMsg, learnerVars
  <2> QED
    BY <1>3, <2>1
<1>8. CASE \E l \in Learners : LearnerStep(l)
  BY <1>5, <1>6, <1>7, <1>8 DEF LearnerStep
<1>9. CASE ~\E l \in Learners : LearnerStep(l)
  <2>1. execBuffer' = execBuffer
    BY <1>9, OneSteps DEF vars, learnerVars
  <2>2. ASSUME NEW m \in network' \ network
        PROVE  m.type # "executed"
    <3>1. CASE \E a \in Acceptors : AcceptorStep(a)
      BY <3>1, SentByAcceptor
    <3>2. CASE \E p \in Proposers : ProposerStep(p) \/ Leadership(p) \/ RestartProposer(p)
      BY <3>2, SentByProposer
    <3>3. ~UNCHANGED vars
      BY DEF vars
    <3> QED
      BY <1>9, <3>1, <3>2, <3>3, OneSteps
  <2> QED
    BY <1>3, <2>1, <2>2
<1> QED
  BY <1>8, <1>9

----------------------------------------------------------------------------
(* As long as no slot is taken twice, what is under way to the acceptors are *)
(* proposals.                                                                *)

AcceptsProposed == \A m \in network : m.type = "accept" => Proposes(m.from, m.slot, m.value)
SlotInv == UntakenFree /\ AcceptsProposed

\* Every step keeps the invariant, unless it frees a slot.
LEMMA SlotStep ==
  ASSUME TypeOK, TypeOK', SlotInv, [Next]_vars, SlotsTakenOnce
  PROVE  SlotInv'
<1>1. \A p \in Proposers : ProposalsStay(p)
  BY ProposalsAreKept DEF SlotInv, SlotsTakenOnce
<1>2. UntakenFree'
  BY <1>1 DEF ProposalsStay, UntakenFree
<1>3. ASSUME NEW m \in network', m.type = "accept"
      PROVE  Proposes(m.from, m.slot, m.value)'
  <2>1. m \in Accepts
    BY <1>3 DEF TypeOK, Messages, Prepares, Promises, Accepts, Accepteds, Learns, Retries, Executeds, Adus
  <2>2. CASE m \in network
    BY <1>1, <1>3, <2>1, <2>2 DEF SlotInv, AcceptsProposed, Accepts, ProposalsStay
  <2>3. CASE m \notin network
    <3>1. \A a \in Acceptors : ~AcceptorStep(a)
      BY <1>3, <2>3, SentByAcceptor
    <3>2. \A l \in Learners : ~LearnerStep(l)
      BY <1>3, <2>3, SentByLearner
    <3>3. PICK p \in Proposers : ProposerStep(p) \/ Leadership(p) \/ RestartProposer(p)
      BY <2>3, <3>1, <3>2, OneSteps DEF vars
    <3> QED
      BY <1>3, <2>3, <3>3, ProposalsSent
  <2> QED
    BY <2>2, <2>3
<1> QED
  BY <1>2, <1>3 DEF SlotInv, AcceptsProposed

\* At the start nothing is proposed.
LEMMA SlotStart == Init => SlotInv
BY DEF Init, ProposerInit, NewCore, SlotInv, UntakenFree, AcceptsProposed

\* The invariant of the proposals, for any number of proposers.
LEMMA SlotInvariant == Spec /\ [][SlotsTakenOnce]_vars => []SlotInv
<1>1. SlotInv /\ TypeOK /\ TypeOK' /\ [Next]_vars /\ [SlotsTakenOnce]_vars => SlotInv'
  <2> SUFFICES ASSUME SlotInv, TypeOK, TypeOK', [Next]_vars, [SlotsTakenOnce]_vars PROVE SlotInv'
    OBVIOUS
  <2>1. SlotsTakenOnce
    <3>1. \A p \in Proposers : core[p].currentSlot \in Nat
      BY BoundsAssumption DEF TypeOK, ProposerTypeOK, CoreState
    <3> QED
      BY <3>1 DEF SlotsTakenOnce, vars, proposerVars
  <2> QED
    BY <2>1, SlotStep
<1> QED
  BY <1>1, SlotStart, TypeCorrect, PTL DEF Spec

----------------------------------------------------------------------------
(* One proposer: whatever is accepted, told or learned is its own proposal   *)
(* for that slot, and so is what its clients are answered.                   *)

AcceptedProposed(p) == \A a \in Acceptors, s \in Slots : accepted[a][s] # None => Proposes(p, s, accepted[a][s].value)
LearnsProposed(p) == \A m \in network : m.type = "learn" /\ m.value \in Commands => Proposes(p, m.slot, m.value)
FiledProposed(p) == \A l \in Learners, s \in Slots, a \in Acceptors :
  slotLearns[l][s][a] \in Commands => Proposes(p, s, slotLearns[l][s][a])
LearnedProposed(p) == \A l \in Learners, s \in Slots : learned[l][s] \in Commands => Proposes(p, s, learned[l][s])

\* A response names its slot's proposal, and what was executed is it or a no-op.
IsOwn(r) == r.executed \in {r.value, NoOp}
ResponsesOwn(p) == \A s \in Slots : agent[p].responses[s] # None => IsOwn(agent[p].responses[s])

\* An acceptor accepts a proposal (acceptor.rs, accept).
LEMMA AcceptedStays ==
  ASSUME TypeOK, NEW p \in Proposers, Proposers = {p}, AcceptsProposed, AcceptedProposed(p), [Next]_vars, ProposalsStay(p)
  PROVE  AcceptedProposed(p)'
<1> SUFFICES ASSUME NEW a \in Acceptors, NEW s \in Slots, accepted'[a][s] # None
             PROVE  Proposes(p, s, accepted[a][s].value)'
  BY DEF AcceptedProposed
<1>1. \E v \in Commands : accepted'[a][s].value = v /\ Proposes(p, s, v)
  <2>1. CASE accepted'[a][s] = accepted[a][s]
    <3>1. accepted[a][s] \in PValue
      BY <2>1 DEF TypeOK, AcceptorTypeOK, AcceptedMap
    <3>2. accepted[a][s].value \in Commands
      BY <3>1 DEF PValue
    <3> QED
      BY <2>1, <3>2 DEF AcceptedProposed
  <2>2. CASE accepted'[a][s] # accepted[a][s]
    <3>1. PICK b \in Acceptors : AcceptorStep(b)
      BY <2>2, OneSteps DEF vars, acceptorVars
    <3>2. HandlePrepare(b) => accepted' = accepted
      BY DEF HandlePrepare, Promise, RejectPrepare, acceptorVars
    <3>3. HandleRetryLearns(b) => accepted' = accepted
      BY DEF HandleRetryLearns, acceptorVars
    <3>4. HandleAccept(b)
      BY <2>2, <3>1, <3>2, <3>3 DEF AcceptorStep
    <3>5. PICK m \in Inbox(b, "accept") : AcceptNew(b, m)
      BY <2>2, <3>4 DEF HandleAccept, AcceptAgain, RejectAccept, acceptorVars
    <3>6. m \in Accepts /\ Proposes(m.from, m.slot, m.value)
      BY InboxTypes DEF TypeOK, AcceptsProposed, Inbox
    <3>7. m.from = p /\ m.slot \in Slots /\ m.value \in Commands
      BY <3>6 DEF Accepts
    <3>8. accepted \in [Acceptors -> [Slots -> PValue \cup {None}]]
      BY DEF TypeOK, AcceptorTypeOK, AcceptedMap
    <3>9. a = b /\ s = m.slot /\ accepted'[a][s] = [ballot |-> m.ballot, value |-> m.value]
      BY <2>2, <3>5, <3>7, <3>8 DEF AcceptNew
    <3> QED
      BY <3>6, <3>7, <3>9
  <2> QED
    BY <2>1, <2>2
<1>2. PICK v \in Commands : accepted'[a][s].value = v /\ Proposes(p, s, v)
  BY <1>1
<1>3. Proposes(p, s, v)'
  BY <1>2 DEF ProposalsStay
<1> QED
  BY <1>2, <1>3 DEF Proposes

\* A learn names a proposal or a no-op.
LEMMA LearnsStay ==
  ASSUME TypeOK, TypeOK', NEW p \in Proposers, Proposers = {p}, LearnsProposed(p), AcceptedProposed(p)', [Next]_vars, ProposalsStay(p)
  PROVE  LearnsProposed(p)'
<1> SUFFICES ASSUME NEW m \in network', m.type = "learn", m.value \in Commands
             PROVE  Proposes(p, m.slot, m.value)'
  BY DEF LearnsProposed
<1>0. m \in Learns
  BY DEF TypeOK, Messages, Prepares, Promises, Accepts, Accepteds, Learns, Retries, Executeds, Adus
<1>1. CASE m \in network
  BY <1>0, <1>1 DEF LearnsProposed, ProposalsStay, Learns
<1>2. CASE m \notin network
  <2>1. \A l \in Learners : ~LearnerStep(l)
    BY <1>2, SentByLearner
  <2>2. CASE \E a \in Acceptors : AcceptorStep(a)
    <3>1. m.from \in VotedFor(m.slot, m.value)'
      BY <1>2, <2>2, AcceptorLearns
    <3>2. PICK a \in Acceptors : accepted'[a][m.slot] # None /\ accepted'[a][m.slot].value = m.value
      BY <3>1 DEF VotedFor
    <3> QED
      BY <1>0, <3>2 DEF AcceptedProposed, Learns
  <2>3. CASE \E q \in Proposers : ProposerStep(q) \/ Leadership(q) \/ RestartProposer(q)
    BY <1>2, <2>3, ProposalsSent
  <2> QED
    BY <1>2, <2>1, <2>2, <2>3, OneSteps DEF vars
<1> QED
  BY <1>1, <1>2

\* What a learner files and learns is a proposal or a no-op (learner.rs, learn).
LEMMA FiledAndLearnedStay ==
  ASSUME TypeOK, NEW p \in Proposers, LearnsProposed(p), FiledProposed(p), LearnedProposed(p), [Next]_vars, ProposalsStay(p)
  PROVE  FiledProposed(p)' /\ LearnedProposed(p)'
<1>1. ASSUME NEW l \in Learners, NEW s \in Slots
      PROVE  /\ \A a \in Acceptors : slotLearns'[l][s][a] \in Commands => Proposes(p, s, slotLearns'[l][s][a])
             /\ learned'[l][s] \in Commands => Proposes(p, s, learned'[l][s])
  <2>1. CASE UNCHANGED <<slotLearns, learned>>
    BY <2>1 DEF FiledProposed, LearnedProposed
  <2>2. CASE ~UNCHANGED <<slotLearns, learned>>
    <3>1. PICK k \in Learners : HandleLearn(k)
      BY <2>2, OnlyLearnWrites
    <3>2a. PICK m \in Inbox(k, "learn") : \E votes :
             /\ votes = IF AcceptorsSendLearns THEN [slotLearns[k][m.slot] EXCEPT ![m.from] = m.value]
                                               ELSE slotLearns[k][m.slot]
             /\ slotLearns' = [slotLearns EXCEPT ![k][m.slot] = votes]
             /\ \/ UNCHANGED learned
                \/ \E v \in Learnable(votes, m.value) : learned' = [learned EXCEPT ![k][m.slot] = v]
      BY <3>1 DEF HandleLearn
    <3>2. PICK votes :
            /\ votes = IF AcceptorsSendLearns THEN [slotLearns[k][m.slot] EXCEPT ![m.from] = m.value]
                                              ELSE slotLearns[k][m.slot]
            /\ slotLearns' = [slotLearns EXCEPT ![k][m.slot] = votes]
            /\ \/ UNCHANGED learned
               \/ \E v \in Learnable(votes, m.value) : learned' = [learned EXCEPT ![k][m.slot] = v]
      BY <3>2a
    <3>0. m \in Learns /\ m \in network /\ m.type = "learn"
      BY InboxTypes DEF TypeOK, Inbox
    <3>3. m.slot \in Slots
      BY <3>0 DEF Learns
    <3>0a. slotLearns \in [Learners -> [Slots -> [Acceptors -> Values \cup {None}]]]
      BY DEF TypeOK, LearnerTypeOK
    <3>0b. learned \in [Learners -> [Slots -> Values \cup {None}]]
      BY DEF TypeOK, LearnerTypeOK
    <3>4. m.value \in Commands => Proposes(p, m.slot, m.value)
      BY <3>0 DEF LearnsProposed
    <3>5. \A a \in Acceptors : votes[a] = slotLearns[k][m.slot][a] \/ votes[a] = m.value
      BY <3>2, <3>3, <3>0a
    <3>6. \A a \in Acceptors : votes[a] \in Commands => Proposes(p, m.slot, votes[a])
      BY <3>3, <3>4, <3>5 DEF FiledProposed
    <3>7. \A v \in Learnable(votes, m.value) : v \in Commands => Proposes(p, m.slot, v)
      <4>1. CASE ~AcceptorsSendLearns
        BY <3>4, <4>1 DEF Learnable
      <4>2. CASE AcceptorsSendLearns
        <5> SUFFICES ASSUME NEW v \in Commands, IsQuorum(Votes(votes, v))
                     PROVE  Proposes(p, m.slot, v)
          BY <4>2 DEF Learnable
        <5>1. ~IsQuorum({})
          BY FS_EmptySet, FS_CardinalityType, AcceptorsAssumption DEF IsQuorum, QuorumSize
        <5>2. PICK a \in Acceptors : votes[a] = v
          BY <5>1 DEF Votes
        <5> QED
          BY <3>6, <5>2
      <4> QED
        BY <4>1, <4>2
    <3>8. slotLearns'[l][s] = IF l = k /\ s = m.slot THEN votes ELSE slotLearns[l][s]
      BY <3>2, <3>3, <3>0a
    <3>9. learned'[l][s] = learned[l][s] \/ (s = m.slot /\ learned'[l][s] \in Learnable(votes, m.value))
      <4>1. CASE UNCHANGED learned
        BY <4>1
      <4>2. CASE ~UNCHANGED learned
        <5>1. PICK v \in Learnable(votes, m.value) : learned' = [learned EXCEPT ![k][m.slot] = v]
          BY <3>2, <4>2
        <5>2. learned'[l][s] = IF l = k /\ s = m.slot THEN v ELSE learned[l][s]
          BY <3>0b, <3>3, <5>1
        <5> QED
          BY <5>1, <5>2
      <4> QED
        BY <4>1, <4>2
    <3>10. \A a \in Acceptors : slotLearns'[l][s][a] \in Commands => Proposes(p, s, slotLearns'[l][s][a])
      BY <3>6, <3>8 DEF FiledProposed
    <3>11. learned'[l][s] \in Commands => Proposes(p, s, learned'[l][s])
      BY <3>7, <3>9 DEF LearnedProposed
    <3> QED
      BY <3>10, <3>11
  <2> QED
    BY <2>1, <2>2
<1>2. ASSUME NEW s \in Slots, NEW v \in Commands, Proposes(p, s, v)
      PROVE  Proposes(p, s, v)'
  BY <1>2 DEF ProposalsStay
<1>3. ASSUME NEW l \in Learners, NEW s \in Slots, NEW a \in Acceptors, slotLearns'[l][s][a] \in Commands
      PROVE  Proposes(p, s, slotLearns[l][s][a])'
  <2>1. PICK v \in Commands : v = slotLearns'[l][s][a] /\ Proposes(p, s, v)
    BY <1>1, <1>3
  <2> QED
    BY <1>2, <2>1 DEF Proposes
<1>4. ASSUME NEW l \in Learners, NEW s \in Slots, learned'[l][s] \in Commands
      PROVE  Proposes(p, s, learned[l][s])'
  <2>1. PICK v \in Commands : v = learned'[l][s] /\ Proposes(p, s, v)
    BY <1>1, <1>4
  <2> QED
    BY <1>2, <2>1 DEF Proposes
<1> QED
  BY <1>3, <1>4 DEF FiledProposed, LearnedProposed

\* The responses an agent queues are of its own proposals (proposer-agent.rs, process_executed).
LEMMA ExecutedResponds ==
  ASSUME TypeOK, NEW p \in Proposers, ResultsTold, LearnedProposed(p), ResponsesOwn(p), HandleExecuted(p)
  PROVE  ResponsesOwn(p)'
<1> DEFINE c == core[p]
           done(m) == {i \in DOMAIN m.results : /\ c.proposals[m.results[i].slot] # None
                                                /\ ~HasStatus(c, m.results[i].slot, "Finalized")}
           mine(m) == [i \in done(m) |-> c.proposals[m.results[i].slot].value]
           at(m, s) == {i \in done(m) : m.results[i].slot = s}
           responses(m) == [s \in Slots |->
                    IF at(m, s) = {} THEN agent[p].responses[s]
                    ELSE LET i == CHOOSE j \in at(m, s) : TRUE
                         IN [slot |-> s, value |-> mine(m)[i], executed |-> m.results[i].value]]
<1>1. PICK m \in Inbox(p, "executed") :
        \/ agent' = agent
        \/ agent' = [agent EXCEPT ![p].responses = [s \in Slots |->
                    IF at(m, s) = {} THEN @[s]
                    ELSE LET i == CHOOSE j \in at(m, s) : TRUE
                         IN [slot |-> s, value |-> mine(m)[i], executed |-> m.results[i].value]]]
  BY DEF HandleExecuted
<1>2. m \in network /\ m.type = "executed" /\ m \in Executeds /\ m.results \in Seq(TrueResults(learned[m.from]))
  BY InboxTypes DEF TypeOK, Inbox, ResultsTold
<1>3. c \in CoreState /\ agent[p] \in AgentState /\ agent \in [Proposers -> AgentState]
  BY DEF TypeOK, ProposerTypeOK
<1>4. \A i \in DOMAIN m.results : m.results[i] \in TrueResults(learned[m.from])
  BY <1>2, LenProperties, ElementOfSeq
<1>5. CASE agent' = agent
  BY <1>5 DEF ResponsesOwn
<1>6. ASSUME NEW s \in Slots, NEW i \in at(m, s), at(m, s) # {}
      PROVE  IsOwn([slot |-> s, value |-> mine(m)[i], executed |-> m.results[i].value])
  <2>1. mine(m)[i] = c.proposals[s].value /\ c.proposals[s] # None
    OBVIOUS
  <2>2. m.results[i] \in Result /\ learned[m.from][s] = m.results[i].value
    BY <1>4 DEF TrueResults
  <2>3. m.results[i].value \in Values /\ m.from \in Learners
    BY <1>2, <2>2 DEF Result, Executeds
  <2>4. m.results[i].value \in Commands => m.results[i].value = c.proposals[s].value
    BY <2>2, <2>3 DEF LearnedProposed, Proposes
  <2>5. m.results[i].value \in {mine(m)[i], NoOp}
    BY <2>1, <2>3, <2>4 DEF Values
  <2> HIDE DEF mine
  <2> QED
    BY <2>5 DEF IsOwn
<1>7. CASE agent' = [agent EXCEPT ![p].responses = responses(m)]
  <2>1. agent'[p].responses = responses(m)
    <3> HIDE DEF responses
    <3>1. agent'[p] = [agent[p] EXCEPT !.responses = responses(m)]
      BY <1>3, <1>7
    <3> QED
      BY <1>3, <3>1 DEF AgentState
  <2>2. ASSUME NEW s \in Slots, responses(m)[s] # None
        PROVE  IsOwn(responses(m)[s])
    <3>1. CASE at(m, s) = {}
      BY <2>2, <3>1 DEF ResponsesOwn
    <3>2. CASE at(m, s) # {}
      <4>1. PICK i \in at(m, s) : i = CHOOSE j \in at(m, s) : TRUE
        BY <3>2
      <4>2. responses(m)[s] = [slot |-> s, value |-> mine(m)[i], executed |-> m.results[i].value]
        BY <3>2, <4>1
      <4> HIDE DEF responses, mine, at
      <4> QED
        BY <1>6, <3>2, <4>1, <4>2
    <3> QED
      BY <3>1, <3>2
  <2> HIDE DEF responses
  <2>3. \A s \in Slots : agent'[p].responses[s] # None => IsOwn(agent'[p].responses[s])
    BY <2>1, <2>2
  <2> QED
    BY <2>3 DEF ResponsesOwn, IsOwn
<1>8. agent' = agent \/ agent' = [agent EXCEPT ![p].responses = responses(m)]
  BY <1>1, Zenon
<1> QED
  BY <1>5, <1>7, <1>8

\* Answering takes responses of the queue, and answers with nothing else
\* (proposer-agent.rs, collect_client_responses).
LEMMA CommitAnswers ==
  ASSUME TypeOK, NEW p \in Proposers, ResponsesOwn(p), OwnResult, AcceptCommit(p)
  PROVE  ResponsesOwn(p)' /\ OwnResult'
<1>1. agent[p] \in AgentState /\ agent \in [Proposers -> AgentState]
  BY DEF TypeOK, ProposerTypeOK
<1>2. PICK rs \in SUBSET Slots :
        /\ \A s \in rs : agent[p].responses[s] # None
        /\ agent' = [agent EXCEPT ![p].responses = [s \in Slots |-> IF s \in rs THEN None ELSE @[s]]]
        /\ replies' = replies \cup IF core[p].isLeader THEN {agent[p].responses[s] : s \in rs} ELSE {}
  <2>1. /\ Responding(agent[p]) \in SUBSET Slots
        /\ \A s \in Responding(agent[p]) : agent[p].responses[s] # None
    BY DEF Responding
  <2>2. /\ agent' = [agent EXCEPT ![p].responses =
                      [s \in Slots |-> IF s \in Responding(agent[p]) THEN None ELSE @[s]]]
        /\ replies' = replies \cup IF core[p].isLeader
                                     THEN {agent[p].responses[s] : s \in Responding(agent[p])} ELSE {}
    BY DEF AcceptCommit
  <2> QED
    BY <2>1, <2>2
<1>3. \A s \in rs : IsOwn(agent[p].responses[s])
  BY <1>2 DEF ResponsesOwn
<1>4. OwnResult'
  BY <1>2, <1>3 DEF OwnResult, IsOwn
<1>5. agent'[p].responses = [s \in Slots |-> IF s \in rs THEN None ELSE agent[p].responses[s]]
  <2>1. agent'[p] = [agent[p] EXCEPT !.responses = [s \in Slots |-> IF s \in rs THEN None ELSE agent[p].responses[s]]]
    BY <1>1, <1>2
  <2> QED
    BY <1>1, <2>1 DEF AgentState
<1>6. ASSUME NEW s \in Slots, agent'[p].responses[s] # None
      PROVE  IsOwn(agent'[p].responses[s])
  BY <1>5, <1>6 DEF ResponsesOwn
<1> QED
  BY <1>4, <1>6 DEF ResponsesOwn, IsOwn

\* No other step queues a response, and none but those answers a client.
LEMMA OthersAnswerNobody ==
  ASSUME TypeOK, NEW p \in Proposers, StepOf(p), ~HandleExecuted(p), ~AcceptCommit(p)
  PROVE  /\ replies' = replies
         /\ \/ agent'[p].responses = agent[p].responses
            \/ \A s \in Slots : agent'[p].responses[s] = None
<1>1. agent[p] \in AgentState /\ agent \in [Proposers -> AgentState]
  BY DEF TypeOK, ProposerTypeOK
<1>2. CASE HandlePromise(p)
  <2>1. PICK f : \/ agent' = [agent EXCEPT ![p].promises = f]
                 \/ agent' = [agent EXCEPT ![p].promises = f, ![p].phase = AdvancePhase(@, TRUE)]
    BY <1>2 DEF HandlePromise
  <2>2. \/ agent'[p] = [agent[p] EXCEPT !.promises = f]
        \/ agent'[p] = [agent[p] EXCEPT !.promises = f, !.phase = AdvancePhase(agent[p].phase, TRUE)]
    BY <1>1, <2>1
  <2> QED
    BY <1>1, <1>2, <2>2 DEF AgentState, HandlePromise, clientVars
<1>3. CASE HandleAccepted(p)
  <2>1. PICK s, f : agent' = [agent EXCEPT ![p].accepts[s] = f]
    BY <1>3 DEF HandleAccepted
  <2>2. agent'[p] = [agent[p] EXCEPT !.accepts[s] = f]
    BY <1>1, <2>1
  <2> QED
    BY <1>1, <1>3, <2>2 DEF AgentState, HandleAccepted, clientVars
<1>4. CASE HandleAdu(p)
  <2>1. agent'[p] = [agent[p] EXCEPT !.hasAdu = TRUE]
    BY <1>1, <1>4 DEF HandleAdu
  <2> QED
    BY <1>1, <1>4, <2>1 DEF AgentState, HandleAdu, clientVars
<1>5. CASE SendPrepare(p)
  <2>1. agent'[p] = [agent[p] EXCEPT !.phase = AdvancePhase(@, FALSE), !.timer = TRUE]
    BY <1>1, <1>5 DEF SendPrepare
  <2> QED
    BY <1>1, <1>5, <2>1 DEF AgentState, SendPrepare, clientVars
<1>6. CASE PrepareTimeout(p)
  <2>1. agent'[p] = [agent[p] EXCEPT !.phase = AdvancePhase(@, FALSE), !.timer = FALSE]
    BY <1>1, <1>6 DEF PrepareTimeout
  <2> QED
    BY <1>1, <1>6, <2>1 DEF AgentState, PrepareTimeout, clientVars
<1>7. CASE StartLeaderLoop(p)
  <2>1. agent'[p] = [agent[p] EXCEPT !.phase = "PrepareSend"]
    BY <1>1, <1>7 DEF StartLeaderLoop
  <2> QED
    BY <1>1, <1>7, <2>1 DEF AgentState, StartLeaderLoop, clientVars
<1>8. CASE RequestAdu(p) \/ HandleRetryLearn(p) \/ SubmitClientRequest(p) \/ Leadership(p)
  BY <1>8 DEF RequestAdu, HandleRetryLearn, SubmitClientRequest, Leadership, BecomeLeader, ResignLeader,
              proposerVars, clientVars
<1>9. CASE RestartProposer(p)
  <2>1. agent'[p] = NewAgent
    BY <1>9, RestartLeaves
  <2> QED
    BY <1>9, <2>1 DEF NewAgent, RestartProposer, clientVars
<1> QED
  BY <1>2, <1>3, <1>4, <1>5, <1>6, <1>7, <1>8, <1>9
     DEF StepOf, ProposerStep, HandleProposerMessage, ProposerTick

\* The responses and the answers of the only proposer stay its own.
LEMMA AnswersStep ==
  ASSUME TypeOK, NEW p \in Proposers, Proposers = {p}, ResultsTold, LearnedProposed(p), ResponsesOwn(p), OwnResult,
         [Next]_vars
  PROVE  ResponsesOwn(p)' /\ OwnResult'
<1>1. CASE HandleExecuted(p)
  <2>1. replies' = replies
    BY <1>1, Zenon DEF HandleExecuted, clientVars
  <2> QED
    BY <1>1, <2>1, ExecutedResponds DEF OwnResult
<1>2. CASE AcceptCommit(p)
  BY <1>2, CommitAnswers
<1>3. CASE StepOf(p) /\ ~HandleExecuted(p) /\ ~AcceptCommit(p)
  BY <1>3, OthersAnswerNobody DEF ResponsesOwn, OwnResult, IsOwn
<1>4. CASE ~StepOf(p)
  <2>1. agent' = agent
    BY <1>4, NotOfAProposer
  <2>2. replies' = replies
    BY <1>4, RolesAssumption
       DEF StepOf, Next, vars, proposerVars, AcceptorNext, LearnerNext, ProposerNext, RoleNext, RestartNext
  <2> QED
    BY <2>1, <2>2 DEF ResponsesOwn, OwnResult, IsOwn
<1> QED
  BY <1>1, <1>2, <1>3, <1>4

\* What only one proposer proposes: all that is accepted, told, learned and answered.
OwnInv(p) ==
  /\ AcceptedProposed(p) /\ LearnsProposed(p) /\ FiledProposed(p) /\ LearnedProposed(p)
  /\ BufferTold /\ ResultsTold
  /\ ResponsesOwn(p) /\ OwnResult

LEMMA OwnStep ==
  ASSUME TypeOK, TypeOK', SlotInv, NEW p \in Proposers, Proposers = {p}, OwnInv(p), [Next]_vars, SlotsTakenOnce
  PROVE  OwnInv(p)'
<1>1. ProposalsStay(p) /\ AcceptsProposed
  BY ProposalsAreKept DEF SlotInv, SlotsTakenOnce
<1>2. AcceptedProposed(p)'
  BY <1>1, AcceptedStays DEF OwnInv
<1>3. LearnsProposed(p)'
  BY <1>1, <1>2, LearnsStay DEF OwnInv
<1>4. FiledProposed(p)' /\ LearnedProposed(p)'
  BY <1>1, FiledAndLearnedStay DEF OwnInv
<1>5. BufferTold' /\ ResultsTold'
  BY ResultsStep DEF OwnInv
<1>6. ResponsesOwn(p)' /\ OwnResult'
  BY AnswersStep DEF OwnInv
<1> QED
  BY <1>2, <1>3, <1>4, <1>5, <1>6 DEF OwnInv

LEMMA OwnStart ==
  ASSUME NEW p \in Proposers
  PROVE  Init => OwnInv(p)
<1> SUFFICES ASSUME Init PROVE OwnInv(p)
  OBVIOUS
<1>1. network = {} /\ replies = {}
  BY DEF Init, ProposerInit
<1>2. \A a \in Acceptors, s \in Slots : accepted[a][s] = None
  BY DEF Init, AcceptorInit
<1>3. \A l \in Learners, s \in Slots : /\ learned[l][s] = None
                                       /\ \A a \in Acceptors : slotLearns[l][s][a] = None
  BY DEF Init, LearnerInit
<1>4. \A l \in Learners : execBuffer[l] = <<>>
  BY DEF Init, LearnerInit
<1>5. \A s \in Slots : agent[p].responses[s] = None
  BY DEF Init, ProposerInit, NewAgent
<1>6. None \notin Commands
  BY ValuesAssumption DEF Values
<1>7. AcceptedProposed(p) /\ LearnsProposed(p)
  BY <1>1, <1>2 DEF AcceptedProposed, LearnsProposed
<1>8. FiledProposed(p) /\ LearnedProposed(p)
  BY <1>3, <1>6 DEF FiledProposed, LearnedProposed
<1>9. BufferTold /\ ResultsTold
  <2>1. \A l \in Learners : execBuffer[l] \in Seq(TrueResults(learned[l]))
    BY <1>4, EmptySeq
  <2> QED
    BY <1>1, <2>1 DEF BufferTold, ResultsTold
<1>10. ResponsesOwn(p) /\ OwnResult
  BY <1>1, <1>5 DEF ResponsesOwn, OwnResult
<1> QED
  BY <1>7, <1>8, <1>9, <1>10 DEF OwnInv

\* The invariant of one proposer.
LEMMA OwnInvariant ==
  ASSUME NEW p \in Proposers, Proposers = {p}
  PROVE  Spec /\ [][SlotsTakenOnce]_vars => []OwnInv(p)
<1>1. SlotInv /\ TypeOK /\ TypeOK' /\ OwnInv(p) /\ [Next]_vars /\ [SlotsTakenOnce]_vars => OwnInv(p)'
  <2> SUFFICES ASSUME SlotInv, TypeOK, TypeOK', OwnInv(p), [Next]_vars, [SlotsTakenOnce]_vars PROVE OwnInv(p)'
    OBVIOUS
  <2>1. SlotsTakenOnce
    <3>1. \A q \in Proposers : core[q].currentSlot \in Nat
      BY BoundsAssumption DEF TypeOK, ProposerTypeOK, CoreState
    <3> QED
      BY <3>1 DEF SlotsTakenOnce, vars, proposerVars
  <2> QED
    BY <2>1, OwnStep
<1>2. Init => OwnInv(p)
  BY OwnStart
<1> QED
  BY <1>1, <1>2, SlotInvariant, TypeCorrect, PTL DEF Spec

\* With one proposer, and as long as no slot counter goes back, a client that is answered gets
\* the result of its own command, or of a no-op (proposer-agent.rs, process_executed), whatever
\* is lost, late or retried.
THEOREM OwnResultHolds ==
  ASSUME NEW p \in Proposers, Proposers = {p}
  PROVE  Spec /\ [][SlotsTakenOnce]_vars => []OwnResult
<1>1. Spec /\ [][SlotsTakenOnce]_vars => []OwnInv(p)
  BY OwnInvariant
<1>2. OwnInv(p) => OwnResult
  BY DEF OwnInv
<1> QED
  BY <1>1, <1>2, PTL


----------------------------------------------------------------------------
(* The queues of one proposer: what a step takes from them and adds. *)

Distinct(q) == \A i, j \in 1 .. Len(q) : q[i] = q[j] => i = j
Apart(q, r) == \A i \in 1 .. Len(q), j \in 1 .. Len(r) : q[i] # r[j]

\* What is left of a sequence without its first k elements.
LEMMA RestOf ==
  ASSUME NEW S, NEW q \in Seq(S), NEW k \in Nat, k <= Len(q),
         NEW d, d = SubSeq(q, k + 1, Len(q))
  PROVE  /\ Len(d) = Len(q) - k
         /\ \A i \in 1 .. Len(d) : i + k \in 1 .. Len(q) /\ d[i] = q[i + k]
<1> DEFINE len == Len(q)
<1>1. len \in Nat /\ k <= len
  BY LenProperties
<1> HIDE DEF len
<1>2. d = SubSeq(q, k + 1, len)
  BY DEF len
<1>3. len - k \in Nat
  BY <1>1
<1>4. d = [i \in 1 .. len - k |-> q[i + k]]
  <2>1. (len - (k + 1)) + 1 = len - k
    BY <1>1
  <2>2. \A i \in 1 .. len - k : (k + 1) + i - 1 = i + k
    BY <1>1
  <2> QED
    BY <1>1, <1>2, <2>1, <2>2 DEF SubSeq
<1>5. Len(d) = len - k
  BY <1>3, <1>4
<1>6. ASSUME NEW i \in 1 .. Len(d)
      PROVE  i + k \in 1 .. len /\ d[i] = q[i + k]
  BY <1>1, <1>4, <1>5
<1> QED
  BY <1>5, <1>6 DEF len

\* What enqueue_prioritized_request adds are new commands, each once.
LEMMA EnqueuedDistinct ==
  ASSUME NEW q \in Seq(Commands), NEW I \in SUBSET Nat, IsFiniteSet(I), NEW f \in [I -> Commands],
         NEW r \in Enqueued(q, f), Distinct(q)
  PROVE  /\ r \in Seq(Commands) /\ Distinct(r)
         /\ \A i \in 1 .. Len(r) : (\E j \in 1 .. Len(q) : r[i] = q[j]) \/ (\E j \in I : r[i] = f[j])
<1> DEFINE new == Fresh(q, f)
           n   == Cardinality(new)
           len == Len(q)
<1>1. new \subseteq I
  BY DEF Fresh
<1>2. n \in Nat /\ len \in Nat
  BY <1>1, FS_Subset, FS_CardinalityType, LenProperties
<1>3. PICK g \in Ascending(new) : r = q \o [k \in DOMAIN g |-> f[g[k]]]
  BY DEF Enqueued
<1>4. g \in [1 .. n -> new] /\ \A i, j \in 1 .. n : i < j => g[i] < g[j]
  BY <1>3 DEF Ascending
<1>5. \A i \in new : i \in Nat /\ f[i] \in Commands
  BY <1>1
<1>6. \A i \in new : \A j \in 1 .. len : f[i] # q[j]
  BY LenProperties DEF Fresh, Range
<1>7. \A i, j \in new : j < i => f[j] # f[i]
  BY <1>1 DEF Fresh
<1> DEFINE tail == [k \in 1 .. n |-> f[g[k]]]
<1>8. tail \in Seq(Commands) /\ Len(tail) = n
  <2>1. tail \in [1 .. n -> Commands]
    BY <1>4, <1>5
  <2> QED
    BY <1>2, <2>1, SeqDef
<1>9. r = q \o tail
  BY <1>3, <1>4
<1>10. \A i \in 1 .. n : tail[i] = f[g[i]] /\ g[i] \in new
  BY <1>4
<1>11. ASSUME NEW i \in 1 .. n, NEW j \in 1 .. n, i # j
       PROVE  tail[i] # tail[j]
  <2>1. i < j \/ j < i
    BY <1>2, <1>11
  <2> HIDE DEF tail, new, n
  <2> QED
    BY <1>4, <1>7, <1>10, <2>1
<1> HIDE DEF tail, new, n, len
<1>12. r \in Seq(Commands) /\ Len(r) = len + n /\ \A i \in 1 .. len + n : r[i] = IF i <= len THEN q[i] ELSE tail[i - len]
  BY <1>8, <1>9, ConcatProperties DEF len
<1>13. ASSUME NEW i \in 1 .. Len(r)
       PROVE  \/ i \in 1 .. len /\ r[i] = q[i]
              \/ i - len \in 1 .. n /\ r[i] = tail[i - len]
  BY <1>2, <1>12
<1>14. ASSUME NEW i \in 1 .. Len(r), NEW j \in 1 .. Len(r), r[i] = r[j]
       PROVE  i = j
  <2>1. i \in Nat /\ j \in Nat
    BY <1>2, <1>12
  <2>2. CASE i \in 1 .. len /\ j \in 1 .. len
    BY <1>13, <1>14, <2>2 DEF Distinct, len
  <2>3. \A a \in 1 .. len, b \in 1 .. n : q[a] # tail[b]
    BY <1>6, <1>10
  <2>4. CASE i - len \in 1 .. n /\ j - len \in 1 .. n
    <3>1. r[i] = tail[i - len] /\ r[j] = tail[j - len]
      BY <1>2, <1>12, <2>1, <2>4
    <3>2. i - len = j - len
      BY <1>11, <1>14, <2>4, <3>1
    <3> QED
      BY <1>2, <2>1, <3>2
  <2> QED
    BY <1>2, <1>13, <1>14, <2>1, <2>2, <2>3, <2>4
<1>15. Distinct(r)
  BY <1>14 DEF Distinct
<1>16. ASSUME NEW i \in 1 .. Len(r)
       PROVE  (\E j \in 1 .. Len(q) : r[i] = q[j]) \/ (\E j \in I : r[i] = f[j])
  <2>1. CASE i \in 1 .. len /\ r[i] = q[i]
    BY <2>1 DEF len
  <2>2. CASE i - len \in 1 .. n /\ r[i] = tail[i - len]
    <3>1. g[i - len] \in I /\ r[i] = f[g[i - len]]
      BY <1>1, <1>10, <2>2
    <3> QED
      BY <3>1
  <2> QED
    BY <1>13, <2>1, <2>2
<1> QED
  BY <1>12, <1>15, <1>16

\* It leaves all as it is, or recovers values.
Recovers(c, d, R, s) == \E f \in Recovered(R, s) : \E q \in Enqueued(c.prioritized, f) :
  d = [c EXCEPT !.currentSlot = s - 1, !.prioritized = q]
LEMMA CollectForms ==
  ASSUME NEW c \in CoreState, NEW R, NEW s, NEW d \in AfterCollect(c, R, s), ~(c.currentSlot > s)
  PROVE  Recovers(c, d, R, s)
BY DEF AfterCollect, Recovers

\* Promises that report nothing beyond the slot counter add nothing when the counter does
\* not go back.
LEMMA CollectAddsNothing ==
  ASSUME NEW c \in CoreState, NEW R \in SUBSET Promises, NEW s \in FirstSlots, NEW d \in AfterCollect(c, R, s),
         d.currentSlot >= c.currentSlot,
         \A r \in R, t \in Slots : t > c.currentSlot => r.accepted[t] = None
  PROVE  d.prioritized = c.prioritized
<1>1. CASE c.currentSlot > s
  BY <1>1 DEF AfterCollect
<1>2. CASE ~(c.currentSlot > s)
  <2>1. PICK f \in Recovered(R, s) : \E q \in Enqueued(c.prioritized, f) :
          d = [c EXCEPT !.currentSlot = s - 1, !.prioritized = q]
    <3>1. Recovers(c, d, R, s)
      BY <1>2, CollectForms
    <3> QED
      BY <3>1 DEF Recovers
  <2>2. PICK q \in Enqueued(c.prioritized, f) : d = [c EXCEPT !.currentSlot = s - 1, !.prioritized = q]
    BY <2>1
  <2>3. d.currentSlot = s - 1 /\ d.prioritized = q /\ c.currentSlot \in Nat /\ s \in Nat /\ c.prioritized \in Seq(Commands)
    BY <2>2, BoundsAssumption DEF CoreState, FirstSlots
  <2>4. \A t \in Slots : t \in Nat /\ (t >= s => t > c.currentSlot)
    BY <2>3, BoundsAssumption DEF Slots
  <2>5. \A t \in Slots : t >= s => AcceptedFor(R, t) = {}
    BY <2>4 DEF AcceptedFor
  <2>6. {t \in Slots : t >= s /\ AcceptedFor(R, t) # {}} = {}
    BY <2>5
  <2>7. f \in [{} -> Commands]
    BY <2>6 DEF Recovered
  <2>8. DOMAIN f = {}
    BY <2>7
  <2>9. Fresh(c.prioritized, f) = {}
    BY <2>8 DEF Fresh
  <2>10. PICK g \in Ascending({}) : q = c.prioritized \o [k \in DOMAIN g |-> f[g[k]]]
    BY <2>2, <2>9 DEF Enqueued
  <2>11. DOMAIN g = {}
    BY <2>10, FS_EmptySet DEF Ascending
  <2>12. [k \in DOMAIN g |-> f[g[k]]] = <<>>
    BY <2>11
  <2>13. q = c.prioritized \o <<>>
    BY <2>10, <2>12, Zenon
  <2> QED
    BY <2>3, <2>13, ConcatEmptySeq
<1> QED
  BY <1>1, <1>2

----------------------------------------------------------------------------
(* A slot that is lost to a no-op stays lost. *)

Dead(p, s) == /\ AcceptorsSendLearns /\ HasStatus(core[p], s, "Finalized")
              /\ \A l \in Learners : learned[l][s] = NoOp

\* A tick of phase 2 takes commands from the queues and proposes them; with the acceptors
\* sending the learns it commits nothing.
TickTakes(p, c1, n, k) ==
  /\ c1 \in CoreState /\ Takes(core[p], c1, n, k)
  /\ core'[p].prioritized = c1.prioritized /\ core'[p].pending = c1.pending
  /\ \A s \in Slots : /\ core'[p].proposals[s] = None <=> c1.proposals[s] = None
                      /\ c1.proposals[s] # None => core'[p].proposals[s].value = c1.proposals[s].value
                      /\ core'[p].proposals[s] = c1.proposals[s] \/ ~AcceptorsSendLearns
LEMMA AcceptCommitTakes ==
  ASSUME TypeOK, NEW p \in Proposers, AcceptCommit(p)
  PROVE  \E c1, n, k : TickTakes(p, c1, n, k)
<1> DEFINE c1 == CreateProposals(core[p])
           d  == CommitChosen(c1)
<1>1. core[p] \in CoreState /\ core'[p] = d
  BY DEF AcceptCommit, TypeOK, ProposerTypeOK
<1>2. c1 \in CoreState
  BY <1>1, CreateProposalsType
<1>3. PICK n, k : Takes(core[p], c1, n, k)
  BY <1>1, CreateTakes
<1> HIDE DEF c1
<1>4. /\ d.prioritized = c1.prioritized /\ d.pending = c1.pending
      /\ \A s \in Slots :
           /\ d.proposals[s] = None <=> c1.proposals[s] = None
           /\ c1.proposals[s] # None => d.proposals[s].value = c1.proposals[s].value
           /\ d.proposals[s] = c1.proposals[s] \/ ~AcceptorsSendLearns
  BY <1>2, CommitLeaves
<1> HIDE DEF d
<1>5. TickTakes(p, c1, n, k)
  BY <1>1, <1>2, <1>3, <1>4 DEF TickTakes
<1> QED
  BY <1>5

\* A finalized proposal stays finalized, when the acceptors send the learns.
LEMMA FinalizedStays ==
  ASSUME AcceptorsSendLearns, TypeOK, UntakenFree, [Next]_vars, SlotsTakenOnce,
         NEW p \in Proposers, NEW s \in Slots, HasStatus(core[p], s, "Finalized")
  PROVE  HasStatus(core'[p], s, "Finalized")
<1>1. CASE core'[p].proposals[s] = core[p].proposals[s]
  BY <1>1 DEF HasStatus
<1>2. CASE ~\E q \in Proposers : StepOf(q)
  BY <1>1, <1>2, NotOfAProposer
<1>3. ASSUME NEW q \in Proposers, StepOf(q), q # p
      PROVE  HasStatus(core'[p], s, "Finalized")
  BY <1>1, <1>3, OthersKept
<1>4. CASE HandlePromise(p) \/ SubmitClientRequest(p)
  BY <1>1, <1>4, PromiseLeaves, SubmitLeaves DEF SameProposals
<1>5. CASE HandleAccepted(p)
  <2>1. PICK m \in Inbox(p, "accepted") : SameProposals(p) \/ Wins(p, m)
    BY <1>5, AcceptedLeaves
  <2>2. CASE Wins(p, m)
    <3>1. s # m.slot
      BY <2>2 DEF Wins, HasStatus
    <3> QED
      BY <1>1, <2>2, <3>1 DEF Wins
  <2> QED
    BY <1>1, <2>1, <2>2 DEF SameProposals
<1>6. CASE HandleExecuted(p)
  <2>1. core'[p].proposals[s] = core[p].proposals[s] \/ Finalized(p, s)
    BY <1>6, ExecutedLeaves
  <2> QED
    BY <1>1, <2>1 DEF Finalized, HasStatus
<1>7. CASE AcceptCommit(p)
  <2>1. PICK c1, n, k : TickTakes(p, c1, n, k)
    BY <1>7, AcceptCommitTakes
  <2>2. core'[p].proposals[s] = c1.proposals[s]
    BY <2>1 DEF TickTakes
  <2>3. /\ core[p].currentSlot \in Nat /\ n \in Nat /\ s \in Nat
        /\ s \notin core[p].currentSlot + 1 .. core[p].currentSlot + n => c1.proposals[s] = core[p].proposals[s]
    BY <2>1, BoundsAssumption DEF TickTakes, Takes, TypeOK, ProposerTypeOK, CoreState, Slots
  <2>4. ~(s > core[p].currentSlot)
    BY DEF UntakenFree, HasStatus
  <2>5. s \notin core[p].currentSlot + 1 .. core[p].currentSlot + n
    BY <2>3, <2>4
  <2> QED
    BY <1>1, <2>2, <2>3, <2>5
<1>8. CASE RestartProposer(p)
  <2>1. core'[p].currentSlot = 0
    BY <1>8, RestartLeaves
  <2>2. core[p].currentSlot = 0
    BY <2>1, BoundsAssumption DEF SlotsTakenOnce, TypeOK, ProposerTypeOK, CoreState
  <2>3. s > core[p].currentSlot
    BY <2>2 DEF Slots
  <2> QED
    BY <2>3 DEF UntakenFree, HasStatus
<1>9. CASE \E q \in Proposers : StepOf(q)
  <2>1. PICK q \in Proposers : StepOf(q)
    BY <1>9
  <2>2. CASE q = p
    BY <1>1, <1>4, <1>5, <1>6, <1>7, <1>8, <2>1, <2>2, QuietSteps DEF SameProposals
  <2> QED
    BY <1>3, <2>1, <2>2
<1> QED
  BY <1>2, <1>9

LEMMA DeadStays ==
  ASSUME TypeOK, UntakenFree, [Next]_vars, SlotsTakenOnce, NEW p \in Proposers, NEW s \in Slots, Dead(p, s)
  PROVE  Dead(p, s)'
<1>1. HasStatus(core'[p], s, "Finalized")
  BY FinalizedStays DEF Dead
<1>2. \A l \in Learners : learned'[l][s] = NoOp
  BY LearnedStays, ValuesAssumption DEF Dead
<1>3. AcceptorsSendLearns
  BY DEF Dead
<1> QED
  BY <1>1, <1>2, <1>3 DEF Dead

----------------------------------------------------------------------------
(* Promises report nothing that the proposer has not proposed. *)

ReportedProposed(p) == \A r \in Given(p), s \in Slots : r.accepted[s] # None => core[p].proposals[s] # None

LEMMA ReportsStay ==
  ASSUME TypeOK, NEW p \in Proposers, AcceptedProposed(p), ReportedProposed(p), [Next]_vars, ProposalsStay(p)
  PROVE  ReportedProposed(p)'
<1> SUFFICES ASSUME NEW r \in Given(p)', NEW s \in Slots, r.accepted[s] # None
             PROVE  core'[p].proposals[s] # None
  BY DEF ReportedProposed
<1>1. core[p].proposals[s] # None
  <2>1. CASE r \in Given(p)
    BY <2>1 DEF ReportedProposed
  <2>2. CASE \E a \in Acceptors : \E m \in Inbox(a, "prepare") :
               r = PromiseMsg(a, m.from, m.slot, m.ballot, CollectAcceptedFrom(a, m.slot))
    <3>1. PICK a \in Acceptors : \E m : r.accepted = CollectAcceptedFrom(a, m.slot)
      BY <2>2 DEF PromiseMsg
    <3>2. accepted[a][s] # None
      BY <3>1 DEF CollectAcceptedFrom
    <3> QED
      BY <3>2 DEF AcceptedProposed, Proposes
  <2> QED
    BY <2>1, <2>2, GivenMoves
<1>2. core[p].proposals[s].value \in Commands
  BY <1>1 DEF TypeOK, ProposerTypeOK, CoreState, Entry
<1> QED
  BY <1>1, <1>2 DEF ProposalsStay, Proposes

\* So a promise adds nothing to the queue, unless it frees a slot (proposer.rs,
\* collect_accepted_values).
LEMMA PromiseAddsNothing ==
  ASSUME TypeOK, UntakenFree, SlotsTakenOnce, NEW p \in Proposers, ReportedProposed(p), HandlePromise(p)
  PROVE  SameProposals(p) /\ SameQueues(p)
<1>0. SameProposals(p) /\ core'[p].pending = core[p].pending
  BY PromiseLeaves
<1>1. core[p] \in CoreState /\ agent[p] \in AgentState /\ core \in [Proposers -> CoreState]
  BY DEF TypeOK, ProposerTypeOK
<1>2. PICK m \in Inbox(p, "promise") :
        \/ core' = core
        \/ \E R \in SUBSET FilePromise(agent[p].promises, m) :
             \E c \in AfterCollect(core[p], R, m.slot) : core' = [core EXCEPT ![p] = c]
  <2>1. PICK m \in Inbox(p, "promise") :
          LET filed == FilePromise(agent[p].promises, m)
              top   == {r \in filed : \A o \in filed : o.ballot <= r.ballot}
          IN core' = core \/ \E c \in AfterCollect(core[p], top, m.slot) : core' = [core EXCEPT ![p] = c]
    BY DEF HandlePromise
  <2> DEFINE filed == FilePromise(agent[p].promises, m)
             top   == {r \in filed : \A o \in filed : o.ballot <= r.ballot}
  <2>2. top \in SUBSET filed
    OBVIOUS
  <2>3. core' = core \/ \E c \in AfterCollect(core[p], top, m.slot) : core' = [core EXCEPT ![p] = c]
    BY <2>1
  <2> HIDE DEF filed, top
  <2>4. core' = core \/ \E R \in SUBSET filed : \E c \in AfterCollect(core[p], R, m.slot) : core' = [core EXCEPT ![p] = c]
    BY <2>2, <2>3
  <2> QED
    BY <2>4 DEF filed
<1>3. CASE core' = core
  BY <1>0, <1>3 DEF SameQueues
<1>4. CASE \E R \in SUBSET FilePromise(agent[p].promises, m) :
             \E c \in AfterCollect(core[p], R, m.slot) : core' = [core EXCEPT ![p] = c]
  <2>1. PICK R \in SUBSET FilePromise(agent[p].promises, m) :
             \E c \in AfterCollect(core[p], R, m.slot) : core' = [core EXCEPT ![p] = c]
    BY <1>4
  <2>2. PICK c \in AfterCollect(core[p], R, m.slot) : core' = [core EXCEPT ![p] = c]
    BY <2>1
  <2>3. core'[p] = c
    BY <1>1, <2>2
  <2>4. m \in Promises /\ m \in Given(p)
    BY InboxTypes DEF TypeOK, Given
  <2>5. R \subseteq Given(p) /\ R \in SUBSET Promises
    BY <1>1, <2>1, <2>4 DEF FilePromise, Given, AgentState
  <2>6. m.slot \in FirstSlots
    BY <2>4 DEF Promises
  <2>7. c.currentSlot >= core[p].currentSlot
    BY <2>3 DEF SlotsTakenOnce
  <2>8. \A r \in R, t \in Slots : t > core[p].currentSlot => r.accepted[t] = None
    BY <2>5 DEF ReportedProposed, UntakenFree
  <2>9. c.prioritized = core[p].prioritized
    BY <1>1, <2>2, <2>5, <2>6, <2>7, <2>8, CollectAddsNothing
  <2> QED
    BY <1>0, <2>3, <2>9 DEF SameQueues
<1> QED
  BY <1>2, <1>3, <1>4

----------------------------------------------------------------------------
(* What goes back into the queue when its slot executes a no-op. *)

\* v was proposed for a slot that the step finds lost to a no-op.
Lost(p, v) == \E s \in Slots, l \in Learners :
  /\ Proposes(p, s, v) /\ ~HasStatus(core[p], s, "Finalized")
  /\ HasStatus(core'[p], s, "Finalized") /\ learned[l][s] = NoOp

LEMMA ExecutedQueues ==
  ASSUME TypeOK, ResultsTold, NEW p \in Proposers, HandleExecuted(p), Distinct(core[p].prioritized)
  PROVE  /\ Distinct(core'[p].prioritized)
         /\ \A i \in 1 .. Len(core'[p].prioritized) :
              (\E j \in 1 .. Len(core[p].prioritized) : core'[p].prioritized[i] = core[p].prioritized[j])
              \/ Lost(p, core'[p].prioritized[i])
<1> DEFINE c == core[p]
           done(m) == {i \in DOMAIN m.results : /\ c.proposals[m.results[i].slot] # None
                                                /\ ~HasStatus(c, m.results[i].slot, "Finalized")}
           mine(m) == [i \in done(m) |-> c.proposals[m.results[i].slot].value]
           lost(m) == ToRepropose(m.results, mine(m))
           at(m, s) == {i \in done(m) : m.results[i].slot = s}
           adu(m)  == GreatestOf({c.adu, m.adu})
           new(m)  == [s \in Slots |-> IF at(m, s) # {} THEN MarkFinalized(c.proposals[s]) ELSE c.proposals[s]]
<1>1. PICK m \in Inbox(p, "executed") :
        \/ core' = [core EXCEPT ![p].adu = adu(m)]
        \/ \E q \in Enqueued(c.prioritized, lost(m)) :
             core' = [core EXCEPT ![p].adu = adu(m), ![p].prioritized = q,
                      ![p].proposals = [s \in Slots |->
                         IF at(m, s) # {} THEN MarkFinalized(@[s]) ELSE @[s]]]
  BY DEF HandleExecuted
<1>2. m \in network /\ m.type = "executed" /\ m \in Executeds
  BY InboxTypes DEF TypeOK, Inbox
<1>3. m.from \in Learners /\ m.results \in Seq(Result) /\ m.results \in Seq(TrueResults(learned[m.from]))
  BY <1>2 DEF Executeds, ResultsTold
<1>4. c \in CoreState /\ core \in [Proposers -> CoreState]
  BY DEF TypeOK, ProposerTypeOK
<1>5. IsFiniteSet(DOMAIN m.results) /\ DOMAIN m.results \subseteq Nat
  <2>1. Len(m.results) \in Int /\ 1 \in Int /\ DOMAIN m.results = 1 .. Len(m.results)
    BY <1>3, LenProperties
  <2> QED
    BY <2>1, FS_Interval
<1>6. \A i \in DOMAIN m.results : /\ m.results[i] \in Result
                                  /\ learned[m.from][m.results[i].slot] = m.results[i].value
  <2>1. \A i \in DOMAIN m.results : m.results[i] \in TrueResults(learned[m.from])
    BY <1>3, LenProperties, ElementOfSeq
  <2> QED
    BY <2>1 DEF TrueResults
<1>7. \A i \in done(m) : m.results[i].slot \in Slots /\ c.proposals[m.results[i].slot] \in Entry
  BY <1>4, <1>6 DEF Result, CoreState
<1> DEFINE I == {j \in done(m) : m.results[j].value = NoOp}
<1>8. lost(m) \in [I -> Commands] /\ \A i \in I : lost(m)[i] = c.proposals[m.results[i].slot].value
  <2>1. DOMAIN mine(m) = done(m) /\ \A i \in done(m) : mine(m)[i] = c.proposals[m.results[i].slot].value
    OBVIOUS
  <2>2. lost(m) = [i \in I |-> mine(m)[i]]
    BY <2>1 DEF ToRepropose
  <2>3. \A i \in I : mine(m)[i] = c.proposals[m.results[i].slot].value /\ mine(m)[i] \in Commands
    BY <1>7, <2>1 DEF Entry
  <2> HIDE DEF mine, lost, I
  <2> QED
    BY <2>2, <2>3
<1>9. IsFiniteSet(I) /\ I \in SUBSET Nat
  BY <1>5, FS_Subset
<1>10. CASE core' = [core EXCEPT ![p].adu = adu(m)]
  <2> HIDE DEF adu
  <2>1. core'[p] = [core[p] EXCEPT !.adu = adu(m)]
    BY <1>4, <1>10
  <2>2. core'[p].prioritized = core[p].prioritized
    BY <1>4, <2>1 DEF CoreState
  <2> QED
    BY <2>2
<1>11. CASE \E q \in Enqueued(c.prioritized, lost(m)) :
             core' = [core EXCEPT ![p].adu = adu(m), ![p].prioritized = q,
                      ![p].proposals = [s \in Slots |->
                         IF at(m, s) # {} THEN MarkFinalized(@[s]) ELSE @[s]]]
  <2>1. PICK q \in Enqueued(c.prioritized, lost(m)) :
          core' = [core EXCEPT ![p].adu = adu(m), ![p].prioritized = q, ![p].proposals = new(m)]
    BY <1>11
  <2>2. core'[p].prioritized = q /\ core'[p].proposals = new(m)
    <3> HIDE DEF adu, new
    <3>1. core'[p] = [core[p] EXCEPT !.adu = adu(m), !.prioritized = q, !.proposals = new(m)]
      BY <1>4, <2>1
    <3> QED
      BY <1>4, <3>1 DEF CoreState
  <2>3. c.prioritized \in Seq(Commands)
    BY <1>4 DEF CoreState
  <2>4. /\ Distinct(q)
        /\ \A i \in 1 .. Len(q) : (\E j \in 1 .. Len(c.prioritized) : q[i] = c.prioritized[j])
                                  \/ (\E j \in I : q[i] = lost(m)[j])
    <3> HIDE DEF lost, I
    <3> QED
      BY <1>8, <1>9, <2>1, <2>3, EnqueuedDistinct
  <2>5. ASSUME NEW j \in I
        PROVE  Lost(p, lost(m)[j])
    <3>1. PICK s \in Slots : s = m.results[j].slot
      BY <1>7
    <3>2. /\ c.proposals[s] # None /\ ~HasStatus(c, s, "Finalized") /\ c.proposals[s] \in Entry
          /\ lost(m)[j] = c.proposals[s].value
      BY <1>7, <1>8, <3>1
    <3>3. learned[m.from][s] = NoOp
      BY <1>6, <3>1
    <3>4. core'[p].proposals[s] = MarkFinalized(c.proposals[s])
      BY <2>2, <3>1
    <3>5. MarkFinalized(c.proposals[s]) \in Entry /\ MarkFinalized(c.proposals[s]).status = "Finalized"
      BY <3>2 DEF MarkFinalized, Entry, Statuses
    <3>6. HasStatus(core'[p], s, "Finalized")
      BY <3>4, <3>5, SomeAssumption DEF HasStatus
    <3> HIDE DEF lost
    <3> QED
      BY <1>3, <3>2, <3>3, <3>6 DEF Lost, Proposes
  <2> HIDE DEF lost, I
  <2> QED
    BY <2>2, <2>4, <2>5
<1> QED
  BY <1>1, <1>10, <1>11, Zenon

\* A step that proposes nothing.
ProposesNothing(p) == \A s \in Slots, v \in Commands : Proposes(p, s, v)' => Proposes(p, s, v)

LEMMA OnlyTicksPropose ==
  ASSUME TypeOK, UntakenFree, NEW p \in Proposers, StepOf(p), ~AcceptCommit(p)
  PROVE  ProposesNothing(p)
<1>1. CASE SameProposals(p)
  BY <1>1 DEF SameProposals, ProposesNothing, Proposes
<1>2. CASE HandlePromise(p) \/ SubmitClientRequest(p)
  BY <1>1, <1>2, PromiseLeaves, SubmitLeaves
<1>3. CASE HandleAccepted(p)
  <2>1. PICK m \in Inbox(p, "accepted") : SameProposals(p) \/ Wins(p, m)
    BY <1>3, AcceptedLeaves
  <2>2. CASE Wins(p, m)
    <3>1. \A s \in Slots : core'[p].proposals[s] = core[p].proposals[s]
                           \/ (core[p].proposals[s] # None /\ core'[p].proposals[s].value = core[p].proposals[s].value)
      BY <2>2 DEF Wins, HasStatus
    <3> QED
      BY <3>1 DEF ProposesNothing, Proposes
  <2> QED
    BY <1>1, <2>1, <2>2
<1>4. CASE HandleExecuted(p)
  <2>1. \A s \in Slots : core'[p].proposals[s] = core[p].proposals[s] \/ Finalized(p, s)
    BY <1>4, ExecutedLeaves
  <2> QED
    BY <2>1 DEF Finalized, ProposesNothing, Proposes
<1>5. CASE RestartProposer(p)
  <2>1. \A s \in Slots : core'[p].proposals[s] = None
    BY <1>5, RestartLeaves
  <2> QED
    BY <2>1 DEF ProposesNothing, Proposes
<1> QED
  BY <1>1, <1>2, <1>3, <1>4, <1>5, QuietSteps

----------------------------------------------------------------------------
(* One proposer: a command waits once, and is proposed a second time only    *)
(* when all its slots so far are lost to no-ops.                             *)

QueuedOnce(p) == /\ Distinct(core[p].prioritized) /\ Distinct(core[p].pending)
                 /\ Apart(core[p].prioritized, core[p].pending)
QueuedAgain(p) == \A i \in 1 .. Len(core[p].prioritized), s \in Slots :
  Proposes(p, s, core[p].prioritized[i]) => Dead(p, s)
QueuedFirst(p) == \A i \in 1 .. Len(core[p].pending), s \in Slots : ~Proposes(p, s, core[p].pending[i])
ProposedOnce(p) == \A s, t \in Slots, v \in Commands :
  s # t /\ Proposes(p, s, v) /\ Proposes(p, t, v) => Dead(p, s) \/ Dead(p, t)
AllSubmitted(p) == /\ \A i \in 1 .. Len(core[p].prioritized) : core[p].prioritized[i] \in submitted
                   /\ \A i \in 1 .. Len(core[p].pending) : core[p].pending[i] \in submitted
                   /\ \A s \in Slots, v \in Commands : Proposes(p, s, v) => v \in submitted
OnceInv(p) == QueuedOnce(p) /\ QueuedAgain(p) /\ QueuedFirst(p) /\ ProposedOnce(p) /\ AllSubmitted(p)

\* A learner's no-op is every learner's, and there is none unless the acceptors make it up.
NoOpsAgree == \A k, l \in Learners, s \in Slots : learned[k][s] = NoOp => AcceptorsSendLearns /\ learned[l][s] = NoOp

DeadsStay(p) == \A s \in Slots : Dead(p, s) => Dead(p, s)'

\* The elements of the queues are commands.
LEMMA QueueTypes ==
  ASSUME TypeOK, NEW p \in Proposers
  PROVE  /\ core[p].prioritized \in Seq(Commands) /\ core[p].pending \in Seq(Commands)
         /\ \A i \in 1 .. Len(core[p].prioritized) : core[p].prioritized[i] \in Commands
         /\ \A i \in 1 .. Len(core[p].pending) : core[p].pending[i] \in Commands
<1>1. core[p].prioritized \in Seq(Commands) /\ core[p].pending \in Seq(Commands)
  BY DEF TypeOK, ProposerTypeOK, CoreState
<1> QED
  BY <1>1, ElementOfSeq

\* A step that leaves the queues alone and proposes nothing.
LEMMA QuietOnce ==
  ASSUME TypeOK, NEW p \in Proposers, OnceInv(p), DeadsStay(p), SameQueues(p), ProposesNothing(p),
         submitted \subseteq submitted'
  PROVE  OnceInv(p)'
<1>1. core'[p].prioritized = core[p].prioritized /\ core'[p].pending = core[p].pending
  BY DEF SameQueues
<1>2. \A s \in Slots, v \in Commands : Proposes(p, s, v)' => Proposes(p, s, v)
  BY DEF ProposesNothing
<1>3. QueuedOnce(p)'
  BY <1>1 DEF OnceInv, QueuedOnce
<1>4. QueuedAgain(p)'
  <2> SUFFICES ASSUME NEW i \in 1 .. Len(core[p].prioritized), NEW s \in Slots,
                      Proposes(p, s, core[p].prioritized[i])'
               PROVE  Dead(p, s)'
    BY <1>1 DEF QueuedAgain
  <2>1. PICK v \in Commands : v = core[p].prioritized[i]
    BY QueueTypes
  <2>2. Proposes(p, s, v)'
    BY <1>1, <2>1 DEF Proposes
  <2>3. Dead(p, s)
    BY <1>2, <2>1, <2>2 DEF OnceInv, QueuedAgain
  <2> QED
    BY <2>3 DEF DeadsStay
<1>5. QueuedFirst(p)'
  <2> SUFFICES ASSUME NEW i \in 1 .. Len(core[p].pending), NEW s \in Slots,
                      Proposes(p, s, core[p].pending[i])'
               PROVE  FALSE
    BY <1>1 DEF QueuedFirst
  <2>1. PICK v \in Commands : v = core[p].pending[i]
    BY QueueTypes
  <2>2. Proposes(p, s, v)'
    BY <1>1, <2>1 DEF Proposes
  <2> QED
    BY <1>2, <2>1, <2>2 DEF OnceInv, QueuedFirst
<1>6. ProposedOnce(p)'
  BY <1>2 DEF OnceInv, ProposedOnce, DeadsStay
<1>7. AllSubmitted(p)'
  BY <1>1, <1>2 DEF OnceInv, AllSubmitted
<1> QED
  BY <1>3, <1>4, <1>5, <1>6, <1>7 DEF OnceInv

\* A new request is one that was not sent before (proposer-agent.rs, submit_client_request).
LEMMA SubmitOnce ==
  ASSUME TypeOK, NEW p \in Proposers, OnceInv(p), DeadsStay(p), ProposesNothing(p), SubmitClientRequest(p)
  PROVE  OnceInv(p)'
<1>1. core'[p].prioritized = core[p].prioritized
  BY SubmitLeaves
<1>2. PICK w \in Commands \ submitted : /\ core'[p].pending = Append(core[p].pending, w)
                                        /\ submitted' = submitted \cup {w}
  BY SubmitLeaves
<1> DEFINE q == core[p].pending
           n == Len(q)
<1>3. q \in Seq(Commands) /\ n \in Nat
  BY QueueTypes, LenProperties
<1>4. /\ Len(core'[p].pending) = n + 1 /\ core'[p].pending[n + 1] = w
      /\ \A i \in 1 .. n : core'[p].pending[i] = q[i]
  BY <1>2, <1>3, AppendProperties
<1>5. \A s \in Slots, v \in Commands : Proposes(p, s, v)' => Proposes(p, s, v)
  BY DEF ProposesNothing
<1>6. \A i \in 1 .. n : q[i] # w
  BY <1>2 DEF OnceInv, AllSubmitted
<1>7. \A i \in 1 .. Len(core[p].prioritized) : core[p].prioritized[i] # w
  BY <1>2 DEF OnceInv, AllSubmitted
<1>8. \A s \in Slots : ~Proposes(p, s, w)
  BY <1>2 DEF OnceInv, AllSubmitted
<1>9. ASSUME NEW i \in 1 .. Len(core'[p].pending)
      PROVE  (i \in 1 .. n /\ core'[p].pending[i] = q[i]) \/ (i = n + 1 /\ core'[p].pending[i] = w)
  <2> HIDE DEF n, q
  <2>1. i \in 1 .. n \/ i = n + 1
    BY <1>3, <1>4
  <2>2. CASE i \in 1 .. n
    BY <1>4, <2>2
  <2>3. CASE i = n + 1
    BY <1>4, <2>3
  <2> QED
    BY <2>1, <2>2, <2>3
<1>10. Distinct(q) /\ Apart(core[p].prioritized, q) /\ Distinct(core[p].prioritized)
  BY DEF OnceInv, QueuedOnce
<1> HIDE DEF n
<1>11. Distinct(core'[p].pending)
  <2> SUFFICES ASSUME NEW i \in 1 .. Len(core'[p].pending), NEW j \in 1 .. Len(core'[p].pending),
                      core'[p].pending[i] = core'[p].pending[j]
               PROVE  i = j
    BY DEF Distinct
  <2>1. (i \in 1 .. n /\ core'[p].pending[i] = q[i]) \/ (i = n + 1 /\ core'[p].pending[i] = w)
    BY <1>9
  <2>2. (j \in 1 .. n /\ core'[p].pending[j] = q[j]) \/ (j = n + 1 /\ core'[p].pending[j] = w)
    BY <1>9
  <2> QED
    BY <1>6, <1>10, <2>1, <2>2 DEF Distinct, n
<1>12. Apart(core'[p].prioritized, core'[p].pending)
  BY <1>1, <1>7, <1>9, <1>10 DEF Apart, n
<1>13. QueuedOnce(p)'
  BY <1>1, <1>10, <1>11, <1>12 DEF QueuedOnce
<1>14. QueuedAgain(p)'
  <2> SUFFICES ASSUME NEW i \in 1 .. Len(core[p].prioritized), NEW s \in Slots,
                      Proposes(p, s, core[p].prioritized[i])'
               PROVE  Dead(p, s)'
    BY <1>1 DEF QueuedAgain
  <2>1. PICK v \in Commands : v = core[p].prioritized[i]
    BY QueueTypes
  <2>2. Proposes(p, s, v)'
    BY <1>1, <2>1 DEF Proposes
  <2>3. Dead(p, s)
    BY <1>5, <2>1, <2>2 DEF OnceInv, QueuedAgain
  <2> QED
    BY <2>3 DEF DeadsStay
<1>15. QueuedFirst(p)'
  <2> SUFFICES ASSUME NEW i \in 1 .. Len(core'[p].pending), NEW s \in Slots,
                      Proposes(p, s, core[p].pending[i])'
               PROVE  FALSE
    BY DEF QueuedFirst
  <2>1. PICK v \in Commands : v = core'[p].pending[i] /\ ((\E j \in 1 .. n : v = q[j]) \/ v = w)
    BY <1>2, <1>9, QueueTypes DEF n
  <2>2. Proposes(p, s, v)'
    BY <2>1 DEF Proposes
  <2>3. Proposes(p, s, v)
    BY <1>5, <2>2
  <2> QED
    BY <1>8, <2>1, <2>3 DEF OnceInv, QueuedFirst, n
<1>16. ProposedOnce(p)'
  BY <1>5 DEF OnceInv, ProposedOnce, DeadsStay
<1>17. AllSubmitted(p)'
  <2>1. \A i \in 1 .. Len(core'[p].pending) : core'[p].pending[i] \in submitted'
    BY <1>2, <1>9 DEF OnceInv, AllSubmitted, n
  <2>2. \A i \in 1 .. Len(core'[p].prioritized) : core'[p].prioritized[i] \in submitted'
    BY <1>1, <1>2 DEF OnceInv, AllSubmitted
  <2>3. \A s \in Slots, v \in Commands : Proposes(p, s, v)' => v \in submitted'
    BY <1>2, <1>5 DEF OnceInv, AllSubmitted
  <2> QED
    BY <2>1, <2>2, <2>3 DEF AllSubmitted
<1> QED
  BY <1>13, <1>14, <1>15, <1>16, <1>17 DEF OnceInv

\* What goes back into the queue has lost all its slots (proposer-agent.rs, process_executed).
LEMMA ResultsOnce ==
  ASSUME TypeOK, TypeOK', NEW p \in Proposers, OnceInv(p), DeadsStay(p), ResultsTold, NoOpsAgree,
         HandleExecuted(p), ProposesNothing(p), [Next]_vars
  PROVE  OnceInv(p)'
<1>1. core'[p].pending = core[p].pending /\ submitted' = submitted
  <2>1. submitted' = submitted
    BY Zenon DEF HandleExecuted, clientVars
  <2> QED
    BY <2>1, ExecutedLeaves
<1>2. /\ Distinct(core'[p].prioritized)
      /\ \A i \in 1 .. Len(core'[p].prioritized) :
           (\E j \in 1 .. Len(core[p].prioritized) : core'[p].prioritized[i] = core[p].prioritized[j])
           \/ Lost(p, core'[p].prioritized[i])
  BY ExecutedQueues DEF OnceInv, QueuedOnce
<1>3. \A s \in Slots, v \in Commands : Proposes(p, s, v)' => Proposes(p, s, v)
  BY DEF ProposesNothing
<1>4. ASSUME NEW i \in 1 .. Len(core'[p].prioritized)
      PROVE  \E v \in Commands : /\ v = core'[p].prioritized[i]
                                 /\ Lost(p, v) \/ \E j \in 1 .. Len(core[p].prioritized) : v = core[p].prioritized[j]
  <2>1. core'[p].prioritized[i] \in Commands
    <3>1. core'[p].prioritized \in Seq(Commands)
      BY DEF TypeOK, ProposerTypeOK, CoreState
    <3> QED
      BY <3>1, ElementOfSeq
  <2> QED
    BY <1>2, <2>1
<1>5. ASSUME NEW v \in Commands, Lost(p, v), NEW t \in Slots, Proposes(p, t, v)
      PROVE  Dead(p, t)'
  <2>1. PICK s \in Slots, l \in Learners :
          /\ Proposes(p, s, v) /\ ~HasStatus(core[p], s, "Finalized")
          /\ HasStatus(core'[p], s, "Finalized") /\ learned[l][s] = NoOp
    BY <1>5 DEF Lost
  <2>2. CASE s = t
    <3>1. AcceptorsSendLearns /\ \A k \in Learners : learned[k][t] = NoOp
      BY <2>1, <2>2 DEF NoOpsAgree
    <3>2. \A k \in Learners : learned'[k][t] = NoOp
      BY <3>1, LearnedStays, ValuesAssumption
    <3> QED
      BY <2>1, <2>2, <3>1, <3>2 DEF Dead
  <2>3. CASE s # t
    <3>1. Dead(p, s) \/ Dead(p, t)
      BY <1>5, <2>1, <2>3 DEF OnceInv, ProposedOnce
    <3>2. ~Dead(p, s)
      BY <2>1 DEF Dead
    <3> QED
      BY <3>1, <3>2 DEF DeadsStay
  <2> QED
    BY <2>2, <2>3
<1>6. ASSUME NEW v \in Commands, Lost(p, v), NEW j \in 1 .. Len(core[p].pending)
      PROVE  v # core[p].pending[j]
  BY <1>6 DEF Lost, OnceInv, QueuedFirst
<1>7. QueuedOnce(p)'
  <2>1. Apart(core'[p].prioritized, core'[p].pending)
    <3> SUFFICES ASSUME NEW i \in 1 .. Len(core'[p].prioritized), NEW j \in 1 .. Len(core[p].pending)
                 PROVE  core'[p].prioritized[i] # core[p].pending[j]
      BY <1>1 DEF Apart
    <3>1. PICK v \in Commands :
            /\ v = core'[p].prioritized[i]
            /\ Lost(p, v) \/ \E h \in 1 .. Len(core[p].prioritized) : v = core[p].prioritized[h]
      BY <1>4
    <3> QED
      BY <1>6, <3>1 DEF OnceInv, QueuedOnce, Apart
  <2> QED
    BY <1>1, <1>2, <2>1 DEF OnceInv, QueuedOnce
<1>8. QueuedAgain(p)'
  <2> SUFFICES ASSUME NEW i \in 1 .. Len(core'[p].prioritized), NEW s \in Slots,
                      Proposes(p, s, core[p].prioritized[i])'
               PROVE  Dead(p, s)'
    BY DEF QueuedAgain
  <2>1. PICK v \in Commands :
          /\ v = core'[p].prioritized[i]
          /\ Lost(p, v) \/ \E h \in 1 .. Len(core[p].prioritized) : v = core[p].prioritized[h]
    BY <1>4
  <2>2. Proposes(p, s, v)'
    BY <2>1 DEF Proposes
  <2>3. Proposes(p, s, v)
    BY <1>3, <2>2
  <2>4. CASE Lost(p, v)
    BY <1>5, <2>3, <2>4
  <2>5. CASE \E h \in 1 .. Len(core[p].prioritized) : v = core[p].prioritized[h]
    BY <2>3, <2>5 DEF OnceInv, QueuedAgain, DeadsStay
  <2> QED
    BY <2>1, <2>4, <2>5
<1>9. QueuedFirst(p)'
  <2> SUFFICES ASSUME NEW i \in 1 .. Len(core[p].pending), NEW s \in Slots,
                      Proposes(p, s, core[p].pending[i])'
               PROVE  FALSE
    BY <1>1 DEF QueuedFirst
  <2>1. PICK v \in Commands : v = core[p].pending[i]
    BY QueueTypes
  <2>2. Proposes(p, s, v)'
    BY <1>1, <2>1 DEF Proposes
  <2> QED
    BY <1>3, <2>1, <2>2 DEF OnceInv, QueuedFirst
<1>10. ProposedOnce(p)'
  BY <1>3 DEF OnceInv, ProposedOnce, DeadsStay
<1>11. AllSubmitted(p)'
  <2>1. ASSUME NEW i \in 1 .. Len(core'[p].prioritized)
        PROVE  core'[p].prioritized[i] \in submitted
    <3>1. PICK v \in Commands :
            /\ v = core'[p].prioritized[i]
            /\ Lost(p, v) \/ \E h \in 1 .. Len(core[p].prioritized) : v = core[p].prioritized[h]
      BY <1>4
    <3> QED
      BY <3>1 DEF Lost, OnceInv, AllSubmitted
  <2> QED
    BY <1>1, <1>3, <2>1 DEF OnceInv, AllSubmitted
<1> QED
  BY <1>7, <1>8, <1>9, <1>10, <1>11 DEF OnceInv

\* A tick proposes what waited, and it waits no more (proposer.rs, create_proposal).
LEMMA TickOnce ==
  ASSUME TypeOK, TypeOK', NEW p \in Proposers, OnceInv(p), DeadsStay(p), UntakenFree, AcceptCommit(p)
  PROVE  OnceInv(p)'
<1> DEFINE q == core[p].prioritized
           r == core[p].pending
           a == core[p].currentSlot
<1>1. PICK c1, n, k : TickTakes(p, c1, n, k)
  BY AcceptCommitTakes
<1>2. /\ n \in Nat /\ k \in Nat /\ n - k \in Nat /\ k <= Len(q) /\ n - k <= Len(r) /\ a \in Nat
      /\ q \in Seq(Commands) /\ r \in Seq(Commands) /\ Len(q) \in Nat /\ Len(r) \in Nat
  <2>1. n \in Nat /\ k \in 0 .. n /\ k <= Len(q) /\ n - k <= Len(r)
    BY <1>1 DEF TickTakes, Takes
  <2>2. a \in Nat
    BY BoundsAssumption DEF TypeOK, ProposerTypeOK, CoreState
  <2> QED
    BY <2>1, <2>2, QueueTypes, LenProperties
<1> DEFINE e == n - k
           q1 == core'[p].prioritized
           r1 == core'[p].pending
<1>3. /\ Len(q1) = Len(q) - k /\ \A i \in 1 .. Len(q1) : i + k \in 1 .. Len(q) /\ q1[i] = q[i + k]
  <2>1. q1 = SubSeq(q, k + 1, Len(q))
    BY <1>1 DEF TickTakes, Takes
  <2> QED
    BY <1>2, <2>1, RestOf
<1>4. /\ Len(r1) = Len(r) - e /\ \A i \in 1 .. Len(r1) : i + e \in 1 .. Len(r) /\ r1[i] = r[i + e]
  <2>1. r1 = SubSeq(r, e + 1, Len(r)) /\ e \in Nat /\ e <= Len(r)
    BY <1>1, <1>2 DEF TickTakes, Takes
  <2> HIDE DEF e, r, r1
  <2>2. r \in Seq(Commands)
    BY <1>2
  <2> QED
    BY <2>1, <2>2, RestOf
<1>5. submitted' = submitted
  BY DEF AcceptCommit
<1>6. ASSUME NEW s \in Slots, NEW v \in Commands, Proposes(p, s, v)'
      PROVE  \/ Proposes(p, s, v)
             \/ core[p].proposals[s] = None /\ (\E i \in 1 .. k : s = a + i /\ v = q[i])
             \/ core[p].proposals[s] = None /\ (\E i \in 1 .. e : s = a + k + i /\ v = r[i])
  <2>1. c1.proposals[s] # None /\ c1.proposals[s].value = v /\ s \in Nat
    BY <1>1, <1>6, BoundsAssumption DEF TickTakes, Proposes, Slots
  <2>2. IF s \in a + 1 .. a + n
          THEN c1.proposals[s].value = IF s - a <= k THEN q[s - a] ELSE r[s - a - k]
          ELSE c1.proposals[s] = core[p].proposals[s]
    BY <1>1 DEF TickTakes, Takes
  <2>3. CASE s \notin a + 1 .. a + n
    BY <2>1, <2>2, <2>3 DEF Proposes
  <2>4. CASE s \in a + 1 .. a + n
    <3>1. core[p].proposals[s] = None
      <4>1. s > a
        BY <1>2, <2>1, <2>4
      <4> QED
        BY <4>1 DEF UntakenFree
    <3>2. CASE s - a <= k
      <4>1. s - a \in 1 .. k /\ s = a + (s - a) /\ v = q[s - a]
        BY <1>2, <2>1, <2>2, <2>4, <3>2
      <4> QED
        BY <3>1, <4>1
    <3>3. CASE ~(s - a <= k)
      <4>1. s - a - k \in 1 .. n - k /\ s = a + k + (s - a - k)
        BY <1>2, <2>1, <2>4, <3>3
      <4>2. v = r[s - a - k]
        BY <2>1, <2>2, <2>4, <3>3
      <4> QED
        BY <3>1, <4>1, <4>2
    <3> QED
      BY <3>2, <3>3
  <2> QED
    BY <2>3, <2>4
<1>7. Distinct(q) /\ Distinct(r) /\ Apart(q, r)
  BY DEF OnceInv, QueuedOnce
<1>8. \A i \in 1 .. k : i \in 1 .. Len(q)
  BY <1>2
<1>9. \A i \in 1 .. e : i \in 1 .. Len(r)
  BY <1>2
<1>10. /\ \A i \in 1 .. Len(q), s \in Slots : Proposes(p, s, q[i]) => Dead(p, s)
       /\ \A i \in 1 .. Len(r), s \in Slots : ~Proposes(p, s, r[i])
       /\ \A s, t \in Slots, v \in Commands : s # t /\ Proposes(p, s, v) /\ Proposes(p, t, v) => Dead(p, s) \/ Dead(p, t)
       /\ \A s \in Slots : Dead(p, s) => Dead(p, s)'
       /\ \A s \in Slots, v \in Commands : Proposes(p, s, v) => core[p].proposals[s] # None /\ v \in submitted
       /\ \A i \in 1 .. Len(q) : q[i] \in submitted
       /\ \A i \in 1 .. Len(r) : r[i] \in submitted
  BY DEF OnceInv, QueuedAgain, QueuedFirst, ProposedOnce, AllSubmitted, DeadsStay, Proposes
<1>11. /\ \A i \in 1 .. Len(q1), j \in 1 .. k : q1[i] # q[j]
       /\ \A i \in 1 .. Len(r1), j \in 1 .. e : r1[i] # r[j]
       /\ \A i \in 1 .. Len(q1), j \in 1 .. e : q1[i] # r[j]
       /\ \A i \in 1 .. Len(r1), j \in 1 .. k : r1[i] # q[j]
  <2>1. ASSUME NEW i \in 1 .. Len(q1), NEW j \in 1 .. k
        PROVE  q1[i] # q[j]
    <3>1. i + k # j
      BY <1>2, <1>3
    <3> QED
      BY <1>3, <1>7, <1>8, <3>1 DEF Distinct
  <2>2. ASSUME NEW i \in 1 .. Len(r1), NEW j \in 1 .. e
        PROVE  r1[i] # r[j]
    <3>1. i + e # j
      BY <1>2, <1>4
    <3> QED
      BY <1>4, <1>7, <1>9, <3>1 DEF Distinct
  <2>3. ASSUME NEW i \in 1 .. Len(q1), NEW j \in 1 .. e
        PROVE  q1[i] # r[j]
    BY <1>3, <1>7, <1>9 DEF Apart
  <2>4. ASSUME NEW i \in 1 .. Len(r1), NEW j \in 1 .. k
        PROVE  r1[i] # q[j]
    BY <1>4, <1>7, <1>8 DEF Apart
  <2> QED
    BY <2>1, <2>2, <2>3, <2>4
<1>12. /\ \A i \in 1 .. Len(q1) : q1[i] \in Commands
       /\ \A i \in 1 .. Len(r1) : r1[i] \in Commands
  <2>1. q1 \in Seq(Commands) /\ r1 \in Seq(Commands)
    BY DEF TypeOK, ProposerTypeOK, CoreState
  <2> QED
    BY <2>1, ElementOfSeq
<1>13. QueuedOnce(p)'
  <2>1. Distinct(q1)
    <3> SUFFICES ASSUME NEW i \in 1 .. Len(q1), NEW j \in 1 .. Len(q1), q1[i] = q1[j] PROVE i = j
      BY DEF Distinct
    <3>1. i + k = j + k
      BY <1>3, <1>7 DEF Distinct
    <3> QED
      BY <1>2, <1>3, <3>1
  <2>2. Distinct(r1)
    <3> SUFFICES ASSUME NEW i \in 1 .. Len(r1), NEW j \in 1 .. Len(r1), r1[i] = r1[j] PROVE i = j
      BY DEF Distinct
    <3>1. i + e = j + e
      BY <1>4, <1>7 DEF Distinct
    <3> QED
      BY <1>2, <1>4, <3>1
  <2>3. Apart(q1, r1)
    BY <1>3, <1>4, <1>7 DEF Apart
  <2> QED
    BY <2>1, <2>2, <2>3 DEF QueuedOnce
<1> HIDE DEF q, r, a, e, q1, r1
<1>14. QueuedAgain(p)'
  <2> SUFFICES ASSUME NEW i \in 1 .. Len(q1), NEW s \in Slots, Proposes(p, s, core[p].prioritized[i])'
               PROVE  Dead(p, s)'
    BY DEF QueuedAgain, q1
  <2>1. PICK v \in Commands : v = q1[i]
    BY <1>12
  <2>2. Proposes(p, s, v)'
    BY <2>1 DEF Proposes, q1
  <2>3. Proposes(p, s, v)
    BY <1>6, <1>11, <2>1, <2>2
  <2> QED
    BY <1>3, <1>10, <2>1, <2>3
<1>15. QueuedFirst(p)'
  <2> SUFFICES ASSUME NEW i \in 1 .. Len(r1), NEW s \in Slots, Proposes(p, s, core[p].pending[i])'
               PROVE  FALSE
    BY DEF QueuedFirst, r1
  <2>1. PICK v \in Commands : v = r1[i]
    BY <1>12
  <2>2. Proposes(p, s, v)'
    BY <2>1 DEF Proposes, r1
  <2>3. Proposes(p, s, v)
    BY <1>6, <1>11, <2>1, <2>2
  <2> QED
    BY <1>4, <1>10, <2>1, <2>3
<1>16. ProposedOnce(p)'
  <2> SUFFICES ASSUME NEW s \in Slots, NEW t \in Slots, NEW v \in Commands, s # t,
                      Proposes(p, s, v)', Proposes(p, t, v)'
               PROVE  Dead(p, s)' \/ Dead(p, t)'
    BY DEF ProposedOnce
  <2>1. ASSUME NEW x \in Slots, NEW y \in Slots, Proposes(p, x, v), Proposes(p, y, v)', x # y
        PROVE  Dead(p, x)' \/ Dead(p, y)'
    <3>1. CASE Proposes(p, y, v)
      BY <1>10, <2>1, <3>1
    <3>2. CASE \E i \in 1 .. k : v = q[i]
      BY <1>8, <1>10, <2>1, <3>2
    <3>3. CASE \E i \in 1 .. e : v = r[i]
      BY <1>9, <1>10, <2>1, <3>3
    <3> QED
      BY <1>6, <2>1, <3>1, <3>2, <3>3
  <2>2. CASE ~Proposes(p, s, v) /\ ~Proposes(p, t, v)
    <3>1. (\E i \in 1 .. k : s = a + i /\ v = q[i]) \/ (\E i \in 1 .. e : s = a + k + i /\ v = r[i])
      BY <1>6, <2>2
    <3>2. (\E i \in 1 .. k : t = a + i /\ v = q[i]) \/ (\E i \in 1 .. e : t = a + k + i /\ v = r[i])
      BY <1>6, <2>2
    <3>3. \A i, j \in 1 .. k : q[i] = q[j] => i = j
      BY <1>7, <1>8 DEF Distinct
    <3>4. \A i, j \in 1 .. e : r[i] = r[j] => i = j
      BY <1>7, <1>9 DEF Distinct
    <3>5. \A i \in 1 .. k, j \in 1 .. e : q[i] # r[j]
      BY <1>7, <1>8, <1>9 DEF Apart
    <3> QED
      BY <3>1, <3>2, <3>3, <3>4, <3>5
  <2> QED
    BY <2>1, <2>2
<1>17. AllSubmitted(p)'
  <2>1. \A i \in 1 .. Len(q1) : q1[i] \in submitted
    BY <1>3, <1>10
  <2>2. \A i \in 1 .. Len(r1) : r1[i] \in submitted
    BY <1>4, <1>10
  <2>3. \A s \in Slots, v \in Commands : Proposes(p, s, v)' => v \in submitted
    BY <1>6, <1>8, <1>9, <1>10
  <2> QED
    BY <1>5, <2>1, <2>2, <2>3 DEF AllSubmitted, q1, r1
<1> QED
  BY <1>13, <1>14, <1>15, <1>16, <1>17 DEF OnceInv

\* Requests are not forgotten.
LEMMA SubmittedStays ==
  ASSUME [Next]_vars
  PROVE  submitted \subseteq submitted'
<1>1. ASSUME NEW p \in Proposers, StepOf(p)
      PROVE  submitted \subseteq submitted'
  <2>1. CASE HandlePromise(p) \/ HandleAccepted(p) \/ HandleAdu(p) \/ HandleRetryLearn(p)
    BY <2>1 DEF HandlePromise, HandleAccepted, HandleAdu, HandleRetryLearn, clientVars, proposerVars
  <2>2. CASE HandleExecuted(p)
    BY <2>2, Zenon DEF HandleExecuted, clientVars
  <2>3. CASE RequestAdu(p) \/ StartLeaderLoop(p) \/ SendPrepare(p) \/ PrepareTimeout(p)
    BY <2>3 DEF RequestAdu, StartLeaderLoop, SendPrepare, PrepareTimeout, clientVars, proposerVars
  <2>4. CASE AcceptCommit(p)
    BY <2>4, Zenon DEF AcceptCommit
  <2>5. CASE SubmitClientRequest(p) \/ Leadership(p) \/ RestartProposer(p)
    BY <2>5 DEF SubmitClientRequest, Leadership, BecomeLeader, ResignLeader, RestartProposer, clientVars
  <2> QED
    BY <1>1, <2>1, <2>2, <2>3, <2>4, <2>5 DEF StepOf, ProposerStep, HandleProposerMessage, ProposerTick
<1>2. CASE ~\E p \in Proposers : StepOf(p)
  BY <1>2, RolesAssumption
     DEF StepOf, Next, vars, proposerVars, AcceptorNext, LearnerNext, ProposerNext, RoleNext, RestartNext
<1> QED
  BY <1>1, <1>2

\* Every step of the only proposer keeps its commands in one place.
LEMMA OnceStep ==
  ASSUME TypeOK, TypeOK', UntakenFree, NEW p \in Proposers, Proposers = {p},
         ResultsTold, ReportedProposed(p), OnceInv(p), NoOpsAgree, [Next]_vars, SlotsTakenOnce
  PROVE  OnceInv(p)'
<1>1. DeadsStay(p)
  BY DeadStays DEF DeadsStay
<1>2. submitted \subseteq submitted'
  BY SubmittedStays
<1>3. CASE ~StepOf(p)
  <2>1. core' = core
    BY <1>3, NotOfAProposer
  <2>2. SameQueues(p) /\ ProposesNothing(p)
    BY <2>1 DEF SameQueues, ProposesNothing, Proposes
  <2> QED
    BY <1>1, <1>2, <2>2, QuietOnce
<1>4. CASE AcceptCommit(p)
  BY <1>1, <1>4, TickOnce
<1>5. CASE StepOf(p) /\ ~AcceptCommit(p)
  <2>1. ProposesNothing(p)
    BY <1>5, OnlyTicksPropose
  <2>2. CASE SameQueues(p)
    BY <1>1, <1>2, <2>1, <2>2, QuietOnce
  <2>3. CASE HandlePromise(p)
    BY <2>2, <2>3, PromiseAddsNothing
  <2>4. CASE HandleAccepted(p)
    BY <2>2, <2>4, AcceptedLeaves
  <2>5. CASE HandleExecuted(p)
    BY <1>1, <2>1, <2>5, ResultsOnce
  <2>6. CASE SubmitClientRequest(p)
    BY <1>1, <2>1, <2>6, SubmitOnce
  <2>7. CASE RestartProposer(p)
    <3>1. /\ core'[p].prioritized = <<>> /\ core'[p].pending = <<>>
          /\ \A s \in Slots : core'[p].proposals[s] = None
      BY <2>7, RestartLeaves
    <3>2. 1 .. Len(core'[p].prioritized) = {} /\ 1 .. Len(core'[p].pending) = {}
      BY <3>1
    <3>3. \A s \in Slots, v \in Commands : ~Proposes(p, s, v)'
      BY <3>1 DEF Proposes
    <3> QED
      BY <3>2, <3>3 DEF OnceInv, QueuedOnce, Distinct, Apart, QueuedAgain, QueuedFirst, ProposedOnce, AllSubmitted
  <2> QED
    BY <1>5, <2>2, <2>3, <2>4, <2>5, <2>6, <2>7, QuietSteps
<1> QED
  BY <1>3, <1>4, <1>5

LEMMA OnceStart ==
  ASSUME NEW p \in Proposers
  PROVE  Init => ReportedProposed(p) /\ OnceInv(p)
<1> SUFFICES ASSUME Init PROVE ReportedProposed(p) /\ OnceInv(p)
  OBVIOUS
<1>1. network = {} /\ core[p] = NewCore(p, p, 0) /\ agent[p] = NewAgent
  BY DEF Init, ProposerInit
<1>2. /\ core[p].prioritized = <<>> /\ core[p].pending = <<>>
      /\ \A s \in Slots : core[p].proposals[s] = None
  BY <1>1 DEF NewCore
<1>3. 1 .. Len(core[p].prioritized) = {} /\ 1 .. Len(core[p].pending) = {}
  BY <1>2
<1>4. \A s \in Slots, v \in Commands : ~Proposes(p, s, v)
  BY <1>2 DEF Proposes
<1>5. Given(p) = {}
  BY <1>1 DEF Given, Inbox, NewAgent
<1> QED
  BY <1>3, <1>4, <1>5
     DEF ReportedProposed, OnceInv, QueuedOnce, Distinct, Apart, QueuedAgain, QueuedFirst, ProposedOnce, AllSubmitted

\* When there is one learner, or the proposers send the learns, or nobody asks again.
LEMMA NoOpsAgreeInvariant ==
  ASSUME (\A k, l \in Learners : k = l) \/ ~AcceptorsSendLearns \/ ~LearnersRetry
  PROVE  Spec /\ [][SlotsTakenOnce]_vars => []NoOpsAgree
<1>1. CASE ~AcceptorsSendLearns
  <2>1. Spec /\ [][SlotsTakenOnce]_vars => []ToldInv
    <3>1. [SlotsTakenOnce]_vars => [RecoversOnce]_vars
      BY DEF SlotsTakenOnce, RecoversOnce
    <3> QED
      BY <1>1, <3>1, ToldInvariant, PTL
  <2>2. TypeOK /\ ToldInv => NoOpsAgree
    <3> SUFFICES ASSUME TypeOK, ToldInv, NEW l \in Learners, NEW s \in Slots
                 PROVE  learned[l][s] # NoOp
      BY DEF NoOpsAgree
    <3>1. ASSUME NEW a \in Acceptors, accepted[a][s] # None
          PROVE  accepted[a][s].value # NoOp
      BY <3>1, ValuesAssumption DEF TypeOK, AcceptorTypeOK, AcceptedMap, PValue
    <3>3. NoOp \notin Chosen(s)
      BY <3>1, NobodyIsNoQuorum, ValuesAssumption DEF Chosen, VotedFor
    <3> QED
      BY <3>3, ValuesAssumption DEF ToldInv
  <2> QED
    BY <2>1, <2>2, TypeCorrect, PTL
<1>2. CASE AcceptorsSendLearns /\ ~LearnersRetry
  <2>1. TypeOK /\ NoOpFree /\ [Next]_vars => NoOpFree'
    <3> SUFFICES ASSUME TypeOK, NoOpFree, [Next]_vars PROVE NoOpFree'
      OBVIOUS
    <3> QED
      BY <1>2, NoOpFreeNetwork, NoOpFreeLearners DEF NoOpFree
  <2>2. NoOpFree => NoOpsAgree
    BY DEF NoOpFree, NoOpsAgree
  <2> QED
    BY <2>1, <2>2, NoOpFreeInit, TypeCorrect, PTL DEF Spec
<1>3. CASE AcceptorsSendLearns /\ \A k, l \in Learners : k = l
  <2>1. NoOpsAgree
    BY <1>3 DEF NoOpsAgree
  <2> QED
    BY <2>1, PTL
<1> QED
  BY <1>1, <1>2, <1>3

\* With one proposer, and as long as no slot counter goes back, no learner applies a command
\* twice, although a command whose slot was lost to a no-op is proposed again
\* (proposer-agent.rs, process_executed).  Several learners must not disagree on no-ops: they
\* do when acceptors send the learns and answer retries.
THEOREM ExecutedOnceHolds ==
  ASSUME NEW p \in Proposers, Proposers = {p},
         (\A k, l \in Learners : k = l) \/ ~AcceptorsSendLearns \/ ~LearnersRetry
  PROVE  Spec /\ [][SlotsTakenOnce]_vars => []ExecutedOnce
<1>1. /\ SlotInv /\ TypeOK /\ TypeOK' /\ OwnInv(p) /\ NoOpsAgree
      /\ ReportedProposed(p) /\ OnceInv(p) /\ [Next]_vars /\ [SlotsTakenOnce]_vars
      => ReportedProposed(p)' /\ OnceInv(p)'
  <2> SUFFICES ASSUME SlotInv, TypeOK, TypeOK', OwnInv(p), NoOpsAgree, ReportedProposed(p), OnceInv(p),
                      [Next]_vars, [SlotsTakenOnce]_vars
               PROVE  ReportedProposed(p)' /\ OnceInv(p)'
    OBVIOUS
  <2>1. SlotsTakenOnce
    <3>1. \A q \in Proposers : core[q].currentSlot \in Nat
      BY BoundsAssumption DEF TypeOK, ProposerTypeOK, CoreState
    <3> QED
      BY <3>1 DEF SlotsTakenOnce, vars, proposerVars
  <2>2. UntakenFree /\ AcceptedProposed(p) /\ ResultsTold
    BY DEF SlotInv, OwnInv
  <2>3. ReportedProposed(p)'
    BY <2>1, <2>2, ProposalsAreKept, ReportsStay DEF SlotsTakenOnce
  <2>4. OnceInv(p)'
    BY <2>1, <2>2, OnceStep
  <2> QED
    BY <2>3, <2>4
<1>2. TypeOK /\ HistoryIsLog /\ OwnInv(p) /\ OnceInv(p) => ExecutedOnce
  <2> SUFFICES ASSUME TypeOK, HistoryIsLog, OwnInv(p), OnceInv(p), NEW l \in Learners,
                      NEW i \in DOMAIN history[l], NEW j \in DOMAIN history[l],
                      history[l][i] = history[l][j], history[l][i] # NoOp, i # j
               PROVE  FALSE
    BY DEF ExecutedOnce
  <2>1. ASSUME NEW h \in DOMAIN history[l]
        PROVE  h \in Slots /\ history[l][h] = learned[l][h] /\ history[l][h] \in Values
    <3>1. /\ learnerAdu[l] \in 0 .. MaxSlot /\ MaxSlot \in Nat
          /\ history[l] \in Seq(Values) /\ Len(history[l]) = learnerAdu[l]
      BY BoundsAssumption DEF TypeOK, LearnerTypeOK, HistoryIsLog, Applied
    <3>2. h \in 1 .. learnerAdu[l] /\ h \in Slots /\ history[l][h] \in Values
      BY <3>1, LenProperties DEF Slots
    <3> QED
      BY <3>2 DEF HistoryIsLog, Applied
  <2>2. PICK v \in Commands : v = learned[l][i] /\ v = learned[l][j]
    BY <2>1 DEF Values
  <2>3. Proposes(p, i, v) /\ Proposes(p, j, v)
    BY <2>1, <2>2 DEF OwnInv, LearnedProposed
  <2>4. Dead(p, i) \/ Dead(p, j)
    BY <2>1, <2>3 DEF OnceInv, ProposedOnce
  <2> QED
    BY <2>2, <2>4, ValuesAssumption DEF Dead
<1>3. Spec /\ [][SlotsTakenOnce]_vars => []NoOpsAgree
  BY NoOpsAgreeInvariant
<1>4. Spec /\ [][SlotsTakenOnce]_vars => []OwnInv(p)
  BY OwnInvariant
<1>5. Init => ReportedProposed(p) /\ OnceInv(p)
  BY OnceStart
<1> QED
  BY <1>1, <1>2, <1>3, <1>4, <1>5, SlotInvariant, TypeCorrect, HistoryInvariant, PTL DEF Spec
=============================================================================
