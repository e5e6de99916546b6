---------------------------- MODULE Coordinator -----------------------------
(***************************************************************************)
(* The collocated deployment: every node has the role "coordinator" and    *)
(* runs a proposer, an acceptor and a learner (runners/paxos-coordinator). *)
(* What is local is a call; a node's list of nodes is that of the others,  *)
(* so nothing is ever sent to itself.  Node n is proposer n, acceptor      *)
(* AcceptorOf(n) and learner LearnerOf(n).                                 *)
(***************************************************************************)
EXTENDS Acceptor, Learner, Proposer

CONSTANTS
  MayLead,    \* nodes that the failure detector names as leader
  MayResign,  \* nodes that see it name another one
  MaxUnderWay \* bound: messages under way after a tick

ASSUME MayLeadAssumption == MayLead \subseteq Proposers /\ MayResign \subseteq Proposers

AcceptorOf(n) == n + 10
LearnerOf(n)  == n + 20
ASSUME CollocatedAssumption == /\ Acceptors = {AcceptorOf(n) : n \in Proposers}
                               /\ Learners = {LearnerOf(n) : n \in Proposers}

VARIABLE panicked   \* the nodes that have panicked: they do nothing any more

nodeVars == <<acceptorVars, learnerVars, proposerVars>>
coordinatorVars == <<network, nodeVars, panicked>>

\* What node n really sends: nothing to its own components.
Own(n) == {n, AcceptorOf(n), LearnerOf(n)}
Remote(n, S) == {m \in S : m.to \notin Own(n)}

----------------------------------------------------------------------------
(* Messages (handle_message).  Adu and Executed are ignored; nobody sends     *)
(* retry-learns here: the ticks of coordinators call their own components.    *)

OnPromise(n)  == HandlePromise(n) /\ UNCHANGED <<acceptorVars, learnerVars>>
OnAccepted(n) == HandleAccepted(n) /\ UNCHANGED <<acceptorVars, learnerVars>>
OnPrepare(n)  == HandlePrepare(AcceptorOf(n)) /\ UNCHANGED <<learnerVars, proposerVars>>

\* Variant: a slot that holds another value is no reason to refuse.
WouldAcceptAnyValue(a, slot, ballot, v) == ballot >= promised[a]
WouldAccept(a, slot, ballot, v) ==
  /\ ballot >= promised[a]
  /\ accepted[a][slot] = None \/ accepted[a][slot].value = v

OnAccept(n) == \E m \in Inbox(AcceptorOf(n), "accept") :
  LET a  == AcceptorOf(n)
      ok == WouldAccept(a, m.slot, m.ballot, m.value)
  IN /\ accepted' = IF ok /\ accepted[a][m.slot] = None
                      THEN [accepted EXCEPT ![a][m.slot] = [ballot |-> m.ballot, value |-> m.value]]
                      ELSE accepted
     /\ Reply(m, IF ok THEN Remote(n, Announce(a, m)) ELSE {})
     /\ UNCHANGED <<promised, learnerVars, proposerVars>>

\* What a proposer sends again for the slots a learner misses.
Resent(n, slots) == Remote(n,
  (UNION {ProposalLearns(n, core[n], s)  : s \in {t \in slots : HasStatus(core[n], t, "CommitPending")}})
  \cup (UNION {ProposalAccepts(n, core[n], s) : s \in {t \in slots : HasStatus(core[n], t, "InFlight")}}))
\* What an acceptor tells the other learners about those slots.
Retold(n, slots) == LET a == AcceptorOf(n) IN
  Remote(n, {LearnMsg(a, l, s, RetryValue(a, s)) : s \in slots, l \in Learners})

\* A learn is recorded and what can be executed is executed.  Results that go
\* out to the other nodes are ignored there; the rest waits for the next tick.
OnLearn(n) == \E m \in Inbox(LearnerOf(n), "learn") :
  LET l     == LearnerOf(n)
      votes == IF AcceptorsSendLearns THEN [slotLearns[l][m.slot] EXCEPT ![m.from] = m.value]
                                      ELSE slotLearns[l][m.slot]
      known == Learnable(votes, m.value)
  IN /\ slotLearns' = [slotLearns EXCEPT ![l][m.slot] = votes]
     /\ IF learned[l][m.slot] = None /\ known # {}
          THEN \E v \in known :
            LET map  == [learned[l] EXCEPT ![m.slot] = v]
                adu  == Contiguous(map, learnerAdu[l])
                new  == Results(map, learnerAdu[l] + 1, adu)
                buf  == execBuffer[l] \o new
                sent == IF LearnersSendExecuted THEN DispatchSize(Len(buf), TRUE) ELSE 0
            IN /\ learned' = [learned EXCEPT ![l] = map]
               /\ learnerAdu' = [learnerAdu EXCEPT ![l] = adu]
               /\ history' = [history EXCEPT ![l] = @ \o [i \in DOMAIN new |-> new[i].value]]
               /\ execBuffer' = [execBuffer EXCEPT ![l] = SubSeq(buf, sent + 1, Len(buf))]
          ELSE UNCHANGED <<learned, learnerAdu, history, execBuffer>>
     /\ Reply(m, {})
     /\ UNCHANGED <<acceptorVars, proposerVars>>

HandleMessage(n) == OnPromise(n) \/ OnAccepted(n) \/ OnPrepare(n) \/ OnAccept(n) \/ OnLearn(n)

----------------------------------------------------------------------------
(* The tick (handle_tick): every part works on what the part before it left. *)

\* maybe_retry_learn: the own acceptor, or proposer, is asked directly.
RetrySent(n, S) == IF AcceptorsSendLearns THEN Retold(n, S) ELSE Resent(n, S)

\* drive_learner: the learner executes, and the leader's proposer gets all results.
Drained(n) == LET l == LearnerOf(n)
              IN execBuffer[l] \o Results(learned[l], learnerAdu[l] + 1, Contiguous(learned[l], learnerAdu[l]))
DriveLearner(n) ==
  LET l   == LearnerOf(n)
      adu == Contiguous(learned[l], learnerAdu[l])
  IN /\ learnerAdu' = [learnerAdu EXCEPT ![l] = adu]
     /\ history' = [history EXCEPT ![l] = @ \o [i \in 1 .. adu - learnerAdu[l] |->
                                                    learned[l][learnerAdu[l] + i]]]
     /\ execBuffer' = [execBuffer EXCEPT ![l] = <<>>]

\* process_executed on the core c: which proposals end, and which are queued again.
Ended(c, results) == {i \in DOMAIN results : /\ c.proposals[results[i].slot] # None
                                              /\ ~HasStatus(c, results[i].slot, "Finalized")}
AfterExecuted(c, results, adu) ==
  LET done == Ended(c, results)
      lost == ToRepropose(results, [i \in done |-> c.proposals[results[i].slot].value])
  IN IF ~c.isLeader \/ results = <<>> THEN {c}
     ELSE {[c EXCEPT !.adu = GreatestOf({c.adu, adu}), !.prioritized = q,
                     !.proposals = [s \in Slots |-> IF \E i \in done : results[i].slot = s
                                                      THEN [@[s] EXCEPT !.status = "Finalized"] ELSE @[s]]] :
             q \in Enqueued(c.prioritized, lost)}
ResponsesAfter(n, results) == [s \in Slots |->
  IF core[n].isLeader /\ \E i \in Ended(core[n], results) : results[i].slot = s
    THEN LET i == CHOOSE j \in Ended(core[n], results) : results[j].slot = s
         IN [slot |-> s, value |-> core[n].proposals[s].value, executed |-> results[i].value]
    ELSE agent[n].responses[s]]

\* What is left to do for a follower, and for a leader that starts or waits for
\* promises.  Bound: a prepare times out when nothing of its round is under way.
RoundUnderWay(ballot) == \E m \in network : m.type \in {"prepare", "promise"} /\ m.ballot = ballot
PhaseAfter(n, c) ==
  CASE ~c.isLeader -> {agent[n].phase}
    [] c.isLeader /\ agent[n].phase = "Start" -> {"PrepareSend"}
    [] c.isLeader /\ agent[n].phase = "PreparePending" ->
         {agent[n].phase} \cup IF RoundUnderWay(c.ballot) THEN {} ELSE {"PrepareSend"}
    [] OTHER -> {}
Wait(n, c, responses, sent) == \E phase \in PhaseAfter(n, c) :
  /\ core' = [core EXCEPT ![n] = c]
  /\ agent' = [agent EXCEPT ![n].responses = responses, ![n].phase = phase,
                            ![n].timer = @ /\ phase = agent[n].phase]
  /\ Send(sent)
  /\ UNCHANGED <<acceptorVars, slotLearns, learned, clientVars, panicked>>

\* Prepare with the ballot there is: it does not grow from round to round.  The
\* own promise comes first, and without it the node panics.
PreparePhase(n, c, responses, sent) ==
  LET a    == AcceptorOf(n)
      slot == learnerAdu'[LearnerOf(n)] + 1
      own  == PromiseMsg(a, n, slot, c.ballot, CollectAcceptedFrom(a, slot))
  IN /\ c.isLeader /\ agent[n].phase = "PrepareSend"
     /\ core' = [core EXCEPT ![n] = c]
     /\ IF c.ballot < promised[a]
          THEN /\ panicked' = panicked \cup {n}
               /\ Send(sent)
               /\ UNCHANGED <<acceptorVars, agent>>
          ELSE /\ promised' = [promised EXCEPT ![a] = c.ballot]
               /\ agent' = [agent EXCEPT ![n].responses = responses, ![n].timer = TRUE,
                    ![n].phase = AdvancePhase(@, FALSE),
                    ![n].promises = {r \in @ : r.ballot # c.ballot \/ r.from # a} \cup {own}]
               /\ Send(sent \cup Remote(n, {PrepareMsg(n, b, slot, c.ballot) : b \in Acceptors}))
               /\ UNCHANGED <<accepted, panicked>>
     /\ UNCHANGED <<slotLearns, learned, clientVars>>

\* Variant: the own acceptor's vote is counted without asking it.
RefusedUnasked(n, c1) == {}
\* The first of the new slots whose value the own acceptor refuses: a panic there.
Refused(n, c1) == {s \in core[n].currentSlot + 1 .. c1.currentSlot :
  ~WouldAccept(AcceptorOf(n), s, c1.proposals[s].ballot, c1.proposals[s].value)}

\* The own acceptor's votes for the slots of S are there before any other
\* (accept_phase of the proposer agent).
OwnAccepts(n, c, votes, S) == [s \in Slots |->
  IF s \in S THEN [votes[s] EXCEPT ![AcceptorOf(n)] = c.proposals[s].ballot] ELSE votes[s]]

\* What the own learner knows after the learns of this tick: told by a, slots S.
OwnVotes(n, c, S) == [s \in Slots |->
  IF AcceptorsSendLearns /\ s \in S
    THEN [slotLearns[LearnerOf(n)][s] EXCEPT ![AcceptorOf(n)] = c.proposals[s].value]
    ELSE slotLearns[LearnerOf(n)][s]]
OwnLearned(n, c, S) == [s \in Slots |-> LET l == LearnerOf(n) IN
  IF s \in S /\ learned[l][s] = None /\ Learnable(OwnVotes(n, c, S)[s], c.proposals[s].value) # {}
    THEN CHOOSE v \in Learnable(OwnVotes(n, c, S)[s], c.proposals[s].value) : TRUE
    ELSE learned[l][s]]

\* accept_phase and commit_phase: propose, with the own acceptor's vote first;
\* then learn what is chosen; then answer clients.
AcceptPhase(n, c, ag, sent) ==
  LET a      == AcceptorOf(n)
      l      == LearnerOf(n)
      c1     == CreateProposals(c)
      c2     == CommitChosen(c1)
      bad    == Refused(n, c1)
      slots  == {s \in c.currentSlot + 1 .. c1.currentSlot : \A t \in bad : s < t}
      learns == IF AcceptorsSendLearns THEN slots ELSE Committing(c1)
      rs     == Responding(ag)
  IN /\ c.isLeader /\ ag.phase = "AcceptCommit"
     /\ accepted' = [accepted EXCEPT ![a] = [s \in Slots |->
          IF s \in slots /\ @[s] = None
            THEN [ballot |-> c1.proposals[s].ballot, value |-> c1.proposals[s].value] ELSE @[s]]]
     /\ panicked' = IF bad = {} THEN panicked ELSE panicked \cup {n}
     /\ core' = [core EXCEPT ![n] = IF bad = {} THEN c2 ELSE c1]
     /\ agent' = [agent EXCEPT ![n] = [ag EXCEPT
          !.accepts = OwnAccepts(n, c1, @, slots),
          !.responses = [s \in Slots |-> IF s \in rs /\ bad = {} THEN None ELSE @[s]]]]
     /\ replies' = replies \cup IF bad = {} THEN {ag.responses[s] : s \in rs} ELSE {}
     /\ slotLearns' = [slotLearns EXCEPT ![l] = OwnVotes(n, c2, learns)]
     /\ learned' = [learned EXCEPT ![l] = IF bad = {} \/ AcceptorsSendLearns
                                            THEN OwnLearned(n, c2, learns) ELSE @]
     /\ Send(sent \cup Remote(n,
          (UNION {ProposalAccepts(n, c1, s) : s \in slots})
          \cup IF AcceptorsSendLearns
                 THEN {LearnMsg(a, k, s, c1.proposals[s].value) : s \in slots, k \in Learners}
                 ELSE IF bad = {} THEN UNION {ProposalLearns(n, c2, s) : s \in learns} ELSE {}))
     /\ UNCHANGED <<promised, submitted>>

Tick(n) == \E S \in Retryable(LearnerOf(n)) :
  LET results   == Drained(n)
      adu       == Contiguous(learned[LearnerOf(n)], learnerAdu[LearnerOf(n)])
      responses == ResponsesAfter(n, results)
      sent      == RetrySent(n, S)
  IN \E c \in AfterExecuted(core[n], results, adu) :
       /\ DriveLearner(n)
       /\ \/ Wait(n, c, responses, sent)
          \/ PreparePhase(n, c, responses, sent)
          \/ AcceptPhase(n, c, [agent[n] EXCEPT !.responses = responses], sent)
       /\ Cardinality(network') <= MaxUnderWay

----------------------------------------------------------------------------

\* failure_service: the verdict of the node's own failure detector.
FailureService(n) == (n \in MayLead /\ BecomeLeader(n)) \/ (n \in MayResign /\ ResignLeader(n))

CoordinatorNext == \E n \in Proposers \ panicked :
  \/ Tick(n)
  \/ UNCHANGED panicked /\ HandleMessage(n)
  \/ UNCHANGED <<panicked, acceptorVars, learnerVars>> /\ SubmitClientRequest(n)
  \/ UNCHANGED <<panicked, acceptorVars, learnerVars>> /\ FailureService(n)

CoordinatorInit ==
  /\ network = {}
  /\ AcceptorInit
  /\ LearnerInit
  /\ ProposerInit
  /\ panicked = {}

CoordinatorSpec == CoordinatorInit /\ [][CoordinatorNext]_coordinatorVars

----------------------------------------------------------------------------

\* No node applies at some position of its log a command that another node did
\* not apply there, through changes of leader and panics (coordinator.rs).
NodesAgree == \A k, l \in Learners : \A i \in DOMAIN history[k] \cap DOMAIN history[l] :
  history[k][i] = history[l][i]

\* Whatever a node learns, from its own proposer or from another's, a majority of
\* the acceptors has accepted: the own vote is asked for before the others' and
\* counted once (accept_phase, insert_and_check_accepted).
LearnsOnlyChosen == \A l \in Learners, s \in Slots :
  learned[l][s] \in Commands => learned[l][s] \in Chosen(s)
=============================================================================
