--------------------------- MODULE MCMultiPaxos ----------------------------
(***************************************************************************)
(* MultiPaxos for TLC: symmetry, and a start in the middle of a run.       *)
(***************************************************************************)
EXTENDS MultiPaxos, TLC

CONSTANT Backlog   \* the commands the settled leader has in its queue

ASSUME BacklogAssumption == Backlog \subseteq Commands

\* No definition orders acceptors, learners or commands; those of the backlog
\* are told from the others by the initial state.
Symmetry == UNION {Permutations(S) : S \in {Acceptors, Learners, Backlog, Commands \ Backlog}}

\* A reachable state in which the proposer started as leader has finished
\* phase 1, every acceptor having answered, and has the backlog in its queue.
\* Any other proposer has been named leader, knows the adu and is about to
\* send its prepare.
SettledInit ==
  LET old   == GreatestOf(Proposers)
      b     == old + BallotDelta
      empty == [s \in Slots |-> None]
  IN /\ network = {}
     /\ promised = [a \in Acceptors |-> b]
     /\ accepted = [a \in Acceptors |-> empty]
     /\ LearnerInit
     /\ submitted = Backlog
     /\ replies = {}
     /\ agent = [p \in Proposers |-> IF p = old
          THEN [NewAgent EXCEPT !.phase = "AcceptCommit", !.timer = TRUE, !.hasAdu = TRUE,
                  !.promises = {PromiseMsg(a, p, 1, b, empty) : a \in Acceptors}]
          ELSE [NewAgent EXCEPT !.phase = "PrepareSend", !.hasAdu = TRUE]]
     /\ \E queue \in {q \in [1 .. Cardinality(Backlog) -> Backlog] : Range(q) = Backlog} :
          core = [p \in Proposers |-> IF p = old
            THEN [NewCore(p, b, 0) EXCEPT !.pending = queue]
            ELSE [NewCore(p, p + BallotDelta, 0) EXCEPT !.isLeader = TRUE]]

SettledSpec == SettledInit /\ [][Next]_vars

----------------------------------------------------------------------------
(* The settled leader over a network that loses learns, but not all of them, *)
(* and nothing else.                                                         *)

LoseLearn == \E l \in Learners : \E m \in Inbox(l, "learn") :
  Reply(m, {}) /\ UNCHANGED <<acceptorVars, learnerVars, proposerVars>>

\* A takes a message of that kind for slot s, from n, off the network.
Takes(A, type, s, n) == A /\ \E m \in network \ network' : m.type = type /\ m.slot = s /\ m.from = n

\* A tick at which the learner asks for slot s again.
AsksFor(l, s) == LearnerTick(l) /\ \E m \in network' : m.type = "retry-learns" /\ m.from = l /\ s \in m.slots

\* The leader answers a retry for slot s.
AnswersFor(p, s) == HandleRetryLearn(p) /\ \E m \in network \ network' : m.type = "retry-learns" /\ s \in m.slots

\* The main loops go on.  A learn that is sent again and again gets through.
LossyFairness ==
  /\ \A p \in Proposers :
       /\ WF_vars(AcceptCommit(p) /\ UNCHANGED <<acceptorVars, learnerVars>>)
       /\ \A s \in Slots : WF_vars(AnswersFor(p, s) /\ UNCHANGED <<acceptorVars, learnerVars>>)
       /\ \A s \in Slots, a \in Acceptors :
            /\ WF_vars(Takes(HandleAccepted(p) /\ UNCHANGED <<acceptorVars, learnerVars>>, "accepted", s, a))
            /\ WF_vars(Takes(HandleAccept(a) /\ UNCHANGED <<learnerVars, proposerVars>>, "accept", s, p))
  /\ \A l \in Learners, s \in Slots :
       /\ WF_vars(AsksFor(l, s) /\ UNCHANGED <<acceptorVars, proposerVars>>)
       /\ SF_vars(HandleLearn(l) /\ learned'[l][s] # learned[l][s] /\ UNCHANGED <<acceptorVars, proposerVars>>)

LossySpec == SettledInit /\ [][Next \/ LoseLearn]_vars /\ LossyFairness

\* A slot before a learned one is learned at last: the learner asks for it again
\* until a learn of it gets through (learner-agent.rs evaluate_retry,
\* proposer-agent.rs retry_learns).  The last slot has nobody to ask for it.
GapCloses == \A l \in Learners, s \in Slots :
  (\E t \in Slots : t > s /\ learned[l][t] # None) ~> (learned[l][s] # None)
=============================================================================
