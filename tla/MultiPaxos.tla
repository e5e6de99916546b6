---------------------------- MODULE MultiPaxos -----------------------------
(***************************************************************************)
(* The standalone, event-driven deployment: proposers, acceptors and       *)
(* learners on their own nodes, exchanging messages through the network.   *)
(***************************************************************************)
EXTENDS Acceptor, Learner, Proposer

CONSTANTS
  MayChangeRole,  \* proposers whose failure detector changes its mind
  MayRestart      \* proposers that crash and are started again

ASSUME RolesAssumption == MayChangeRole \subseteq Proposers /\ MayRestart \subseteq Proposers

vars == <<network, acceptorVars, learnerVars, proposerVars>>

Init ==
  /\ network = {}
  /\ AcceptorInit
  /\ LearnerInit
  /\ ProposerInit

AcceptorNext == \E a \in Acceptors : AcceptorStep(a) /\ UNCHANGED <<learnerVars, proposerVars>>
LearnerNext  == \E l \in Learners : LearnerStep(l) /\ UNCHANGED <<acceptorVars, proposerVars>>
ProposerNext == \E p \in Proposers : ProposerStep(p) /\ UNCHANGED <<acceptorVars, learnerVars>>

\* What happens to a proposer from outside: the verdicts of the failure
\* detector and the restarts of the host.
RoleNext == \E p \in MayChangeRole : Leadership(p) /\ UNCHANGED <<acceptorVars, learnerVars>>
RestartNext == \E p \in MayRestart : RestartProposer(p) /\ UNCHANGED <<acceptorVars, learnerVars>>

Next == AcceptorNext \/ LearnerNext \/ ProposerNext \/ RoleNext \/ RestartNext

Spec == Init /\ [][Next]_vars

----------------------------------------------------------------------------
(* Safety of the log. *)

\* The messages and the state of the three components have their types.
TypeOK == network \subseteq Messages /\ AcceptorTypeOK /\ LearnerTypeOK /\ ProposerTypeOK

\* A slot never has two chosen values, although a leader may propose a value
\* for a slot that phase 1 did not allow it: an acceptor keeps the first value
\* it accepts in a slot (acceptor.rs, accept).
ChosenUnique == \A s \in Slots : \A v, w \in Chosen(s) : v = w

\* The acceptors implement the abstract log: once a majority has accepted a
\* value it stays the slot's value.
ValueOf(S) == IF S = {} THEN None ELSE CHOOSE v \in S : TRUE
Decided == [s \in Slots |-> ValueOf(Chosen(s))]
Log == INSTANCE Consensus WITH decided <- Decided
ImplementsLog == Log!Spec

\* With acceptors sending learns, a learner knows a command for a slot only
\* after a majority has accepted it there (learner.rs, check_quorum), however
\* late and in whatever order the learns of the retries reach it.
LearnedIsChosen == \A l \in Learners, s \in Slots :
  learned[l][s] \in Commands => learned[l][s] \in Chosen(s)

\* Two learners never apply different sequences: one's is a prefix of the other's.
HistoriesAgree == \A k, l \in Learners : \A i \in DOMAIN history[k] \cap DOMAIN history[l] :
  history[k][i] = history[l][i]

\* No learner applies a client's command twice, as long as one proposer leads and
\* no late promise frees a slot again: a command comes back into the queue only
\* when its slot was decided otherwise (proposer-agent.rs, process_executed).
ExecutedOnce == \A l \in Learners : \A i, j \in DOMAIN history[l] :
  history[l][i] = history[l][j] /\ history[l][i] # NoOp => i = j

----------------------------------------------------------------------------
(* Phase 1. *)

\* No two proposers ever hold the same ballot (increase_ballot adds the number
\* of acceptors to the node id).
BallotsDiffer == \A p, q \in Proposers : p # q => core[p].ballot # core[q].ballot

\* No promise, held or under way, is for a ballot its proposer has yet to take,
\* also after a restart with the stored ballot (proposer.rs, load_state): the
\* agent looks at the highest group of promises only, and would wait for ever.
PromisesNotAhead == \A p \in Proposers : \A r \in agent[p].promises \cup Inbox(p, "promise") :
  r.ballot <= core[p].ballot

\* A promise a proposer holds stays true: whatever the acceptor accepts later,
\* in a slot it reported empty, has at least the promised ballot.
PromiseBinds == \A p \in Proposers : \A r \in agent[p].promises : \A s \in Slots :
  s >= r.slot /\ r.accepted[s] = None /\ accepted[r.from][s] # None
    => accepted[r.from][s].ballot >= r.ballot

\* Every proposal was made with a ballot that a majority has promised
\* (types.wit: in-flight, "Phase-1 done").
ProposedAfterPhase1 == \A p \in Proposers, s \in Slots : core[p].proposals[s] # None
  => IsQuorum({a \in Acceptors : promised[a] >= core[p].proposals[s].ballot})

\* A proposer does not believe in an execution no learner has made, so a
\* prepare never skips a slot that is not executed anywhere.
AduIsExecuted == \A p \in Proposers : core[p].adu = 0 \/ \E l \in Learners : core[p].adu <= learnerAdu[l]

----------------------------------------------------------------------------
(* Phase 2 and the clients. *)

\* A proposal the proposer takes for chosen is chosen, as long as no late promise
\* frees a slot again (proposer.rs, process_accept): the votes for the first value
\* of a slot would then count for the second.
ChosenStatusIsChosen == \A p \in Proposers, s \in Slots :
  HasStatus(core[p], s, "Chosen") \/ HasStatus(core[p], s, "CommitPending")
    => core[p].proposals[s].value \in Chosen(s)

\* A client that gets a response for its command gets the result of executing
\* that command, or of a no-op in its place, as long as one proposer leads
\* (proposer-agent.rs, process_executed).
OwnResult == \A r \in replies : r.executed \in {r.value, NoOp}
=============================================================================
