----------------------------- MODULE Proposer ------------------------------
(***************************************************************************)
(* The core proposer (core/proposer/src/proposer.rs), the state machine of *)
(* its agent (agents/proposer-agent/src/proposer-agent.rs) in event-driven *)
(* mode, and what the runner does for it: client requests in, responses    *)
(* out, leadership as the failure detector sees it, restarts.              *)
(***************************************************************************)
EXTENDS Network

VARIABLES
  core,       \* core[p]: the fields of MyProposerResource
  agent,      \* agent[p]: the fields of MyProposerAgentResource
  submitted,  \* the commands the clients have sent so far
  replies     \* the responses sent to clients: whose command, what was executed

proposerVars == <<core, agent, submitted, replies>>
clientVars == <<submitted, replies>>

Phases   == {"Start", "PrepareSend", "PreparePending", "AcceptCommit"}
Statuses == {"InFlight", "Chosen", "CommitPending", "Finalized"}
Entry    == [ballot : Ballots, value : Commands, status : Statuses]
Response == [slot : Slots, value : Commands, executed : Values]

ASSUME SomeAssumption == None \notin Entry \cup Response

LeastOf(S) == CHOOSE n \in S : \A m \in S : n <= m
GreatestOf(S) == CHOOSE n \in S : \A m \in S : m <= n

\* The highest id is the one started as leader.
InitialLeader(p) == p = GreatestOf(Proposers)
OneApart == 1   \* variant: plain increment
BallotDelta == Cardinality(Acceptors)

\* Variant: the ballot starts over.
ForgetfulCore(p, ballot, adu) ==
  [isLeader |-> InitialLeader(p), currentSlot |-> 0, ballot |-> p, adu |-> adu,
   pending |-> <<>>, prioritized |-> <<>>, chosenSlots |-> <<>>,
   proposals |-> [s \in Slots |-> None]]

\* A fresh process: only the ballot and the adu come from storage.
NewCore(p, ballot, adu) ==
  [isLeader |-> InitialLeader(p), currentSlot |-> 0, ballot |-> ballot, adu |-> adu,
   pending |-> <<>>, prioritized |-> <<>>, chosenSlots |-> <<>>,
   proposals |-> [s \in Slots |-> None]]
NewAgent ==
  [phase |-> "Start", promises |-> {}, timer |-> FALSE, hasAdu |-> FALSE,
   accepts |-> [s \in Slots |-> [a \in Acceptors |-> None]],
   responses |-> [s \in Slots |-> None]]

ProposerInit ==
  /\ core = [p \in Proposers |-> NewCore(p, p, 0)]
  /\ agent = [p \in Proposers |-> NewAgent]
  /\ submitted = {}
  /\ replies = {}

----------------------------------------------------------------------------
(* Queues.  Ascending(I) holds the one enumeration of I in growing order. *)

Ascending(I) == {g \in [1 .. Cardinality(I) -> I] : \A i, j \in DOMAIN g : i < j => g[i] < g[j]}

\* The indices whose value enqueue_prioritized_request appends to q when it is
\* called for f in growing order of the index: no value twice.
Fresh(q, f) == {i \in DOMAIN f : /\ f[i] \notin Range(q)
                                 /\ \A j \in DOMAIN f : j < i => f[j] # f[i]}
Enqueued(q, f) == {q \o [k \in DOMAIN g |-> f[g[k]]] : g \in Ascending(Fresh(q, f))}

----------------------------------------------------------------------------
(* Phase 1. *)

AdvancePhase(phase, success) ==
  CASE phase = "Start" -> "PrepareSend"
    [] phase = "PrepareSend" -> "PreparePending"
    [] phase = "PreparePending" -> IF success THEN "AcceptCommit" ELSE "PrepareSend"
    [] phase = "AcceptCommit" -> "AcceptCommit"

\* A leader that starts asks the learners for their adu, until it has one.
\* Bound: no second request while something of the first is under way.
RequestAdu(p) ==
  /\ agent[p].phase = "Start" /\ core[p].isLeader /\ ~agent[p].hasAdu
  /\ \A m \in network : m.type = "adu" => p \notin {m.from, m.to}
  /\ Send({AduMsg(p, l, 0) : l \in Learners})
  /\ UNCHANGED proposerVars

StartLeaderLoop(p) ==
  /\ agent[p].phase = "Start" /\ core[p].isLeader /\ agent[p].hasAdu
  /\ agent' = [agent EXCEPT ![p].phase = "PrepareSend"]
  /\ UNCHANGED <<core, clientVars, network>>

\* Every round takes a new ballot, leader or not.
SendPrepare(p) ==
  LET ballot == core[p].ballot + BallotDelta
  IN /\ agent[p].phase = "PrepareSend"
     /\ ballot <= MaxBallot
     /\ core' = [core EXCEPT ![p].ballot = ballot]
     /\ agent' = [agent EXCEPT ![p].phase = AdvancePhase(@, FALSE), ![p].timer = TRUE]
     /\ Send({PrepareMsg(p, a, core[p].adu + 1, ballot) : a \in Acceptors})
     /\ UNCHANGED clientVars

PrepareTimeout(p) ==
  /\ agent[p].phase = "PreparePending" /\ agent[p].timer
  /\ agent' = [agent EXCEPT ![p].phase = AdvancePhase(@, FALSE), ![p].timer = FALSE]
  /\ UNCHANGED <<core, clientVars, network>>

\* The p-values for slot s in the promises of R that have the highest ballot.
AcceptedFor(R, s) == {r.accepted[s] : r \in R} \ {None}
HighestFor(R, s) == {pv \in AcceptedFor(R, s) : \A o \in AcceptedFor(R, s) : o.ballot <= pv.ballot}

\* One recovered value per slot, from minSlot on, that some promise reports.
\* The missing slots, no-ops for a moment, are dropped before the queue.
Recovered(R, minSlot) ==
  LET S == {s \in Slots : s >= minSlot /\ AcceptedFor(R, s) # {}}
  IN {f \in [S -> Commands] : \A s \in S : \E pv \in HighestFor(R, s) : f[s] = pv.value}

\* The core proposer after it has collected the accepted values of R: nothing
\* happens when the slot counter is past minSlot, otherwise it is set back.
AfterCollect(c, R, minSlot) ==
  IF c.currentSlot > minSlot THEN {c}
  ELSE {[c EXCEPT !.currentSlot = minSlot - 1, !.prioritized = q] :
          q \in UNION {Enqueued(c.prioritized, f) : f \in Recovered(R, minSlot)}}

\* Variant: a majority without the one that makes it more than half.
HalfPromised(c, R) == Cardinality(R) >= BallotDelta \div 2 /\ \A r \in R : r.ballot = c.ballot
PhaseOneDone(c, R) == Cardinality(R) >= QuorumSize /\ \A r \in R : r.ballot = c.ballot

\* One promise per ballot and sender is kept, the last one.
FilePromise(promises, m) == {r \in promises : r.ballot # m.ballot \/ r.from # m.from} \cup {m}

\* A promise is filed; when the highest ballot seen has a quorum and is the
\* current one, phase 1 succeeds - once more for every promise after that.
HandlePromise(p) == \E m \in Inbox(p, "promise") :
  LET filed == FilePromise(agent[p].promises, m)
      top   == {r \in filed : \A o \in filed : o.ballot <= r.ballot}
  IN /\ Reply(m, {})
     /\ IF PhaseOneDone(core[p], top)
          THEN /\ \E c \in AfterCollect(core[p], top, m.slot) : core' = [core EXCEPT ![p] = c]
               /\ agent' = [agent EXCEPT ![p].promises = filed,
                                         ![p].phase = AdvancePhase(@, TRUE)]
          ELSE /\ agent' = [agent EXCEPT ![p].promises = filed]
               /\ UNCHANGED core
     /\ UNCHANGED clientVars

----------------------------------------------------------------------------
(* Phase 2. *)

\* Up to BatchSize proposals, from the slot counter on, prioritized first.
\* MaxSlot bounds the slots.
NumProposals(c) ==
  IF c.isLeader
    THEN LeastOf({BatchSize, Len(c.prioritized) + Len(c.pending), MaxSlot - c.currentSlot})
    ELSE 0

CreateProposals(c) ==
  LET n     == NumProposals(c)
      queue == c.prioritized \o c.pending
      k     == LeastOf({n, Len(c.prioritized)})
  IN [c EXCEPT !.currentSlot = @ + n,
               !.prioritized = SubSeq(@, k + 1, Len(@)),
               !.pending = SubSeq(@, n - k + 1, Len(@)),
               !.proposals = [s \in Slots |->
                  IF s \in c.currentSlot + 1 .. c.currentSlot + n
                    THEN [ballot |-> c.ballot, value |-> queue[s - c.currentSlot],
                          status |-> "InFlight"]
                    ELSE c.proposals[s]]]

\* Up to BatchSize chosen proposals become learns, unless the acceptors do that.
NumCommits(c) == IF AcceptorsSendLearns THEN 0 ELSE LeastOf({BatchSize, Len(c.chosenSlots)})
Committing(c) == {s \in Slots : /\ c.proposals[s] # None
                               /\ \E i \in 1 .. NumCommits(c) : s = c.chosenSlots[i]}
CommitChosen(c) ==
  [c EXCEPT !.chosenSlots = SubSeq(@, NumCommits(c) + 1, Len(@)),
            !.proposals = [s \in Slots |-> IF s \in Committing(c)
                                             THEN [c.proposals[s] EXCEPT !.status = "CommitPending"]
                                             ELSE c.proposals[s]]]

\* Up to BatchSize queued responses, the lowest slots first.
Responding(ag) ==
  LET S == {s \in Slots : ag.responses[s] # None}
  IN {s \in S : Cardinality({t \in S : t < s}) < BatchSize}

ProposalAccepts(p, c, s) ==
  {AcceptMsg(p, a, s, c.proposals[s].ballot, c.proposals[s].value) : a \in Acceptors}
\* Variant: the proposal of the slot counter instead of the committed one.
NewestLearns(p, c, s) == {LearnMsg(p, l, s, c.proposals[c.currentSlot].value) : l \in Learners}
ProposalLearns(p, c, s) == {LearnMsg(p, l, s, c.proposals[s].value) : l \in Learners}

\* The runner sends the responses on if p leads, and drops them otherwise.
AcceptCommit(p) ==
  LET c1 == CreateProposals(core[p])
      c2 == CommitChosen(c1)
      rs == Responding(agent[p])
  IN /\ agent[p].phase = "AcceptCommit"
     /\ core' = [core EXCEPT ![p] = c2]
     /\ agent' = [agent EXCEPT ![p].responses =
                    [s \in Slots |-> IF s \in rs THEN None ELSE @[s]]]
     /\ replies' = replies \cup IF core[p].isLeader THEN {agent[p].responses[s] : s \in rs} ELSE {}
     /\ Send((UNION {ProposalAccepts(p, c1, s) : s \in core[p].currentSlot + 1 .. c1.currentSlot})
             \cup (UNION {ProposalLearns(p, c2, s) : s \in Committing(c1)}))
     /\ UNCHANGED submitted

HasStatus(c, s, status) == c.proposals[s] # None /\ c.proposals[s].status = status

\* Variant: a majority without the one that makes it more than half.
HalfAccepted(c, votes, s) ==
  Cardinality({a \in Acceptors : votes[a] = c.proposals[s].ballot}) >= BallotDelta \div 2
PhaseTwoDone(c, votes, s) == IsQuorum({a \in Acceptors : votes[a] = c.proposals[s].ballot})

\* One vote per slot and sender is kept, the last one.
FileAccepted(votes, m) == [votes EXCEPT ![m.from] = m.ballot]

MarkChosen(c, s) == [c EXCEPT !.proposals[s].status = "Chosen", !.chosenSlots = Append(@, s)]
MarkFinalized(entry) == [entry EXCEPT !.status = "Finalized"]

\* An accepted is filed by slot and sender; a quorum with the ballot of the
\* proposal in flight makes it chosen.
HandleAccepted(p) == \E m \in Inbox(p, "accepted") :
  LET filed == FileAccepted(agent[p].accepts[m.slot], m)
      won   == HasStatus(core[p], m.slot, "InFlight") /\ PhaseTwoDone(core[p], filed, m.slot)
  IN /\ Reply(m, {})
     /\ agent' = [agent EXCEPT ![p].accepts[m.slot] = filed]
     /\ core' = IF won THEN [core EXCEPT ![p] = MarkChosen(core[p], m.slot)] ELSE core
     /\ UNCHANGED clientVars

\* Variant: what is committed is not resent.
RetryInFlightOnly(p) == \E m \in Inbox(p, "retry-learns") :
  LET c == core[p]
  IN /\ Reply(m, IF c.isLeader
                   THEN UNION {ProposalAccepts(p, c, s) : s \in {t \in m.slots : HasStatus(c, t, "InFlight")}}
                   ELSE {})
     /\ UNCHANGED proposerVars

\* Resend the learn of a commit-pending proposal, the accept of one in flight;
\* nothing for one that is chosen or finalized.
HandleRetryLearn(p) == \E m \in Inbox(p, "retry-learns") :
  LET c == core[p]
  IN /\ Reply(m, IF c.isLeader
                   THEN (UNION {ProposalLearns(p, c, s) :
                                 s \in {t \in m.slots : HasStatus(c, t, "CommitPending")}})
                        \cup (UNION {ProposalAccepts(p, c, s) :
                                 s \in {t \in m.slots : HasStatus(c, t, "InFlight")}})
                   ELSE {})
     /\ UNCHANGED proposerVars

----------------------------------------------------------------------------
(* Execution results, the adu, clients, leadership and restarts. *)

\* Variant: every command is queued again.
AllAgain(results, mine) == mine
\* The leader's own commands, by index, in whose slot a no-op was executed.
ToRepropose(results, mine) == [i \in {j \in DOMAIN mine : results[j].value = NoOp} |-> mine[i]]

\* Results finalize the leader's own proposals of those slots, whatever was
\* executed there, and queue a response to the client of the proposal.  A
\* proposal whose slot executed a no-op goes back to the prioritized queue.
HandleExecuted(p) == \E m \in Inbox(p, "executed") :
  LET c    == core[p]
      done == {i \in DOMAIN m.results : /\ c.proposals[m.results[i].slot] # None
                                        /\ ~HasStatus(c, m.results[i].slot, "Finalized")}
      mine == [i \in done |-> c.proposals[m.results[i].slot].value]
      lost == ToRepropose(m.results, mine)
      at(s) == {i \in done : m.results[i].slot = s}
      adu   == GreatestOf({c.adu, m.adu})
  IN /\ Reply(m, {})
     /\ UNCHANGED clientVars
     /\ IF ~c.isLeader
          THEN /\ core' = [core EXCEPT ![p].adu = adu]
               /\ UNCHANGED agent
          ELSE /\ \E q \in Enqueued(c.prioritized, lost) :
                    core' = [core EXCEPT ![p].adu = adu, ![p].prioritized = q,
                      ![p].proposals = [s \in Slots |->
                         IF at(s) # {} THEN MarkFinalized(@[s]) ELSE @[s]]]
               /\ agent' = [agent EXCEPT ![p].responses = [s \in Slots |->
                    IF at(s) = {} THEN @[s]
                    ELSE LET i == CHOOSE j \in at(s) : TRUE
                         IN [slot |-> s, value |-> mine[i], executed |-> m.results[i].value]]]

\* Variant: the adu is taken for the next slot to execute.
NextAsAdu(p) == \E m \in Inbox(p, "adu") :
  /\ Reply(m, {})
  /\ core' = [core EXCEPT ![p].adu = LeastOf({m.adu + 1, MaxSlot})]
  /\ agent' = [agent EXCEPT ![p].hasAdu = TRUE]
  /\ UNCHANGED clientVars

\* A learner's answer replaces the adu, even by a smaller one.
HandleAdu(p) == \E m \in Inbox(p, "adu") :
  /\ Reply(m, {})
  /\ core' = [core EXCEPT ![p].adu = m.adu]
  /\ agent' = [agent EXCEPT ![p].hasAdu = TRUE]
  /\ UNCHANGED clientVars

\* Only the leader listens for client requests.
SubmitClientRequest(p) == \E v \in Commands \ submitted :
  /\ core[p].isLeader
  /\ core' = [core EXCEPT ![p].pending = Append(@, v)]
  /\ submitted' = submitted \cup {v}
  /\ UNCHANGED <<agent, replies, network>>

\* The failure detector of p's node names p as leader, or somebody else.  The
\* phase of the agent stays what it is.
BecomeLeader(p) ==
  /\ ~core[p].isLeader
  /\ core[p].ballot + BallotDelta <= MaxBallot
  /\ core' = [core EXCEPT ![p].ballot = @ + BallotDelta, ![p].isLeader = TRUE]
  /\ UNCHANGED <<agent, clientVars, network>>

ResignLeader(p) ==
  /\ core[p].isLeader
  /\ core' = [core EXCEPT ![p].isLeader = FALSE]
  /\ UNCHANGED <<agent, clientVars, network>>

\* p crashes and is started again: what was under way to it is lost.
RestartProposer(p) ==
  /\ core' = [core EXCEPT ![p] = NewCore(p, @.ballot, @.adu)]
  /\ agent' = [agent EXCEPT ![p] = NewAgent]
  /\ network' = {m \in network : m.to # p}
  /\ UNCHANGED clientVars

HandleProposerMessage(p) == \/ HandlePromise(p) \/ HandleAccepted(p) \/ HandleRetryLearn(p)
                            \/ HandleExecuted(p) \/ HandleAdu(p)
ProposerTick(p) == \/ RequestAdu(p) \/ StartLeaderLoop(p) \/ SendPrepare(p)
                   \/ PrepareTimeout(p) \/ AcceptCommit(p)
Leadership(p) == BecomeLeader(p) \/ ResignLeader(p)

ProposerStep(p) == HandleProposerMessage(p) \/ ProposerTick(p) \/ SubmitClientRequest(p)

\* The fields of core[p] and agent[p].
CoreState == [isLeader : BOOLEAN, currentSlot : 0 .. MaxSlot, ballot : Ballots, adu : 0 .. MaxSlot,
              pending : Seq(Commands), prioritized : Seq(Commands), chosenSlots : Seq(Slots),
              proposals : [Slots -> Entry \cup {None}]]
AgentState == [phase : Phases, promises : SUBSET Promises, timer : BOOLEAN, hasAdu : BOOLEAN,
               accepts : [Slots -> [Acceptors -> Ballots \cup {None}]],
               responses : [Slots -> Response \cup {None}]]

ProposerTypeOK ==
  /\ core \in [Proposers -> CoreState]
  /\ agent \in [Proposers -> AgentState]
  /\ submitted \subseteq Commands
  /\ replies \subseteq Response
=============================================================================
