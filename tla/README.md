# paxos-wasm in TLA+

TLA+ models of the Multi-Paxos system in `src/paxos-wasm` and of the programs it
grew out of, checked with TLC on small instances, and proofs checked with TLAPS
for every size of the deployment.

## 1. The system

A deployment replicates a key-value store. Nodes have a role (proposer,
acceptor, learner, or coordinator, which is all three); each node is a tree of
WebAssembly components hosted by a native runner.

| component (crate) | state | operations | talks to |
|---|---|---|---|
| core proposer (`core/proposer`) | ballot, slot counter, leader flag, adu ("all decided up to"), client queue, prioritized queue, proposals with a status, queue of chosen slots | increase the ballot, process promises, create proposals, count accepted votes, commit, finalize, become or resign leader | its agent |
| proposer agent (`agents/proposer-agent`) | phase, promises and accepted votes filed, prepare timer, responses waiting | tick of the phase machine, message handlers, results in, responses out | acceptors, learners, runner |
| core acceptor, acceptor agent | promises, accepted p-values, storage helper | prepare, accept, retry-learns | proposers, learners, storage |
| core learner, learner agent | votes per slot, learned values, adu, results to send, retry clocks | learn, execute in slot order, ask again for missing slots, send results, answer adu requests | acceptors, proposers, key-value store |
| key-value store (`core/kv-store`) | map, history | apply a command | learner agent |
| storage (`core/storage`, `runner-ws/src/host_storage.rs`) | current-state file, changelog with a write buffer, snapshots | save, append, flush, checkpoint, load | acceptor, learner and proposer helpers |
| failure detector, leader detector | state per node, nodes seen since the last check, last leader | heartbeat, check, suspect, restore | coordinator, runner |
| coordinator, main loop (`runners`) | the agents of a node | hand messages, ticks, client requests, and verdicts of the failure detector to them; collocated: call the local agents | everything on the node |
| network client and server (`network-ws`, `runner-ws/src/host_network_*.rs`) | connections by node, partial frames | fire-and-forget send, poll | other nodes |
| serializer (`network-ws/serializer`, `host_serializer.rs`) | none | message to frame, frame to message | network |
| client server, client programs (`modular-ws-client`) | connections, routes by client and sequence number; requests sent and seen | read requests, send responses; send, resend, give up | clients, runner |
| host (`runner-ws`) | per node a prebuilt instance, the running one, its monitor and control handle, retries | build, start, watch, shut down, replace | nodes |
| earlier programs (`paxos-rust`, `archive`) | - | section 2 | - |

A client's command goes through the leader's client queue to a slot; the accept
goes to the acceptors; with `acceptors_send_learns` these tell the learners,
otherwise they answer the proposer and it tells them; a learner executes the
slots in order and, with `learners_send_executed`, sends the results back to
the proposers, of which the leader answers the client.

What is hard about it, and which property speaks of it:

- promises that arrive after their round has timed out or after a newer round
  has begun (`ProposedAfterPhase1`, `PromisesNotAhead`);
- two proposers that both lead for a while, and one that resigns and leads again
  (`PromiseBinds`, `BallotsDiffer`, `ImplementsLog`);
- learns that are lost, retried, and answered with no-ops (`LearnedIsChosen`,
  `HistoriesAgree`, `GapCloses`);
- results that arrive in any order, twice from two learners, or for the slot of
  another value (`ExecutedOnce`, `OwnResult`);
- a node that calls its own acceptor and learner between messages, and panics
  when its own acceptor refuses (`LearnsOnlyChosen`, `NodesAgree`);
- frames that arrive in pieces on connections that break and are reopened, and
  polls that stop half-way (`InOrder`, `NeverTwice`, `GuestSendsArrive`);
- three copies of a serializer that have to agree (`ReadsBack`);
- nodes that restart with part of their state (`PromisesNotAhead`,
  `AduIsExecuted`, `PromiseSurvives`, `RecentSurvives`, `AduIsLearned`,
  `CheckpointSurvives`, `RecentLearnedSurvives`, `HandledIsOnDisk`);
- instances that are watched, aborted and replaced while they still run
  (`OneInstance`, `OwnShutdown`, `Replaced`);
- detectors that disagree, and several changes in one pass of a check
  (`FlagFollowsDetector`, `LeaderIsHighestAlive`, `EventuallyOneLeader`);
- clients whose connection goes away (`AnswersWereAsked`,
  `AnswerOnItsWay`, `ClientsFinish`, `ServesOn`).

The hazards list of `PROJECT.json` has each of them at its line, also the ones
that no property covers, with the reason.

## 2. The modules

**The protocol**

| module | models | contents |
|---|---|---|
| `Network` | `types.wit`, `tcp-client`, `network_server_tcp.rs` | constants, payloads, the network as a set |
| `Acceptor` | core acceptor and its agent | `Promise`, `RejectPrepare`, `AcceptNew`, `AcceptAgain`, `RejectAccept`, `HandleRetryLearns` |
| `Learner` | core learner, its agent, the history of the key-value store | `HandleLearn`, `LearnerTick`, `HandleAduRequest` |
| `Proposer` | core proposer, its agent, and what the runner does for it | the phase machine (`RequestAdu`, `StartLeaderLoop`, `SendPrepare`, `PrepareTimeout`, `AcceptCommit`), the message handlers, clients, leadership, restarts |
| `MultiPaxos` | the three on one network | `Next`, the properties of the protocol |
| `MCMultiPaxos` | - | symmetry, a start in the middle of a run, a network that loses learns, `GapCloses` |
| `Coordinator`, `MCCoordinator` | `paxos-coordinator` with the role coordinator | the same handlers where local calls take the place of messages |
| `Consensus` | - | the abstract log |

**Around it**

| module | models |
|---|---|
| `LeaderElection` | failure detector, leader detector, `failure_service`, the main loop's check |
| `Serializer` | the three copies of the serializer as tables of fields, and their readers |
| `Transport` | frames on connections: the guest's client and server, the host's client and server with their threads |
| `MCWire` | one message of every shape through `Serializer`, or traffic through `Transport` |
| `Storage` | the storage component: state file, buffered changelog, snapshots, file operation by file operation |
| `AcceptorStorage`, `LearnerStorage` | the storage helpers of acceptor and learner on `Storage`, with crashes and what a restart reads back |
| `ClientServer`, `ClientSessions` | the leader's client server with the main loop's calls; the persistent and the one-shot client programs |
| `MCServices` | `LeaderElection`, the two storages and the clients side by side |
| `HostSupervisor` | `run_cluster` for one node, `host_control.rs` |
| `HostStorage` | `host_storage.rs` and the storage calls of `paxos_wasm.rs` |
| `HostNode` | both together, and a crash of the host |

**The programs it grew out of**

| module | models |
|---|---|
| `BasicPaxos` | `paxos-rust`: acceptor, proposer, learner and store in memory |
| `DistributedPaxos` | `paxos-rust` over TCP: nodes, threads per client, a read timeout |
| `SimulatedPaxos` | `paxos-rust` over channels between threads |
| `HandlerPaxos` | `archive/paxos-v0.0.3`: components behind gRPC handlers |
| `ModularServer` | `archive/modular-ws`: the loops of the TCP and UDP servers |
| `MCPredecessors` | the five side by side |

**Proofs**: `TypeProofs` and `LogProofs` about `MultiPaxos` (types; the log, the
promises, phase 2 and the clients); `CoordinatorProofs` about `Coordinator`;
`HostProofs` about `HostNode`; `TransportProofs` about `Transport`;
`ServiceProofs` about `LeaderElection`, `AcceptorStorage`, `LearnerStorage` and
`ClientSessions`; `PredecessorProofs` about `HandlerPaxos`, `BasicPaxos`,
`DistributedPaxos` and `SimulatedPaxos`. `LoopProofs` has the induction and the facts
about loops that `ServiceProofs` and `TransportProofs` use.

**Correspondence.** `core[p]` and `agent[p]` are the fields of
`MyProposerResource` and `MyProposerAgentResource`, under their names in short
form. An action is one call from the main loop into the node: the handler of one
message, or one tick of the phase the agent is in, with everything it calls up to
the messages it sends. `HandlePromise` for instance includes
`insert_and_check_promises` (`FilePromise`), `process_prepare` with
`collect_accepted_values` (`PhaseOneDone`) and `advance_phase`. The queues are
sequences; a value is a command or `NoOp`; the maps by slot are functions that
are `None` where the map has no entry. The map in `PROJECT.json` has the lines.

**The network.** In the protocol it is a set of messages: each is delivered at
most once, later than any other, or never; loss needs no action, as no message
need be taken. Two equal messages under way at the same time are one.
`Transport` says what the code's connections really do: in order and complete
while nothing fails, never twice, and with gaps where something has. The set
allows all of that, and the reordering between an old and a new connection that
the server polls in the order of a `HashMap`.

**Collocated nodes.** `Coordinator` takes its handlers from the same modules. Its
ticks call the local acceptor and learner in the same step (`prepare_phase`,
`accept_phase`, `commit_phase`, `drive_learner`, `maybe_retry_learn`); what
`standalone` nodes send each other as Adu and Executed is ignored; a refusal of
the local acceptor is a panic, after which the node does nothing.

**Serializer.** A text is a sequence of tokens and the separators are tokens of
their own. The readers are written once; what differs between the copies is the
table of fields a payload is written with and read by. The entries of a promise are
p-values, whose value is optional: `PValueFields` is what the writer puts for no
value, and `PValue` what the reader makes of an entry without an operation.

**Transport.** A frame is two cells, its length and its text; any number of cells
may have arrived when somebody reads. The first write to a connection that the
other end has closed succeeds and is lost.

**Storage.** A handler changes memory and leaves a `job`, the file operations
still to make; a crash may come before any of them. The process fails, the
machine does not, so what a write call has given to the operating system is safe and
fsync is left out; file operations do not fail. An overflow of the write buffer goes out
on its own and may tear a record between its length and its bytes (`tail`). In
`HostStorage` the operations are made by a writer task per instance that outlives
the instance, and a load waits for no writer. There the last write of a change is not
with the operating system when its request counts as handled: `handle_request` drops
tokio's file after `write_all`, without a flush, so the data is still on its way through
tokio's pool. `HandOver` puts it into `pending` and ends the request; `Land` writes it to
the end of the file at any later moment, after the next request's length or after the
truncate of a checkpoint too; a crash loses it. (The four bytes of the length are
written before: tokio waits for one write before it begins the next on the same file.)
The host's `flush_changes` does nothing but succeed (`paxos_wasm.rs:358`), so it is no
action.

**Supervisor.** Instances are numbered as they are built. A trouble is a trap, a
call that never returns ("wedged") or a ping that comes too late. An abort reaches
an instance at its next await, so a wedged one stays.

**Side by side.** `MCServices`, `MCWire` and `MCPredecessors` put components that
share no state under one initial predicate that picks one of them; a behaviour
runs that one while the others rest. This composes nothing: it is a choice of
which component is checked, and the numbers of states add.

**Configuration.** Event-driven mode with `acceptors_send_learns`,
`learners_send_executed`, `batch_size` and `message_batch_size` as constants. The
modular servers run without their demo client. `LearnersRetry` = FALSE stands for a
retry interval and a gap limit that are never reached. Clocks are left out: a timeout
may have expired at any tick.

**Restarts of proposers** assume `persistent_storage`, and a process that
crashes, not a machine: the ballot is in the file before it is used
(`increase_ballot` saves first), so `RestartProposer` keeps ballot and adu.

**Variants.** Definitions marked "Variant" are what a plausible slip in the code
would turn the definition after them into. No specification uses them; they are
there to see that the properties notice.

## 3. The runs

| run | instance | shows |
|---|---|---|
| `steady` | one proposer from the start, 2 acceptors, 1 learner, 2 slots, 2 commands, retries and results on | `TypeOK`, `LearnedIsChosen`, `ProposedAfterPhase1`, `ExecutedOnce` |
| `handover` | two leaders, 3 acceptors, 2 learners, 1 slot | `PromiseBinds`, `BallotsDiffer`, `HistoriesAgree`, `ImplementsLog` |
| `restart` | one proposer that crashes, resigns and leads again, from the start, 2 acceptors | `PromisesNotAhead`, `AduIsExecuted` |
| `proposer_learns` | the proposer sends the learns, any of which may be lost; 2 acceptors, 2 slots, retries and results on | `ChosenStatusIsChosen`, `OwnResult`, `GapCloses` |
| `collocated` | 3 coordinators, two of which lead, 1 slot, 2 commands | `LearnsOnlyChosen`, `NodesAgree` |
| `wire` | every payload, with empty and full lists and with and without values and operations, through two copies of the serializer; 2 senders and 2 receivers, one of each with the guest's and one with the host's network, 3 messages each, 1 failure | `ReadsBack`, `InOrder`, `NeverTwice`, `GuestSendsArrive` |
| `services` | 2 proposers and a third node; an acceptor, and a learner, with 3 slots and snapshots every 2; 2 clients with 2 requests | the five invariants and six temporal properties of election, storage and clients |
| `host` | 4 instances, 2 retries, 2 troubles, 2 saves, 1 crash of the host | `OneInstance`, `OwnShutdown`, `HandledIsOnDisk`, `Replaced` |
| `predecessors` | 3 acceptors, 2 proposals or proposers, 2 rounds, each proposer connected to any of the acceptors; 3 clients of the modular server, a proposer, coordinator or follower | `SuccessIsLearned`, `OneWinnerPerNumber`, `SuccessIsHeld`, `LearnedByMajority`, `OneValuePerRound`, `AskedIsAnswered` |
| `noop_disagree` | 2 learners, retries | **violates** `HistoriesAgree` |
| `set_command` | as `wire`, with the operation `set` | **violates** `ReadsBack` |
| `client_gone` | 2 clients, no restart | **violates** `ServesOn` |

**Bounds, and why they are enough.** Two acceptors make every message
needed, three make two different majorities possible; two slots make gaps and
reordering possible; two proposers with ballots up to 7 (ids 1 and 2, steps
of 3) have two rounds each; two commands compete. `MaxSlot` and `MaxBallot` stop
the proposers, and `RequestAdu` asks no second time while something of the first
request is under way. In `collocated`, `MaxUnderWay` holds a tick back while
four messages are under way: one round of accepts or learns to two peers,
and one of the old leader beside it. In `wire` a receiver takes one message per
poll, so that every poll leaves something behind, three connections let one be
replaced, and one failure hits any connection or receiver at any moment. The
storages allow two records in changelog and buffer and two snapshots on disk, so that
checkpoints follow one another with crashes at every operation in between. In
`host` every trouble costs one instance, so four let both troubles fall on
different instances while a fourth is ready; its writers stop once the files are
spoilt (section 5), as nothing is said from there on. In `predecessors` three members make
a majority of two with one late.

**Slices.** From `Init`, two leaders with three acceptors have more than five
million states before the second has finished phase 1. The runs take slices:
`steady` and `restart` start from `Init`; `handover`, `proposer_learns` and
`noop_disagree` start from `SettledInit`, and `collocated` from the `Init` of
`MCCoordinator`: states reachable from the beginning in which the first leader has
finished phase 1 and has the backlog in its queue, and a second proposer is
about to prepare or may take over.

**Deadlock** is checked in the runs of the protocol and of the wire; it is not
where the system really stops: all proposers crashed (`services`), clients done,
a host that has given up (`host`), all nodes panicked (`collocated`), proposals
finished (`predecessors`), a leader gone (`client_gone`).

**What the violations show.** Each of the three runs checks what a comment of
the code says.

1. `noop_disagree`: an acceptor answers a retry with a no-op for a slot in which
   it can still accept a command, and two learners execute different histories.
2. `set_command`: the serializer writes a set with a comma inside and reads fields
   that it separates at commas. The message does not come back, and the guest that
   reads it panics. With the other operations every payload is read back (`wire`),
   but for one thing that `ReadsBack` names: a value without an operation, among those
   that a promise reports, arrives as no value, without its client and number, although
   accept, learn, client-request and executed keep them. The protocol is none the worse for
   it, since `collect_accepted_values` drops values without an operation and
   absent values alike (`proposer.rs:374`).
3. `client_gone`: a response that cannot be written is cleaned up by a mutable
   borrow while the loop around it still holds one. A client that leaves takes the
   leader with it.

**Known limits of the code that the runs step around.** While modelling, these
came up too; they shape what the properties say.

- A promise that arrives after the first proposal of a round repeats the recovery
  and can free that slot again (`collect_accepted_values`), so a slot may get a
  second value with the same ballot; votes for the first then count for the second.
  `ChosenStatusIsChosen` is checked from a state with all promises in, and proved for
  behaviours in which this does not happen (`RecoversOnce`, section 5).
- A quorum that a late promise completes after the timeout advances to
  `PreparePending` without a timer, and nothing leaves that phase.
- `become_leader` takes a new ballot but leaves the phase, so a leader that
  resigned in `AcceptCommit` proposes without phase 1: `ProposedAfterPhase1` is
  checked and proved for unchanged leadership. The log is safe all the same.
- Recovered values are queued without their slots and without the no-ops of the
  gaps, and move to other slots. Across two leaders, or across a restart of one, a
  command may be applied twice and a client may get another command's result:
  `ExecutedOnce` and `OwnResult` are stated for one leader that does not restart.
- A trimmed snapshot leaves out older slots that the truncated changelog held:
  `RecentSurvives` is about the last interval.
- The host's network client ends its thread when a peer cannot be reached:
  `GuestSendsArrive` is about the guest's.
- The data of a change is under way when the request counts as handled, and when
  `save_change` and `flush_changes` have returned it may not even be that. A crash of the
  host loses it, and data that lands after the next record's length, or after a
  checkpoint has emptied the changelog, leaves a file whose rest cannot be read.
  `HandledIsOnDisk` counts data under way as safe and says nothing once it was
  overtaken or lost. The comment at `core.wit:149`, "push the writer’s buffer all the
  way to disk", is not true of this host.
- The modular server's `is_leader` has its coordinator arm commented out
  (`tcp-server.rs:98`), and `submit_client_request` has not: a node that leads as
  coordinator, which `config.yaml:26` allows, takes requests, keeps their connections
  and drops the responses. The run has such a node; `AskedIsAnswered` is about leading
  proposers, and with `Takes` for `IsLeader` in it TLC finds the coordinator's client
  that waits for ever.
- The modular server's loop waits for every client it has accepted: one that says nothing
  stops the node until it speaks or leaves. `AskedIsAnswered` says that nothing
  else keeps a leading proposer from answering.
- A wedge before an instance's first ping is never noticed: `Replaced` is about
  instances that have pinged.
- Nodes of the prototype number their proposals alike, and promises' accepted
  values are ignored: `SuccessIsHeld` is stated up to higher numbers.

## 4. Fairness

- *Election*: weak fairness of `Check(p)` and of `Heartbeat(p, n)`: every turn of
  the main loop of a running node calls `send_heartbeat` and `failure_check`, and
  neither waits for anything. `timely` is the usual assumption of an eventually
  perfect detector: after some moment nobody knows, nothing crashes and every check
  has heard from all running nodes.
- *Gaps* (`LossySpec`): the main loops of leader, acceptors and learners go on
  (weak fairness of the tick of phase 2, of every handler for every slot, and of
  the retry), and a learn that is sent again and again is not lost for ever (strong
  fairness of taking one). Nothing is assumed of a learn that is sent once.
- *Transport*: receivers poll, the host's threads run, and what was sent arrives
  (weak fairness of `PollAll`, `HostGet`, `HostWrite`).
- *Clients* (`SessionsFairness`): a client's loop goes on, and its timeout strikes
  at last if the condition recurs (strong: `last` is reset by every request).
  `ClientsFinish` supposes that the leader stays up at last.
- *Supervisor*: the main loop, the builder and the monitors go on, as tasks of
  one runtime do. No fairness of instances: they may wedge.
- *Modular server*: its loop goes on (weak fairness of `LoopStep`), and a peer's
  message for an outstanding request arrives in the end (strong, of `PeerSends`).
  Nothing is assumed of clients. A silent one does stop the loop, so `AskedIsAnswered`
  has a premise instead, `[]<>~Stalled`: the loop is not for ever in the read of a client
  that says nothing and stays.

## 5. The proofs

The assumptions are the named ones of the modules: finitely many acceptors, at
least one; disjoint roles; ids, slots and ballots that are numbers; the types of
the configuration. A theorem that assumes more says so in its statement, and why
is said here.

`LogProofs!AcceptorsImplementLog`: `Spec => ImplementsLog`. Two majorities meet
(`QuorumsMeet`), so a slot has at most one chosen value (`ChosenIsUnique`), and
`AcceptNew` is the only action that writes `accepted`, for an empty slot. A step
therefore adds a vote for one value in one slot: it decides that slot in the abstract
log or changes nothing there. No property of proposers, promises or
ballots is needed: the safety of this system's log does not rest on phase 1 but
on the acceptors' refusal to overwrite.

`TypeProofs!TypeCorrect`: `Spec => []TypeOK`. `TypeOK` is inductive by itself.
The work is in the proposer: the queues stay sequences of commands, so no
no-op enters them; the slots that `CreateProposals` gives out stay within bounds;
and in the learner: the contiguous prefix of learned slots holds values only,
which needs that the slots counted by `Gapless` have no gap.

The learners, also in `LogProofs`, when the acceptors tell them
(`AcceptorsSendLearns`; for the other configuration, in which a learner believes any
proposer, see `LearnersLearnCommitted` below):

- `LearnersLearnChosen`: `AcceptorsSendLearns /\ Spec => []LearnedIsChosen`.
  `LearnedIsChosen` is not inductive, as nothing in it says where a learner's votes
  come from. The inductive invariant adds `LearnsTruthful` (a learn under way from
  an acceptor names a command only if the acceptor has accepted it) and
  `VotesTruthful` (so does a filed one). Votes are never withdrawn (`VotesStay`),
  so both survive any delay. No-op learns carry no command and are exempt.
- `HistoryInvariant`: for any configuration, a history is what stands in the
  learned slots up to the adu without the no-ops, in order (`HistoryIsLog`). This is
  a fact about folding a sequence that grows at its end.
- `LearnersApplyTheLog`: with both, every applied command is the one chosen for its
  slot.
- `LearnersApplyTheSame`: `HistoriesAgree`, assuming `~LearnersRetry` too. The
  invariant `NoOpFree` says that without retries no learn with a no-op is under way
  or filed, so a slot that is learned as a no-op is learned from votes for one. With
  retries the property is false (`noop_disagree`).
- `AduIsNeverAhead`: `AduIsExecuted`, for any configuration: a proposer's adu, and
  the adu of every message, is within what some learner has executed
  (`AdusExecuted`), and learners never go back.

`CoordinatorProofs` is about collocated nodes. A node's acceptor is asked before any
other, so what its core proposes in a slot is in its acceptor's log first. The
inductive invariant `Held` says so (`CoreHeld`), and that votes counted, messages
under way and votes filed by learners all stand for an accepted value (`VoteHeld`,
`MessageHeld`, `LearnerHeld`); the acceptors only grow (`AcceptedKept`), so a step
of one node leaves true what is said of another. `CoordinatorTypeCorrect` comes
first. `NodesLearnChosen` (`LearnsOnlyChosen`) then needs no assumption on who sends
the learns: unlike the standalone proposer, a collocated one counts acceptors before
it tells anybody. `NodesApplyTheLog` (`CommandsAgree`) follows with the fact about
histories, unconditionally; `NodesApplyTheSame` (`NodesAgree`) assumes that
acceptors do not both send learns and answer retries, for the reason of
`LearnersApplyTheSame`.

`LogProofs` goes on with the theorems about phase 1. All rest on two facts about
single steps: an acceptor's promise only grows and a slot is filled once, with a
ballot that is not below the promise (`AcceptorsOnlyGrow`); and a step treats a
proposer's promises in one of three ways, keep, file one, or forget all
(`AgentMoves`), while its ballot stays or grows by the number of acceptors
(`CoreMoves`).

- `PromiseBindsHolds` and `PromisesNotAheadHolds`, from the inductive `PromiseInv`:
  a prepare under way has a ballot its sender has taken; every promise, filed or
  under way, is for a ballot its proposer has taken, and its acceptor keeps to it.
  The last is `PromiseBinds` extended to promises under way, without which it is
  not inductive.
- `ProposedAfterPhase1Holds` assumes `MayChangeRole = {}`, the case in which it
  holds (section 3). The inductive `PhaseInv` adds that a proposer in `AcceptCommit`
  has a majority that promised its present ballot, and that it files one promise
  per acceptor and ballot, so that counting promises counts acceptors.
- `BallotsDifferHolds` assumes that no id exceeds the number of acceptors. The
  inductive invariant: a ballot is its proposer's id plus a multiple of that number.
  The code says nothing of the ids; without the assumption two ids that agree
  modulo the number of acceptors share ballots.

Phase 2 and the clients are the last part of `LogProofs`. Late promises can set the
slot counter of a proposer back that proposes already, and a slot gets two
values with one ballot (section 3); what votes and results mean is lost from there
on. The theorems are therefore about behaviours without such a step. There are two
forms of this, and the weaker one is assumed wherever it is enough:

- `RecoversOnce`: no step sets the counter back of a proposer that is in phase 2
  before and after it. A restart is allowed: it sets the counter to zero too, but
  costs phase 2, and the next proposals have another ballot.
- `SlotsTakenOnce`: no step sets any counter back. This excludes also the restart of a
  proposer that has proposed: its recovered commands move to other slots, and
  `OwnResult` is false (TLC finds it on an instance like that of `proposer_learns` from
  `SettledInit`, with acceptors that tell, a restart, a change of leadership, and
  ballots up to 8).

The theorems:

- `DatedInvariant`, for any number of proposers that restart and take over from one
  another. An answer to an accept names slot and ballot and no value, so the count of
  votes is worth something only if the ballot tells which proposal was meant. The
  inductive `DatedInv` says that every accept, answer and counted vote is of the
  proposal its proposer has now, or has a ballot of its past (`AcceptsDated`,
  `AnswersDated`, `CountsDated`). The hard case is a proposer that restarts after it has
  proposed: the stored ballot is its ballot again, and if a majority promised that again
  it would propose other values with it. It cannot be (`Spent`): each acceptor is asked
  once per ballot and answers once (`GivenOnce`), and the promises that took the
  proposer into phase 2 are spent, so those that can still come are no majority. This
  rests on `PromiseInvariant` and on the invariant that each acceptor's promise is filed
  once (`OneEach`).
- `ChosenStatusHolds`: `ChosenStatusIsChosen` is a conjunct of `DatedInv`.
- `LearnersLearnCommitted` and `LearnersApplyCommitted`: with it, when the proposers send
  the learns, `LearnedIsChosen` and `HistoriesAgree`. A learner believes any
  proposer, but a proposer tells only what it takes for chosen (`ToldInv`). Here nobody
  makes a no-op up: a proposer answers a retry with what it takes for chosen, or sends
  the accept again.
- `OwnResultHolds`, for one proposer under `SlotsTakenOnce`: whatever is accepted, told,
  filed, learned and answered is what the proposer has proposed in that slot, or a no-op
  made up by a retry (`OwnInv`); so a result belongs to the command it is matched with.
- `ExecutedOnceHolds`, for one proposer under `SlotsTakenOnce`. A command whose slot was
  learned as a no-op is proposed again, so one command may have many slots. `OnceInv`
  says that it waits in one queue, once, and that all its slots but the last are dead:
  finalized, and learned as a no-op for good. Late promises report only slots that were
  proposed, so recovery queues nothing twice (`ReportedProposed`). The theorem assumes
  one learner, or proposers that tell, or no retries: otherwise learners disagree on
  no-ops (`noop_disagree`), and what is lost for one may be executed by the other.

`SomeAssumption` says that `None` is neither an entry nor a response, as in Rust.

`HostProofs` is about `HostSpec`, with storage and host crashes:

- `OneInstanceHolds` and `OwnShutdownHolds`, from the inductive `HostInv`: instances
  are started one after the other; the channel holds the successor of the current
  one; an older instance that lives has been aborted, the current one too before
  the next is waited for; a shutdown request comes from a monitor that has fired.
- `HandledIsOnDiskHolds`, from `StorageInv`. That what is on disk covers what was
  handled is lost when a checkpoint empties the changelog, unless the snapshot holds
  it all; the snapshot is what the instance knew when it asked for the checkpoint.
  So the invariant says what an instance knows: only the newest instance has requests
  in its queue (`WorksAlone`); it has loaded what was handled (`Knows`), with the
  changes of its queue; a checkpoint in the queue holds both (`Covers`); and between
  rename and prune the last snapshot is that checkpoint (`Midway`). Between
  requests, what is under way is the data of the one record that the end of the
  changelog waits for (`Landing`), so it completes that record when it lands
  (`LandKeeps`); a writer that has written a length and not yet handed over its data
  finds nothing under way.
  Nothing is said (`spoilt`) after two instances have used the files together, after
  the changelog was read, written or emptied while data was under way, or after a crash
  that hit a write or data under way: the code prevents none of these.

`PredecessorProofs!OneValuePerRoundHolds`, whichever acceptors a proposer is connected
to: from `HandlerInv` (what is accepted is of a round that was reached) and
`AllAnswered` (a proposer in its first phase has an answer from every acceptor it has
asked), which is needed for the types of the promises it keeps.

`PredecessorProofs` also has an invariant for each program of the prototype:

- `OneWinnerPerNumberHolds` and `SuccessIsHeldHolds` (`DistributedSpec`).
  `OneWinnerPerNumber` says nothing of promises, so `DistributedInv` counts them:
  what two proposals with the same number have collected together is at most the
  number of nodes that have reached that number (`Shared`), since an acceptor
  promises a number once. A proposal that has won stands for a majority, so two
  cannot win. It goes on doing so after it has failed: a request to accept that its
  sender gave up may still be handled (`Evidence`, `NotYet`), and would otherwise
  overwrite what another one of the same number reported. `SuccessIsHeld` then rests
  on `HeldEnough`: the acceptances a thread has counted come from different peers
  that hold its command or something higher. The majority that a node computes from
  its list of peers is the same on all nodes (`MajorityIsHalf`).
- `SuccessIsLearnedHolds` (`BasicSpec`). The program proposes with one number after
  the other in one memory, so no acceptor is ever ahead (`NobodyAhead`); those that
  refuse hold nothing (`NothingOfFailing`), and hence a success is held by all that
  work, and by nobody a majority of anything else.
- `LearnedByMajorityHolds` (`SimulationSpec`). Answers carry no sender, so counting
  them counts acceptors only if none accepts twice: every acceptor is asked once
  (`AskedOnce`), and okays on their way, about to be sent, and counted are together
  at most the acceptors that have accepted (`EachCounted`). It assumes
  `ProposerAssumption`: thread 0 is the proposer and no acceptor.

`ServiceProofs` is about what surrounds the protocol. Three of its components loop
over nodes, connections or answers, modelled by recursive functions on an interval.
The library's induction theorems cannot be instantiated, but induction up to a
number can be said of a set (`Induction` in `LoopProofs`, from the least element of
its complement), and `LoopRuns` gives the existence of a function whose steps keep to a
set; with both, what a loop preserves is proved for every number of turns.

- `LeaderIsHighestAliveHolds` and `FlagFollowsDetectorHolds` (`Spec` of
  `LeaderElection`), from `ElectionInv`: between two checks the leader detector
  suspects exactly the proposers that the failure detector holds dead, and has the
  highest of the others. In the middle of a pass this is true after each node
  (`Passes`), and what the pass will report is the last leader it has come to, or
  nothing if that is the one from before (`Reports`): so a pass in which several
  leaders fall reports the last one only, and the flag follows.
- `AduIsLearnedHolds` and `CheckpointSurvivesHolds` (`LearnerSpec`), from
  `LearnerStorageInv`: snapshots, changelog, buffer and the operations of a job
  speak of no slot that was never learned, and the latest snapshot on disk is the
  last one taken (`LastSaved`). The second assumes `LoadSnapshots # 0`: the
  configuration may say 0, and then a restart loads none.
- `RecentSurvivesHolds` (`AcceptorSpec`) and `RecentLearnedSurvivesHolds`
  (`LearnerSpec`), from one invariant about either role's map, `Durable`. Unless the
  end of the changelog is broken, snapshots and changelog give back every one of the
  highest entries that does not wait in the writer's buffer (`RecentKept`). To be
  inductive this needs to know that waiting records say what the memory says
  (`BufferNow`: they win when they are flushed), and what the operations of a
  checkpoint under way have done (`MidCheckpoint`): nothing waits once the changelog
  is flushed, and from the rename on the newest snapshot is that of the memory, so
  that truncating the changelog loses nothing and pruning keeps the one that matters.
  `StillRecent` and `KeptIsUpper` are why neither new entries nor what memory drops
  make an entry one of the highest. Both assume `LoadSnapshots # 0`, and that `Empty`
  is no entry.
- `PromiseSurvivesHolds` (`AcceptorSpec`): the current-state file holds the promise
  whenever it is not being written (`PromiseKept`).
- `AnswersWereAskedHolds` and `AnswerOnItsWayHolds` (`SessionsSpec`), from
  `SessionsInv`. A route leads to a connection on which its request was asked
  (`RoutesAsked`). For the second, a request must not be re-routed by another
  connection: a live connection of a persistent client is the one it has, unless it
  is done (`OneChannel`), and no request comes by another client's
  (`AskedBefore`); and a new request in flight must not be one that was asked
  before on the same connection, which needs that the number resent before the
  first request, `u64::MAX`, is never in flight (`OneInFlight`). `PollOK` and
  `Written` say what the loop over connections and the loop over answers preserve,
  in whichever order the connections are polled.

`TransportProofs` is about `TransportSpec`: any scripts in which the messages of a sender
are numbered (`Scripts`; `TrafficAssumption` has TLC see that those of the run are),
any number of nodes, connections and failures, and guest or host on either side.

- `NeverTwiceHolds`, from `WireInv`. A message leaves its script, waits in the host's
  channel, and becomes two cells on a connection. A length cell is the only one of its
  message and the message has not arrived (`Fresh`); what a sender still has in its
  channel is younger than all it has written (`QueueOK`, `Written`). Half a frame
  that a read leaves behind stays with its connection and is dropped with it, so it
  never meets the second half of another one. Only messages that the serializer can read
  come out (`ArrivedOK`).
- `InOrderHolds`, from `OrderInv`: for a receiver that was never stopped and
  never lost a connection (`Well`), its connections hold whole frames (`FramesOK`), one
  connection per sender, and everything that a sender sent it before a message is ahead of
  that message: in front of it on the connection, or arrived (`Before`, `InTurn`). What
  left the script has been written, or waits in the channel, or its thread has ended.
  Any one poll takes a part of what lies there from each connection, in any order, and the
  receiver's sequence is joined from those parts (`IsJoined`, an induction with
  `LoopProofs`). In the end `RankedPrefix` turns "all that comes before is in front" into
  "is a prefix of what was sent".

`TransportAssumption` has the types of the constants, and that the placeholder of an
unreadable text is no message and that of an absent node no node.

Model-checked only: the liveness properties (`GapCloses`, `GuestSendsArrive`,
`EventuallyOneLeader`, `ClientsFinish`, `Replaced`, `AskedIsAnswered`), which
are out of the prover's reach; and `ReadsBack`, since it is about folds over messages of
any length, whose results take an induction over data. Every other property of a passing
run is stated by a theorem.

## 6. Not modelled

- client-driven mode with its synchronous broadcasts: its run loop ends in a panic
  before the first command, so there is no behaviour to state anything about;
- an acceptor or a learner that restarts while the protocol runs: their storage is
  modelled by itself, and the composition has too many states beside the
  proposers';
- the map of the key-value store; the demo client; the pace of the main loop;
- file operations and network calls of the operating system that fail in other
  ways than a broken connection; a second listener on an address still held;
- the parsing of configurations, linking of components, logging, measurements;
- `archive/modular-grpc` (translations between two sets of types),
  `archive/wrpc_v2` (does not compile against its bindings), `paxos-v0.0.1` and
  `v0.0.2` (near-duplicates of v0.0.3), the archived client of modular-ws (speaks
  another protocol), `wasm-examples`, `cluster`; of `pocs` only the serializer.

## 7. What could follow

1. `MultiPaxos` with acceptors that restart as `AcceptorStorage` says: what a
   forgotten accept does to the log; `AcceptorStorage` shown to implement an
   acceptor that only forgets what the write buffer held.
2. Liveness of phase 1 with one leader, the stuck cases as exceptions.
3. Theorems: `ExecutedOnce` and `OwnResult` for behaviours in which late promises set the
   counter back but a slot's second proposal has the value of the first; `AcceptorStorage`
   as a refinement, once item 1 has it.
