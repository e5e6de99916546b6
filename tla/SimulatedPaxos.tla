--------------------------- MODULE SimulatedPaxos --------------------------
(***************************************************************************)
(* The prototype's simulation (paxos-rust network/simulation.rs): a        *)
(* proposer thread and acceptor threads with a channel each.  The proposer *)
(* makes one proposal; it sends, then counts answers until all have come   *)
(* or none comes for two seconds.                                          *)
(***************************************************************************)
EXTENDS BasicPaxos, SequencesExt

VARIABLES
  channel,      \* channel[n]: what thread n has not received yet; 0 is the proposer
  peer,         \* peer[a]: the acceptor of thread a, what it is about to send, where it is
  proposer      \* the proposer thread

simulationVars == <<channel, peer, proposer>>

Proposer == 0
ASSUME ProposerAssumption == Proposer \notin Members
Order == SetToSeq(Members)   \* the proposer sends to the acceptors in turn

SimulationInit ==
  /\ channel = [n \in Members \cup {Proposer} |-> <<>>]
  /\ peer = [a \in Members |-> [acceptor |-> NewAcceptor, reply |-> <<>>, at |-> "running"]]
  /\ proposer = [at |-> "prepare", sent |-> 0, received |-> 0, count |-> 0]

\* The proposal of the proposer: one number, one value.
ProposalId == 1
ProposalValue == CHOOSE c \in Commands : TRUE

----------------------------------------------------------------------------
(* The acceptor threads. *)

\* A request is handled; the answer is sent after a delay.
ReceiveRequest(a) ==
  LET kind == Head(channel[a])
      own  == peer[a].acceptor IN
  /\ peer[a].at = "running" /\ peer[a].reply = <<>> /\ channel[a] # <<>>
  /\ channel' = [channel EXCEPT ![a] = Tail(@)]
  /\ peer' = [peer EXCEPT ![a] =
       CASE kind = "prepare" ->
              [@ EXCEPT !.acceptor = WithPromise(own, ProposalId),
                        !.reply = <<[kind |-> "promise", ok |-> Promises(own, ProposalId)]>>]
         [] kind = "accept" ->
              [@ EXCEPT !.acceptor = WithAccepted(own, ProposalId, ProposalValue),
                        !.reply = <<[kind |-> "accepted", ok |-> Accepts(own, ProposalId)]>>]
         [] kind = "learn" -> [@ EXCEPT !.at = "learned"]]
  /\ UNCHANGED proposer

\* The proposer's channel is closed once the proposer has returned: the thread
\* of an acceptor that answers it then panics.
Answer(a) ==
  /\ peer[a].at = "running" /\ peer[a].reply # <<>>
  /\ IF proposer.at \in {"aborted", "done"}
     THEN /\ peer' = [peer EXCEPT ![a].at = "panicked", ![a].reply = <<>>]
          /\ UNCHANGED channel
     ELSE /\ peer' = [peer EXCEPT ![a].reply = <<>>]
          /\ channel' = [channel EXCEPT ![Proposer] = @ \o peer[a].reply]
  /\ UNCHANGED proposer

----------------------------------------------------------------------------
(* The proposer thread. *)

Enough == Cardinality(Members) \div 2 + 1
AwaitedKind == IF proposer.at = "prepare" THEN "promise" ELSE "accepted"

\* A message goes to the next acceptor; in the last phase also to itself.
SendToNext ==
  LET to == Order[proposer.sent + 1] IN
  /\ proposer.at \in {"prepare", "accept", "learn"} /\ proposer.sent < Len(Order)
  /\ channel' = [channel EXCEPT ![to] = Append(@, proposer.at)]
  /\ proposer' = [proposer EXCEPT !.sent = @ + 1]
  /\ UNCHANGED peer

Collecting == proposer.at \in {"prepare", "accept"} /\ proposer.sent = Len(Order)
              /\ proposer.received < Cardinality(Members)

\* Variant: every answer is taken for one to the present phase.
CountsAll(m) == TRUE
IsAwaited(m) == m.kind = AwaitedKind

\* An answer is received; one to an earlier phase is passed over.
Collect ==
  LET m == Head(channel[Proposer]) IN
  /\ Collecting /\ channel[Proposer] # <<>>
  /\ channel' = [channel EXCEPT ![Proposer] = Tail(@)]
  /\ proposer' = IF IsAwaited(m)
                 THEN [proposer EXCEPT !.received = @ + 1, !.count = @ + IF m.ok THEN 1 ELSE 0]
                 ELSE proposer
  /\ UNCHANGED peer

\* All answers are in, or none has come for a while: on to the next phase with
\* a majority, or out.
EndPhase ==
  /\ proposer.at \in {"prepare", "accept"} /\ proposer.sent = Len(Order)
  /\ Collecting => channel[Proposer] = <<>>
  /\ proposer' = [at |-> IF proposer.count < Enough THEN "aborted"
                         ELSE IF proposer.at = "prepare" THEN "accept" ELSE "learn",
                  sent |-> 0, received |-> 0, count |-> 0]
  /\ UNCHANGED <<channel, peer>>

Return ==
  /\ proposer.at = "learn" /\ proposer.sent = Len(Order)
  /\ proposer' = [proposer EXCEPT !.at = "done"]
  /\ UNCHANGED <<channel, peer>>

SimulationNext == SendToNext \/ Collect \/ EndPhase \/ Return
                  \/ \E a \in Members : ReceiveRequest(a) \/ Answer(a)

SimulationSpec == SimulationInit /\ [][SimulationNext]_simulationVars

----------------------------------------------------------------------------
\* A proposer that spreads the consensus has a majority of acceptors behind it,
\* although answers to the first phase may come in during the second and answers
\* to both may be given up (simulation.rs proposer_node, "Proposal accepted by
\* majority").
LearnedByMajority == proposer.at \in {"learn", "done"} =>
  MoreThanHalf(Cardinality({a \in Members : peer[a].acceptor.accepted.value = {ProposalValue}}))
=============================================================================
