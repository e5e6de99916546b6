------------------------------ MODULE Network ------------------------------
(***************************************************************************)
(* The nodes of a standalone deployment, the values they agree on, the     *)
(* messages of shared/wit/types.wit and the fire-and-forget network that   *)
(* carries them.  The component modules extend this one.                   *)
(*                                                                         *)
(* The network is a set: a message put there is delivered at most once, at *)
(* any later moment and in any order, or never.  TCP keeps the order of    *)
(* one connection only; send_message_forget drops what it cannot write and *)
(* opens a new connection, and the server polls the old and the new one in *)
(* HashMap order, so messages get lost and overtake each other.            *)
(***************************************************************************)
EXTENDS Integers, FiniteSets, Sequences, Functions

CONSTANTS
  Proposers,            \* node ids, numbers: the ballots are built from them
  Acceptors,
  Learners,
  Commands,             \* values that carry a client's command
  NoOp,                 \* the value without a command
  None,                 \* Option::None
  MaxSlot,              \* bound: the last slot a proposer uses
  MaxBallot,            \* bound: no ballot grows beyond it
  AcceptorsSendLearns,  \* run-config acceptors-send-learns
  LearnersSendExecuted, \* run-config learners-send-executed
  LearnersRetry,        \* FALSE: retry-interval-ms and learn-max-gap are never reached
  BatchSize,            \* run-config batch-size
  MessageBatchSize      \* run-config message-batch-size

ASSUME ProposersAssumption == Proposers \subseteq Nat \ {0}
ASSUME DisjointAssumption == /\ Proposers \cap Acceptors = {}
                             /\ Proposers \cap Learners = {}
                             /\ Acceptors \cap Learners = {}
ASSUME AcceptorsAssumption == IsFiniteSet(Acceptors) /\ Acceptors # {}
ASSUME BoundsAssumption == /\ MaxSlot \in Nat \ {0} /\ MaxBallot \in Nat
                           /\ \A p \in Proposers : p <= MaxBallot
ASSUME BatchAssumption == /\ BatchSize \in Nat \ {0}
                          /\ MessageBatchSize \in Nat \ {0}
ASSUME ConfigAssumption == /\ AcceptorsSendLearns \in BOOLEAN
                           /\ LearnersSendExecuted \in BOOLEAN
                           /\ LearnersRetry \in BOOLEAN
ASSUME ValuesAssumption == NoOp \notin Commands /\ None \notin Commands \cup {NoOp}

VARIABLE network

Slots   == 1 .. MaxSlot
Ballots == 0 .. MaxBallot
Values  == Commands \cup {NoOp}

\* Majority of the acceptors: (num_acceptors / 2) + 1.
QuorumSize == (Cardinality(Acceptors) \div 2) + 1
IsQuorum(S) == Cardinality(S) >= QuorumSize
Quorums == {Q \in SUBSET Acceptors : IsQuorum(Q)}

\* An acceptor's accepted p-value, or None for an empty slot.
PValue == [ballot : Ballots, value : Commands]
AcceptedMap == [Slots -> PValue \cup {None}]

ASSUME NoneAssumption == None \notin Ballots \cup PValue

----------------------------------------------------------------------------
(* The payloads that drive the protocol, with their sender and target. *)

PrepareMsg(p, a, slot, ballot) ==
  [type |-> "prepare", from |-> p, to |-> a, slot |-> slot, ballot |-> ballot]
PromiseMsg(a, p, slot, ballot, acc) ==
  [type |-> "promise", from |-> a, to |-> p, slot |-> slot, ballot |-> ballot, accepted |-> acc]
AcceptMsg(p, a, slot, ballot, v) ==
  [type |-> "accept", from |-> p, to |-> a, slot |-> slot, ballot |-> ballot, value |-> v]
AcceptedMsg(a, p, slot, ballot) ==
  [type |-> "accepted", from |-> a, to |-> p, slot |-> slot, ballot |-> ballot]
LearnMsg(n, l, slot, v) ==
  [type |-> "learn", from |-> n, to |-> l, slot |-> slot, value |-> v]
RetryLearnsMsg(l, n, slots) ==
  [type |-> "retry-learns", from |-> l, to |-> n, slots |-> slots]
ExecutedMsg(l, p, results, adu) ==
  [type |-> "executed", from |-> l, to |-> p, results |-> results, adu |-> adu]
AduMsg(n, m, adu) ==
  [type |-> "adu", from |-> n, to |-> m, adu |-> adu]

\* A result of an execution: the slot and the command, or no-op, that was in it.
Result == [slot : Slots, value : Values]

\* The sets the payloads belong to.  A prepare asks from the slot after the adu on.
FirstSlots == 1 .. MaxSlot + 1
Nodes      == Proposers \cup Acceptors \cup Learners
Prepares == [type : {"prepare"}, from : Proposers, to : Acceptors,
             slot : FirstSlots, ballot : Ballots]
Promises == [type : {"promise"}, from : Acceptors, to : Proposers,
             slot : FirstSlots, ballot : Ballots, accepted : AcceptedMap]
Accepts  == [type : {"accept"}, from : Proposers, to : Acceptors,
             slot : Slots, ballot : Ballots, value : Commands]
Accepteds == [type : {"accepted"}, from : Acceptors, to : Proposers,
              slot : Slots, ballot : Ballots]
Learns   == [type : {"learn"}, from : Acceptors \cup Proposers, to : Learners,
             slot : Slots, value : Values]
Retries  == [type : {"retry-learns"}, from : Learners, to : Acceptors \cup Proposers,
             slots : SUBSET Slots]
Executeds == [type : {"executed"}, from : Learners, to : Proposers,
              results : Seq(Result), adu : 0 .. MaxSlot]
Adus     == [type : {"adu"}, from : Nodes, to : Nodes, adu : 0 .. MaxSlot]
Messages == Prepares \cup Promises \cup Accepts \cup Accepteds
            \cup Learns \cup Retries \cup Executeds \cup Adus

\* What n finds in its inbox.
Inbox(n, type) == {m \in network : m.type = type /\ m.to = n}

\* Take m, if any, off the network and put the messages of S there.
Reply(m, S)  == network' = (network \ {m}) \cup S
Send(S)      == network' = network \cup S
=============================================================================
