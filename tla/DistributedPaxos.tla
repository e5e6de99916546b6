-------------------------- MODULE DistributedPaxos -------------------------
(***************************************************************************)
(* The prototype's nodes (paxos-rust network/distributed.rs).  Each node   *)
(* is an acceptor and, for every client that connects, a thread that       *)
(* proposes the client's command: it asks one peer after the other, waits  *)
(* for the answer a while, and counts.  The lock on the node's state is    *)
(* held for single accesses only, and every node numbers its proposals by  *)
(* itself, so that threads and nodes may use one number twice.             *)
(***************************************************************************)
EXTENDS BasicPaxos, SequencesExt

VARIABLES
  node,     \* node[n]: the NodeState of a node
  thread,   \* thread[c]: the thread that proposes a command
  late      \* the requests whose sender no longer waits for the answer

distributedVars == <<node, thread, late>>

NewNode == [counter |-> 0, acceptor |-> NewAcceptor]
NewThread == [at |-> "connecting", node |-> 0, id |-> 0, asked |-> 0, count |-> 0]

DistributedInit ==
  /\ node = [n \in Members |-> NewNode]
  /\ thread = [c \in Commands |-> NewThread]
  /\ late = {}

\* Every node is given the others, in some order.
Peers(n) == SetToSeq(Members \ {n})

\* Variant: a node leaves itself out of the majority.
MajorityOfPeers(n) == Len(Peers(n)) \div 2
Majority(n) == (Len(Peers(n)) + 1) \div 2 + 1

----------------------------------------------------------------------------
\* A client's command arrives: the counter moves on ...
Count(c, n) ==
  /\ thread[c].at = "connecting"
  /\ node' = [node EXCEPT ![n].counter = @ + 1]
  /\ thread' = [thread EXCEPT ![c].at = "counted", ![c].node = n]
  /\ UNCHANGED late

\* ... and is read again, when another thread may have moved it too.
Number(c) ==
  /\ thread[c].at = "counted"
  /\ thread' = [thread EXCEPT ![c].at = "prepare", ![c].id = node[thread[c].node].counter]
  /\ UNCHANGED <<node, late>>

\* process_paxos_message: what a request makes of an acceptor, and whether the
\* answer says ok.
Processed(a, phase, c) ==
  IF phase = "prepare" THEN WithPromise(a, thread[c].id) ELSE WithAccepted(a, thread[c].id, c)
Agrees(a, phase, c) ==
  IF phase = "prepare" THEN Promises(a, thread[c].id) ELSE Accepts(a, thread[c].id)

Asking(c) == thread[c].at \in {"prepare", "accept"} /\ thread[c].asked < Len(Peers(thread[c].node))
NextPeer(c) == Peers(thread[c].node)[thread[c].asked + 1]

\* Variant: an answer counts whatever it says.
CountsAny(c, p) == 1
Counts(c, p) == IF Agrees(node[p].acceptor, thread[c].at, c) THEN 1 ELSE 0

\* send_and_receive, answered in time.
Exchange(c) ==
  /\ Asking(c)
  /\ node' = [node EXCEPT ![NextPeer(c)].acceptor = Processed(@, thread[c].at, c)]
  /\ thread' = [thread EXCEPT ![c].asked = @ + 1, ![c].count = @ + Counts(c, NextPeer(c))]
  /\ UNCHANGED late

\* send_and_receive without an answer: the peer cannot be reached, or it is so
\* late that it handles the request after the sender has given up.
Unanswered(c) ==
  /\ Asking(c)
  /\ thread' = [thread EXCEPT ![c].asked = @ + 1]
  /\ late' \in {late, late \cup {[to |-> NextPeer(c), phase |-> thread[c].at, command |-> c]}}
  /\ UNCHANGED node

HandleLate(m) ==
  /\ late' = late \ {m}
  /\ node' = [node EXCEPT ![m.to].acceptor = Processed(@, m.phase, m.command)]
  /\ UNCHANGED thread

\* When all peers are asked the node asks its own acceptor, counts, and goes on
\* to the next phase or gives up.
OwnAcceptor(c) ==
  LET n     == thread[c].node
      phase == thread[c].at
      count == thread[c].count + Counts(c, n)
      next  == IF count < Majority(n) THEN "failed" ELSE IF phase = "prepare" THEN "accept" ELSE "learn"
  IN /\ phase \in {"prepare", "accept"} /\ ~Asking(c)
     /\ node' = [node EXCEPT ![n].acceptor = Processed(@, phase, c)]
     /\ thread' = [thread EXCEPT ![c].at = next, ![c].asked = 0, ![c].count = 0]
     /\ UNCHANGED late

\* The peers are told, who only log it; the node accepts once more.
Learn(c) ==
  /\ thread[c].at = "learn"
  /\ node' = [node EXCEPT ![thread[c].node].acceptor = WithAccepted(@, thread[c].id, c)]
  /\ thread' = [thread EXCEPT ![c].at = "succeeded"]
  /\ UNCHANGED late

DistributedNext ==
  \/ \E c \in Commands : \/ \E n \in Members : Count(c, n)
                         \/ Number(c) \/ Exchange(c) \/ Unanswered(c) \/ OwnAcceptor(c) \/ Learn(c)
  \/ \E m \in late : HandleLate(m)

DistributedSpec == DistributedInit /\ [][DistributedNext]_distributedVars

----------------------------------------------------------------------------
\* Nodes and threads may use one number twice, but of the proposals that share
\* it only one gets past its first phase: a number is promised once by an
\* acceptor (distributed.rs run_proposal, acceptor.rs prepare).
OneWinnerPerNumber == \A c, d \in Commands :
  /\ thread[c].at \in {"accept", "learn", "succeeded"}
  /\ thread[d].at \in {"accept", "learn", "succeeded"}
  /\ thread[c].id = thread[d].id
  => c = d

\* A command whose client is told "Proposal succeeded" is with a majority, but
\* for the nodes that have accepted under a higher number since.
SuccessIsHeld == \A c \in Commands : thread[c].at \in {"learn", "succeeded"} =>
  MoreThanHalf(Cardinality({n \in Members :
    \/ node[n].acceptor.accepted.id > thread[c].id
    \/ node[n].acceptor.accepted = [id |-> thread[c].id, value |-> {c}]}))
=============================================================================
