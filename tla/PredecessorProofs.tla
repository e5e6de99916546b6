------------------------- MODULE PredecessorProofs -------------------------
(***************************************************************************)
(* What the predecessors keep, for any number of nodes and commands: the   *)
(* prototype in plain Rust (over TCP, in one memory, and between threads   *)
(* with channels), and the handlers of paxos-v0.0.3.                       *)
(***************************************************************************)
EXTENDS DistributedPaxos, SimulatedPaxos, HandlerPaxos, FiniteSetTheorems, TLAPS

----------------------------------------------------------------------------
(* The prototype over TCP.  Nodes use one number for several proposals:    *)
(* only one of those wins its first phase, and what it reports is held.    *)

AcceptorState == [promised : Nat, accepted : [id : Nat, value : SUBSET Commands]]
NodeState     == [counter : Nat, acceptor : AcceptorState]
ThreadState   == [at : {"connecting", "counted", "prepare", "accept", "learn", "succeeded", "failed"},
                  node : Members \cup {0}, id : Nat, asked : Nat, count : Nat]
Requests      == [to : Members, phase : {"prepare", "accept"}, command : Commands]

NodesOK   == /\ node \in [Members -> NodeState]
             /\ \A n \in Members : node[n].acceptor.accepted.id <= node[n].acceptor.promised
ThreadsOK == /\ thread \in [Commands -> ThreadState]
             /\ \A c \in Commands : thread[c].at # "connecting" => thread[c].node \in Members
             /\ \A c \in Commands : thread[c].at \in {"connecting", "counted"} => thread[c].count = 0
LateOK    == late \subseteq Requests

\* The acceptors of nodes ns that have promised a number or a higher one.
ReachedIn(ns, id) == {n \in Members : ns[n].acceptor.promised >= id}
Reached(id)       == ReachedIn(node, id)

Half == Cardinality(Members) \div 2 + 1

\* A command of which a request to accept it is under way, or was handled, has
\* won its first phase, even if its thread has failed since.
Won(t)       == t.at \in {"accept", "learn", "succeeded"}
Evidence(c)  == \/ \E m \in late : m.phase = "accept" /\ m.command = c
                \/ \E n \in Members : node[n].acceptor.accepted.value = {c}
PastFirst(c) == Won(thread[c]) \/ Evidence(c)
NotYet       == \A c \in Commands : thread[c].at \in {"connecting", "counted", "prepare"} => ~Evidence(c)

\* The promises that a proposal has, or has had.
Support(c) == IF PastFirst(c) THEN Half ELSE IF thread[c].at = "prepare" THEN thread[c].count ELSE 0

\* Each promise of a number is an acceptor's own, so that proposals that share
\* the number share out the acceptors.
Shared == /\ \A c \in Commands : Support(c) <= Cardinality(Reached(thread[c].id))
          /\ \A c, d \in Commands : c # d /\ thread[c].id = thread[d].id =>
               Support(c) + Support(d) <= Cardinality(Reached(thread[c].id))

\* The nodes that hold a command, or something with a higher number, and of those
\* the ones that its thread has counted.
Held(c)       == {n \in Members : \/ node[n].acceptor.accepted.id > thread[c].id
                                  \/ node[n].acceptor.accepted = [id |-> thread[c].id, value |-> {c}]}
AskedNodes(c) == {Peers(thread[c].node)[i] : i \in {j \in 1 .. Len(Peers(thread[c].node)) : j <= thread[c].asked}}
Counted(c)    == /\ thread[c].at = "accept" => thread[c].count <= Cardinality(AskedNodes(c) \cap Held(c))
                 /\ thread[c].at \in {"learn", "succeeded"} => Half <= Cardinality(Held(c))
HeldEnough    == \A c \in Commands : Counted(c)

DistributedInv == NodesOK /\ ThreadsOK /\ LateOK /\ NotYet /\ Shared /\ HeldEnough

----------------------------------------------------------------------------
\* The peers of a node are the others, each once (distributed.rs new, peers).
LEMMA PeersAreOthers ==
  ASSUME NEW n \in Members
  PROVE  /\ Len(Peers(n)) \in Nat
         /\ Len(Peers(n)) + 1 = Cardinality(Members)
         /\ \A i \in 1 .. Len(Peers(n)) : Peers(n)[i] \in Members \ {n}
         /\ \A i, j \in 1 .. Len(Peers(n)) : Peers(n)[i] = Peers(n)[j] => i = j
<1> DEFINE others == Members \ {n}
           k      == Cardinality(others)
<1>1. IsFiniteSet(Members)
  BY MembersAssumption
<1>2. IsFiniteSet(others) /\ k + 1 = Cardinality(Members)
  <2>1. IsFiniteSet(others) /\ k = Cardinality(Members) - 1
    BY <1>1, FS_RemoveElement
  <2>2. Cardinality(Members) \in Int
    BY <1>1, FS_CardinalityType
  <2> QED
    BY <2>1, <2>2
<1>3. k \in Nat /\ ExistsBijection(1 .. k, others)
  BY <1>2, FS_CardinalityType
<1>4. \E f \in [1 .. k -> others] : IsInjective(f)
  BY <1>3 DEF ExistsBijection, Bijection, Injection
<1>5. Peers(n) \in [1 .. k -> others] /\ IsInjective(Peers(n))
  BY <1>4 DEF Peers, SetToSeq
<1>6. Len(Peers(n)) = k
  BY <1>3, <1>5
<1> QED
  BY <1>2, <1>3, <1>5, <1>6 DEF IsInjective

\* The quorum of a node, half of its peers and itself rounded up, is the same number on
\* every node (distributed.rs run_proposal).
LEMMA MajorityIsHalf ==
  ASSUME NEW n \in Members
  PROVE  Majority(n) = Half
BY PeersAreOthers DEF Majority, Half

\* Sets of nodes are finite.
LEMMA NodesFinite ==
  /\ Cardinality(Members) \in Nat /\ Half \in Nat
  /\ \A S \in SUBSET Members : IsFiniteSet(S) /\ Cardinality(S) \in Nat /\ Cardinality(S) <= Cardinality(Members)
<1>1. IsFiniteSet(Members)
  BY MembersAssumption
<1>2. Cardinality(Members) \in Nat
  BY <1>1, FS_CardinalityType
<1> QED
  BY <1>1, <1>2, FS_Subset, FS_CardinalityType DEF Half

\* A set of nodes that includes another has at least as many, and one with a node
\* more has one more.
LEMMA NodesCounted ==
  ASSUME NEW S \in SUBSET Members, NEW T \in SUBSET Members, S \subseteq T
  PROVE  /\ Cardinality(S) <= Cardinality(T)
         /\ \A p \in T \ S : Cardinality(S) + 1 <= Cardinality(T)
<1>1. IsFiniteSet(S) /\ IsFiniteSet(T)
  BY NodesFinite
<1>2. Cardinality(S) <= Cardinality(T)
  BY <1>1, FS_Subset
<1>3. ASSUME NEW p \in T \ S
      PROVE  Cardinality(S) + 1 <= Cardinality(T)
  <2>1. Cardinality(S \cup {p}) = Cardinality(S) + 1
    BY <1>1, FS_AddElement
  <2>2. S \cup {p} \in SUBSET T
    OBVIOUS
  <2>3. Cardinality(S \cup {p}) <= Cardinality(T)
    BY <1>1, <2>2, FS_Subset
  <2> QED
    BY <2>1, <2>3
<1> QED
  BY <1>2, <1>3

----------------------------------------------------------------------------
\* process_paxos_message: an acceptor's promise never goes back, each number is
\* promised at most once, and what is accepted is of the number promised last
\* (acceptor.rs prepare, accept).
LEMMA ProcessedKeeps ==
  ASSUME NEW a \in AcceptorState, NEW phase, NEW c \in Commands, thread[c].id \in Nat,
         a.accepted.id <= a.promised
  PROVE  /\ Processed(a, phase, c) \in AcceptorState
         /\ Processed(a, phase, c).accepted.id <= Processed(a, phase, c).promised
         /\ Processed(a, phase, c).promised >= a.promised
         /\ phase = "prepare" /\ Agrees(a, phase, c) =>
              a.promised < thread[c].id /\ Processed(a, phase, c).promised = thread[c].id
         /\ phase # "prepare" /\ Agrees(a, phase, c) =>
              Processed(a, phase, c).accepted = [id |-> thread[c].id, value |-> {c}]
         /\ \/ Processed(a, phase, c).accepted = a.accepted
            \/ /\ phase # "prepare" /\ thread[c].id >= a.accepted.id
               /\ Processed(a, phase, c).accepted = [id |-> thread[c].id, value |-> {c}]
<1> DEFINE id == thread[c].id
<1>1. /\ WithPromise(a, id) \in AcceptorState /\ WithPromise(a, id).promised >= a.promised
      /\ WithPromise(a, id).accepted = a.accepted
  BY DEF WithPromise, Promises, AcceptorState
<1>2. WithAccepted(a, id, c) \in AcceptorState /\ WithAccepted(a, id, c).promised = a.promised
  BY DEF WithAccepted, Accepts, AcceptorState
<1>3. Promises(a, id) => a.promised < id /\ WithPromise(a, id).promised = id
  BY DEF WithPromise, Promises, AcceptorState
<1>4. a.promised \in Nat /\ a.accepted.id \in Nat
  BY DEF AcceptorState
<1>5. /\ Accepts(a, id) => WithAccepted(a, id, c).accepted = [id |-> id, value |-> {c}] /\ a.promised = id
      /\ ~Accepts(a, id) => WithAccepted(a, id, c) = a
  BY DEF WithAccepted, Accepts, AcceptorState
<1>6. WithPromise(a, id).promised \in Nat
  BY <1>1 DEF AcceptorState
<1> QED
  BY <1>1, <1>2, <1>3, <1>4, <1>5, <1>6 DEF Processed, Agrees

\* One request at one acceptor: the numbers reached only grow, and a promise is a
\* new acceptor's.
LEMMA RequestAdds ==
  ASSUME NodesOK, NEW p \in Members, NEW phase, NEW c \in Commands, thread[c].id \in Nat,
         node' = [node EXCEPT ![p].acceptor = Processed(@, phase, c)]
  PROVE  /\ NodesOK'
         /\ \A n \in Members \ {p} : node'[n] = node[n]
         /\ node'[p].acceptor = Processed(node[p].acceptor, phase, c)
         /\ \A id \in Nat : Reached(id) \subseteq ReachedIn(node', id)
         /\ phase = "prepare" /\ Agrees(node[p].acceptor, phase, c) =>
              p \notin Reached(thread[c].id) /\ p \in ReachedIn(node', thread[c].id)
<1> DEFINE a   == node[p].acceptor
           new == Processed(a, phase, c)
<1>1. node[p] \in NodeState /\ a \in AcceptorState /\ a.accepted.id <= a.promised
  BY DEF NodesOK, NodeState
<1>2. /\ new \in AcceptorState /\ new.promised >= a.promised /\ new.accepted.id <= new.promised
      /\ phase = "prepare" /\ Agrees(a, phase, c) => a.promised < thread[c].id /\ new.promised = thread[c].id
  BY <1>1, ProcessedKeeps
<1> HIDE DEF new
<1>3. node'[p] = [node[p] EXCEPT !.acceptor = new] /\ \A n \in Members \ {p} : node'[n] = node[n]
  BY DEF NodesOK, new
<1>4. node'[p] \in NodeState /\ node'[p].acceptor = new
  BY <1>1, <1>2, <1>3 DEF NodeState
<1>5. NodesOK'
  <2>1. node' \in [Members -> NodeState]
    BY <1>3, <1>4 DEF NodesOK
  <2> QED
    BY <1>2, <1>3, <1>4, <2>1 DEF NodesOK
<1>6. \A n \in Members : /\ node[n].acceptor.promised \in Nat /\ node'[n].acceptor.promised \in Nat
                         /\ node'[n].acceptor.promised >= node[n].acceptor.promised
  <2>1. \A n \in Members : node[n] \in NodeState /\ node'[n] \in NodeState
    BY <1>5 DEF NodesOK
  <2>2. \A n \in Members : node[n].acceptor.promised \in Nat /\ node'[n].acceptor.promised \in Nat
    BY <2>1 DEF NodeState, AcceptorState
  <2> QED
    BY <2>2, <1>2, <1>3, <1>4
<1>7. \A id \in Nat : Reached(id) \subseteq ReachedIn(node', id)
  BY <1>6 DEF Reached, ReachedIn
<1>8. ASSUME phase = "prepare", Agrees(a, phase, c)
      PROVE  p \notin Reached(thread[c].id) /\ p \in ReachedIn(node', thread[c].id)
  BY <1>2, <1>4, <1>6, <1>8 DEF Reached, ReachedIn
<1> QED
  BY <1>3, <1>4, <1>5, <1>7, <1>8 DEF new
----------------------------------------------------------------------------
\* A request that a thread makes is evidence for its own command only, and only when it
\* is one to accept.
LEMMA RequestEvidence ==
  ASSUME NodesOK, NEW p \in Members, NEW phase, NEW c \in Commands, thread[c].id \in Nat,
         node' = node \/ node' = [node EXCEPT ![p].acceptor = Processed(@, phase, c)],
         late' \subseteq late \cup {[to |-> p, phase |-> phase, command |-> c]},
         NEW d \in Commands, Evidence(d)'
  PROVE  Evidence(d) \/ (phase # "prepare" /\ d = c)
<1>1. CASE \E m \in late' : m.phase = "accept" /\ m.command = d
  BY <1>1 DEF Evidence
<1>2. CASE \E n \in Members : node'[n].acceptor.accepted.value = {d}
  <2>1. PICK n \in Members : node'[n].acceptor.accepted.value = {d}
    BY <1>2
  <2>2. CASE node'[n] = node[n]
    BY <2>1, <2>2 DEF Evidence
  <2>3. CASE node' = [node EXCEPT ![p].acceptor = Processed(@, phase, c)] /\ n = p
    <3> DEFINE a == node[p].acceptor
    <3>0. node' = [node EXCEPT ![p].acceptor = Processed(@, phase, c)]
      BY <2>3
    <3>1. node'[p].acceptor = Processed(a, phase, c)
      BY <3>0, RequestAdds
    <3>2. a \in AcceptorState /\ a.accepted.id <= a.promised
      BY DEF NodesOK, NodeState
    <3>3. \/ Processed(a, phase, c).accepted = a.accepted
          \/ phase # "prepare" /\ Processed(a, phase, c).accepted = [id |-> thread[c].id, value |-> {c}]
      BY <3>2, ProcessedKeeps
    <3>4. CASE Processed(a, phase, c).accepted = a.accepted
      BY <2>1, <2>3, <3>1, <3>4 DEF Evidence
    <3>5. CASE phase # "prepare" /\ Processed(a, phase, c).accepted = [id |-> thread[c].id, value |-> {c}]
      <4>1. {c} = {d}
        BY <2>1, <2>3, <3>1, <3>5
      <4> QED
        BY <3>5, <4>1
    <3> QED
      BY <3>3, <3>4, <3>5
  <2> QED
    BY <2>2, <2>3, RequestAdds
<1> QED
  BY <1>1, <1>2 DEF Evidence

\* The support of a proposal is a number.
LEMMA SupportType ==
  ASSUME ThreadsOK, ThreadsOK', NEW c \in Commands
  PROVE  Support(c) \in Nat /\ thread[c].id \in Nat /\ Support(c)' \in Nat /\ thread'[c].id \in Nat
<1>1. Half \in Nat /\ thread[c] \in ThreadState /\ thread'[c] \in ThreadState
  BY NodesFinite DEF ThreadsOK
<1>2. thread[c].count \in Nat /\ thread[c].id \in Nat /\ thread'[c].count \in Nat /\ thread'[c].id \in Nat
  BY <1>1 DEF ThreadState
<1>3. Support(c) \in Nat
  BY <1>1, <1>2 DEF Support
<1>4. Support(c)' \in Nat
  BY <1>1, <1>2 DEF Support
<1> QED
  BY <1>2, <1>3, <1>4

\* A thread that does nothing gets no support.
LEMMA SupportOfOthers ==
  ASSUME ThreadsOK, ThreadsOK', NotYet, NEW d \in Commands, thread'[d] = thread[d],
         Evidence(d)' => Evidence(d) \/ Won(thread[d])
  PROVE  /\ Support(d)' <= Support(d)
         /\ thread'[d].at \in {"connecting", "counted", "prepare"} => ~Evidence(d)'
<1>1. Support(d) \in Nat /\ Support(d)' \in Nat
  BY SupportType
<1>2. PastFirst(d)' => PastFirst(d)
  BY DEF PastFirst
<1>3. thread[d].at = "prepare" => ~PastFirst(d)
  BY DEF PastFirst, NotYet, Won
<1>4. CASE PastFirst(d)' \/ thread[d].at = "prepare"
  <2>1. Support(d)' = Support(d)
    BY <1>2, <1>3, <1>4 DEF Support
  <2> QED
    BY <1>1, <2>1 DEF NotYet, Won
<1>5. CASE ~PastFirst(d)' /\ thread[d].at # "prepare"
  <2>1. Support(d)' = 0
    BY <1>5 DEF Support
  <2> QED
    BY <1>1, <2>1 DEF NotYet, Won
<1> QED
  BY <1>4, <1>5

\* A step of one thread keeps the acceptors shared out if it adds no more to the
\* thread's support than to the acceptors that have reached its number.
LEMMA SharedKept ==
  ASSUME Shared, ThreadsOK, ThreadsOK', NEW c \in Commands,
         \A d \in Commands \ {c} : thread'[d] = thread[d] /\ Support(d)' <= Support(d),
         \A id \in Nat : Reached(id) \subseteq ReachedIn(node', id),
         \/ Support(c)' = 0
         \/ /\ thread'[c].id = thread[c].id
            /\ \/ Support(c)' <= Support(c)
               \/ /\ Support(c)' <= Support(c) + 1
                  /\ \E p \in Members : p \notin Reached(thread[c].id) /\ p \in ReachedIn(node', thread[c].id)
  PROVE  Shared'
<1> DEFINE before(id) == Cardinality(Reached(id))
           after(id)  == Cardinality(ReachedIn(node', id))
<1>1. \A d \in Commands : /\ Support(d) \in Nat /\ thread[d].id \in Nat
                          /\ Support(d)' \in Nat /\ thread'[d].id \in Nat
  BY SupportType
<1>2. \A id \in Nat : before(id) \in Nat /\ after(id) \in Nat /\ before(id) <= after(id)
  <2> TAKE id \in Nat
  <2>1. Reached(id) \in SUBSET Members /\ ReachedIn(node', id) \in SUBSET Members
    BY DEF Reached, ReachedIn
  <2> QED
    BY <2>1, NodesFinite, NodesCounted
<1>3. ASSUME NEW p \in Members, p \notin Reached(thread[c].id), p \in ReachedIn(node', thread[c].id)
      PROVE  before(thread[c].id) + 1 <= after(thread[c].id)
  <2>1. Reached(thread[c].id) \in SUBSET Members /\ ReachedIn(node', thread[c].id) \in SUBSET Members
    BY DEF Reached, ReachedIn
  <2> QED
    BY <1>1, <1>3, <2>1, NodesCounted
<1> DEFINE old(d) == Support(d)
           new(d) == Support(d)'
           was(d) == thread[d].id
           is(d)  == thread'[d].id
<1>4. \A d \in Commands : old(d) \in Nat /\ new(d) \in Nat /\ was(d) \in Nat /\ is(d) \in Nat
  BY <1>1
<1>5. \/ new(c) = 0
      \/ is(c) = was(c) /\ new(c) - old(c) <= after(was(c)) - before(was(c))
  BY <1>1, <1>2, <1>3
<1>6. \A d \in Commands \ {c} : is(d) = was(d) /\ new(d) <= old(d)
  OBVIOUS
<1>7. \A d \in Commands : old(d) <= before(was(d))
  BY DEF Shared
<1>8. \A d, e \in Commands : d # e /\ was(d) = was(e) => old(d) + old(e) <= before(was(d))
  BY DEF Shared
<1>9. /\ Shared' <=> /\ \A d \in Commands : new(d) <= after(is(d))
                     /\ \A d, e \in Commands : d # e /\ is(d) = is(e) => new(d) + new(e) <= after(is(d))
  BY DEF Shared, Reached
<1> HIDE DEF before, after, old, new, was, is
<1>10. \A d \in Commands : new(d) <= after(is(d))
  BY <1>2, <1>4, <1>5, <1>6, <1>7
<1>11. ASSUME NEW d \in Commands, d # c, is(c) = is(d)
       PROVE  new(c) + new(d) <= after(is(d))
  <2>1. CASE new(c) = 0
    BY <1>4, <1>10, <2>1
  <2>2. CASE new(c) # 0
    <3>1. was(c) = was(d) /\ is(d) = was(d) /\ was(d) \in Nat
      BY <1>4, <1>5, <1>6, <1>11, <2>2
    <3>2. old(c) + old(d) <= before(was(d))
      BY <1>8, <1>11, <3>1
    <3>3. new(c) - old(c) <= after(was(d)) - before(was(d))
      BY <1>5, <2>2, <3>1
    <3>4. new(d) <= old(d) /\ after(was(d)) \in Nat /\ before(was(d)) \in Nat
      BY <1>2, <1>6, <1>11, <3>1
    <3> QED
      BY <1>4, <3>1, <3>2, <3>3, <3>4
  <2> QED
    BY <2>1, <2>2
<1>12. ASSUME NEW d \in Commands, NEW e \in Commands, d # e, is(d) = is(e)
       PROVE  new(d) + new(e) <= after(is(d))
  <2>1. CASE d = c
    BY <1>11, <1>12, <2>1
  <2>2. CASE e = c
    BY <1>4, <1>11, <1>12, <2>2
  <2>3. CASE d # c /\ e # c
    <3>1. was(d) = was(e) /\ is(d) = was(d) /\ was(d) \in Nat
      BY <1>4, <1>6, <1>12, <2>3
    <3>2. old(d) + old(e) <= before(was(d)) /\ before(was(d)) <= after(was(d))
      BY <1>2, <1>8, <1>12, <3>1
    <3>3. new(d) <= old(d) /\ new(e) <= old(e) /\ after(was(d)) \in Nat /\ before(was(d)) \in Nat
      BY <1>2, <1>6, <2>3, <3>1
    <3> QED
      BY <1>4, <3>1, <3>2, <3>3
  <2> QED
    BY <2>1, <2>2, <2>3
<1> QED
  BY <1>9, <1>10, <1>12

\* Of two proposals with one number only one is past its first phase.
LEMMA OnePastFirst ==
  ASSUME Shared, NEW c \in Commands, NEW d \in Commands, PastFirst(c), PastFirst(d),
         thread[c].id = thread[d].id
  PROVE  c = d
<1> SUFFICES ASSUME c # d PROVE FALSE
  OBVIOUS
<1> DEFINE k == Cardinality(Reached(thread[c].id))
<1>1. Half + Half <= k
  BY DEF Shared, Support
<1>2. Reached(thread[c].id) \in SUBSET Members
  BY DEF Reached, ReachedIn
<1>3. k <= Cardinality(Members) /\ k \in Nat /\ Cardinality(Members) \in Nat
  BY <1>2, NodesFinite
<1> HIDE DEF k
<1> QED
  BY <1>1, <1>3 DEF Half

\* A node that holds a command holds on to it, or takes one with a higher number
\* (acceptor.rs accept).
LEMMA HeldGrows ==
  ASSUME NodesOK, ThreadsOK, Shared, NEW p \in Members, NEW phase, NEW e \in Commands,
         node' = node \/ node' = [node EXCEPT ![p].acceptor = Processed(@, phase, e)],
         phase = "prepare" \/ PastFirst(e),
         NEW c \in Commands, PastFirst(c), thread'[c].id = thread[c].id
  PROVE  Held(c) \subseteq Held(c)'
<1>1. CASE node' = node
  BY <1>1 DEF Held
<1>2. CASE node' = [node EXCEPT ![p].acceptor = Processed(@, phase, e)]
  <2> DEFINE a   == node[p].acceptor
             k   == thread[c].id
             j   == thread[e].id
  <2>1. k \in Nat /\ j \in Nat
    BY DEF ThreadsOK, ThreadState
  <2>2. node'[p].acceptor = Processed(a, phase, e) /\ \A n \in Members \ {p} : node'[n] = node[n]
    <3> DEFINE new == Processed(a, phase, e)
    <3>1. node[p] \in NodeState
      BY DEF NodesOK
    <3> HIDE DEF new
    <3>2. node'[p] = [node[p] EXCEPT !.acceptor = new] /\ \A n \in Members \ {p} : node'[n] = node[n]
      BY <1>2 DEF NodesOK, new
    <3>3. node'[p].acceptor = new
      BY <3>1, <3>2 DEF NodeState
    <3> QED
      BY <3>2, <3>3 DEF new
  <2>3. a \in AcceptorState /\ a.accepted.id <= a.promised /\ a.accepted.id \in Nat
    BY DEF NodesOK, NodeState, AcceptorState
  <2>4. \/ node'[p].acceptor.accepted = a.accepted
        \/ phase # "prepare" /\ j >= a.accepted.id /\ node'[p].acceptor.accepted = [id |-> j, value |-> {e}]
    BY <2>1, <2>2, <2>3, ProcessedKeeps
  <2>5. ASSUME p \in Held(c) PROVE p \in Held(c)'
    <3>1. CASE node'[p].acceptor.accepted = a.accepted
      BY <2>5, <3>1 DEF Held
    <3>2. CASE phase # "prepare" /\ j >= a.accepted.id /\ node'[p].acceptor.accepted = [id |-> j, value |-> {e}]
      <4>1. a.accepted.id > k \/ a.accepted.id = k
        BY <2>5 DEF Held
      <4>2. CASE j > k
        BY <3>2, <4>2 DEF Held
      <4>3. CASE j = k
        <5>1. c = e
          BY <3>2, <4>3, OnePastFirst
        <5> QED
          BY <3>2, <5>1 DEF Held
      <4> QED
        BY <2>1, <2>3, <3>2, <4>1, <4>2, <4>3
    <3> QED
      BY <2>4, <3>1, <3>2
  <2> QED
    BY <2>2, <2>5 DEF Held
<1> QED
  BY <1>1, <1>2
----------------------------------------------------------------------------
\* What a step makes of its thread keeps the threads what they are.
LEMMA ThreadMoves ==
  ASSUME ThreadsOK, NEW c \in Commands, NEW t \in ThreadState, thread' = [thread EXCEPT ![c] = t],
         t.at # "connecting" => t.node \in Members,
         t.at \in {"connecting", "counted"} => t.count = 0
  PROVE  ThreadsOK' /\ thread'[c] = t /\ \A d \in Commands \ {c} : thread'[d] = thread[d]
BY DEF ThreadsOK

\* Where no node changes, no id loses a node that has reached it.
LEMMA NobodyReached ==
  ASSUME \A n \in Members : node'[n].acceptor = node[n].acceptor
  PROVE  \A id \in Nat : Reached(id) \subseteq ReachedIn(node', id)
BY DEF Reached, ReachedIn

\* Nodes that a thread has asked and that hold its command can only become more.
LEMMA CountedKept ==
  ASSUME NEW d \in Commands, Counted(d), thread'[d] = thread[d], ThreadsOK,
         Won(thread[d]) => Held(d) \subseteq Held(d)'
  PROVE  Counted(d)'
<1>1. AskedNodes(d)' = AskedNodes(d)
  BY DEF AskedNodes
<1>2. Held(d) \in SUBSET Members /\ Held(d)' \in SUBSET Members
  BY DEF Held
<1>3. thread[d].count \in Nat /\ Half \in Nat
  BY NodesFinite DEF ThreadsOK, ThreadState
<1>4. ASSUME Won(thread[d])
      PROVE  /\ Cardinality(Held(d)) <= Cardinality(Held(d)')
             /\ Cardinality(AskedNodes(d) \cap Held(d)) <= Cardinality(AskedNodes(d) \cap Held(d)')
             /\ Cardinality(Held(d)) \in Nat /\ Cardinality(Held(d)') \in Nat
             /\ Cardinality(AskedNodes(d) \cap Held(d)) \in Nat /\ Cardinality(AskedNodes(d) \cap Held(d)') \in Nat
  <2>1. Held(d) \subseteq Held(d)' /\ AskedNodes(d) \cap Held(d) \subseteq AskedNodes(d) \cap Held(d)'
    BY <1>4
  <2>2. AskedNodes(d) \cap Held(d) \in SUBSET Members /\ AskedNodes(d) \cap Held(d)' \in SUBSET Members
    BY <1>2
  <2>3. Cardinality(Held(d)) <= Cardinality(Held(d)')
    BY <1>2, <2>1, NodesCounted
  <2>4. Cardinality(AskedNodes(d) \cap Held(d)) <= Cardinality(AskedNodes(d) \cap Held(d)')
    BY <2>1, <2>2, NodesCounted
  <2> QED
    BY <1>2, <2>2, <2>3, <2>4, NodesFinite
<1>5. CASE thread[d].at = "accept"
  BY <1>1, <1>3, <1>4, <1>5 DEF Counted, Won
<1>6. CASE thread[d].at \in {"learn", "succeeded"}
  BY <1>1, <1>3, <1>4, <1>6 DEF Counted, Won
<1> QED
  BY <1>5, <1>6 DEF Counted

\* A request leaves alone what is said of the threads that do not move.
LEMMA OthersKeep ==
  ASSUME DistributedInv, ThreadsOK', NEW p \in Members, NEW phase, NEW c \in Commands,
         node' = node \/ node' = [node EXCEPT ![p].acceptor = Processed(@, phase, c)],
         late' \subseteq late \cup {[to |-> p, phase |-> phase, command |-> c]},
         phase = "prepare" \/ PastFirst(c),
         NEW d \in Commands, thread'[d] = thread[d]
  PROVE  /\ Support(d)' <= Support(d)
         /\ thread'[d].at \in {"connecting", "counted", "prepare"} => ~Evidence(d)'
         /\ Counted(d)'
<1> USE DEF DistributedInv
<1>1. thread[c].id \in Nat
  BY DEF ThreadsOK, ThreadState
<1>2. Evidence(d)' => Evidence(d) \/ Won(thread[d])
  BY <1>1, RequestEvidence DEF PastFirst
<1>3. Won(thread[d]) => Held(d) \subseteq Held(d)'
  BY HeldGrows DEF PastFirst
<1>4. Counted(d)'
  BY <1>3, CountedKept DEF HeldEnough
<1> QED
  BY <1>2, <1>4, SupportOfOthers

\* The parts of the invariant, put together.
LEMMA InvariantKept ==
  ASSUME NodesOK', ThreadsOK', LateOK', Shared', NEW c \in Commands,
         \A d \in Commands \ {c} :
           /\ thread'[d].at \in {"connecting", "counted", "prepare"} => ~Evidence(d)'
           /\ Counted(d)',
         thread'[c].at \in {"connecting", "counted", "prepare"} => ~Evidence(c)',
         Counted(c)'
  PROVE  DistributedInv'
<1>1. NotYet'
  BY DEF NotYet
<1>2. HeldEnough'
  BY DEF HeldEnough
<1> QED
  BY <1>1, <1>2 DEF DistributedInv

\* Raising the counter of a node (run_proposal) keeps the invariant.
LEMMA CountKeeps ==
  ASSUME DistributedInv, NEW c \in Commands, NEW n \in Members, Count(c, n)
  PROVE  DistributedInv'
<1> DEFINE t == [thread[c] EXCEPT !.at = "counted", !.node = n]
<1> USE DEF DistributedInv
<1>1. thread[c] \in ThreadState /\ thread[c].at = "connecting" /\ thread[c].count = 0
  BY DEF Count, ThreadsOK
<1>2. t \in ThreadState /\ t.at = "counted" /\ t.node = n /\ t.count = 0
  BY <1>1 DEF ThreadState
<1>3. thread' = [thread EXCEPT ![c] = t]
  BY DEF Count, ThreadsOK
<1> HIDE DEF t
<1>4. ThreadsOK' /\ thread'[c] = t /\ \A d \in Commands \ {c} : thread'[d] = thread[d]
  BY <1>2, <1>3, ThreadMoves
<1>5. NodesOK' /\ \A m \in Members : node'[m].acceptor = node[m].acceptor
  <2> DEFINE new == [node[n] EXCEPT !.counter = @ + 1]
  <2>1. node[n] \in NodeState
    BY DEF NodesOK
  <2>2. new \in NodeState /\ new.acceptor = node[n].acceptor
    BY <2>1 DEF NodeState
  <2>3. node' = [node EXCEPT ![n] = new]
    BY DEF Count
  <2> HIDE DEF new
  <2> QED
    BY <2>2, <2>3 DEF NodesOK
<1>6. \A id \in Nat : Reached(id) \subseteq ReachedIn(node', id)
  BY <1>5, NobodyReached
<1>7. \A d \in Commands : /\ Evidence(d)' <=> Evidence(d)
                          /\ thread'[d].id = thread[d].id => Held(d)' = Held(d)
  BY <1>5 DEF Count, Evidence, Held
<1>8. ~Evidence(c)' /\ Support(c)' = 0 /\ Counted(c)'
  BY <1>1, <1>2, <1>4, <1>7 DEF NotYet, Support, PastFirst, Won, Counted
<1>9. \A d \in Commands \ {c} : /\ Support(d)' <= Support(d)
                                /\ thread'[d].at \in {"connecting", "counted", "prepare"} => ~Evidence(d)'
                                /\ Counted(d)'
  BY <1>4, <1>7, SupportOfOthers, CountedKept DEF HeldEnough
<1>10. Shared'
  BY <1>4, <1>6, <1>8, <1>9, SharedKept
<1>11. LateOK'
  BY DEF Count, LateOK
<1> QED
  BY <1>4, <1>5, <1>8, <1>9, <1>10, <1>11, InvariantKept

\* Reading the counter as the proposal's id (run_proposal) keeps the invariant.
LEMMA NumberKeeps ==
  ASSUME DistributedInv, NEW c \in Commands, Number(c)
  PROVE  DistributedInv'
<1> DEFINE t == [thread[c] EXCEPT !.at = "prepare", !.id = node[thread[c].node].counter]
<1> USE DEF DistributedInv
<1>1. thread[c] \in ThreadState /\ thread[c].at = "counted" /\ thread[c].node \in Members /\ thread[c].count = 0
  BY DEF Number, ThreadsOK
<1>2. node[thread[c].node].counter \in Nat
  BY <1>1 DEF NodesOK, NodeState
<1>3. t \in ThreadState /\ t.at = "prepare" /\ t.node \in Members /\ t.count = 0
  BY <1>1, <1>2 DEF ThreadState
<1>4. thread' = [thread EXCEPT ![c] = t]
  BY DEF Number
<1> HIDE DEF t
<1>5. ThreadsOK' /\ thread'[c] = t /\ \A d \in Commands \ {c} : thread'[d] = thread[d]
  BY <1>3, <1>4, ThreadMoves
<1>6. NodesOK' /\ LateOK' /\ \A m \in Members : node'[m].acceptor = node[m].acceptor
  BY DEF Number, NodesOK, LateOK
<1>7. \A id \in Nat : Reached(id) \subseteq ReachedIn(node', id)
  BY <1>6, NobodyReached
<1>8. \A d \in Commands : /\ Evidence(d)' <=> Evidence(d)
                          /\ thread'[d].id = thread[d].id => Held(d)' = Held(d)
  BY DEF Number, Evidence, Held
<1>9. ~Evidence(c)' /\ Support(c)' = 0 /\ Counted(c)'
  BY <1>1, <1>3, <1>5, <1>8 DEF NotYet, Support, PastFirst, Won, Counted
<1>10. \A d \in Commands \ {c} : /\ Support(d)' <= Support(d)
                                 /\ thread'[d].at \in {"connecting", "counted", "prepare"} => ~Evidence(d)'
                                 /\ Counted(d)'
  BY <1>5, <1>8, SupportOfOthers, CountedKept DEF HeldEnough
<1>11. Shared'
  BY <1>5, <1>7, <1>9, <1>10, SharedKept
<1> QED
  BY <1>5, <1>6, <1>9, <1>10, <1>11, InvariantKept
\* The peer that is asked next is a node, and has not been asked yet.
LEMMA NextIsNew ==
  ASSUME ThreadsOK, NEW c \in Commands, Asking(c),
         thread'[c].node = thread[c].node, thread'[c].asked = thread[c].asked + 1
  PROVE  /\ NextPeer(c) \in Members
         /\ AskedNodes(c) \subseteq AskedNodes(c)'
         /\ NextPeer(c) \in AskedNodes(c)' \ AskedNodes(c)
<1> DEFINE ps == Peers(thread[c].node)
           n  == thread[c].asked
<1>1. n \in Nat /\ thread[c].node \in Members /\ n < Len(ps)
  BY DEF Asking, ThreadsOK, ThreadState
<1>2. /\ Len(ps) \in Nat
      /\ \A i \in 1 .. Len(ps) : ps[i] \in Members
      /\ \A i, j \in 1 .. Len(ps) : ps[i] = ps[j] => i = j
  BY <1>1, PeersAreOthers
<1>3. /\ AskedNodes(c) = {ps[i] : i \in {j \in 1 .. Len(ps) : j <= n}}
      /\ AskedNodes(c)' = {ps[i] : i \in {j \in 1 .. Len(ps) : j <= n + 1}}
      /\ NextPeer(c) = ps[n + 1]
  BY DEF AskedNodes, NextPeer
<1> HIDE DEF ps, n
<1>4. n + 1 \in 1 .. Len(ps)
  BY <1>1, <1>2
<1>5. \A i \in {j \in 1 .. Len(ps) : j <= n} : i \in {j \in 1 .. Len(ps) : j <= n + 1} /\ i # n + 1
  BY <1>1, <1>2
<1>6. ps[n + 1] \notin AskedNodes(c)
  BY <1>2, <1>3, <1>4, <1>5
<1>7. n + 1 \in {j \in 1 .. Len(ps) : j <= n + 1}
  BY <1>1, <1>4
<1> QED
  BY <1>2, <1>3, <1>4, <1>5, <1>6, <1>7

\* The node of a thread is not among its peers.
LEMMA OwnIsNew ==
  ASSUME NEW c \in Commands, thread[c].node \in Members
  PROVE  thread[c].node \notin AskedNodes(c)
BY PeersAreOthers DEF AskedNodes

\* A request that is given up (send_and_receive, timeout) keeps the invariant: the
\* proposal is not counted at that peer, now or later.
LEMMA UnansweredKeeps ==
  ASSUME DistributedInv, NEW c \in Commands, Unanswered(c)
  PROVE  DistributedInv'
<1> DEFINE t == [thread[c] EXCEPT !.asked = @ + 1]
           p == NextPeer(c)
           phase == thread[c].at
<1> USE DEF DistributedInv
<1>1. thread[c] \in ThreadState /\ phase \in {"prepare", "accept"} /\ thread[c].node \in Members /\ thread[c].id \in Nat
  BY DEF Unanswered, Asking, ThreadsOK, ThreadState
<1>2. t \in ThreadState /\ t.at = phase /\ t.node = thread[c].node /\ t.count = thread[c].count
      /\ t.id = thread[c].id /\ t.asked = thread[c].asked + 1
  BY <1>1 DEF ThreadState
<1>3. thread' = [thread EXCEPT ![c] = t]
  BY DEF Unanswered
<1>4. node' = node /\ late' \in {late, late \cup {[to |-> p, phase |-> phase, command |-> c]}} /\ Asking(c)
  BY DEF Unanswered
<1> HIDE DEF t, p
<1>5. ThreadsOK' /\ thread'[c] = t /\ \A d \in Commands \ {c} : thread'[d] = thread[d]
  BY <1>1, <1>2, <1>3, ThreadMoves
<1>6. p \in Members /\ AskedNodes(c) \subseteq AskedNodes(c)'
  BY <1>2, <1>4, <1>5, NextIsNew DEF p
<1>7. NodesOK' /\ LateOK' /\ \A id \in Nat : Reached(id) \subseteq ReachedIn(node', id)
  BY <1>1, <1>4, <1>6, NobodyReached DEF NodesOK, LateOK, Requests
<1>8. late' \subseteq late \cup {[to |-> p, phase |-> phase, command |-> c]}
  BY <1>4
<1>9. phase = "prepare" \/ PastFirst(c)
  BY <1>1 DEF PastFirst, Won
<1> HIDE DEF phase
<1>10. \A d \in Commands \ {c} : /\ Support(d)' <= Support(d)
                                 /\ thread'[d].at \in {"connecting", "counted", "prepare"} => ~Evidence(d)'
                                 /\ Counted(d)'
  BY <1>4, <1>5, <1>6, <1>8, <1>9, OthersKeep
<1>11. Evidence(c)' => Evidence(c) \/ phase # "prepare"
  BY <1>1, <1>4, <1>6, <1>8, RequestEvidence
<1>12. thread'[c].at \in {"connecting", "counted", "prepare"} => ~Evidence(c)'
  BY <1>1, <1>2, <1>5, <1>11 DEF NotYet, phase
<1>13. Support(c)' = Support(c) /\ Support(c) \in Nat
  BY <1>1, <1>2, <1>5, <1>12, SupportType DEF Support, PastFirst, Won, NotYet, phase
<1>14. Shared'
  BY <1>2, <1>5, <1>7, <1>10, <1>13, SharedKept
<1>15. Counted(c)'
  <2>1. CASE phase = "prepare"
    BY <1>2, <1>5, <2>1 DEF Counted
  <2>2. CASE phase = "accept"
    <3>1. Held(c)' = Held(c)
      BY <1>2, <1>4, <1>5 DEF Held
    <3>2. AskedNodes(c) \cap Held(c) \in SUBSET Members /\ AskedNodes(c)' \cap Held(c) \in SUBSET Members
      BY DEF Held
    <3>3. Cardinality(AskedNodes(c) \cap Held(c)) <= Cardinality(AskedNodes(c)' \cap Held(c))
      BY <1>6, <3>2, NodesCounted
    <3>4. /\ Cardinality(AskedNodes(c) \cap Held(c)) \in Nat /\ Cardinality(AskedNodes(c)' \cap Held(c)) \in Nat
          /\ thread[c].count \in Nat
      BY <1>1, <3>2, NodesFinite DEF ThreadState
    <3>5. thread[c].count <= Cardinality(AskedNodes(c) \cap Held(c))
      BY <2>2 DEF HeldEnough, Counted, phase
    <3> QED
      BY <1>2, <1>5, <2>2, <3>1, <3>3, <3>4, <3>5 DEF Counted
  <2> QED
    BY <1>1, <2>1, <2>2
<1> QED
  BY <1>5, <1>7, <1>10, <1>12, <1>14, <1>15, InvariantKept

\* A request that is answered in time keeps the invariant: who promises has reached
\* the id, and had not before; who accepts holds the command, and was not asked before.
LEMMA ExchangeKeeps ==
  ASSUME DistributedInv, NEW c \in Commands, Exchange(c)
  PROVE  DistributedInv'
<1> DEFINE p == NextPeer(c)
           phase == thread[c].at
           k == Counts(c, p)
           t == [thread[c] EXCEPT !.asked = @ + 1, !.count = @ + k]
<1> USE DEF DistributedInv
<1>1. thread[c] \in ThreadState /\ phase \in {"prepare", "accept"} /\ thread[c].node \in Members /\ thread[c].id \in Nat
  BY DEF Exchange, Asking, ThreadsOK, ThreadState
<1>2. k \in {0, 1} /\ (k = 1 => Agrees(node[p].acceptor, phase, c))
  BY DEF Counts
<1>3. thread' = [thread EXCEPT ![c] = t]
  BY DEF Exchange
<1>4. node' = [node EXCEPT ![p].acceptor = Processed(@, phase, c)] /\ late' = late /\ Asking(c)
  BY DEF Exchange
<1> HIDE DEF p, k
<1>5. t \in ThreadState /\ t.at = phase /\ t.node = thread[c].node /\ t.count = thread[c].count + k
      /\ t.id = thread[c].id /\ t.asked = thread[c].asked + 1
  <2>1. thread[c].count + k \in Nat /\ thread[c].asked + 1 \in Nat
    BY <1>1, <1>2 DEF ThreadState
  <2> QED
    BY <1>1, <2>1 DEF ThreadState
<1> HIDE DEF t
<1>6. ThreadsOK' /\ thread'[c] = t /\ \A d \in Commands \ {c} : thread'[d] = thread[d]
  BY <1>1, <1>3, <1>5, ThreadMoves
<1>7. p \in Members /\ AskedNodes(c) \subseteq AskedNodes(c)' /\ p \in AskedNodes(c)' \ AskedNodes(c)
  BY <1>4, <1>5, <1>6, NextIsNew DEF p
<1> HIDE DEF phase
<1>8. /\ NodesOK' /\ node'[p].acceptor = Processed(node[p].acceptor, phase, c)
      /\ \A id \in Nat : Reached(id) \subseteq ReachedIn(node', id)
      /\ phase = "prepare" /\ k = 1 => p \notin Reached(thread[c].id) /\ p \in ReachedIn(node', thread[c].id)
  BY <1>1, <1>2, <1>4, <1>7, RequestAdds
<1>9. phase = "prepare" \/ PastFirst(c)
  BY <1>1 DEF PastFirst, Won, phase
<1>10. late' \subseteq late \cup {[to |-> p, phase |-> phase, command |-> c]}
  BY <1>4
<1>11. \A d \in Commands \ {c} : /\ Support(d)' <= Support(d)
                                 /\ thread'[d].at \in {"connecting", "counted", "prepare"} => ~Evidence(d)'
                                 /\ Counted(d)'
  BY <1>4, <1>6, <1>7, <1>9, <1>10, OthersKeep
<1>12. thread'[c].at \in {"connecting", "counted", "prepare"} => ~Evidence(c)'
  <2>1. Evidence(c)' => Evidence(c) \/ phase # "prepare"
    BY <1>1, <1>4, <1>7, <1>10, RequestEvidence
  <2> QED
    BY <1>1, <1>5, <1>6, <2>1 DEF NotYet, phase
<1>13. Support(c) \in Nat /\ Support(c)' \in Nat
  BY <1>6, SupportType
<1>14. Shared' /\ Counted(c)'
  <2>1. CASE phase = "prepare"
    <3>1. Support(c) = thread[c].count /\ Support(c)' = thread[c].count + k
      BY <1>5, <1>6, <1>12, <2>1 DEF Support, PastFirst, Won, NotYet, phase
    <3>2. Shared'
      <4>1. CASE k = 1
        BY <1>5, <1>6, <1>7, <1>8, <1>11, <1>13, <2>1, <3>1, <4>1, SharedKept
      <4>2. CASE k = 0
        <5>1. Support(c)' = Support(c)
          BY <1>13, <3>1, <4>2
        <5> QED
          BY <1>5, <1>6, <1>8, <1>11, <1>13, <5>1, SharedKept
      <4> QED
        BY <1>2, <4>1, <4>2
    <3>3. Counted(c)'
      BY <1>5, <1>6, <2>1 DEF Counted
    <3> QED
      BY <3>2, <3>3
  <2>2. CASE phase = "accept"
    <3>1. Support(c)' = Support(c)
      BY <1>5, <1>6, <2>2 DEF Support, PastFirst, Won, phase
    <3>2. Shared'
      BY <1>5, <1>6, <1>8, <1>11, <1>13, <3>1, SharedKept
    <3> DEFINE S == AskedNodes(c) \cap Held(c)
               T == AskedNodes(c)' \cap Held(c)'
    <3>3. Held(c) \subseteq Held(c)'
      <4>1. PastFirst(c)
        BY <1>9, <2>2
      <4> QED
        BY <1>4, <1>5, <1>6, <1>7, <1>9, <4>1, HeldGrows
    <3>4. S \in SUBSET Members /\ T \in SUBSET Members /\ S \subseteq T
      BY <1>7, <3>3 DEF Held
    <3>5. k = 1 => p \in T \ S
      <4> SUFFICES ASSUME k = 1 PROVE p \in Held(c)'
        BY <1>7
      <4>1. node[p].acceptor \in AcceptorState /\ node[p].acceptor.accepted.id <= node[p].acceptor.promised
        BY <1>7 DEF NodesOK, NodeState
      <4>2. node'[p].acceptor.accepted = [id |-> thread[c].id, value |-> {c}]
        BY <1>1, <1>2, <1>8, <2>2, <4>1, ProcessedKeeps
      <4> QED
        BY <1>5, <1>6, <1>7, <4>2 DEF Held
    <3>6. Cardinality(S) \in Nat /\ Cardinality(T) \in Nat /\ thread[c].count \in Nat
      BY <1>1, <3>4, NodesFinite DEF ThreadState
    <3>7. Cardinality(S) + k <= Cardinality(T)
      BY <1>2, <3>4, <3>5, <3>6, NodesCounted
    <3>8. thread[c].count <= Cardinality(S)
      BY <2>2 DEF HeldEnough, Counted, phase
    <3>9. thread'[c].count <= Cardinality(T) /\ thread'[c].at = "accept"
      <4> HIDE DEF S, T
      <4> QED
        BY <1>2, <1>5, <1>6, <2>2, <3>6, <3>7, <3>8
    <3>10. Counted(c)'
      BY <3>9 DEF Counted
    <3> QED
      BY <3>2, <3>10
  <2> QED
    BY <1>1, <2>1, <2>2 DEF phase
<1>15. LateOK'
  BY <1>4 DEF LateOK
<1> QED
  BY <1>6, <1>8, <1>11, <1>12, <1>14, <1>15, InvariantKept
\* Asking its own acceptor last (run_proposal) keeps the invariant: who has a majority
\* of promises has won, and who has one of acceptances is held by it.
LEMMA OwnAcceptorKeeps ==
  ASSUME DistributedInv, NEW c \in Commands, OwnAcceptor(c)
  PROVE  DistributedInv'
<1> DEFINE n     == thread[c].node
           phase == thread[c].at
           k     == Counts(c, n)
           count == thread[c].count + k
           next  == IF count < Majority(n) THEN "failed" ELSE IF phase = "prepare" THEN "accept" ELSE "learn"
           t     == [thread[c] EXCEPT !.at = next, !.asked = 0, !.count = 0]
<1> USE DEF DistributedInv
<1>1. /\ thread[c] \in ThreadState /\ phase \in {"prepare", "accept"} /\ n \in Members
      /\ thread[c].id \in Nat /\ thread[c].count \in Nat
  BY DEF OwnAcceptor, ThreadsOK, ThreadState
<1>2. k \in {0, 1} /\ (k = 1 => Agrees(node[n].acceptor, phase, c))
  BY DEF Counts
<1>3. thread' = [thread EXCEPT ![c] = t]
  BY DEF OwnAcceptor
<1>4. node' = [node EXCEPT ![n].acceptor = Processed(@, phase, c)] /\ late' = late
  BY DEF OwnAcceptor
<1> HIDE DEF k
<1>5. /\ next \in {"failed", "accept", "learn"}
      /\ next # "failed" => Half <= count
      /\ next = "accept" => phase = "prepare"
      /\ next = "learn" => phase = "accept"
  <2>1. Majority(n) = Half /\ Half \in Nat
    BY <1>1, MajorityIsHalf, NodesFinite
  <2> QED
    BY <1>1, <1>2, <2>1
<1> HIDE DEF next
<1>6. t \in ThreadState /\ t.at = next /\ t.node = n /\ t.count = 0 /\ t.id = thread[c].id
  BY <1>1, <1>5 DEF ThreadState
<1> HIDE DEF t
<1>7. ThreadsOK' /\ thread'[c] = t /\ \A d \in Commands \ {c} : thread'[d] = thread[d]
  BY <1>1, <1>3, <1>5, <1>6, ThreadMoves
<1> HIDE DEF phase
<1>8. /\ NodesOK' /\ node'[n].acceptor = Processed(node[n].acceptor, phase, c)
      /\ \A id \in Nat : Reached(id) \subseteq ReachedIn(node', id)
      /\ phase = "prepare" /\ k = 1 => n \notin Reached(thread[c].id) /\ n \in ReachedIn(node', thread[c].id)
  BY <1>1, <1>2, <1>4, RequestAdds
<1>9. phase = "prepare" \/ PastFirst(c)
  BY <1>1 DEF PastFirst, Won, phase
<1>10. late' \subseteq late \cup {[to |-> n, phase |-> phase, command |-> c]}
  BY <1>4
<1>11. \A d \in Commands \ {c} : /\ Support(d)' <= Support(d)
                                 /\ thread'[d].at \in {"connecting", "counted", "prepare"} => ~Evidence(d)'
                                 /\ Counted(d)'
  BY <1>1, <1>4, <1>7, <1>9, <1>10, OthersKeep
<1>12. /\ thread'[c].at \in {"connecting", "counted", "prepare"} => ~Evidence(c)'
       /\ phase = "prepare" => ~Evidence(c)'
  <2>1. Evidence(c)' => Evidence(c) \/ phase # "prepare"
    BY <1>1, <1>4, <1>10, RequestEvidence
  <2> QED
    BY <1>5, <1>6, <1>7, <2>1 DEF NotYet, phase
<1>13. Support(c) \in Nat /\ Support(c)' \in Nat /\ Half \in Nat
  BY <1>7, SupportType, NodesFinite
<1>14. Shared'
  <2>1. CASE phase = "prepare"
    <3>1. Support(c) = thread[c].count
      BY <2>1 DEF Support, PastFirst, Won, NotYet, phase
    <3>2. Support(c)' = 0 \/ (Support(c)' = Half /\ Half <= count)
      BY <1>5, <1>6, <1>7, <1>12, <2>1 DEF Support, PastFirst, Won
    <3>3. Support(c)' = 0 \/ Support(c)' <= Support(c) + k
      BY <3>1, <3>2
    <3>4. CASE Support(c)' = 0
      BY <1>7, <1>8, <1>11, <3>4, SharedKept
    <3>5. CASE k = 0 /\ Support(c)' <= Support(c)
      BY <1>6, <1>7, <1>8, <1>11, <3>5, SharedKept
    <3>6. CASE k = 1 /\ Support(c)' <= Support(c) + 1
      BY <1>1, <1>6, <1>7, <1>8, <1>11, <2>1, <3>6, SharedKept
    <3> QED
      BY <1>2, <1>13, <3>3, <3>4, <3>5, <3>6
  <2>2. CASE phase = "accept"
    <3>1. Support(c) = Half
      BY <2>2 DEF Support, PastFirst, Won, phase
    <3>2. Support(c)' = 0 \/ Support(c)' = Half
      BY <1>5, <1>6, <1>7 DEF Support, PastFirst, Won
    <3>3. Support(c)' <= Support(c)
      BY <1>13, <3>1, <3>2
    <3> QED
      BY <1>6, <1>7, <1>8, <1>11, <3>3, SharedKept
  <2> QED
    BY <1>1, <2>1, <2>2 DEF phase
<1>15. Counted(c)'
  <2>1. CASE next = "failed"
    BY <1>6, <1>7, <2>1 DEF Counted
  <2>2. CASE next = "accept"
    <3>1. (AskedNodes(c) \cap Held(c))' \in SUBSET Members
      BY DEF Held
    <3>2. 0 <= Cardinality((AskedNodes(c) \cap Held(c))')
      BY <3>1, NodesFinite
    <3> QED
      BY <1>6, <1>7, <2>2, <3>2 DEF Counted
  <2>3. CASE next = "learn"
    <3> DEFINE S == AskedNodes(c) \cap Held(c)
               T == Held(c)'
    <3>1. phase = "accept"
      BY <1>5, <2>3
    <3>2. Held(c) \subseteq T
      <4>1. PastFirst(c)
        BY <1>9, <3>1
      <4> QED
        BY <1>1, <1>4, <1>6, <1>7, <1>9, <4>1, HeldGrows
    <3>3. S \in SUBSET Members /\ T \in SUBSET Members /\ S \subseteq T
      BY <3>2 DEF Held
    <3>4. k = 1 => n \in T \ S
      <4> SUFFICES ASSUME k = 1 PROVE n \in Held(c)'
        BY <1>1, OwnIsNew
      <4>1. node[n].acceptor \in AcceptorState /\ node[n].acceptor.accepted.id <= node[n].acceptor.promised
        BY <1>1 DEF NodesOK, NodeState
      <4>2. node'[n].acceptor.accepted = [id |-> thread[c].id, value |-> {c}]
        BY <1>1, <1>2, <1>8, <3>1, <4>1, ProcessedKeeps
      <4> QED
        BY <1>1, <1>6, <1>7, <4>2 DEF Held
    <3>5. Cardinality(S) \in Nat /\ Cardinality(T) \in Nat
      BY <3>3, NodesFinite
    <3>6. Cardinality(S) + k <= Cardinality(T)
      BY <1>2, <3>3, <3>4, <3>5, NodesCounted
    <3>7. thread[c].count <= Cardinality(S)
      BY <3>1 DEF HeldEnough, Counted, phase
    <3>8. Half <= Cardinality(T)
      <4> HIDE DEF S, T
      <4> QED
        BY <1>1, <1>2, <1>5, <1>13, <2>3, <3>5, <3>6, <3>7
    <3> QED
      BY <1>6, <1>7, <2>3, <3>8 DEF Counted
  <2> QED
    BY <1>5, <2>1, <2>2, <2>3
<1>16. LateOK'
  BY <1>4 DEF LateOK
<1> QED
  BY <1>7, <1>8, <1>11, <1>12, <1>14, <1>15, <1>16, InvariantKept

\* Learning the value at the end (run_proposal) keeps the invariant.
LEMMA LearnKeeps ==
  ASSUME DistributedInv, NEW c \in Commands, Learn(c)
  PROVE  DistributedInv'
<1> DEFINE t == [thread[c] EXCEPT !.at = "succeeded"]
           n == thread[c].node
<1> USE DEF DistributedInv
<1>1. thread[c] \in ThreadState /\ thread[c].at = "learn" /\ n \in Members /\ thread[c].id \in Nat
  BY DEF Learn, ThreadsOK, ThreadState
<1>2. t \in ThreadState /\ t.at = "succeeded" /\ t.node = n /\ t.id = thread[c].id
  BY <1>1 DEF ThreadState
<1>3. thread' = [thread EXCEPT ![c] = t]
  BY DEF Learn
<1> HIDE DEF t
<1>4. ThreadsOK' /\ thread'[c] = t /\ \A d \in Commands \ {c} : thread'[d] = thread[d]
  BY <1>1, <1>2, <1>3, ThreadMoves
<1>5. node' = [node EXCEPT ![n].acceptor = Processed(@, "accept", c)] /\ late' = late
  BY DEF Learn, Processed
<1>6. NodesOK' /\ LateOK' /\ \A id \in Nat : Reached(id) \subseteq ReachedIn(node', id)
  BY <1>1, <1>5, RequestAdds DEF LateOK
<1>7. PastFirst(c) /\ late' \subseteq late \cup {[to |-> n, phase |-> "accept", command |-> c]}
  BY <1>1, <1>5 DEF PastFirst, Won
<1>8. \A d \in Commands \ {c} : /\ Support(d)' <= Support(d)
                                /\ thread'[d].at \in {"connecting", "counted", "prepare"} => ~Evidence(d)'
                                /\ Counted(d)'
  BY <1>1, <1>4, <1>5, <1>7, OthersKeep
<1>9. Shared'
  <2>1. Support(c)' = Half /\ Support(c) = Half /\ Half \in Nat
    BY <1>1, <1>2, <1>4, NodesFinite DEF Support, PastFirst, Won
  <2> QED
    BY <1>2, <1>4, <1>6, <1>8, <2>1, SharedKept
<1>10. Counted(c)'
  <2>1. Held(c) \subseteq Held(c)'
    BY <1>1, <1>2, <1>4, <1>5, <1>7, HeldGrows
  <2>2. Held(c) \in SUBSET Members /\ Held(c)' \in SUBSET Members
    BY DEF Held
  <2>3. Cardinality(Held(c)) <= Cardinality(Held(c)')
    BY <2>1, <2>2, NodesCounted
  <2>4. Half <= Cardinality(Held(c))
    BY <1>1 DEF HeldEnough, Counted
  <2>5. Cardinality(Held(c)) \in Nat /\ Cardinality(Held(c)') \in Nat /\ Half \in Nat
    BY <2>2, NodesFinite
  <2> QED
    BY <1>2, <1>4, <2>3, <2>4, <2>5 DEF Counted
<1> QED
  BY <1>2, <1>4, <1>6, <1>8, <1>9, <1>10, InvariantKept

\* A request that is handled after its sender has given up keeps the invariant: it was
\* sent by one that had won, if it is one to accept.
LEMMA HandleLateKeeps ==
  ASSUME DistributedInv, NEW m \in late, HandleLate(m)
  PROVE  DistributedInv'
<1> DEFINE p == m.to
           c == m.command
           phase == m.phase
<1> USE DEF DistributedInv
<1>1. p \in Members /\ c \in Commands /\ phase \in {"prepare", "accept"}
  BY DEF LateOK, Requests
<1>2. thread[c].id \in Nat
  BY <1>1 DEF ThreadsOK, ThreadState
<1>3. phase = "prepare" \/ PastFirst(c)
  BY <1>1 DEF PastFirst, Evidence
<1>4. /\ node' = [node EXCEPT ![p].acceptor = Processed(@, phase, c)] /\ thread' = thread
      /\ late' \subseteq late \cup {[to |-> p, phase |-> phase, command |-> c]} /\ late' \subseteq late
  BY DEF HandleLate
<1> HIDE DEF p, c, phase
<1>5. NodesOK' /\ LateOK' /\ ThreadsOK' /\ \A id \in Nat : Reached(id) \subseteq ReachedIn(node', id)
  BY <1>1, <1>2, <1>4, RequestAdds DEF LateOK, ThreadsOK
<1>6. \A d \in Commands : /\ Support(d)' <= Support(d)
                          /\ thread'[d].at \in {"connecting", "counted", "prepare"} => ~Evidence(d)'
                          /\ Counted(d)'
  BY <1>1, <1>3, <1>4, <1>5, OthersKeep
<1>7. Shared'
  BY <1>1, <1>4, <1>5, <1>6, SharedKept
<1> QED
  BY <1>1, <1>5, <1>6, <1>7, InvariantKept

----------------------------------------------------------------------------
\* The invariant holds when the nodes start.
LEMMA InitKeeps == DistributedInit => DistributedInv
<1> SUFFICES ASSUME DistributedInit PROVE DistributedInv
  OBVIOUS
<1>1. NodesOK /\ \A n \in Members : node[n].acceptor.accepted.value = {}
  <2>1. NewNode \in NodeState /\ NewNode.acceptor.accepted = [id |-> 0, value |-> {}] /\ NewNode.acceptor.promised = 0
    BY DEF NewNode, NewAcceptor, NoCommand, NodeState, AcceptorState
  <2> QED
    BY <2>1 DEF DistributedInit, NodesOK
<1>2. ThreadsOK /\ LateOK /\ \A c \in Commands : thread[c].at = "connecting"
  <2>1. NewThread \in ThreadState /\ NewThread.at = "connecting" /\ NewThread.count = 0
    BY DEF NewThread, ThreadState
  <2> QED
    BY <2>1 DEF DistributedInit, ThreadsOK, LateOK
<1>3. \A c \in Commands : ~Evidence(c)
  BY <1>1 DEF DistributedInit, Evidence
<1>4. NotYet /\ HeldEnough
  BY <1>2, <1>3 DEF NotYet, HeldEnough, Counted
<1>5. Shared
  <2>1. \A c \in Commands : Support(c) = 0
    BY <1>2, <1>3 DEF Support, PastFirst, Won
  <2>2. \A c \in Commands : Reached(thread[c].id) \in SUBSET Members
    BY DEF Reached, ReachedIn
  <2>3. \A c \in Commands : Cardinality(Reached(thread[c].id)) \in Nat
    BY <2>2, NodesFinite
  <2> QED
    BY <2>1, <2>3 DEF Shared
<1> QED
  BY <1>1, <1>2, <1>4, <1>5 DEF DistributedInv

\* At no time do proposals of one number have more acceptors' promises between
\* them than there are acceptors, and what they count is held (distributed.rs
\* run_proposal).
THEOREM DistributedInvariant == DistributedSpec => []DistributedInv
<1>1. DistributedInv /\ [DistributedNext]_distributedVars => DistributedInv'
  <2> SUFFICES ASSUME DistributedInv, [DistributedNext]_distributedVars
               PROVE  DistributedInv'
    OBVIOUS
  <2>1. CASE \E c \in Commands, n \in Members : Count(c, n)
    BY <2>1, CountKeeps
  <2>2. CASE \E c \in Commands : Number(c)
    BY <2>2, NumberKeeps
  <2>3. CASE \E c \in Commands : Exchange(c)
    BY <2>3, ExchangeKeeps
  <2>4. CASE \E c \in Commands : Unanswered(c)
    BY <2>4, UnansweredKeeps
  <2>5. CASE \E c \in Commands : OwnAcceptor(c)
    BY <2>5, OwnAcceptorKeeps
  <2>6. CASE \E c \in Commands : Learn(c)
    BY <2>6, LearnKeeps
  <2>7. CASE \E m \in late : HandleLate(m)
    BY <2>7, HandleLateKeeps
  <2>8. CASE UNCHANGED distributedVars
    <3>1. NodesOK' /\ ThreadsOK' /\ LateOK'
      BY <2>8 DEF distributedVars, DistributedInv, NodesOK, ThreadsOK, LateOK
    <3>2. \A c \in Commands : /\ (Evidence(c)' <=> Evidence(c)) /\ (PastFirst(c)' <=> PastFirst(c))
                              /\ Held(c)' = Held(c) /\ AskedNodes(c)' = AskedNodes(c)
                              /\ Reached(thread[c].id)' = Reached(thread[c].id)
      BY <2>8 DEF distributedVars, Evidence, PastFirst, Held, AskedNodes, Reached, ReachedIn
    <3>3. NotYet' /\ HeldEnough'
      BY <2>8, <3>2 DEF distributedVars, DistributedInv, NotYet, HeldEnough, Counted
    <3>4. \A c \in Commands : Support(c)' = Support(c)
      BY <2>8, <3>2 DEF distributedVars, Support
    <3>5. Shared'
      BY <2>8, <3>2, <3>4 DEF distributedVars, DistributedInv, Shared
    <3> QED
      BY <3>1, <3>3, <3>5 DEF DistributedInv
  <2> QED
    BY <2>1, <2>2, <2>3, <2>4, <2>5, <2>6, <2>7, <2>8 DEF DistributedNext
<1> QED
  BY <1>1, InitKeeps, PTL DEF DistributedSpec

\* Of the proposals that share a number only one gets past its first phase
\* (distributed.rs run_proposal, acceptor.rs prepare).
THEOREM OneWinnerPerNumberHolds == DistributedSpec => []OneWinnerPerNumber
<1>1. DistributedInv => OneWinnerPerNumber
  BY OnePastFirst DEF DistributedInv, OneWinnerPerNumber, PastFirst, Won
<1> QED
  BY <1>1, DistributedInvariant, PTL

\* A command that is reported as accepted is with a majority of the nodes, but for those
\* that have accepted under a higher number since; requests handled late included
\* (distributed.rs run_proposal).
THEOREM SuccessIsHeldHolds == DistributedSpec => []SuccessIsHeld
<1>1. DistributedInv => SuccessIsHeld
  <2> SUFFICES ASSUME DistributedInv, NEW c \in Commands, thread[c].at \in {"learn", "succeeded"}
               PROVE  MoreThanHalf(Cardinality(Held(c)))
    BY DEF SuccessIsHeld, Held
  <2>1. Half <= Cardinality(Held(c))
    BY DEF DistributedInv, HeldEnough, Counted
  <2>2. Held(c) \in SUBSET Members
    BY DEF Held
  <2>3. Cardinality(Held(c)) \in Nat /\ Cardinality(Members) \in Nat
    BY <2>2, NodesFinite
  <2> QED
    BY <2>1, <2>3 DEF MoreThanHalf, Half
<1> QED
  BY <1>1, DistributedInvariant, PTL
----------------------------------------------------------------------------
(* The prototype in memory.  What is reported as accepted is what the      *)
(* learner finds, since no acceptor that works is ever behind.             *)

MemoryState == [promised : Nat, accepted : [id : Nat, value : SUBSET Texts]]

MemoryOK == /\ acceptors \in [Members -> MemoryState]
            /\ store \in [Keys -> SUBSET Items]
            /\ proposal.id \in Nat

\* Nobody has promised a number that was not used yet, and those that refuse
\* everything have nothing.
NobodyAhead == \A a \in Members : acceptors[a].promised <= proposal.id
NothingOfFailing == \A a \in Failing : acceptors[a] = NewAcceptor

MemoryInv == MemoryOK /\ NobodyAhead /\ NothingOfFailing /\ SuccessIsLearned

\* The acceptors after the two phases of a proposal (main_basic.rs).
PreparedBy(id)    == [a \in Members |-> IF a \in Members \ Failing THEN WithPromise(acceptors[a], id) ELSE acceptors[a]]
AcceptedBy(id, c) == [a \in Members |-> IF a \in Members \ Failing THEN WithAccepted(PreparedBy(id)[a], id, c)
                                                                  ELSE PreparedBy(id)[a]]

\* Every acceptor that works promises the next number and accepts under it
\* (acceptor.rs prepare, accept).
LEMMA WorkingAccept ==
  ASSUME MemoryOK, NobodyAhead, NEW c \in Texts, NEW id, id = proposal.id + 1
  PROVE  /\ PreparedBy(id) \in [Members -> MemoryState]
         /\ AcceptedBy(id, c) \in [Members -> MemoryState]
         /\ \A a \in Members : PreparedBy(id)[a].promised <= id /\ AcceptedBy(id, c)[a].promised <= id
         /\ \A a \in Members \ Failing : /\ Promises(acceptors[a], id) /\ Accepts(PreparedBy(id)[a], id)
                                         /\ AcceptedBy(id, c)[a].accepted = [id |-> id, value |-> {c}]
         /\ \A a \in Failing : PreparedBy(id)[a] = acceptors[a] /\ AcceptedBy(id, c)[a] = acceptors[a]
<1> DEFINE promise(a)  == [acceptors[a] EXCEPT !.promised = id]
           accepts(a)  == [promise(a) EXCEPT !.accepted = [id |-> id, value |-> {c}]]
<1>1. id \in Nat /\ \A a \in Members : acceptors[a] \in MemoryState /\ acceptors[a].promised < id
  BY DEF MemoryOK, NobodyAhead, MemoryState
<1>2. \A a \in Members : /\ promise(a) \in MemoryState /\ promise(a).promised = id
                         /\ accepts(a) \in MemoryState /\ accepts(a).promised = id
                         /\ accepts(a).accepted = [id |-> id, value |-> {c}]
  BY <1>1 DEF MemoryState
<1>3. \A a \in Members : Promises(acceptors[a], id) /\ WithPromise(acceptors[a], id) = promise(a)
  BY <1>1 DEF Promises, WithPromise
<1>4. \A a \in Members : Accepts(promise(a), id) /\ WithAccepted(promise(a), id, c) = accepts(a)
  BY <1>2 DEF Accepts, WithAccepted
<1>5. /\ PreparedBy(id) = [a \in Members |-> IF a \in Members \ Failing THEN promise(a) ELSE acceptors[a]]
      /\ AcceptedBy(id, c) = [a \in Members |-> IF a \in Members \ Failing THEN accepts(a) ELSE acceptors[a]]
  BY <1>3, <1>4 DEF PreparedBy, AcceptedBy
<1>6. Failing \subseteq Members
  BY MembersAssumption
<1> HIDE DEF promise, accepts
<1>7. \A a \in Members : acceptors[a].promised <= id
  BY <1>1 DEF MemoryState
<1>8. /\ PreparedBy(id) \in [Members -> MemoryState]
      /\ \A a \in Members : PreparedBy(id)[a].promised <= id
  BY <1>1, <1>2, <1>5, <1>7
<1>9. /\ AcceptedBy(id, c) \in [Members -> MemoryState]
      /\ \A a \in Members : AcceptedBy(id, c)[a].promised <= id
  BY <1>1, <1>2, <1>5, <1>7
<1>10. \A a \in Members \ Failing : /\ Promises(acceptors[a], id) /\ Accepts(PreparedBy(id)[a], id)
                                     /\ AcceptedBy(id, c)[a].accepted = [id |-> id, value |-> {c}]
  BY <1>2, <1>3, <1>4, <1>5
<1>11. \A a \in Failing : PreparedBy(id)[a] = acceptors[a] /\ AcceptedBy(id, c)[a] = acceptors[a]
  BY <1>5, <1>6
<1> QED
  BY <1>8, <1>9, <1>10, <1>11

\* A learner that looks at acceptors of which a majority holds one command and the
\* others nothing finds that command (learner.rs learn).
LEMMA LearnedIsIt ==
  ASSUME NEW group \in [Members -> MemoryState], NEW c \in Texts, NEW id \in Nat, NEW W \in SUBSET Members, MoreThanHalf(Cardinality(W)),
         \A a \in W : group[a].accepted = [id |-> id, value |-> {c}],
         \A a \in Members \ W : group[a].accepted = NoCommand
  PROVE  Learned(group) = {[id |-> id, value |-> {c}]}
<1> DEFINE supporters(v) == {a \in Members : group[a].accepted.value = v}
           chosen == {v \in {group[a].accepted.value : a \in Members} :
                        v # {} /\ 2 * Cardinality(supporters(v)) > Cardinality(Members)}
<1>1. \A a \in Members \ W : group[a].accepted.value = {}
  <2>1. NoCommand.value = {}
    BY DEF NoCommand
  <2> QED
    BY <2>1
<1>2. supporters({c}) = W
  BY <1>1
<1>3. W # {}
  BY FS_EmptySet, NodesFinite DEF MoreThanHalf
<1>4. chosen = {{c}}
  <2>1. {c} \in chosen
    BY <1>2, <1>3 DEF MoreThanHalf
  <2>2. \A v \in chosen : v = {c}
    BY <1>1
  <2> QED
    BY <2>1, <2>2
<1>5. Learned(group) = IF chosen = {} THEN {NoCommand}
                    ELSE {group[a].accepted : a \in UNION {supporters(v) : v \in chosen}}
  BY DEF Learned
<1> HIDE DEF supporters, chosen
<1>6. UNION {supporters(v) : v \in chosen} = W
  BY <1>2, <1>4
<1> QED
  BY <1>3, <1>4, <1>5, <1>6

\* Applying a command twice does what applying it once does (kv store, set).
LEMMA ApplyTwice ==
  ASSUME NEW s \in [Keys -> SUBSET Items], NEW c \in Texts
  PROVE  Apply(s, c) \in [Keys -> SUBSET Items] /\ Apply(Apply(s, c), c) = Apply(s, c)
<1>1. CASE IsSet(c)
  <2>1. PICK verb \in {"SET", "set"}, k \in Keys, v \in Items : c = <<verb, k, v>>
    BY <1>1 DEF Texts, IsSet
  <2>2. c[2] = k /\ c[3] = v
    BY <2>1
  <2>3. \A r : Apply(r, c) = [r EXCEPT ![k] = {v}]
    BY <1>1, <2>2 DEF Apply
  <2> QED
    BY <2>3
<1>2. CASE ~IsSet(c)
  BY <1>2 DEF Apply
<1> QED
  BY <1>1, <1>2

\* One proposal keeps the invariant, whether it succeeds or not.
LEMMA ProposeKeeps ==
  ASSUME MemoryInv, NEW c \in Texts, Propose(c)
  PROVE  MemoryInv'
<1> DEFINE id       == proposal.id + 1
           W        == Members \ Failing
           prepared == PreparedBy(id)
           accepted == AcceptedBy(id, c)
           promised == MoreThanHalf(Cardinality({a \in W : Promises(acceptors[a], id)}))
           success  == promised /\ MoreThanHalf(Cardinality({a \in W : Accepts(prepared[a], id)}))
<1> USE DEF MemoryInv
<1>1. /\ acceptors' = IF promised THEN accepted ELSE prepared
      /\ \E l \in IF success THEN Learned(acceptors') ELSE {NoCommand} :
           /\ proposal' = [id |-> id, value |-> {c}, success |-> success, learned |-> l]
           /\ store' = IF l = NoCommand THEN store ELSE Apply(store, CHOOSE d \in l.value : TRUE)
  BY DEF Propose, PreparedBy, AcceptedBy
<1>2. /\ prepared \in [Members -> MemoryState] /\ accepted \in [Members -> MemoryState]
      /\ \A a \in Members : prepared[a].promised <= id /\ accepted[a].promised <= id
      /\ \A a \in W : /\ Promises(acceptors[a], id) /\ Accepts(prepared[a], id)
                      /\ accepted[a].accepted = [id |-> id, value |-> {c}]
      /\ \A a \in Failing : prepared[a] = acceptors[a] /\ accepted[a] = acceptors[a]
  BY WorkingAccept
<1>3. id \in Nat /\ proposal'.id = id
  BY <1>1 DEF MemoryOK
<1>4. {a \in W : Accepts(prepared[a], id)} = W
  BY <1>2
<1> HIDE DEF id, prepared, accepted, promised
<1>5. acceptors' \in [Members -> MemoryState] /\ NobodyAhead' /\ NothingOfFailing'
  <2>1. acceptors' \in {prepared, accepted}
    BY <1>1
  <2>2. \A a \in Failing : acceptors'[a] = acceptors[a]
    BY <1>2, <2>1
  <2> QED
    BY <1>2, <1>3, <2>1, <2>2 DEF NobodyAhead, NothingOfFailing
<1>6. CASE success
  <2>1. acceptors' = accepted /\ MoreThanHalf(Cardinality(W))
    BY <1>1, <1>4, <1>6
  <2>2. Learned(accepted) = {[id |-> id, value |-> {c}]}
    <3>1. \A a \in Members \ W : accepted[a].accepted = NoCommand
      BY <1>2, MembersAssumption DEF NothingOfFailing, NewAcceptor
    <3>2. \A a \in W : accepted[a].accepted = [id |-> id, value |-> {c}]
      BY <1>2
    <3>3. W \in SUBSET Members
      OBVIOUS
    <3> HIDE DEF W
    <3> QED
      BY <1>2, <1>3, <2>1, <3>1, <3>2, <3>3, LearnedIsIt
  <2> DEFINE l == [id |-> id, value |-> {c}]
  <2>3. /\ proposal' = [id |-> id, value |-> {c}, success |-> success, learned |-> l]
        /\ store' = IF l = NoCommand THEN store ELSE Apply(store, CHOOSE d \in l.value : TRUE)
    BY <1>1, <1>6, <2>1, <2>2
  <2>4. l # NoCommand /\ (CHOOSE d \in l.value : TRUE) = c
    BY DEF NoCommand
  <2>5. store' = Apply(store, c)
    BY <2>3, <2>4
  <2>6. store' \in [Keys -> SUBSET Items] /\ Apply(store', c) = store'
    BY <2>5, ApplyTwice DEF MemoryOK
  <2>7. SuccessIsLearned'
    BY <2>3, <2>6 DEF SuccessIsLearned
  <2> QED
    BY <1>3, <1>5, <2>6, <2>7 DEF MemoryOK
<1>7. CASE ~success
  <2>1. /\ proposal' = [id |-> id, value |-> {c}, success |-> success, learned |-> NoCommand] /\ store' = store
    BY <1>1, <1>7
  <2>2. ~proposal'.success
    BY <1>7, <2>1
  <2> QED
    BY <1>3, <1>5, <2>1, <2>2 DEF MemoryOK, SuccessIsLearned
<1> QED
  BY <1>6, <1>7

\* What is reported as accepted by a majority is what the learner finds then, and the
\* store has been through it (main_basic.rs run; integration_test.rs).
THEOREM SuccessIsLearnedHolds == BasicSpec => []SuccessIsLearned
<1>1. BasicInit => MemoryInv
  <2> SUFFICES ASSUME BasicInit PROVE MemoryInv
    OBVIOUS
  <2>1. NewAcceptor \in MemoryState /\ NewAcceptor.promised = 0
    BY DEF NewAcceptor, NoCommand, MemoryState
  <2>2. proposal.id = 0 /\ ~proposal.success /\ Failing \subseteq Members
    BY MembersAssumption DEF BasicInit
  <2> QED
    BY <2>1, <2>2 DEF BasicInit, MemoryInv, MemoryOK, NobodyAhead, NothingOfFailing, SuccessIsLearned
<1>2. MemoryInv /\ [BasicNext]_basicVars => MemoryInv'
  <2>1. ASSUME MemoryInv, BasicNext PROVE MemoryInv'
    BY <2>1, ProposeKeeps DEF BasicNext
  <2>2. ASSUME MemoryInv, UNCHANGED basicVars PROVE MemoryInv'
    BY <2>2 DEF basicVars, MemoryInv, MemoryOK, NobodyAhead, NothingOfFailing, SuccessIsLearned
  <2> QED
    BY <2>1, <2>2
<1>3. MemoryInv => SuccessIsLearned
  BY DEF MemoryInv
<1> QED
  BY <1>1, <1>2, <1>3, PTL DEF BasicSpec
----------------------------------------------------------------------------
(* The prototype over channels.  Answers do not say whose they are; what   *)
(* the proposer has counted are different acceptors all the same, since    *)
(* each is asked once to accept and answers once.                          *)

Replies    == [kind : {"promise", "accepted"}, ok : BOOLEAN]
Okay       == [kind |-> "accepted", ok |-> TRUE]
PeerAcceptor == [promised : Nat, accepted : [id : Nat, value : SUBSET {ProposalValue}]]
PeerState  == [acceptor : PeerAcceptor, reply : Seq(Replies), at : {"running", "learned", "panicked"}]
Phases     == {"prepare", "accept", "learn"}

ChannelsOK == /\ channel = [n \in Members \cup {Proposer} |-> channel[n]]
              /\ \A a \in Members : channel[a] \in Seq(Phases)
              /\ channel[Proposer] \in Seq(Replies)
PeersOK    == /\ peer \in [Members -> PeerState]
              /\ \A a \in Members : peer[a].reply = <<>> \/ \E m \in Replies : peer[a].reply = <<m>>
ProposerOK == proposer \in [at : Phases \cup {"aborted", "done"}, sent : Nat, received : Nat, count : Nat]

\* The acceptors that have accepted, and those that the proposer has not asked to.
HasAccepted(a) == peer[a].acceptor.accepted.value = {ProposalValue}
NotAsked(a) == \/ proposer.at = "prepare"
               \/ proposer.at = "accept" /\ a \notin {Order[i] : i \in {j \in 1 .. Len(Order) : j <= proposer.sent}}
Requested(a) == \E i \in 1 .. Len(channel[a]) : channel[a][i] = "accept"

AskedOnce == \A a \in Members :
  /\ NotAsked(a) => ~Requested(a) /\ ~HasAccepted(a)
  /\ Requested(a) => ~HasAccepted(a)
  /\ \A i, j \in 1 .. Len(channel[a]) : channel[a][i] = "accept" /\ channel[a][j] = "accept" => i = j

\* The acceptances that are on their way, about to be sent, or counted.
OkayIn(s) == {i \in 1 .. Len(s) : s[i] = Okay}
AboutTo   == {a \in Members : peer[a].reply = <<Okay>>}
Counting  == IF proposer.at = "accept" THEN proposer.count ELSE 0
Accepting == {a \in Members : HasAccepted(a)}
EachCounted == Cardinality(OkayIn(channel[Proposer])) + Cardinality(AboutTo) + Counting <= Cardinality(Accepting)
MajorityHas == proposer.at \in {"learn", "done"} => Enough <= Cardinality(Accepting)

SimulationInv == ChannelsOK /\ PeersOK /\ ProposerOK /\ AskedOnce /\ EachCounted /\ MajorityHas

\* The acceptances in a sequence of answers are finitely many, and a new answer
\* adds itself.
LEMMA OkayAppend ==
  ASSUME NEW s \in Seq(Replies), NEW m \in Replies
  PROVE  /\ Cardinality(OkayIn(s)) \in Nat
         /\ Cardinality(OkayIn(s \o <<m>>)) = Cardinality(OkayIn(s)) + IF m = Okay THEN 1 ELSE 0
<1> DEFINE n == Len(s)
<1>1. n \in Nat /\ IsFiniteSet(1 .. n)
  BY FS_Interval
<1>2. OkayIn(s) \in SUBSET (1 .. n)
  BY DEF OkayIn
<1>3. IsFiniteSet(OkayIn(s)) /\ Cardinality(OkayIn(s)) \in Nat
  BY <1>1, <1>2, FS_Subset, FS_CardinalityType
<1>4. /\ Len(s \o <<m>>) = n + 1 /\ (s \o <<m>>)[n + 1] = m
      /\ \A i \in 1 .. n : (s \o <<m>>)[i] = s[i]
  OBVIOUS
<1>5. OkayIn(s \o <<m>>) = IF m = Okay THEN OkayIn(s) \cup {n + 1} ELSE OkayIn(s)
  BY <1>1, <1>4 DEF OkayIn
<1>6. n + 1 \notin OkayIn(s)
  BY <1>1, <1>2
<1>7. Cardinality(OkayIn(s) \cup {n + 1}) = Cardinality(OkayIn(s)) + 1
  <2> HIDE DEF n
  <2> QED
    BY <1>3, <1>6, FS_AddElement
<1> HIDE DEF n
<1>8. CASE m = Okay
  BY <1>3, <1>5, <1>7, <1>8
<1>9. CASE m # Okay
  BY <1>3, <1>5, <1>9
<1> QED
  BY <1>8, <1>9

\* Taking the first answer takes one acceptance if it is one.
LEMMA OkayTail ==
  ASSUME NEW s \in Seq(Replies), s # <<>>
  PROVE  /\ Head(s) \in Replies /\ Tail(s) \in Seq(Replies)
         /\ Cardinality(OkayIn(Tail(s))) \in Nat
         /\ Cardinality(OkayIn(Tail(s))) + (IF Head(s) = Okay THEN 1 ELSE 0) <= Cardinality(OkayIn(s))
<1> DEFINE n == Len(s)
           t == Tail(s)
           rest == OkayIn(s) \ {1}
<1>1. n \in Nat \ {0} /\ IsFiniteSet(1 .. n)
  BY FS_Interval
<1>2. OkayIn(s) \in SUBSET (1 .. n)
  BY DEF OkayIn
<1>3. IsFiniteSet(OkayIn(s)) /\ Cardinality(OkayIn(s)) \in Nat
  BY <1>1, <1>2, FS_Subset, FS_CardinalityType
<1>4. /\ Head(s) \in Replies /\ Tail(s) \in Seq(Replies) /\ Head(s) = s[1]
      /\ Len(t) = n - 1 /\ \A i \in 1 .. n - 1 : t[i] = s[i + 1]
  BY <1>1
<1>5. /\ IsFiniteSet(rest) /\ Cardinality(rest) \in Nat
      /\ Cardinality(rest) + (IF Head(s) = Okay THEN 1 ELSE 0) = Cardinality(OkayIn(s))
  <2>1. 1 \in OkayIn(s) <=> Head(s) = Okay
    BY <1>1, <1>4 DEF OkayIn
  <2> QED
    BY <1>3, <2>1, FS_RemoveElement, FS_CardinalityType
<1>6. [i \in OkayIn(t) |-> i + 1] \in Injection(OkayIn(t), rest)
  <2>1. \A i \in OkayIn(t) : i + 1 \in rest /\ i \in Int
    BY <1>1, <1>4 DEF OkayIn
  <2> QED
    BY <2>1 DEF Injection, IsInjective
<1>7. IsFiniteSet(OkayIn(t)) /\ Cardinality(OkayIn(t)) <= Cardinality(rest)
  BY <1>5, <1>6, FS_Injection
<1>8. Cardinality(OkayIn(t)) \in Nat
  BY <1>7, FS_CardinalityType
<1> HIDE DEF rest, t
<1> QED
  BY <1>3, <1>4, <1>5, <1>7, <1>8 DEF t

\* The acceptors are asked in an order without repetition (simulation.rs).
LEMMA OrderIsInjective ==
  /\ Len(Order) \in Nat /\ \A i \in 1 .. Len(Order) : Order[i] \in Members
  /\ \A i, j \in 1 .. Len(Order) : Order[i] = Order[j] => i = j
<1> DEFINE k == Cardinality(Members)
<1>1. k \in Nat /\ ExistsBijection(1 .. k, Members)
  BY MembersAssumption, FS_CardinalityType
<1>2. \E f \in [1 .. k -> Members] : IsInjective(f)
  BY <1>1 DEF ExistsBijection, Bijection, Injection
<1>3. Order \in [1 .. k -> Members] /\ IsInjective(Order)
  BY <1>2 DEF Order, SetToSeq
<1>4. Len(Order) = k
  BY <1>1, <1>3
<1> QED
  BY <1>1, <1>3, <1>4 DEF IsInjective

\* The numbers that are compared are numbers.
LEMMA CountsAreNumbers ==
  ASSUME ChannelsOK, ProposerOK
  PROVE  /\ Cardinality(OkayIn(channel[Proposer])) \in Nat /\ Cardinality(AboutTo) \in Nat
         /\ Counting \in Nat /\ Cardinality(Accepting) \in Nat /\ Enough \in Nat
         /\ AboutTo \in SUBSET Members /\ Accepting \in SUBSET Members
<1>1. AboutTo \in SUBSET Members /\ Accepting \in SUBSET Members
  BY DEF AboutTo, Accepting
<1>2. Cardinality(OkayIn(channel[Proposer])) \in Nat
  <2>1. [kind |-> "promise", ok |-> TRUE] \in Replies
    BY DEF Replies
  <2> QED
    BY <2>1, OkayAppend DEF ChannelsOK
<1>3. Counting \in Nat
  BY DEF Counting, ProposerOK
<1> QED
  BY <1>1, <1>2, <1>3, NodesFinite DEF Enough, Half

\* Sending to the next acceptor (proposer_node) keeps the invariant: nobody is asked
\* to accept twice.
LEMMA SendKeeps ==
  ASSUME SimulationInv, SendToNext
  PROVE  SimulationInv'
<1> DEFINE n == proposer.sent
<1> USE DEF SimulationInv
<1>0. PICK to \in Members : to = Order[n + 1]
  <2>1. n + 1 \in 1 .. Len(Order)
    BY OrderIsInjective DEF SendToNext, ProposerOK
  <2> QED
    BY <2>1, OrderIsInjective
<1>1. /\ proposer.at \in Phases /\ n \in Nat /\ n < Len(Order) /\ peer' = peer
      /\ channel' = [channel EXCEPT ![to] = Append(@, proposer.at)]
      /\ proposer' = [proposer EXCEPT !.sent = n + 1]
  BY <1>0 DEF SendToNext, ProposerOK, Phases
<1>2. to \in Members /\ n + 1 \in 1 .. Len(Order) /\ to # Proposer
  BY <1>0, <1>1, OrderIsInjective, ProposerAssumption
<1>3. /\ ProposerOK' /\ proposer'.at = proposer.at /\ proposer'.sent = n + 1 /\ proposer'.count = proposer.count
  BY <1>1 DEF ProposerOK
<1>4. /\ channel'[to] = Append(channel[to], proposer.at)
      /\ \A k \in (Members \cup {Proposer}) \ {to} : channel'[k] = channel[k]
      /\ channel' = [k \in Members \cup {Proposer} |-> channel'[k]]
  BY <1>1, <1>2 DEF ChannelsOK
<1>5. ChannelsOK'
  <2>1. Append(channel[to], proposer.at) \in Seq(Phases)
    BY <1>1, <1>2 DEF ChannelsOK
  <2> QED
    BY <1>2, <1>4, <2>1 DEF ChannelsOK
<1>6. PeersOK'
  BY <1>1 DEF PeersOK
<1>7. AskedOnce'
  <2> DEFINE asked(k) == {Order[i] : i \in {j \in 1 .. Len(Order) : j <= k}}
  <2>1. asked(n) \subseteq asked(n + 1) /\ to \in asked(n + 1) /\ to \notin asked(n)
    BY <1>0, <1>1, <1>2, OrderIsInjective
  <2>2. \A a \in Members : /\ NotAsked(a) <=> proposer.at = "prepare" \/ (proposer.at = "accept" /\ a \notin asked(n))
                           /\ NotAsked(a)' <=> proposer.at = "prepare" \/ (proposer.at = "accept" /\ a \notin asked(n + 1))
    BY <1>3 DEF NotAsked
  <2> HIDE DEF asked
  <2>3. \A a \in Members : /\ HasAccepted(a)' <=> HasAccepted(a)
                           /\ NotAsked(a)' => NotAsked(a)
    BY <1>1, <2>1, <2>2 DEF HasAccepted
  <2>4. \A a \in Members \ {to} : channel'[a] = channel[a] /\ (Requested(a)' <=> Requested(a))
    BY <1>4 DEF Requested
  <2>5. \A i \in 1 .. Len(channel'[to]) :
           \/ i \in 1 .. Len(channel[to]) /\ channel'[to][i] = channel[to][i]
           \/ i = Len(channel[to]) + 1 /\ channel'[to][i] = proposer.at
    BY <1>2, <1>4 DEF ChannelsOK
  <2>6. CASE proposer.at = "accept"
    <3>1. ~Requested(to) /\ ~HasAccepted(to) /\ ~NotAsked(to)'
      BY <1>2, <2>1, <2>2, <2>6 DEF AskedOnce
    <3>2. \A i \in 1 .. Len(channel'[to]) : channel'[to][i] = "accept" => i = Len(channel[to]) + 1
      BY <2>5, <3>1 DEF Requested
    <3> QED
      BY <2>3, <2>4, <3>1, <3>2 DEF AskedOnce
  <2>7. CASE proposer.at # "accept"
    <3>1. \A i \in 1 .. Len(channel'[to]) : channel'[to][i] = "accept" =>
            i \in 1 .. Len(channel[to]) /\ channel[to][i] = "accept"
      BY <2>5, <2>7
    <3>2. Requested(to)' => Requested(to)
      BY <3>1 DEF Requested
    <3> QED
      BY <1>2, <2>3, <2>4, <3>1, <3>2 DEF AskedOnce
  <2> QED
    BY <2>6, <2>7
<1>8. EachCounted' /\ MajorityHas'
  <2>1. channel'[Proposer] = channel[Proposer]
    BY <1>2, <1>4
  <2>2. AboutTo' = AboutTo /\ Accepting' = Accepting /\ Counting' = Counting
    BY <1>1, <1>3 DEF AboutTo, Accepting, HasAccepted, Counting
  <2> QED
    BY <1>3, <2>1, <2>2 DEF EachCounted, MajorityHas
<1> QED
  BY <1>3, <1>5, <1>6, <1>7, <1>8

\* What an acceptor makes of a request (acceptor_node): a command that is accepted is
\* answered with an okay, and nothing else is.
LEMMA RequestHandled ==
  ASSUME NEW s \in PeerState
  PROVE  /\ [s EXCEPT !.acceptor = WithPromise(s.acceptor, ProposalId),
                      !.reply = <<[kind |-> "promise", ok |-> Promises(s.acceptor, ProposalId)]>>] \in PeerState
         /\ [s EXCEPT !.acceptor = WithAccepted(s.acceptor, ProposalId, ProposalValue),
                      !.reply = <<[kind |-> "accepted", ok |-> Accepts(s.acceptor, ProposalId)]>>] \in PeerState
         /\ [kind |-> "promise", ok |-> Promises(s.acceptor, ProposalId)] \in Replies \ {Okay}
         /\ [kind |-> "accepted", ok |-> Accepts(s.acceptor, ProposalId)] \in Replies
         /\ WithPromise(s.acceptor, ProposalId).accepted = s.acceptor.accepted
         /\ \/ /\ [kind |-> "accepted", ok |-> Accepts(s.acceptor, ProposalId)] = Okay
               /\ WithAccepted(s.acceptor, ProposalId, ProposalValue).accepted.value = {ProposalValue}
            \/ /\ [kind |-> "accepted", ok |-> Accepts(s.acceptor, ProposalId)] # Okay
               /\ WithAccepted(s.acceptor, ProposalId, ProposalValue) = s.acceptor
<1> DEFINE a == s.acceptor
           p == Promises(a, ProposalId)
           q == Accepts(a, ProposalId)
           m == [kind |-> "promise", ok |-> p]
           r == [kind |-> "accepted", ok |-> q]
           b == WithPromise(a, ProposalId)
           d == WithAccepted(a, ProposalId, ProposalValue)
<1>1. a \in PeerAcceptor /\ ProposalId \in Nat
  BY DEF PeerState, ProposalId
<1>2. p \in BOOLEAN /\ q \in BOOLEAN
  BY DEF Promises, Accepts
<1>3. m \in Replies /\ m # Okay /\ r \in Replies
  <2> HIDE DEF p, q
  <2> QED
    BY <1>2 DEF Replies, Okay
<1>4. b \in PeerAcceptor /\ b.accepted = a.accepted
  BY <1>1 DEF WithPromise, PeerAcceptor
<1>5. d \in PeerAcceptor /\ (q => d.accepted.value = {ProposalValue}) /\ (~q => d = a)
  <2>1. [id |-> ProposalId, value |-> {ProposalValue}] \in [id : Nat, value : SUBSET {ProposalValue}]
    BY <1>1
  <2> DEFINE x == [id |-> ProposalId, value |-> {ProposalValue}]
  <2>2. d = IF q THEN [a EXCEPT !.accepted = x] ELSE a
    BY DEF WithAccepted
  <2>3. x.value = {ProposalValue}
    OBVIOUS
  <2> HIDE DEF x, q
  <2> QED
    BY <1>1, <2>1, <2>2, <2>3 DEF PeerAcceptor, x
<1>6. (q => r = Okay) /\ (~q => r # Okay)
  <2>1. ASSUME q PROVE q = TRUE
    BY <1>2, <2>1
  <2>2. ASSUME ~q PROVE q # TRUE
    BY <1>2, <2>2
  <2>3. r = Okay <=> q = TRUE
    <3> HIDE DEF q
    <3> QED
      BY DEF Okay
  <2> QED
    BY <2>1, <2>2, <2>3
<1>7. <<m>> \in Seq(Replies) /\ <<r>> \in Seq(Replies)
  BY <1>3
<1> HIDE DEF m, r, b, d
<1>8. /\ [s EXCEPT !.acceptor = b, !.reply = <<m>>] \in PeerState
      /\ [s EXCEPT !.acceptor = d, !.reply = <<r>>] \in PeerState
  BY <1>4, <1>5, <1>7 DEF PeerState
<1>9. q \/ ~q
  OBVIOUS
<1> QED
  BY <1>3, <1>4, <1>5, <1>6, <1>8, <1>9 DEF m, r, b, d

\* Handling a request (acceptor_node) keeps the invariant: an acceptance that is about to be
\* sent is a new acceptor's.
LEMMA ReceiveKeeps ==
  ASSUME SimulationInv, NEW a \in Members, ReceiveRequest(a)
  PROVE  SimulationInv'
<1> DEFINE kind == Head(channel[a])
           m == [kind |-> "promise", ok |-> Promises(peer[a].acceptor, ProposalId)]
           r == [kind |-> "accepted", ok |-> Accepts(peer[a].acceptor, ProposalId)]
           own == peer[a].acceptor
           s1 == [peer[a] EXCEPT !.acceptor = WithPromise(own, ProposalId), !.reply = <<m>>]
           s2 == [peer[a] EXCEPT !.acceptor = WithAccepted(own, ProposalId, ProposalValue), !.reply = <<r>>]
           s3 == [peer[a] EXCEPT !.at = "learned"]
<1> USE DEF SimulationInv
<1>1. /\ peer[a].reply = <<>> /\ channel[a] # <<>> /\ proposer' = proposer /\ a # Proposer
      /\ channel' = [channel EXCEPT ![a] = Tail(@)]
  BY ProposerAssumption DEF ReceiveRequest
<1>2. peer[a] \in PeerState /\ channel[a] \in Seq(Phases)
  BY DEF PeersOK, ChannelsOK
<1>3. /\ kind \in Phases /\ kind = channel[a][1] /\ Len(channel[a]) \in Nat \ {0}
      /\ Tail(channel[a]) \in Seq(Phases) /\ Len(Tail(channel[a])) = Len(channel[a]) - 1
      /\ \A i \in 1 .. Len(Tail(channel[a])) : Tail(channel[a])[i] = channel[a][i + 1]
  BY <1>1, <1>2
<1>4. /\ kind = "prepare" => peer' = [peer EXCEPT ![a] = s1]
      /\ kind = "accept" => peer' = [peer EXCEPT ![a] = s2]
      /\ kind = "learn" => peer' = [peer EXCEPT ![a] = s3]
  <2>1. peer \in [Members -> PeerState] /\ a \in DOMAIN peer
    BY DEF PeersOK
  <2>2. ASSUME kind = "prepare" PROVE peer' = [peer EXCEPT ![a] = s1]
    BY <2>1, <2>2 DEF ReceiveRequest
  <2>3. ASSUME kind = "accept" PROVE peer' = [peer EXCEPT ![a] = s2]
    BY <2>1, <2>3 DEF ReceiveRequest
  <2>4. ASSUME kind = "learn" PROVE peer' = [peer EXCEPT ![a] = s3]
    BY <2>1, <2>4 DEF ReceiveRequest
  <2> QED
    BY <2>2, <2>3, <2>4
<1>5. /\ s1 \in PeerState /\ s2 \in PeerState /\ m \in Replies \ {Okay} /\ r \in Replies
      /\ s1.acceptor.accepted = peer[a].acceptor.accepted /\ s1.reply = <<m>> /\ s2.reply = <<r>>
      /\ \/ r = Okay /\ s2.acceptor.accepted.value = {ProposalValue}
         \/ r # Okay /\ s2.acceptor.accepted = peer[a].acceptor.accepted
  <2>1. /\ s1.acceptor = WithPromise(peer[a].acceptor, ProposalId) /\ s1.reply = <<m>>
        /\ s2.acceptor = WithAccepted(peer[a].acceptor, ProposalId, ProposalValue) /\ s2.reply = <<r>>
    BY <1>2 DEF PeerState
  <2> QED
    BY <1>2, <2>1, RequestHandled
<1>6. s3 \in PeerState /\ s3.acceptor = peer[a].acceptor /\ s3.reply = peer[a].reply
  BY <1>2 DEF PeerState
<1> HIDE DEF m, r, s1, s2, s3
<1>7. /\ PeersOK'
      /\ \A b \in Members \ {a} : peer'[b] = peer[b]
      /\ \/ /\ peer'[a].acceptor.accepted = peer[a].acceptor.accepted
            /\ peer'[a].reply # <<Okay>>
         \/ /\ kind = "accept" /\ peer'[a].acceptor.accepted.value = {ProposalValue}
            /\ peer'[a].reply = <<Okay>>
  <2>1. CASE kind = "prepare"
    <3>1. <<m>> # <<Okay>>
      BY <1>5
    <3> QED
      BY <1>4, <1>5, <2>1, <3>1 DEF PeersOK
  <2>2. CASE kind = "accept"
    <3>1. r # Okay => <<r>> # <<Okay>>
      OBVIOUS
    <3> QED
      BY <1>4, <1>5, <2>2, <3>1 DEF PeersOK
  <2>3. CASE kind = "learn"
    <3>1. <<>> # <<Okay>>
      OBVIOUS
    <3> QED
      BY <1>1, <1>4, <1>6, <2>3, <3>1 DEF PeersOK
  <2> QED
    BY <1>3, <2>1, <2>2, <2>3 DEF Phases
<1>8. /\ channel'[a] = Tail(channel[a])
      /\ \A k \in (Members \cup {Proposer}) \ {a} : channel'[k] = channel[k]
      /\ channel' = [k \in Members \cup {Proposer} |-> channel'[k]]
  BY <1>1 DEF ChannelsOK
<1>9. ChannelsOK' /\ ProposerOK'
  BY <1>1, <1>3, <1>8 DEF ChannelsOK, ProposerOK
<1>10. /\ ~HasAccepted(a) \/ ~Requested(a)
       /\ kind = "accept" => Requested(a) /\ ~NotAsked(a) /\ ~Requested(a)'
       /\ Requested(a)' => Requested(a)
       /\ \A i, j \in 1 .. Len(channel'[a]) : channel'[a][i] = "accept" /\ channel'[a][j] = "accept" => i = j
  <2>1. \A i \in 1 .. Len(channel'[a]) : i \in Nat /\ i + 1 \in 1 .. Len(channel[a]) /\ i + 1 # 1 /\ channel'[a][i] = channel[a][i + 1]
    BY <1>3, <1>8
  <2>2. 1 \in 1 .. Len(channel[a]) /\ channel[a][1] = kind
    BY <1>3
  <2>3. \A i, j \in 1 .. Len(channel[a]) : channel[a][i] = "accept" /\ channel[a][j] = "accept" => i = j
    BY DEF AskedOnce
  <2> HIDE DEF kind
  <2>4. kind = "accept" => Requested(a)
    BY <2>2 DEF Requested
  <2>5. kind = "accept" => ~Requested(a)'
    BY <2>1, <2>2, <2>3 DEF Requested
  <2>6. Requested(a)' => Requested(a)
    BY <2>1 DEF Requested
  <2>7. \A i, j \in 1 .. Len(channel'[a]) : channel'[a][i] = "accept" /\ channel'[a][j] = "accept" => i = j
    <3> TAKE i, j \in 1 .. Len(channel'[a])
    <3>1. channel'[a][i] = "accept" /\ channel'[a][j] = "accept" => i + 1 = j + 1
      BY <2>1, <2>3
    <3>2. i \in Nat /\ j \in Nat
      BY <2>1
    <3> QED
      BY <3>1, <3>2
  <2> QED
    BY <2>4, <2>5, <2>6, <2>7 DEF AskedOnce
<1> HIDE DEF kind
<1>11. AskedOnce'
  <2>1. \A b \in Members : NotAsked(b)' <=> NotAsked(b)
    BY <1>1 DEF NotAsked
  <2>2. \A b \in Members \ {a} : (HasAccepted(b)' <=> HasAccepted(b)) /\ channel'[b] = channel[b] /\ (Requested(b)' <=> Requested(b))
    BY <1>7, <1>8 DEF HasAccepted, Requested
  <2>3. HasAccepted(a)' => HasAccepted(a) \/ kind = "accept"
    BY <1>7 DEF HasAccepted
  <2>4. /\ NotAsked(a)' => ~Requested(a)' /\ ~HasAccepted(a)'
        /\ Requested(a)' => ~HasAccepted(a)'
    BY <1>10, <2>1, <2>3 DEF AskedOnce
  <2> QED
    BY <1>10, <2>1, <2>2, <2>4 DEF AskedOnce
<1>12. EachCounted' /\ MajorityHas'
  <2>1. channel'[Proposer] = channel[Proposer] /\ Counting' = Counting /\ proposer' = proposer
    BY <1>1, <1>8 DEF Counting
  <2>2. /\ Cardinality(OkayIn(channel[Proposer])) \in Nat /\ Cardinality(AboutTo) \in Nat
        /\ Counting \in Nat /\ Cardinality(Accepting) \in Nat /\ Enough \in Nat
        /\ IsFiniteSet(AboutTo) /\ IsFiniteSet(Accepting)
    BY CountsAreNumbers, NodesFinite
  <2>3. a \notin AboutTo
    <3>1. <<>> # <<Okay>>
      OBVIOUS
    <3> QED
      BY <1>1, <3>1 DEF AboutTo
  <2>4. CASE peer'[a].acceptor.accepted = peer[a].acceptor.accepted /\ peer'[a].reply # <<Okay>>
    <3>1. AboutTo' = AboutTo
      BY <1>7, <2>3, <2>4 DEF AboutTo
    <3>2. Accepting' = Accepting
      BY <1>7, <2>4 DEF Accepting, HasAccepted
    <3> QED
      BY <2>1, <3>1, <3>2 DEF EachCounted, MajorityHas
  <2>5. CASE kind = "accept" /\ peer'[a].acceptor.accepted.value = {ProposalValue} /\ peer'[a].reply = <<Okay>>
    <3>1. AboutTo' = AboutTo \cup {a}
      BY <1>7, <2>5 DEF AboutTo
    <3>2. Accepting' = Accepting \cup {a}
      BY <1>7, <2>5 DEF Accepting, HasAccepted
    <3>3. a \notin Accepting
      BY <1>10, <2>5 DEF Accepting
    <3>4. Cardinality(AboutTo') = Cardinality(AboutTo) + 1 /\ Cardinality(Accepting') = Cardinality(Accepting) + 1
      BY <2>2, <2>3, <3>1, <3>2, <3>3, FS_AddElement
    <3>5. EachCounted'
      BY <2>1, <2>2, <3>4 DEF EachCounted
    <3>6. MajorityHas'
      BY <2>1, <2>2, <3>4 DEF MajorityHas
    <3> QED
      BY <3>5, <3>6
  <2> QED
    BY <1>7, <2>4, <2>5
<1> QED
  BY <1>7, <1>9, <1>11, <1>12

\* Sending the answer, or failing to (send_message), keeps the invariant.
LEMMA AnswerKeeps ==
  ASSUME SimulationInv, NEW a \in Members, Answer(a)
  PROVE  SimulationInv'
<1> USE DEF SimulationInv
<1>1. PICK m \in Replies : peer[a].reply = <<m>>
  BY DEF Answer, PeersOK
<1>2. /\ proposer' = proposer /\ a # Proposer
      /\ \/ channel' = channel /\ peer' = [peer EXCEPT ![a] = [peer[a] EXCEPT !.at = "panicked", !.reply = <<>>]]
         \/ /\ channel' = [channel EXCEPT ![Proposer] = @ \o <<m>>]
            /\ peer' = [peer EXCEPT ![a] = [peer[a] EXCEPT !.reply = <<>>]]
  <2>1. proposer' = proposer /\ a # Proposer
    BY ProposerAssumption DEF Answer
  <2>2. CASE proposer.at \in {"aborted", "done"}
    BY <2>1, <2>2 DEF Answer, PeersOK
  <2>3. CASE proposer.at \notin {"aborted", "done"}
    BY <1>1, <2>1, <2>3 DEF Answer, PeersOK
  <2> QED
    BY <2>1, <2>2, <2>3
<1>3. /\ peer'[a] \in PeerState /\ peer'[a].reply = <<>> /\ peer'[a].acceptor = peer[a].acceptor
      /\ \A b \in Members \ {a} : peer'[b] = peer[b]
      /\ peer' \in [Members -> PeerState]
  <2>1. peer[a] \in PeerState /\ <<>> \in Seq(Replies)
    BY DEF PeersOK
  <2> DEFINE s1 == [peer[a] EXCEPT !.at = "panicked", !.reply = <<>>]
             s2 == [peer[a] EXCEPT !.reply = <<>>]
  <2>2. /\ s1 \in PeerState /\ s1.reply = <<>> /\ s1.acceptor = peer[a].acceptor
        /\ s2 \in PeerState /\ s2.reply = <<>> /\ s2.acceptor = peer[a].acceptor
    BY <2>1 DEF PeerState
  <2>3. peer' = [peer EXCEPT ![a] = s1] \/ peer' = [peer EXCEPT ![a] = s2]
    BY <1>2
  <2> HIDE DEF s1, s2
  <2> QED
    BY <2>2, <2>3 DEF PeersOK
<1>4. PeersOK' /\ ProposerOK'
  BY <1>2, <1>3 DEF PeersOK, ProposerOK
<1>5. /\ \A b \in Members : channel'[b] = channel[b]
      /\ channel'[Proposer] = channel[Proposer] \/ channel'[Proposer] = channel[Proposer] \o <<m>>
      /\ channel' = [k \in Members \cup {Proposer} |-> channel'[k]]
  BY <1>2, ProposerAssumption DEF ChannelsOK
<1>6. ChannelsOK'
  <2>1. channel[Proposer] \o <<m>> \in Seq(Replies)
    BY DEF ChannelsOK
  <2>2. channel'[Proposer] \in Seq(Replies)
    BY <1>5, <2>1 DEF ChannelsOK
  <2> QED
    BY <1>5, <2>2 DEF ChannelsOK
<1>7. AskedOnce'
  <2>1. \A b \in Members : /\ (NotAsked(b)' <=> NotAsked(b)) /\ (HasAccepted(b)' <=> HasAccepted(b))
                           /\ (Requested(b)' <=> Requested(b)) /\ channel'[b] = channel[b]
    BY <1>2, <1>3, <1>5 DEF NotAsked, HasAccepted, Requested
  <2> QED
    BY <2>1 DEF AskedOnce
<1>8. EachCounted' /\ MajorityHas'
  <2> DEFINE more == IF m = Okay THEN 1 ELSE 0
  <2>1. Counting' = Counting /\ Accepting' = Accepting
    BY <1>2, <1>3 DEF Counting, Accepting, HasAccepted
  <2>2. Cardinality(AboutTo') + more = Cardinality(AboutTo)
    <3>1. IsFiniteSet(AboutTo) /\ Cardinality(AboutTo) \in Nat
      BY CountsAreNumbers, NodesFinite
    <3>2. a \in AboutTo <=> m = Okay
      <4>1. <<m>> = <<Okay>> <=> m = Okay
        OBVIOUS
      <4> QED
        BY <1>1, <4>1 DEF AboutTo
    <3>3. AboutTo' = AboutTo \ {a}
      <4>1. <<>> # <<Okay>>
        OBVIOUS
      <4> QED
        BY <1>3, <4>1 DEF AboutTo
    <3>4. Cardinality(AboutTo \ {a}) = IF a \in AboutTo THEN Cardinality(AboutTo) - 1 ELSE Cardinality(AboutTo)
      BY <3>1, FS_RemoveElement
    <3> QED
      BY <3>1, <3>2, <3>3, <3>4
  <2>3. /\ Cardinality(OkayIn(channel'[Proposer])) \in Nat
        /\ Cardinality(OkayIn(channel'[Proposer])) <= Cardinality(OkayIn(channel[Proposer])) + more
    <3>1. /\ Cardinality(OkayIn(channel[Proposer])) \in Nat
          /\ Cardinality(OkayIn(channel[Proposer] \o <<m>>)) = Cardinality(OkayIn(channel[Proposer])) + more
      BY OkayAppend DEF ChannelsOK
    <3>2. more \in Nat
      OBVIOUS
    <3> HIDE DEF more
    <3>3. CASE channel'[Proposer] = channel[Proposer]
      BY <3>1, <3>2, <3>3
    <3>4. CASE channel'[Proposer] = channel[Proposer] \o <<m>>
      BY <3>1, <3>2, <3>4
    <3> QED
      BY <1>5, <3>3, <3>4
  <2>4. /\ Cardinality(OkayIn(channel[Proposer])) \in Nat /\ Cardinality(AboutTo) \in Nat
        /\ Counting \in Nat /\ Cardinality(Accepting) \in Nat /\ more \in Nat
    BY CountsAreNumbers
  <2>5. Cardinality(AboutTo') \in Nat
    <3>1. AboutTo' \in SUBSET Members
      BY DEF AboutTo
    <3> QED
      BY <3>1, NodesFinite
  <2> HIDE DEF more
  <2>6. EachCounted'
    BY <2>1, <2>2, <2>3, <2>4, <2>5 DEF EachCounted
  <2>7. MajorityHas'
    BY <1>2, <2>1 DEF MajorityHas
  <2> QED
    BY <2>6, <2>7
<1> QED
  BY <1>4, <1>6, <1>7, <1>8

\* Receiving an answer (proposer_node) keeps the invariant: it is counted where it was on
\* its way before, and an answer to the first phase is not counted in the second.
LEMMA CollectKeeps ==
  ASSUME SimulationInv, Collect
  PROVE  SimulationInv'
<1> DEFINE s == channel[Proposer]
           m == Head(s)
           more == IF m = Okay THEN 1 ELSE 0
<1> USE DEF SimulationInv
<1>1. /\ proposer.at \in {"prepare", "accept"} /\ s # <<>> /\ peer' = peer
      /\ channel' = [channel EXCEPT ![Proposer] = Tail(s)]
      /\ proposer' = IF IsAwaited(m)
                     THEN [proposer EXCEPT !.received = @ + 1, !.count = @ + IF m.ok THEN 1 ELSE 0]
                     ELSE proposer
  BY DEF Collect, Collecting, ChannelsOK
<1>2. /\ m \in Replies /\ Tail(s) \in Seq(Replies)
      /\ Cardinality(OkayIn(Tail(s))) \in Nat
      /\ Cardinality(OkayIn(Tail(s))) + more <= Cardinality(OkayIn(s))
  BY <1>1, OkayTail DEF ChannelsOK
<1>3. more \in Nat
  OBVIOUS
<1>4. /\ channel'[Proposer] = Tail(s) /\ \A a \in Members : channel'[a] = channel[a]
      /\ channel' = [k \in Members \cup {Proposer} |-> channel'[k]]
  BY <1>1, ProposerAssumption DEF ChannelsOK
<1>5. /\ ProposerOK' /\ proposer'.at = proposer.at /\ proposer'.sent = proposer.sent
      /\ proposer.at = "accept" => proposer'.count <= proposer.count + more
  <2>1. CASE ~IsAwaited(m)
    BY <1>1, <1>3, <2>1 DEF ProposerOK
  <2>2. CASE IsAwaited(m)
    <3>1. (IF m.ok THEN 1 ELSE 0) \in Nat
      OBVIOUS
    <3>2. proposer.at = "accept" /\ m.ok => m = Okay
      BY <1>2, <2>2 DEF IsAwaited, AwaitedKind, Replies, Okay
    <3>3. proposer.at = "accept" => (IF m.ok THEN 1 ELSE 0) <= more
      BY <3>2
    <3> DEFINE d == IF m.ok THEN 1 ELSE 0
    <3>4. proposer' = [proposer EXCEPT !.received = @ + 1, !.count = @ + d]
      BY <1>1, <2>2
    <3> HIDE DEF d, more, m, s
    <3>5. ProposerOK' /\ proposer'.at = proposer.at /\ proposer'.sent = proposer.sent
          /\ proposer'.count = proposer.count + d
      <4>1. d \in Nat
        BY <3>1 DEF d
      <4>2. proposer' = [proposer EXCEPT !.received = proposer.received + 1, !.count = proposer.count + d]
        BY <3>4
      <4>3. /\ proposer.received + 1 \in Nat /\ proposer.count + d \in Nat
            /\ proposer \in [at : Phases \cup {"aborted", "done"}, sent : Nat, received : Nat, count : Nat]
        BY <4>1 DEF ProposerOK
      <4> QED
        BY <4>2, <4>3 DEF ProposerOK
    <3> QED
      BY <1>3, <3>1, <3>3, <3>5 DEF ProposerOK, d
  <2> QED
    BY <2>1, <2>2
<1>6. ChannelsOK' /\ PeersOK'
  BY <1>1, <1>2, <1>4 DEF ChannelsOK, PeersOK
<1>7. AskedOnce'
  <2>1. \A a \in Members : /\ (NotAsked(a)' <=> NotAsked(a)) /\ (HasAccepted(a)' <=> HasAccepted(a))
                           /\ (Requested(a)' <=> Requested(a)) /\ channel'[a] = channel[a]
    BY <1>1, <1>4, <1>5 DEF NotAsked, HasAccepted, Requested
  <2> QED
    BY <2>1 DEF AskedOnce
<1>8. EachCounted'
  <2>1. AboutTo' = AboutTo /\ Accepting' = Accepting
    BY <1>1 DEF AboutTo, Accepting, HasAccepted
  <2>2. Counting \in Nat /\ Counting' \in Nat /\ Counting' <= Counting + more
    BY <1>3, <1>5 DEF Counting, ProposerOK
  <2>3. Cardinality(OkayIn(s)) \in Nat /\ Cardinality(AboutTo) \in Nat /\ Cardinality(Accepting) \in Nat
    BY CountsAreNumbers
  <2> HIDE DEF more, s
  <2>4. Cardinality(OkayIn(channel'[Proposer])) \in Nat
        /\ Cardinality(OkayIn(channel'[Proposer])) + more <= Cardinality(OkayIn(s))
    BY <1>2, <1>4
  <2> QED
    BY <1>3, <2>1, <2>2, <2>3, <2>4 DEF EachCounted, s
<1>9. MajorityHas'
  BY <1>1, <1>5 DEF MajorityHas
<1> QED
  BY <1>5, <1>6, <1>7, <1>8, <1>9

\* The end of a phase (proposer_node) keeps the invariant: whoever counted a majority of
\* acceptances has a majority of acceptors behind it.
LEMMA EndPhaseKeeps ==
  ASSUME SimulationInv, EndPhase
  PROVE  SimulationInv'
<1> USE DEF SimulationInv
<1> DEFINE next == IF proposer.count < Enough THEN "aborted"
                   ELSE IF proposer.at = "prepare" THEN "accept" ELSE "learn"
<1>1. /\ proposer.at \in {"prepare", "accept"} /\ channel' = channel /\ peer' = peer
      /\ proposer' = [at |-> next, sent |-> 0, received |-> 0, count |-> 0]
  BY DEF EndPhase
<1>2. next \in Phases \cup {"aborted"} /\ (next = "accept" => proposer.at = "prepare")
      /\ (next = "learn" => proposer.at = "accept" /\ ~(proposer.count < Enough)) /\ next # "prepare"
  BY <1>1 DEF Phases
<1> HIDE DEF next
<1>3. ProposerOK' /\ proposer'.at = next /\ proposer'.count = 0
  BY <1>1, <1>2 DEF ProposerOK
<1>4. ChannelsOK' /\ PeersOK'
  BY <1>1 DEF ChannelsOK, PeersOK
<1>5. AskedOnce'
  <2>1. \A a \in Members : /\ NotAsked(a)' => NotAsked(a)
                           /\ (HasAccepted(a)' <=> HasAccepted(a)) /\ (Requested(a)' <=> Requested(a))
                           /\ channel'[a] = channel[a]
    BY <1>1, <1>2, <1>3 DEF NotAsked, HasAccepted, Requested
  <2> QED
    BY <2>1 DEF AskedOnce
<1>6. /\ channel'[Proposer] = channel[Proposer] /\ AboutTo' = AboutTo /\ Accepting' = Accepting /\ Counting' = 0
  BY <1>1, <1>3 DEF AboutTo, Accepting, HasAccepted, Counting
<1>7. /\ Cardinality(OkayIn(channel[Proposer])) \in Nat /\ Cardinality(AboutTo) \in Nat
      /\ Counting \in Nat /\ Cardinality(Accepting) \in Nat /\ Enough \in Nat
  BY CountsAreNumbers
<1>8. EachCounted'
  BY <1>6, <1>7 DEF EachCounted
<1>9. MajorityHas'
  <2>1. CASE next = "learn"
    <3>1. Counting = proposer.count /\ ~(Counting < Enough)
      BY <1>2, <2>1 DEF Counting
    <3>2. Enough <= Cardinality(Accepting)
      BY <1>7, <3>1 DEF EachCounted
    <3> QED
      BY <1>6, <3>2 DEF MajorityHas, Enough
  <2>2. CASE next # "learn"
    BY <1>2, <1>3, <2>2 DEF MajorityHas, Phases
  <2> QED
    BY <2>1, <2>2
<1> QED
  BY <1>3, <1>4, <1>5, <1>8, <1>9

\* The end of the proposer thread keeps the invariant.
LEMMA ReturnKeeps ==
  ASSUME SimulationInv, Return
  PROVE  SimulationInv'
<1> USE DEF SimulationInv
<1>1. /\ proposer.at = "learn" /\ channel' = channel /\ peer' = peer
      /\ proposer' = [proposer EXCEPT !.at = "done"]
  BY DEF Return
<1>2. ProposerOK' /\ proposer'.at = "done"
  BY <1>1 DEF ProposerOK
<1>3. ChannelsOK' /\ PeersOK'
  BY <1>1 DEF ChannelsOK, PeersOK
<1>4. AskedOnce'
  <2>1. \A a \in Members : /\ ~NotAsked(a)'
                           /\ (HasAccepted(a)' <=> HasAccepted(a)) /\ (Requested(a)' <=> Requested(a))
                           /\ channel'[a] = channel[a]
    BY <1>1, <1>2 DEF NotAsked, HasAccepted, Requested
  <2> QED
    BY <2>1 DEF AskedOnce
<1>5. EachCounted' /\ MajorityHas'
  <2>1. /\ channel'[Proposer] = channel[Proposer] /\ AboutTo' = AboutTo /\ Accepting' = Accepting
        /\ Counting' = 0 /\ Counting = 0
    BY <1>1, <1>2 DEF AboutTo, Accepting, HasAccepted, Counting
  <2> QED
    BY <1>1, <2>1 DEF EachCounted, MajorityHas, Enough
<1> QED
  BY <1>2, <1>3, <1>4, <1>5

\* At the start nobody is asked and nobody has accepted.
LEMMA SimulationStarts == SimulationInit => SimulationInv
<1> SUFFICES ASSUME SimulationInit PROVE SimulationInv
  OBVIOUS
<1>1. /\ proposer = [at |-> "prepare", sent |-> 0, received |-> 0, count |-> 0]
      /\ channel = [n \in Members \cup {Proposer} |-> <<>>]
      /\ peer = [a \in Members |-> [acceptor |-> NewAcceptor, reply |-> <<>>, at |-> "running"]]
  BY DEF SimulationInit
<1>2. ChannelsOK /\ ProposerOK
  BY <1>1 DEF ChannelsOK, ProposerOK, Phases
<1>3. [acceptor |-> NewAcceptor, reply |-> <<>>, at |-> "running"] \in PeerState
  <2>1. NewAcceptor \in PeerAcceptor
    BY DEF NewAcceptor, NoCommand, PeerAcceptor
  <2>2. <<>> \in Seq(Replies)
    OBVIOUS
  <2> QED
    BY <2>1, <2>2 DEF PeerState
<1>4. PeersOK
  BY <1>1, <1>3 DEF PeersOK
<1>5. \A a \in Members : peer[a].reply = <<>> /\ ~HasAccepted(a) /\ ~Requested(a) /\ channel[a] = <<>>
  <2>1. \A a \in Members : peer[a].reply = <<>> /\ channel[a] = <<>> /\ peer[a].acceptor.accepted.value = {}
    BY <1>1 DEF NewAcceptor, NoCommand
  <2>2. {} # {ProposalValue} /\ 1 .. Len(<<>>) = {}
    OBVIOUS
  <2>3. \A a \in Members : ~HasAccepted(a)
    BY <2>1, <2>2 DEF HasAccepted
  <2>4. \A a \in Members : ~Requested(a)
    BY <2>1, <2>2 DEF Requested
  <2> QED
    BY <2>1, <2>3, <2>4
<1>6. AskedOnce
  BY <1>5 DEF AskedOnce
<1>7. EachCounted /\ MajorityHas
  <2>1. <<>> # <<Okay>>
    OBVIOUS
  <2>2. AboutTo = {} /\ Accepting = {} /\ Counting = 0
    BY <1>1, <1>5, <2>1 DEF AboutTo, Accepting, Counting
  <2>3. OkayIn(channel[Proposer]) = {}
    BY <1>1 DEF OkayIn
  <2>4. Cardinality({}) = 0
    BY FS_EmptySet
  <2>5. EachCounted
    BY <2>2, <2>3, <2>4 DEF EachCounted
  <2>6. MajorityHas
    BY <1>1 DEF MajorityHas
  <2> QED
    BY <2>5, <2>6
<1> QED
  BY <1>2, <1>4, <1>6, <1>7 DEF SimulationInv

\* The answers on their way and counted never outnumber the acceptors that have accepted
\* (proposer_node, acceptor_node).
THEOREM SimulationInvariant == SimulationSpec => []SimulationInv
<1>1. ASSUME SimulationInv, [SimulationNext]_simulationVars PROVE SimulationInv'
  <2>1. CASE SendToNext
    BY <1>1, <2>1, SendKeeps
  <2>2. CASE Collect
    BY <1>1, <2>2, CollectKeeps
  <2>3. CASE EndPhase
    BY <1>1, <2>3, EndPhaseKeeps
  <2>4. CASE Return
    BY <1>1, <2>4, ReturnKeeps
  <2>5. ASSUME NEW a \in Members, ReceiveRequest(a) PROVE SimulationInv'
    BY <1>1, <2>5, ReceiveKeeps
  <2>6. ASSUME NEW a \in Members, Answer(a) PROVE SimulationInv'
    BY <1>1, <2>6, AnswerKeeps
  <2>7. CASE UNCHANGED simulationVars
    <3> USE DEF SimulationInv
    <3>1. channel' = channel /\ peer' = peer /\ proposer' = proposer
      BY <2>7 DEF simulationVars
    <3>2. ChannelsOK' /\ PeersOK' /\ ProposerOK'
      BY <1>1, <3>1 DEF ChannelsOK, PeersOK, ProposerOK
    <3>3. \A a \in Members : /\ (NotAsked(a)' <=> NotAsked(a)) /\ (HasAccepted(a)' <=> HasAccepted(a))
                             /\ (Requested(a)' <=> Requested(a))
      BY <3>1 DEF NotAsked, HasAccepted, Requested
    <3>4. AskedOnce'
      BY <1>1, <3>1, <3>3 DEF AskedOnce
    <3>5. AboutTo' = AboutTo /\ Accepting' = Accepting /\ Counting' = Counting
      BY <3>1 DEF AboutTo, Accepting, HasAccepted, Counting
    <3>6. EachCounted' /\ MajorityHas'
      BY <1>1, <3>1, <3>5 DEF EachCounted, MajorityHas, Enough
    <3> QED
      BY <3>2, <3>4, <3>6
  <2> QED
    BY <1>1, <2>1, <2>2, <2>3, <2>4, <2>5, <2>6, <2>7 DEF SimulationNext
<1> QED
  BY <1>1, SimulationStarts, PTL DEF SimulationSpec

\* A proposer that spreads the consensus has a majority of acceptors behind it, for every
\* number of acceptors and whatever answers are late or given up (simulation.rs
\* proposer_node).
THEOREM LearnedByMajorityHolds == SimulationSpec => []LearnedByMajority
<1>1. SimulationInv => LearnedByMajority
  <2> SUFFICES ASSUME SimulationInv, proposer.at \in {"learn", "done"} PROVE LearnedByMajority
    BY DEF LearnedByMajority
  <2> USE DEF SimulationInv
  <2>1. Enough <= Cardinality(Accepting) /\ Cardinality(Accepting) \in Nat
    BY CountsAreNumbers DEF MajorityHas
  <2>2. Cardinality(Members) \in Nat
    BY MembersAssumption, FS_CardinalityType
  <2>3. MoreThanHalf(Cardinality(Accepting))
    BY <2>1, <2>2 DEF MoreThanHalf, Enough
  <2> QED
    BY <2>3 DEF LearnedByMajority, Accepting, HasAccepted
<1> QED
  BY <1>1, SimulationInvariant, PTL

----------------------------------------------------------------------------
(* The handlers of paxos-v0.0.3, for any number of proposers and acceptors, *)
(* although two proposers use the same round.                              *)

HandledState == [rnd : Nat, vrnd : Nat, vval : SUBSET Proposed]
PromiseAnswer == [from : Nat, rnd : Nat]
ProposerState == [crnd : Nat, clientvalue : SUBSET Proposed, promises : SUBSET Nat, clients : Seq(Handled),
                  phase : {"idle", "prepare", "accept"}, answers : Seq(PromiseAnswer), asked : Nat]

HandlerTypeOK == /\ handled \in [Handled -> HandledState]
                 /\ handler \in [Handlers -> ProposerState]

\* What an acceptor has accepted is of a round that it has reached.
AcceptedReached == \A a \in Handled : handled[a].vrnd <= handled[a].rnd

\* A request asks the acceptors of its handler's list, one after the other.
AsksItsClients == \A p \in Handlers : handler[p].asked <= Len(handler[p].clients)

HandlerInv == HandlerTypeOK /\ AcceptedReached /\ AsksItsClients

\* The acceptor component (acceptor/src/lib.rs): a call keeps the state one, its
\* round never goes back, and a new value comes with a new round.
LEMMA PrepareStep ==
  ASSUME NEW a \in HandledState, NEW crnd \in Nat, a.vrnd <= a.rnd
  PROVE  /\ HandlePrepare(a, crnd) \in HandledState
         /\ HandlePrepare(a, crnd).vrnd <= HandlePrepare(a, crnd).rnd
         /\ HandlePrepare(a, crnd).rnd >= a.rnd
         /\ HandlePrepare(a, crnd).vval = a.vval
BY DEF HandlePrepare, HandledState

\* Handling an accept (handleaccept) raises the round or leaves it, and changes the value
\* in a higher round only.
LEMMA AcceptStep ==
  ASSUME NEW a \in HandledState, NEW rnd \in Nat, NEW val \in SUBSET Proposed, a.vrnd <= a.rnd
  PROVE  /\ HandleAccept(a, rnd, val) \in HandledState
         /\ HandleAccept(a, rnd, val).vrnd <= HandleAccept(a, rnd, val).rnd
         /\ HandleAccept(a, rnd, val).rnd >= a.rnd
         /\ HandleAccept(a, rnd, val).vval # a.vval => HandleAccept(a, rnd, val).vrnd > a.vrnd
BY DEF HandleAccept, Refuses, HandledState

\* Every step leaves the acceptors alone or is one call of one of them
\* (grpc/src/acceptor.rs, handle_request).
LEMMA HandledAdvance ==
  ASSUME HandlerInv, NEW p \in Handlers, NEW a \in Handled,
         \/ handled' = handled
         \/ handled' = [handled EXCEPT ![a] = HandlePrepare(@, handler[p].crnd)]
         \/ handled' = [handled EXCEPT ![a] = HandleAccept(@, handler[p].crnd, handler[p].clientvalue)]
  PROVE  /\ handled' \in [Handled -> HandledState]
         /\ AcceptedReached'
         /\ AcceptorsAdvance
<1> DEFINE h == handler[p]
<1>1. h.crnd \in Nat /\ h.clientvalue \in SUBSET Proposed
  BY DEF HandlerInv, HandlerTypeOK, ProposerState
<1>2. \A b \in Handled : handled[b] \in HandledState /\ handled[b].vrnd <= handled[b].rnd
  BY DEF HandlerInv, HandlerTypeOK, AcceptedReached
<1>3. \A b \in Handled : handled[b].rnd \in Nat
  BY <1>2 DEF HandledState
<1>4. CASE handled' = handled
  BY <1>2, <1>3, <1>4 DEF AcceptedReached, AcceptorsAdvance, Advances, HandlerInv, HandlerTypeOK
<1>5. CASE handled' = [handled EXCEPT ![a] = HandlePrepare(@, h.crnd)]
  <2> DEFINE new == HandlePrepare(handled[a], h.crnd)
  <2>1. /\ new \in HandledState /\ new.vrnd <= new.rnd
        /\ Advances(handled[a], new)
    BY <1>1, <1>2, PrepareStep DEF Advances
  <2>2. handled' = [handled EXCEPT ![a] = new]
    BY <1>5
  <2> HIDE DEF new
  <2> QED
    BY <1>2, <1>3, <2>1, <2>2 DEF AcceptedReached, AcceptorsAdvance, Advances, HandlerInv, HandlerTypeOK
<1>6. CASE handled' = [handled EXCEPT ![a] = HandleAccept(@, h.crnd, h.clientvalue)]
  <2> DEFINE new == HandleAccept(handled[a], h.crnd, h.clientvalue)
  <2>1. /\ new \in HandledState /\ new.vrnd <= new.rnd
        /\ Advances(handled[a], new)
    BY <1>1, <1>2, AcceptStep DEF Advances
  <2>2. handled' = [handled EXCEPT ![a] = new]
    BY <1>6
  <2> HIDE DEF new
  <2> QED
    BY <1>2, <1>3, <2>1, <2>2 DEF AcceptedReached, AcceptorsAdvance, Advances, HandlerInv, HandlerTypeOK
<1> QED
  BY <1>4, <1>5, <1>6

\* The next acceptor of a list that has not come to its end.
LEMMA NextIsHandled ==
  ASSUME HandlerInv, NEW p \in Handlers, ~AllAsked(p)
  PROVE  NextAsked(p) \in Handled /\ handler[p].asked + 1 <= Len(handler[p].clients)
<1>1. /\ handler[p].clients \in Seq(Handled) /\ handler[p].asked \in Nat
      /\ handler[p].asked <= Len(handler[p].clients)
  BY DEF HandlerInv, HandlerTypeOK, ProposerState, AsksItsClients
<1>2. PICK list \in Seq(Handled) : list = handler[p].clients
  BY <1>1
<1>3. handler[p].asked + 1 \in 1 .. Len(list)
  BY <1>1, <1>2 DEF AllAsked
<1>4. list[handler[p].asked + 1] \in Handled
  BY <1>2, <1>3
<1> QED
  BY <1>2, <1>3, <1>4 DEF NextAsked

\* What the steps do to the acceptors.
LEMMA HandledSteps ==
  ASSUME HandlerInv, HandlerNext
  PROVE  \E p \in Handlers, a \in Handled :
           \/ handled' = handled
           \/ handled' = [handled EXCEPT ![a] = HandlePrepare(@, handler[p].crnd)]
           \/ handled' = [handled EXCEPT ![a] = HandleAccept(@, handler[p].crnd, handler[p].clientvalue)]
<1>1. PICK p \in Handlers :
        \/ \E value \in Proposed : ClientRequest(p, value)
        \/ CallPrepare(p) \/ HandleAnswers(p) \/ CallAccept(p) \/ CallFails(p) \/ Reply(p)
  BY DEF HandlerNext
<1>2. 1 \in Handled
  BY HandlersAssumption DEF Handled
<1>3. CASE (\E value \in Proposed : ClientRequest(p, value)) \/ HandleAnswers(p) \/ Reply(p)
  BY <1>2, <1>3 DEF ClientRequest, HandleAnswers, Reply
<1>4. CASE CallPrepare(p)
  BY <1>4, NextIsHandled DEF CallPrepare
<1>5. CASE CallAccept(p)
  BY <1>5, NextIsHandled DEF CallAccept
<1>6. CASE CallFails(p)
  BY <1>6, NextIsHandled DEF CallFails
<1> QED
  BY <1>1, <1>3, <1>4, <1>5, <1>6

\* What a handler keeps (grpc/src/proposer.rs, proposer/src/lib.rs).
LEMMA AnswerType ==
  ASSUME NEW a \in Handled, NEW crnd \in Nat
  PROVE  PromiseTo(handled[a], a, crnd) \in PromiseAnswer
BY DEF PromiseTo, Rejection, PromiseAnswer, Handled

\* The end of a request (handle_request) leaves a proper state.
LEMMA EndedType ==
  ASSUME NEW h \in ProposerState
  PROVE  Ended(h) \in ProposerState
<1>1. <<>> \in Seq(PromiseAnswer) /\ 0 \in Nat
  OBVIOUS
<1> HIDE DEF PromiseAnswer, Handled
<1> QED
  BY <1>1 DEF Ended, ProposerState

\* The acceptors that promised are numbers.
LEMMA PromisersType ==
  ASSUME HandlerTypeOK, NEW p \in Handlers, NEW n \in Nat, n <= Len(handler[p].answers)
  PROVE  Promisers(p, n) \in SUBSET Nat
<1>1. handler[p].answers \in Seq(PromiseAnswer) /\ handler[p].promises \in SUBSET Nat
  BY DEF HandlerTypeOK, ProposerState
<1>2. \A i \in 1 .. n : handler[p].answers[i] \in PromiseAnswer
  BY <1>1
<1> QED
  BY <1>1, <1>2 DEF Promisers, PromiseAnswer

\* When all have been asked for a promise, there is an answer of each.
AllAnswered == \A p \in Handlers :
  handler[p].phase \in {"idle", "prepare"} => Len(handler[p].answers) = handler[p].asked

\* Every step of a proposer leaves a proper state with an answer for every acceptor it
\* has asked.
LEMMA HandlerSteps ==
  ASSUME HandlerInv, AllAnswered, HandlerNext
  PROVE  handler' \in [Handlers -> ProposerState] /\ AllAnswered' /\ AsksItsClients'
<1>1. PICK p \in Handlers :
        \/ \E value \in Proposed : ClientRequest(p, value)
        \/ CallPrepare(p) \/ HandleAnswers(p) \/ CallAccept(p) \/ CallFails(p) \/ Reply(p)
  BY DEF HandlerNext
<1> DEFINE h == handler[p]
           Keeps(g) == /\ g \in ProposerState /\ g.asked <= Len(g.clients)
                       /\ g.phase \in {"idle", "prepare"} => Len(g.answers) = g.asked
<1>2. Keeps(h)
  BY DEF HandlerInv, HandlerTypeOK, AllAnswered, AsksItsClients
<1>3. h.crnd \in Nat /\ h.answers \in Seq(PromiseAnswer) /\ h.asked \in Nat /\ Len(h.clients) \in Nat
  BY <1>2 DEF ProposerState
<1>4. SUFFICES \E g : Keeps(g) /\ handler' = [handler EXCEPT ![p] = g]
  BY DEF HandlerInv, HandlerTypeOK, AllAnswered, AsksItsClients
<1>5. Keeps(Ended(h)) /\ Ended(h).phase = "idle"
  <2>1. Ended(h) \in ProposerState
    BY <1>2, EndedType
  <2>2. /\ Ended(h).phase = "idle" /\ Ended(h).answers = <<>> /\ Ended(h).asked = 0
        /\ Ended(h).clients = h.clients
    BY <1>2 DEF Ended, ProposerState
  <2> QED
    BY <1>3, <2>1, <2>2
<1>6. CASE \E value \in Proposed : ClientRequest(p, value)
  <2>1. PICK value \in Proposed : ClientRequest(p, value)
    BY <1>6
  <2> DEFINE g == [h EXCEPT !.crnd = @ + 1, !.clientvalue = {value}, !.phase = "prepare"]
  <2>2. {value} \in SUBSET Proposed /\ h.crnd + 1 \in Nat
    BY <1>3
  <2>3. handler' = [handler EXCEPT ![p] = g]
    BY <2>1 DEF ClientRequest
  <2> QED
    BY <1>2, <2>1, <2>2, <2>3 DEF ProposerState, ClientRequest
<1>7. CASE CallPrepare(p)
  <2> DEFINE n == NextAsked(p)
             g == [h EXCEPT !.asked = @ + 1, !.answers = Append(@, PromiseTo(handled[n], n, h.crnd))]
  <2>1. n \in Handled /\ h.asked + 1 <= Len(h.clients) /\ handler' = [handler EXCEPT ![p] = g]
    BY <1>7, NextIsHandled DEF CallPrepare
  <2>2. PromiseTo(handled[n], n, h.crnd) \in PromiseAnswer
    BY <1>3, <2>1, AnswerType
  <2>3. /\ h.phase = "prepare" /\ h.asked + 1 \in Nat
        /\ Append(h.answers, PromiseTo(handled[n], n, h.crnd)) \in Seq(PromiseAnswer)
        /\ Len(Append(h.answers, PromiseTo(handled[n], n, h.crnd))) = Len(h.answers) + 1
    BY <1>3, <1>7, <2>1, <2>2 DEF CallPrepare
  <2>4. Keeps(g)
    BY <1>2, <1>3, <2>1, <2>3 DEF ProposerState
  <2> QED
    BY <2>1, <2>4
<1>8. CASE HandleAnswers(p)
  <2>1. PICK n \in Nat : /\ n <= Len(h.answers)
                         /\ \/ handler' = [handler EXCEPT ![p] =
                                   [Ended(@) EXCEPT !.phase = "accept", !.promises = Promisers(p, n)]]
                            \/ handler' = [handler EXCEPT ![p] = [Ended(@) EXCEPT !.promises = Promisers(p, n)]]
    <3>1. h.phase = "prepare" /\ h.asked \in Nat
      BY <1>3, <1>8 DEF HandleAnswers
    <3>2. h.asked <= Len(h.answers)
      BY <1>2, <3>1
    <3>3. \A n \in Quorate(p) : n \in Nat /\ n <= Len(h.answers)
      BY <1>3 DEF Quorate
    <3> QED
      BY <1>8, <3>1, <3>2, <3>3 DEF HandleAnswers
  <2>2. Promisers(p, n) \in SUBSET Nat
    BY <2>1, PromisersType DEF HandlerInv
  <2> DEFINE g1 == [Ended(h) EXCEPT !.phase = "accept", !.promises = Promisers(p, n)]
             g2 == [Ended(h) EXCEPT !.promises = Promisers(p, n)]
  <2>3. Keeps(g1)
    BY <1>5, <2>2 DEF ProposerState
  <2>4. Keeps(g2)
    BY <1>5, <2>2 DEF ProposerState, Ended
  <2>5. handler' = [handler EXCEPT ![p] = g1] \/ handler' = [handler EXCEPT ![p] = g2]
    BY <2>1
  <2> HIDE DEF g1, g2
  <2> QED
    BY <2>3, <2>4, <2>5
<1>9. CASE CallAccept(p)
  <2> DEFINE g == [h EXCEPT !.asked = @ + 1]
  <2>1. /\ h.phase = "accept" /\ h.asked + 1 \in Nat /\ h.asked + 1 <= Len(h.clients)
        /\ handler' = [handler EXCEPT ![p] = g]
    BY <1>3, <1>9, NextIsHandled DEF CallAccept
  <2>2. Keeps(g)
    BY <1>2, <2>1 DEF ProposerState
  <2> QED
    BY <2>1, <2>2
<1>10. CASE CallFails(p) \/ Reply(p)
  <2>1. handler' = [handler EXCEPT ![p] = Ended(h)]
    BY <1>10 DEF CallFails, Reply
  <2>2. Keeps(Ended(h))
    BY <1>5
  <2> QED
    BY <2>1, <2>2
<1> QED
  BY <1>1, <1>6, <1>7, <1>8, <1>9, <1>10

\* The inductive invariant: the rounds of an acceptor are only of use together
\* with the types, and an index into the answers only while there is one for each
\* acceptor asked.
THEOREM HandlerInvariant == HandlerSpec => [](HandlerInv /\ AllAnswered)
<1>1. HandlerInit => HandlerInv /\ AllAnswered
  <2> SUFFICES ASSUME HandlerInit PROVE HandlerInv /\ AllAnswered
    OBVIOUS
  <2>1. handled \in [Handled -> HandledState] /\ AcceptedReached
    BY DEF HandlerInit, HandledState, AcceptedReached
  <2>2. \A p \in Handlers : p - 1 \in Nat
    BY HandlersAssumption
  <2>3. <<>> \in Seq(PromiseAnswer) /\ Len(<<>>) = 0
    OBVIOUS
  <2>4. PICK clients \in [Handlers -> ClientLists] : handler = [p \in Handlers |->
          [crnd |-> p - 1, clientvalue |-> {}, promises |-> {}, clients |-> clients[p],
           phase |-> "idle", answers |-> <<>>, asked |-> 0]]
    BY DEF HandlerInit
  <2>5. ASSUME NEW list \in ClientLists PROVE list \in Seq(Handled) /\ 0 <= Len(list)
    <3>1. PICK n \in 0 .. NumHandled : list \in [1 .. n -> Handled]
      BY DEF ClientLists
    <3>2. n \in Nat
      BY <3>1, HandlersAssumption
    <3>3. list \in Seq(Handled)
      BY <3>1, <3>2
    <3> QED
      BY <3>3
  <2>6. handler \in [Handlers -> ProposerState] /\ AllAnswered /\ AsksItsClients
    <3> HIDE DEF PromiseAnswer, Handled, ClientLists
    <3> QED
      BY <2>2, <2>3, <2>4, <2>5 DEF ProposerState, AllAnswered, AsksItsClients
  <2> QED
    BY <2>1, <2>6 DEF HandlerInv, HandlerTypeOK
<1>2. HandlerInv /\ AllAnswered /\ [HandlerNext]_handlerVars => (HandlerInv /\ AllAnswered)'
  <2>1. CASE UNCHANGED handlerVars
    BY <2>1 DEF handlerVars, HandlerInv, HandlerTypeOK, AcceptedReached, AllAnswered, AsksItsClients
  <2>2. ASSUME HandlerInv, AllAnswered, HandlerNext
        PROVE  (HandlerInv /\ AllAnswered)'
    <3>1. handled' \in [Handled -> HandledState] /\ AcceptedReached'
      BY <2>2, HandledSteps, HandledAdvance
    <3>2. handler' \in [Handlers -> ProposerState] /\ AllAnswered' /\ AsksItsClients'
      BY <2>2, HandlerSteps
    <3> QED
      BY <3>1, <3>2 DEF HandlerInv, HandlerTypeOK
  <2> QED
    BY <2>1, <2>2
<1> QED
  BY <1>1, <1>2, PTL DEF HandlerSpec

\* An acceptor accepts one value in a round and its rounds never go back
\* (handleaccept refuses the round it has accepted in), although the numbering of
\* rounds lets several proposers use the same one.
THEOREM OneValuePerRoundHolds == HandlerSpec => OneValuePerRound
<1>1. HandlerInv /\ [HandlerNext]_handlerVars =>
        [AcceptorsAdvance]_handled
  <2>1. CASE UNCHANGED handlerVars
    BY <2>1 DEF handlerVars
  <2>2. ASSUME HandlerInv, HandlerNext
        PROVE  AcceptorsAdvance
    BY <2>2, HandledSteps, HandledAdvance
  <2> QED
    BY <2>1, <2>2
<1> QED
  BY <1>1, HandlerInvariant, PTL DEF HandlerSpec, OneValuePerRound

=============================================================================
