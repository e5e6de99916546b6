--------------------------- MODULE LeaderElection --------------------------
(***************************************************************************)
(* How a proposer comes to lead: the failure detector                      *)
(* (core/failure-detector), the leader detector it drives                  *)
(* (core/leader-detector), failure_service of the coordinator, which tells *)
(* the proposer, and the main loop, which runs the check once in five      *)
(* heartbeat intervals.  The detectors of the other roles tell nobody and  *)
(* are left out; their heartbeats are not.                                 *)
(*                                                                         *)
(* Until the deployment is timely, a heartbeat may get lost or arrive at   *)
(* any later moment, even after its sender has crashed, and nodes crash    *)
(* and restart.  From then on, at a moment nobody knows, nothing crashes   *)
(* and every check has heard from all nodes that are up.                   *)
(***************************************************************************)
EXTENDS Integers, FiniteSets, FiniteSetsExt, Functions

CONSTANTS
  Nodes,        \* node ids
  Candidates,   \* the proposers among them
  None,         \* Option::None
  MayCrash,     \* nodes that crash before the deployment is timely
  MaxRestarts   \* bound: how often they start again, all together

ASSUME NodesAssumption == Nodes \subseteq Nat /\ IsFiniteSet(Nodes)
ASSUME CandidatesAssumption == Candidates \subseteq Nodes /\ Candidates # {} /\ None \notin Nodes
ASSUME CrashAssumption == MayCrash \subseteq Nodes /\ MaxRestarts \in Nat

VARIABLES
  detector,   \* detector[p]: the failure detector's and the leader detector's state at p
  seen,       \* seen[p]: the nodes p has seen since its last check
  isLeader,   \* isLeader[p]: what p's proposer has been told
  up,         \* the nodes that run
  timely,     \* has the deployment become timely?
  restarts    \* the restarts so far

vars == <<detector, seen, isLeader, up, timely, restarts>>

States == {"Alive", "Suspected", "Dead"}

Highest(S) == IF S = {} THEN None ELSE Max(S)

\* A fresh process: nobody is suspected, the highest proposer leads.
NewDetector == [state |-> [n \in Nodes |-> "Alive"], suspected |-> {}, last |-> Highest(Candidates)]
StartedAsLeader(p) == p = Max(Candidates)

Init ==
  /\ detector = [p \in Candidates |-> NewDetector]
  /\ seen = [p \in Candidates |-> {}]
  /\ isLeader = [p \in Candidates |-> StartedAsLeader(p)]
  /\ up = Nodes
  /\ timely = FALSE
  /\ restarts = 0

----------------------------------------------------------------------------
(* One check.  pass is a detector with the leader to report, new, so far. *)

\* Variant: the first change of the pass is reported.
FirstElected(pass) ==
  LET leader == Highest(Candidates \ pass.suspected)
  IN IF leader = pass.last THEN pass
     ELSE [pass EXCEPT !.last = leader, !.new = IF @ # None THEN @ ELSE leader]

\* The leader detector recomputes the leader; a change is reported if there is one.
Elected(pass) ==
  LET leader == Highest(Candidates \ pass.suspected)
  IN IF leader = pass.last THEN pass
     ELSE [pass EXCEPT !.last = leader, !.new = IF leader = None THEN @ ELSE leader]

\* Of a node that is no proposer the leader detector takes no notice.
Suspect(pass, n) == IF n \in Candidates
  THEN Elected([pass EXCEPT !.suspected = @ \cup {n}]) ELSE pass
Restore(pass, n) == IF n \in Candidates
  THEN Elected([pass EXCEPT !.suspected = @ \ {n}]) ELSE pass

\* Variant: the leader detector is told of restored suspects only.
CheckNodeForgetful(pass, n, alive) ==
  LET marked(s) == [pass EXCEPT !.state[n] = s]
  IN IF alive THEN IF pass.state[n] = "Suspected" THEN Restore(marked("Alive"), n) ELSE marked("Alive")
     ELSE CASE pass.state[n] = "Alive"     -> marked("Suspected")
            [] pass.state[n] = "Suspected" -> Suspect(marked("Dead"), n)
            [] pass.state[n] = "Dead"      -> pass

\* A node that was seen is alive, and restored if it was not; one that was
\* missed is suspected, and dead the second time.
CheckNode(pass, n, alive) ==
  LET marked(s) == [pass EXCEPT !.state[n] = s]
  IN IF alive THEN IF pass.state[n] # "Alive" THEN Restore(marked("Alive"), n) ELSE pass
     ELSE CASE pass.state[n] = "Alive"     -> marked("Suspected")
            [] pass.state[n] = "Suspected" -> Suspect(marked("Dead"), n)
            [] pass.state[n] = "Dead"      -> pass

\* p checks the other nodes, in the order of the configuration (here any), and itself last.
CheckOrders(p) == {o \in [1 .. Cardinality(Nodes) -> Nodes] : Range(o) = Nodes /\ o[Cardinality(Nodes)] = p}
Checked(p, order) ==
  LET start == [state |-> detector[p].state, suspected |-> detector[p].suspected,
                last |-> detector[p].last, new |-> None]
      pass[i \in 0 .. Cardinality(Nodes)] ==
        IF i = 0 THEN start ELSE CheckNode(pass[i - 1], order[i], order[i] \in seen[p])
  IN pass[Cardinality(Nodes)]

\* failure_service: a reported leader makes p's proposer lead or resign.
Check(p) ==
  /\ p \in up
  /\ timely => up \ {p} \subseteq seen[p]
  /\ \E pass \in {Checked(p, order) : order \in CheckOrders(p)} :
     /\ detector' = [detector EXCEPT ![p] =
          [state |-> pass.state, suspected |-> pass.suspected, last |-> pass.last]]
     /\ seen' = [seen EXCEPT ![p] = {}]
     /\ isLeader' = [isLeader EXCEPT ![p] = IF pass.new = None THEN @ ELSE pass.new = p]
     /\ UNCHANGED <<up, timely, restarts>>

----------------------------------------------------------------------------
(* Heartbeats, crashes and restarts. *)

\* Variant: p does not count itself as seen.
HeartbeatOfOther(p, n) ==
  /\ p \in up /\ n # p
  /\ timely => n \in up
  /\ seen' = [seen EXCEPT ![p] = @ \cup {n}]
  /\ UNCHANGED <<detector, isLeader, up, timely, restarts>>

\* A heartbeat of n reaches p, which counts itself as seen too.
Heartbeat(p, n) ==
  /\ p \in up /\ n # p
  /\ timely => n \in up
  /\ seen' = [seen EXCEPT ![p] = @ \cup {n, p}]
  /\ UNCHANGED <<detector, isLeader, up, timely, restarts>>

Crash(n) ==
  /\ n \in up /\ ~timely
  /\ up' = up \ {n}
  /\ UNCHANGED <<detector, seen, isLeader, timely, restarts>>

\* The supervisor starts n again, with detectors that know nothing.
Restart(n) ==
  /\ n \notin up /\ ~timely
  /\ restarts < MaxRestarts
  /\ restarts' = restarts + 1
  /\ up' = up \cup {n}
  /\ detector' = [p \in Candidates |-> IF p = n THEN NewDetector ELSE detector[p]]
  /\ seen' = [p \in Candidates |-> IF p = n THEN {} ELSE seen[p]]
  /\ isLeader' = [p \in Candidates |-> IF p = n THEN StartedAsLeader(p) ELSE isLeader[p]]
  /\ UNCHANGED timely

\* The environment settles.
BecomeTimely ==
  /\ ~timely /\ timely' = TRUE
  /\ UNCHANGED <<detector, seen, isLeader, up, restarts>>

Next == \/ \E p \in Candidates : Check(p) \/ \E n \in Nodes : Heartbeat(p, n)
        \/ \E n \in MayCrash : Crash(n) \/ Restart(n)
        \/ BecomeTimely

\* The main loop of a running node sends heartbeats and checks again and again.
Fairness == \A p \in Candidates :
  /\ WF_vars(Check(p))
  /\ \A n \in Nodes : WF_vars(Heartbeat(p, n))

Spec == Init /\ [][Next]_vars /\ Fairness

----------------------------------------------------------------------------
\* The leader detector's leader is the highest proposer the failure detector
\* does not hold dead (failure-detector.rs checker, leader-detector.rs
\* recompute_leader), although it hears of changes only.
LeaderIsHighestAlive == \A p \in Candidates :
  detector[p].last = Highest({c \in Candidates : detector[p].state[c] # "Dead"})

\* A proposer leads if and only if its own detector last named it
\* (coordinator.rs failure_service), however many nodes died and came back in
\* one pass of the check.
FlagFollowsDetector == \A p \in Candidates :
  detector[p].last # None => (isLeader[p] <=> detector[p].last = p)

\* Once the deployment is timely, the running proposers come to agree for good:
\* the highest of them leads and no other does (leader-detector.rs, "Recompute
\* highest-ID alive").
Agreed == \A p \in Candidates \cap up : isLeader[p] <=> p = Max(Candidates \cap up)
EventuallyOneLeader == <>timely => <>[]Agreed
=============================================================================
