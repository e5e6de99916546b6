--------------------------- MODULE MCCoordinator ----------------------------
(***************************************************************************)
(* Coordinator for TLC, from the middle of a run.                          *)
(***************************************************************************)
EXTENDS Coordinator, TLC

Symmetry == Permutations(Commands)

\* A reachable state: the node with the highest id has been leader from the start
\* and has finished phase 1 with its first ballot, before any command was
\* learned; it has a command in its queue.  Every acceptor has promised; the promise
\* of a node that may take over is still under way.
Init ==
  LET old   == GreatestOf(Proposers)
      empty == [s \in Slots |-> None]
      all   == {PromiseMsg(a, old, 1, old, empty) : a \in Acceptors}
  IN /\ \E late \in {m \in all : \E n \in MayLead \ {old} : m.from = AcceptorOf(n)}, v \in Commands :
          /\ network = {late}
          /\ core = [n \in Proposers |-> [NewCore(n, n, 0) EXCEPT !.pending = IF n = old THEN <<v>> ELSE <<>>]]
          /\ submitted = {v}
          /\ agent = [n \in Proposers |-> IF n # old THEN NewAgent
               ELSE [NewAgent EXCEPT !.phase = "AcceptCommit", !.timer = TRUE, !.promises = all \ {late}]]
     /\ promised = [a \in Acceptors |-> old]
     /\ accepted = [a \in Acceptors |-> empty]
     /\ LearnerInit
     /\ replies = {}
     /\ panicked = {}

Spec == Init /\ [][CoordinatorNext]_coordinatorVars
=============================================================================
