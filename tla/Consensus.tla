----------------------------- MODULE Consensus -----------------------------
(***************************************************************************)
(* What the acceptors promise together: a log in which every slot gets at  *)
(* most one command, and keeps it.                                         *)
(***************************************************************************)
CONSTANTS Slots, Commands, None

VARIABLE decided

Init == decided = [s \in Slots |-> None]

Decide(s, v) ==
  /\ decided[s] = None
  /\ decided' = [decided EXCEPT ![s] = v]

Next == \E s \in Slots, v \in Commands : Decide(s, v)

Spec == Init /\ [][Next]_decided
=============================================================================
