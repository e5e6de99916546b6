----------------------------- MODULE Acceptor ------------------------------
(***************************************************************************)
(* The core acceptor (core/acceptor/src/acceptor.rs) driven by its agent   *)
(* (agents/acceptor-agent/src/acceptor-agent.rs) in event-driven mode.     *)
(* An accepted slot is never overwritten: a second value for it is         *)
(* rejected whatever its ballot.                                           *)
(***************************************************************************)
EXTENDS Network

VARIABLES
  promised,   \* promised[a]: the last entry of a's promises, 0 if none
  accepted    \* accepted[a][s]: the p-value a accepted in slot s, or None

acceptorVars == <<promised, accepted>>

AcceptorInit ==
  /\ promised = [a \in Acceptors |-> 0]
  /\ accepted = [a \in Acceptors |-> [s \in Slots |-> None]]

\* The accepted p-values of a in the slots from slot on.
CollectAcceptedFrom(a, slot) ==
  [s \in Slots |-> IF s >= slot THEN accepted[a][s] ELSE None]

\* Prepare with a ballot that is at least the promised one: promise it and
\* answer with the accepted p-values.
Promise(a, m) ==
  /\ m.ballot >= promised[a]
  /\ promised' = [promised EXCEPT ![a] = m.ballot]
  /\ Reply(m, {PromiseMsg(a, m.from, m.slot, m.ballot, CollectAcceptedFrom(a, m.slot))})
  /\ UNCHANGED accepted

\* Prepare with a lower ballot: rejected, and the proposer is not told.
RejectPrepare(a, m) ==
  /\ m.ballot < promised[a]
  /\ Reply(m, {})
  /\ UNCHANGED acceptorVars

HandlePrepare(a) == \E m \in Inbox(a, "prepare") : Promise(a, m) \/ RejectPrepare(a, m)

\* What a tells of an accepted value: the learners, or the proposer, get it.
Announce(a, m) ==
  IF AcceptorsSendLearns
    THEN {LearnMsg(a, l, m.slot, m.value) : l \in Learners}
    ELSE {AcceptedMsg(a, m.from, m.slot, m.ballot)}

\* Variants: an accepted value is replaced, as in Paxos; the promise is not kept.
Overwrite(a, m) ==
  /\ m.ballot >= promised[a]
  /\ accepted' = [accepted EXCEPT ![a][m.slot] = [ballot |-> m.ballot, value |-> m.value]]
  /\ Reply(m, Announce(a, m))
  /\ UNCHANGED promised
AcceptAnyBallot(a, m) ==
  /\ accepted[a][m.slot] = None
  /\ accepted' = [accepted EXCEPT ![a][m.slot] = [ballot |-> m.ballot, value |-> m.value]]
  /\ Reply(m, Announce(a, m))
  /\ UNCHANGED promised

\* Accept for a slot without a value: the only step that writes accepted.
AcceptNew(a, m) ==
  /\ m.ballot >= promised[a]
  /\ accepted[a][m.slot] = None
  /\ accepted' = [accepted EXCEPT ![a][m.slot] = [ballot |-> m.ballot, value |-> m.value]]
  /\ Reply(m, Announce(a, m))
  /\ UNCHANGED promised

\* Accept for a slot that holds the same value: announced again, and the
\* stored ballot stays what it was.
AcceptAgain(a, m) ==
  /\ m.ballot >= promised[a]
  /\ accepted[a][m.slot] # None
  /\ accepted[a][m.slot].value = m.value
  /\ Reply(m, Announce(a, m))
  /\ UNCHANGED acceptorVars

\* Accept with too low a ballot or for a slot that holds another value.
RejectAccept(a, m) ==
  /\ \/ m.ballot < promised[a]
     \/ accepted[a][m.slot] # None /\ accepted[a][m.slot].value # m.value
  /\ Reply(m, {})
  /\ UNCHANGED acceptorVars

HandleAccept(a) == \E m \in Inbox(a, "accept") :
                     AcceptNew(a, m) \/ AcceptAgain(a, m) \/ RejectAccept(a, m)

\* A learner misses slots: tell every learner what was accepted there, or a
\* no-op that is recorded nowhere.
RetryValue(a, s) == IF accepted[a][s] = None THEN NoOp ELSE accepted[a][s].value
HandleRetryLearns(a) == \E m \in Inbox(a, "retry-learns") :
  /\ Reply(m, {LearnMsg(a, l, s, RetryValue(a, s)) : s \in m.slots, l \in Learners})
  /\ UNCHANGED acceptorVars

AcceptorStep(a) == HandlePrepare(a) \/ HandleAccept(a) \/ HandleRetryLearns(a)

AcceptorTypeOK ==
  /\ promised \in [Acceptors -> Ballots]
  /\ accepted \in [Acceptors -> AcceptedMap]

----------------------------------------------------------------------------
(* What a majority has accepted. *)

\* v is chosen in slot s: a majority of the acceptors has accepted it.
VotedFor(s, v) == {a \in Acceptors : accepted[a][s] # None /\ accepted[a][s].value = v}
Chosen(s) == {v \in Commands : IsQuorum(VotedFor(s, v))}
=============================================================================
