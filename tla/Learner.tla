------------------------------ MODULE Learner ------------------------------
(***************************************************************************)
(* The core learner (core/learner/src/learner.rs), its agent               *)
(* (agents/learner-agent/src/learner-agent.rs) and the key-value store it  *)
(* drives (core/kv-store/src/kv-store.rs, here the history of the applied  *)
(* commands).  Clocks are left out: a timeout or a cool-down may have      *)
(* expired or not at any tick.                                             *)
(***************************************************************************)
EXTENDS Network

VARIABLES
  slotLearns,   \* slotLearns[l][s][a]: the last value a told l for s, or None
  learned,      \* learned[l][s]: the value learned for s, or None
  learnerAdu,   \* all slots up to learnerAdu[l] are executed
  history,      \* history[l]: what l's key-value store has applied
  execBuffer    \* execBuffer[l]: results not yet sent to the proposers

learnerVars == <<slotLearns, learned, learnerAdu, history, execBuffer>>

LearnerInit ==
  /\ slotLearns = [l \in Learners |-> [s \in Slots |-> [a \in Acceptors |-> None]]]
  /\ learned = [l \in Learners |-> [s \in Slots |-> None]]
  /\ learnerAdu = [l \in Learners |-> 0]
  /\ history = [l \in Learners |-> <<>>]
  /\ execBuffer = [l \in Learners |-> <<>>]

\* The acceptors whose last learn in votes is v.
Votes(votes, v) == {a \in Acceptors : votes[a] = v}

\* The highest slot, from adu on, up to which every slot is learned.
Gapless(map, adu) == {s \in Slots : s > adu /\ \A t \in adu + 1 .. s : map[t] # None}
\* Variant: up to the highest slot learned, over the gaps.
OverGaps(map, adu) == CHOOSE s \in 0 .. MaxSlot :
  /\ s = adu \/ (s > adu /\ map[s] # None)
  /\ \A t \in Slots : t > s => map[t] = None
Contiguous(map, adu) == adu + Cardinality(Gapless(map, adu))

\* The results of executing the slots first..last of map.
Results(map, first, last) ==
  [i \in 1 .. last - first + 1 |-> [slot |-> first + i - 1, value |-> map[first + i - 1]]]

\* How many of len buffered results are sent: a full batch, or at a tick, when
\* it need not be full, whatever there is of one.
DispatchSize(len, full) ==
  IF len >= MessageBatchSize THEN MessageBatchSize ELSE IF full THEN 0 ELSE len

\* Execute, in slot order, what map holds right after adu; then, if so
\* configured, take a batch of results off the buffer and send it with the adu.
ExecuteAndDispatch(l, map, received, others, full) ==
  LET adu  == Contiguous(map, learnerAdu[l])
      new  == Results(map, learnerAdu[l] + 1, adu)
      buf  == execBuffer[l] \o new
      k    == IF LearnersSendExecuted THEN DispatchSize(Len(buf), full) ELSE 0
      sent == SubSeq(buf, 1, k)
  IN /\ learnerAdu' = [learnerAdu EXCEPT ![l] = adu]
     /\ history' = [history EXCEPT ![l] = @ \o [i \in DOMAIN new |-> new[i].value]]
     /\ execBuffer' = [execBuffer EXCEPT ![l] = SubSeq(buf, k + 1, Len(buf))]
     /\ Reply(received, others \cup
              IF sent = <<>> THEN {} ELSE {ExecutedMsg(l, p, sent, adu) : p \in Proposers})

\* Variant: a majority has told something, whatever it was.
AnyMajority(votes, v) == IF AcceptorsSendLearns
  THEN IF IsQuorum({a \in Acceptors : votes[a] # None}) THEN {v} ELSE {}
  ELSE {v}

\* The value a learn makes known: with acceptors sending learns, one that a
\* majority agrees on; otherwise the proposer's word is enough.
Learnable(votes, v) == IF AcceptorsSendLearns
  THEN {w \in Values : IsQuorum(Votes(votes, w))}
  ELSE {v}

HandleLearn(l) == \E m \in Inbox(l, "learn") :
  LET votes == IF AcceptorsSendLearns
                 THEN [slotLearns[l][m.slot] EXCEPT ![m.from] = m.value]
                 ELSE slotLearns[l][m.slot]
      known == Learnable(votes, m.value)
  IN /\ slotLearns' = [slotLearns EXCEPT ![l][m.slot] = votes]
     /\ IF learned[l][m.slot] = None /\ known # {}
          THEN \E v \in known :
                 /\ learned' = [learned EXCEPT ![l][m.slot] = v]
                 /\ ExecuteAndDispatch(l, learned'[l], m, {}, TRUE)
          ELSE /\ Reply(m, {})
               /\ UNCHANGED <<learned, learnerAdu, history, execBuffer>>

\* What a retry may ask for: a batch of slots between the adu and the highest
\* slot learned, of those that are not cooling down.  The scan does not look
\* whether a slot is learned.
Retryable(l) ==
  LET scanned == {s \in Slots : s > learnerAdu[l] /\ \E t \in Slots : t >= s /\ learned[l][t] # None}
  IN {S \in SUBSET scanned : Cardinality(S) <= IF LearnersRetry THEN MessageBatchSize ELSE 0}
RetryTargets == IF AcceptorsSendLearns THEN Acceptors ELSE Proposers

\* A tick: maybe ask again for missing slots, and, if the execution interval
\* has passed, execute and send results.
LearnerTick(l) == \E S \in Retryable(l), due \in BOOLEAN :
  LET retries == IF S = {} THEN {} ELSE {RetryLearnsMsg(l, n, S) : n \in RetryTargets}
  IN /\ UNCHANGED <<slotLearns, learned>>
     /\ IF due THEN ExecuteAndDispatch(l, learned[l], None, retries, FALSE)
               ELSE /\ Send(retries)
                    /\ UNCHANGED <<learnerAdu, history, execBuffer>>

\* A proposer that starts asks for the adu.
HandleAduRequest(l) == \E m \in Inbox(l, "adu") :
  /\ Reply(m, {AduMsg(l, m.from, learnerAdu[l])})
  /\ UNCHANGED learnerVars

LearnerStep(l) == HandleLearn(l) \/ LearnerTick(l) \/ HandleAduRequest(l)

LearnerTypeOK ==
  /\ slotLearns \in [Learners -> [Slots -> [Acceptors -> Values \cup {None}]]]
  /\ learned \in [Learners -> [Slots -> Values \cup {None}]]
  /\ learnerAdu \in [Learners -> 0 .. MaxSlot]
  /\ history \in [Learners -> Seq(Values)]
  /\ execBuffer \in [Learners -> Seq(Result)]
=============================================================================
