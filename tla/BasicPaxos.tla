----------------------------- MODULE BasicPaxos ----------------------------
(***************************************************************************)
(* The prototype in plain Rust (paxos-rust): its acceptor, and the program *)
(* that proposes commands to acceptors in its own memory, learns what they *)
(* have accepted and applies it to a key-value store (main_basic.rs).      *)
(***************************************************************************)
EXTENDS Integers, FiniteSets, Sequences

CONSTANTS
  Members,    \* the acceptors
  Failing,    \* those of the program in memory that refuse everything
  Commands,   \* the commands
  Keys, Items, \* what the commands of the program in memory speak of
  MaxIds      \* bound: how many proposals the program in memory makes

ASSUME MembersAssumption == IsFiniteSet(Members) /\ Members # {} /\ Failing \subseteq Members
ASSUME MaxIdsAssumption == MaxIds \in Nat

----------------------------------------------------------------------------
(* The acceptor.  Numbers start at 1; 0 stands for none. *)

NoCommand == [id |-> 0, value |-> {}]
NewAcceptor == [promised |-> 0, accepted |-> NoCommand]

\* Variant: a number may be promised twice.
PromisesAgain(a, id) == id >= a.promised
Promises(a, id) == id > a.promised
WithPromise(a, id) == IF Promises(a, id) THEN [a EXCEPT !.promised = id] ELSE a

\* It accepts under the very number it has promised last, over what it has
\* accepted before.
Accepts(a, id) == a.promised = id
\* Variant: what is accepted first stays.
KeepsFirst(a, id, c) ==
  IF Accepts(a, id) /\ a.accepted = NoCommand THEN [a EXCEPT !.accepted = [id |-> id, value |-> {c}]] ELSE a
WithAccepted(a, id, c) ==
  IF Accepts(a, id) THEN [a EXCEPT !.accepted = [id |-> id, value |-> {c}]] ELSE a

----------------------------------------------------------------------------
(* The program in memory. *)

VARIABLES
  acceptors,   \* acceptors[a]
  proposal,    \* the number of the last proposal, and how it ended
  store        \* the key-value store: store[k] is {} or {item}

basicVars == <<acceptors, proposal, store>>

\* Commands are text, here sequences of words; some do not parse.
Texts == {<<verb, k, v>> : verb \in {"SET", "set"}, k \in Keys, v \in Items}
         \cup {<<verb, k>> : verb \in {"SET", "GET"}, k \in Keys}

\* from_string: the verb in either case, and the right number of words.
IsSet(words) == Len(words) = 3 /\ words[1] \in {"SET", "set"}

\* What is learned is parsed and applied.  Only a set changes the store.
Apply(s, words) == IF IsSet(words) THEN [s EXCEPT ![words[2]] = {words[3]}] ELSE s

BasicInit ==
  /\ acceptors = [a \in Members |-> NewAcceptor]
  /\ proposal = [id |-> 0, value |-> {}, success |-> FALSE, learned |-> NoCommand]
  /\ store = [k \in Keys |-> {}]

MoreThanHalf(n) == 2 * n > Cardinality(Members)

\* learn tallies the accepted values; a majority's is learned, under the number
\* it was seen with first.
Learned(as) ==
  LET supporters(v) == {a \in Members : as[a].accepted.value = v}
      chosen == {v \in {as[a].accepted.value : a \in Members} :
                   v # {} /\ 2 * Cardinality(supporters(v)) > Cardinality(Members)}
  IN IF chosen = {} THEN {NoCommand}
     ELSE {as[a].accepted : a \in UNION {supporters(v) : v \in chosen}}

\* propose: all acceptors are prepared; if most of them promise, all are asked
\* to accept.  The learner then looks at them, and what it finds is applied.
Propose(c) ==
  LET id       == proposal.id + 1
      willing  == Members \ Failing
      prepared == [a \in Members |-> IF a \in willing THEN WithPromise(acceptors[a], id) ELSE acceptors[a]]
      promised == MoreThanHalf(Cardinality({a \in willing : Promises(acceptors[a], id)}))
      accepted == [a \in Members |-> IF a \in willing THEN WithAccepted(prepared[a], id, c) ELSE prepared[a]]
      success  == promised /\ MoreThanHalf(Cardinality({a \in willing : Accepts(prepared[a], id)}))
  IN /\ proposal.id < MaxIds
     /\ acceptors' = IF promised THEN accepted ELSE prepared
     /\ \E l \in IF success THEN Learned(acceptors') ELSE {NoCommand} :
          /\ proposal' = [id |-> id, value |-> {c}, success |-> success, learned |-> l]
          /\ store' = IF l = NoCommand THEN store ELSE Apply(store, CHOOSE d \in l.value : TRUE)

BasicNext == \E c \in Texts : Propose(c)

BasicSpec == BasicInit /\ [][BasicNext]_basicVars

\* What is reported as accepted by a majority is what the learner finds then,
\* whichever acceptors refuse (integration_test.rs, "Learner should learn the
\* correct value"), and the store has been through it.
SuccessIsLearned == proposal.success =>
  /\ proposal.learned = [id |-> proposal.id, value |-> proposal.value]
  /\ \A c \in proposal.value : Apply(store, c) = store
=============================================================================
