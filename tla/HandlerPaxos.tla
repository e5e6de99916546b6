---------------------------- MODULE HandlerPaxos ---------------------------
(***************************************************************************)
(* The first components that ran as services (archive/paxos-v0.0.3): a     *)
(* proposer and an acceptor component, each behind a gRPC handler that     *)
(* holds the lock of its component.  A request to a proposer runs a whole  *)
(* proposal: it asks the acceptors in turn and ends with the first call    *)
(* that fails.                                                             *)
(***************************************************************************)
EXTENDS Integers, Sequences, FiniteSets, Functions

CONSTANTS
  Handlers,      \* the proposers, by id
  NumHandled,    \* the acceptors are 1 .. NumHandled, in the order they are asked
  Proposed,      \* the values clients propose
  MaxCrnd        \* bound: the rounds of a proposer

ASSUME HandlersAssumption == Handlers \subseteq Nat \ {0} /\ NumHandled \in Nat \ {0} /\ MaxCrnd \in Nat

VARIABLES
  handled,   \* handled[a]: an acceptor component
  handler    \* handler[p]: a proposer component, and the request it is at

handlerVars == <<handled, handler>>

Handled == 1 .. NumHandled
Rejection == [from |-> 0, rnd |-> 0]

\* The acceptors a proposer is connected to, in the order of their addresses:
\* those it cannot connect to when it starts are left out for good.
ClientLists == {list \in UNION {[1 .. n -> Handled] : n \in 0 .. NumHandled} :
                  \A i, j \in DOMAIN list : i < j => list[i] < list[j]}

HandlerInit ==
  /\ handled = [a \in Handled |-> [rnd |-> 0, vrnd |-> 0, vval |-> {}]]
  /\ \E clients \in [Handlers -> ClientLists] : handler = [p \in Handlers |->
       [crnd |-> p - 1, clientvalue |-> {}, promises |-> {}, clients |-> clients[p],
        phase |-> "idle", answers |-> <<>>, asked |-> 0]]

----------------------------------------------------------------------------
(* The acceptor component. *)

HandlePrepare(a, crnd) ==
  IF crnd <= a.rnd THEN a ELSE [a EXCEPT !.rnd = crnd]
PromiseTo(a, n, crnd) == IF crnd <= a.rnd THEN Rejection ELSE [from |-> n, rnd |-> crnd]

\* Variant: a second accept of a round is taken too.
RefusesOld(a, rnd) == rnd < a.rnd
\* It refuses an older round, and the round it has accepted in.
Refuses(a, rnd) == rnd < a.rnd \/ rnd = a.vrnd
HandleAccept(a, rnd, val) == IF Refuses(a, rnd) THEN a ELSE [rnd |-> rnd, vrnd |-> rnd, vval |-> val]

----------------------------------------------------------------------------
(* The proposer component and its handler. *)

\* A client's value starts a round; the promises of earlier rounds are kept.
ClientRequest(p, value) ==
  /\ handler[p].phase = "idle" /\ handler[p].crnd < MaxCrnd
  /\ handler' = [handler EXCEPT ![p].crnd = @ + 1, ![p].clientvalue = {value}, ![p].phase = "prepare"]
  /\ UNCHANGED handled

AllAsked(p)  == handler[p].asked = Len(handler[p].clients)
NextAsked(p) == handler[p].clients[handler[p].asked + 1]

CallPrepare(p) ==
  LET a == NextAsked(p) IN
  /\ handler[p].phase = "prepare" /\ ~AllAsked(p)
  /\ handled' = [handled EXCEPT ![a] = HandlePrepare(@, handler[p].crnd)]
  /\ handler' = [handler EXCEPT ![p].asked = @ + 1, ![p].answers = Append(@, PromiseTo(handled[a], a, handler[p].crnd))]

\* The promises that are known once the first n answers have been handled.
Promisers(p, n) ==
  handler[p].promises \cup {handler[p].answers[i].from : i \in {j \in 1 .. n : handler[p].answers[j].rnd = handler[p].crnd}}

\* Those answers that find a quorum of promises, of all acceptors.
Quorate(p) ==
  {n \in DOMAIN handler[p].answers : /\ handler[p].answers[n].rnd = handler[p].crnd
                                     /\ Cardinality(Promisers(p, n)) >= NumHandled \div 2 + 1}

Ended(h) == [h EXCEPT !.phase = "idle", !.answers = <<>>, !.asked = 0]

\* All have answered: the first answer that makes a quorum starts the accepts,
\* and the answers after it are not handled.
HandleAnswers(p) ==
  /\ handler[p].phase = "prepare" /\ AllAsked(p)
  /\ \/ \E n \in Quorate(p) : /\ \A k \in Quorate(p) : n <= k
                              /\ handler' = [handler EXCEPT ![p] =
                                   [Ended(@) EXCEPT !.phase = "accept", !.promises = Promisers(p, n)]]
     \/ /\ Quorate(p) = {}
        /\ handler' = [handler EXCEPT ![p] = [Ended(@) EXCEPT !.promises = Promisers(p, handler[p].asked)]]
  /\ UNCHANGED handled

CallAccept(p) ==
  LET a == NextAsked(p) IN
  /\ handler[p].phase = "accept" /\ ~AllAsked(p)
  /\ handled' = [handled EXCEPT ![a] = HandleAccept(@, handler[p].crnd, handler[p].clientvalue)]
  /\ handler' = [handler EXCEPT ![p].asked = @ + 1]

\* A call that fails ends the round, before or after the acceptor has handled it.
CallFails(p) ==
  /\ handler[p].phase \in {"prepare", "accept"} /\ ~AllAsked(p)
  /\ handler' = [handler EXCEPT ![p] = Ended(@)]
  /\ handled' \in {handled, [handled EXCEPT ![NextAsked(p)] =
       IF handler[p].phase = "prepare" THEN HandlePrepare(@, handler[p].crnd)
       ELSE HandleAccept(@, handler[p].crnd, handler[p].clientvalue)]}

\* The client is told that its value was proposed, whatever came of it.
Reply(p) ==
  /\ handler[p].phase = "accept" /\ AllAsked(p)
  /\ handler' = [handler EXCEPT ![p] = Ended(@)]
  /\ UNCHANGED handled

HandlerNext == \E p \in Handlers :
  \/ \E value \in Proposed : ClientRequest(p, value)
  \/ CallPrepare(p) \/ HandleAnswers(p) \/ CallAccept(p) \/ CallFails(p) \/ Reply(p)

HandlerSpec == HandlerInit /\ [][HandlerNext]_handlerVars

----------------------------------------------------------------------------
Advances(a, b) == b.rnd >= a.rnd /\ (b.vval # a.vval => b.vrnd > a.vrnd)
AcceptorsAdvance == \A a \in Handled : Advances(handled[a], handled'[a])

\* An acceptor accepts one value in a round, although proposers start from
\* neighbouring rounds and come to use the same one, and its rounds never go back.
OneValuePerRound == [][AcceptorsAdvance]_handled
=============================================================================
