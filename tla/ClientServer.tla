---------------------------- MODULE ClientServer ----------------------------
(***************************************************************************)
(* The leader's end of the client connections: the client server           *)
(* (network-ws/client-server) and the main loop's calls of it              *)
(* (runners/runner).  Requests are read off every connection, an answer    *)
(* goes back along the route its request came by.  What the protocol does  *)
(* in between is a queue: requests are answered in order, some time later. *)
(***************************************************************************)
EXTENDS Integers, Sequences, FiniteSets, FiniteSetsExt, Functions

CONSTANTS
  Clients,      \* the client ids
  Seqs,         \* the sequence numbers of requests
  MaxRequests,  \* max_messages: the requests after which a poll stops
  MaxLives   \* bound: how often the leader is started again

ASSUME PollAssumption == MaxRequests \in Nat \ {0} /\ MaxLives \in Nat

VARIABLES
  chans,    \* the connections ever opened
  server,   \* the leader process
  lives     \* its restarts so far

serverVars == <<chans, server, lives>>

Requests == [client : Clients, seq : Seqs]
NoChan == 0

\* A connection: what each end has not read yet, whether the client and the
\* server have it open, and the requests that were read off it.
NewChan(c) == [client |-> c, toServer |-> <<>>, toClient |-> <<>>, open |-> TRUE, live |-> TRUE, asked |-> {}]

\* What is left of one that both ends have closed.
Gone(c) == [NewChan(c) EXCEPT !.open = FALSE, !.live = FALSE]

\* A process that starts as leader listens; it has accepted no connection.
NewServer == [up |-> TRUE, leads |-> TRUE, conns |-> {}, routes |-> [r \in Requests |-> NoChan], work |-> <<>>]

ServerInit == chans = <<>> /\ server = NewServer /\ lives = 0

----------------------------------------------------------------------------
\* Variant: requests are told apart by their number alone.
KeyBySeq(r) == [client |-> CHOOSE c \in Clients : TRUE, seq |-> r.seq]
\* The key of a request in req2chan.
Key(r) == r

\* The connections waiting to be accepted are accepted.
Accepted == {ch \in DOMAIN chans : chans[ch].live}

\* One poll of the connections in some order, until enough requests are read:
\* the requests, the routes, the connections read and those found closed.
Polled(order) ==
  LET poll[i \in 0 .. Len(order)] ==
        IF i = 0 THEN [out |-> <<>>, routes |-> server.routes, read |-> {}, gone |-> {}]
        ELSE LET so == poll[i - 1]
                 ch == order[i]
                 requests == chans[ch].toServer
             IN IF Len(so.out) >= MaxRequests THEN so
                ELSE IF requests # <<>>
                THEN [so EXCEPT !.out = @ \o requests, !.read = @ \cup {ch},
                        !.routes = [r \in Requests |->
                          IF \E q \in Range(requests) : Key(q) = r THEN ch ELSE @[r]]]
                ELSE IF ~chans[ch].open THEN [so EXCEPT !.gone = @ \cup {ch}] ELSE so
  IN poll[Len(order)]

\* Variant: the test of retain is the wrong way round.
RetainDropped(routes, gone) ==
  [r \in Requests |-> IF gone # {} /\ routes[r] \notin gone THEN NoChan ELSE routes[r]]
\* No route leads to a dropped connection.
Retained(routes, gone) == [r \in Requests |-> IF routes[r] \in gone THEN NoChan ELSE routes[r]]

\* get_requests, of a leader only: new connections are accepted, all of them are
\* polled, the closed ones dropped, and the requests submitted.
GetRequests ==
  /\ server.up /\ server.leads
  /\ \E order \in {o \in [1 .. Cardinality(Accepted) -> Accepted] : Range(o) = Accepted} :
       LET poll == Polled(order) IN
       /\ server' = [server EXCEPT !.conns = Accepted \ poll.gone,
                       !.routes = Retained(poll.routes, poll.gone), !.work = @ \o poll.out]
       /\ chans' = [ch \in DOMAIN chans |->
            IF ch \in poll.gone THEN Gone(chans[ch].client)
            ELSE IF ch \in poll.read
            THEN [chans[ch] EXCEPT !.toServer = <<>>, !.asked = @ \cup Range(chans[ch].toServer)]
            ELSE chans[ch]]
  /\ UNCHANGED lives

----------------------------------------------------------------------------
(* A process that ends takes its ends of the connections with it; what a    *)
(* client has not read yet may be lost.                                     *)

Severed(f) == {[ch \in DOMAIN f |->
                 IF ~f[ch].open THEN Gone(f[ch].client)
                 ELSE [f[ch] EXCEPT !.live = FALSE, !.toServer = <<>>, !.asked = {},
                                    !.toClient = IF ch \in lost THEN <<>> ELSE @]] :
               lost \in SUBSET {ch \in DOMAIN f : f[ch].toClient # <<>>}}
Down == [NewServer EXCEPT !.up = FALSE, !.leads = FALSE]

\* The connection an answer goes out by: its route, if it is still there.
Outlet(r) == IF server.routes[Key(r)] \in server.conns THEN server.routes[Key(r)] ELSE NoChan

Delivered(f, answers) ==
  LET write[i \in 0 .. Len(answers)] ==
        IF i = 0 THEN f
        ELSE LET ch == Outlet(answers[i]) IN
             IF ch # NoChan /\ f[ch].open
             THEN [write[i - 1] EXCEPT ![ch].toClient = Append(@, answers[i])]
             ELSE write[i - 1]
  IN write[Len(answers)]

\* send_responses, of the n requests answered so far: each answer is written to
\* its outlet, and its route forgotten.  A write to a connection that the client
\* has closed may fail.  The tear-down that is to follow borrows maps that are
\* borrowed already: the process panics.  A process that leads no more drops
\* its answers.
SendResponses(n) ==
  LET answers == SubSeq(server.work, 1, n)
      written == Delivered(chans, answers)
      closed  == {i \in 1 .. n : Outlet(answers[i]) # NoChan /\ ~chans[Outlet(answers[i])].open}
      rest    == [server EXCEPT !.work = SubSeq(@, n + 1, Len(@))]
  IN /\ server.up /\ n \in 1 .. Len(server.work)
     /\ \/ ~server.leads /\ server' = rest /\ UNCHANGED chans
        \/ /\ server.leads
           /\ server' = [rest EXCEPT !.routes =
                [r \in Requests |-> IF \E i \in 1 .. n : Key(answers[i]) = r THEN NoChan ELSE @[r]]]
           /\ chans' = written
        \/ /\ server.leads /\ closed # {}
           /\ server' = Down
           /\ chans' \in Severed(written)
     /\ UNCHANGED lives

----------------------------------------------------------------------------
(* The process. *)

ServerCrash == server.up /\ lives < MaxLives /\ server' = Down /\ chans' \in Severed(chans) /\ UNCHANGED lives

\* The supervisor starts it again.
ServerRestart == /\ ~server.up /\ lives < MaxLives
           /\ lives' = lives + 1
           /\ server' = NewServer
           /\ UNCHANGED chans

\* The failure detector names another leader; the connections stay.
Resign == /\ server.up /\ server.leads /\ lives < MaxLives
          /\ server' = [server EXCEPT !.leads = FALSE]
          /\ UNCHANGED <<chans, lives>>

\* A process that is named leader again sets up its listener again, on the
\* address that its old listener still holds: finish_bind().unwrap() panics.
LeadAgain == server.up /\ ~server.leads /\ server' = Down /\ chans' \in Severed(chans) /\ UNCHANGED lives

ServerNext == GetRequests \/ ServerCrash \/ ServerRestart \/ Resign \/ LeadAgain
              \/ \E n \in 1 .. Len(server.work) : SendResponses(n)
=============================================================================
