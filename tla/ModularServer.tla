---------------------------- MODULE ModularServer --------------------------
(***************************************************************************)
(* The servers that the present network components replaced                *)
(* (archive/modular-ws tcp-server and udp-server, with the UDP client):    *)
(* one loop accepts connections, reads one frame off each, ticks, and      *)
(* writes the responses.  Over TCP clients and peers come by the same      *)
(* listener, and the loop ticks when nobody waits there; over UDP peers    *)
(* send datagrams, and only a leader listens for clients.                  *)
(***************************************************************************)
EXTENDS Integers, Sequences, FiniteSets

CONSTANTS
  Roles,         \* what the node may be: a leading "proposer" or "coordinator", or a "follower"
  Visitors,      \* the connections that clients open
  Wishes,        \* the keys of client requests, (client_id, client_seq)
  MaxWaiting     \* bound: connections, and datagrams, that wait

ASSUME WaitingAssumption == MaxWaiting \in Nat \ {0}
ASSUME RolesAssumption == Roles \subseteq {"proposer", "coordinator", "follower"}

VARIABLES
  visitor,   \* visitor[v]: what it asks for, whether it still listens, where it is
  loop,      \* the server's loop: its kind, its role, where it is, who waits
  held,      \* client_connections: held[k] is the connection that waits for k
  jobs       \* the requests submitted and not answered, and how many are executed

modularVars == <<visitor, loop, held, jobs>>

Nobody == 0
Peer == -1   \* a connection of a peer, with a message in it

ModularInit ==
  /\ visitor \in [Visitors -> [asks : Wishes, stays : {TRUE}, at : {"outside"}]]
  /\ loop \in [kind : {"tcp", "udp"}, role : Roles, at : {"accept"}, reads : {Nobody},
               waiting : {<<>>}, datagrams : {0}]
  /\ loop.role = "coordinator" => loop.kind = "tcp"   \* the UDP server has no such agent
  /\ held = [k \in Wishes |-> Nobody]
  /\ jobs = [queue |-> <<>>, executed |-> 0]

----------------------------------------------------------------------------
(* The clients, each on a connection of its own, and the peers. *)

\* A leading proposer or coordinator takes requests (submit_client_request), but
\* is_leader knows only proposers: its arm for a coordinator is commented out.
Takes    == loop.role \in {"proposer", "coordinator"}
IsLeader == loop.role = "proposer"

Listens == loop.kind = "tcp" \/ IsLeader

Visit(v) ==
  /\ visitor[v].at = "outside" /\ Listens /\ Len(loop.waiting) < MaxWaiting
  /\ visitor' = [visitor EXCEPT ![v].at = "silent"]
  /\ loop' = [loop EXCEPT !.waiting = Append(@, v)]
  /\ UNCHANGED <<held, jobs>>

Speak(v) ==
  /\ visitor[v].at = "silent" /\ visitor[v].stays
  /\ visitor' = [visitor EXCEPT ![v].at = "spoke"]
  /\ UNCHANGED <<loop, held, jobs>>

LeaveServer(v) ==
  /\ visitor[v].at \in {"silent", "spoke", "taken"} /\ visitor[v].stays
  /\ visitor' = [visitor EXCEPT ![v].stays = FALSE]
  /\ UNCHANGED <<loop, held, jobs>>

\* The protocol sends a leader a message for every request that is not executed,
\* a follower anything at all.
Underway == Cardinality({i \in DOMAIN loop.waiting : loop.waiting[i] = Peer}) + loop.datagrams
            + (IF loop.reads = Peer THEN 1 ELSE 0)
MessageDue == Takes => Underway + jobs.executed < Len(jobs.queue)

\* It comes by a connection of its own or as a datagram.  One that is dropped for
\* want of a permit, or lost, is one not sent yet.
PeerConnects ==
  /\ loop.kind = "tcp" /\ MessageDue /\ Len(loop.waiting) < MaxWaiting
  /\ loop' = [loop EXCEPT !.waiting = Append(@, Peer)]
  /\ UNCHANGED <<visitor, held, jobs>>
SendDatagram ==
  /\ loop.kind = "udp" /\ MessageDue /\ loop.datagrams < MaxWaiting
  /\ loop' = [loop EXCEPT !.datagrams = @ + 1]
  /\ UNCHANGED <<visitor, held, jobs>>
PeerSends == PeerConnects \/ SendDatagram

----------------------------------------------------------------------------
(* The loop. *)

AcceptConnection ==
  /\ loop.at = "accept" /\ loop.waiting # <<>>
  /\ loop' = [loop EXCEPT !.at = "read", !.reads = Head(loop.waiting), !.waiting = Tail(@)]
  /\ UNCHANGED <<visitor, held, jobs>>

\* A message that the protocol waited for: the next request is executed.
Executing(n) == [jobs EXCEPT !.executed = IF @ + n > Len(jobs.queue) THEN Len(jobs.queue) ELSE @ + n]

ReadMessage ==
  /\ loop.at = "read" /\ loop.reads = Peer
  /\ jobs' = Executing(1)
  /\ loop' = [loop EXCEPT !.at = "accept", !.reads = Nobody]
  /\ UNCHANGED <<visitor, held>>

\* Variant: the connection of the key is removed and shut down after the new one
\* was put there.
RegisterThenRemove(v) ==
  /\ held' = [held EXCEPT ![visitor[v].asks] = Nobody]
  /\ visitor' = [u \in Visitors |->
       IF u \in {v, held[visitor[v].asks]} THEN [visitor[u] EXCEPT !.at = "closed"] ELSE visitor[u]]
\* The connection of an earlier request with the same key is shut down.
Register(v) ==
  /\ held' = [held EXCEPT ![visitor[v].asks] = v]
  /\ visitor' = [u \in Visitors |->
       IF u = v THEN [visitor[u] EXCEPT !.at = "taken"]
       ELSE IF u = held[visitor[v].asks] THEN [visitor[u] EXCEPT !.at = "closed"] ELSE visitor[u]]

\* One frame is read, and the loop waits for it.  All connections but those of
\* requests that are taken are dropped.
ReadRequest ==
  LET v == loop.reads IN
  /\ loop.at = "read" /\ v \in Visitors /\ visitor[v].at = "spoke"
  /\ IF Takes
     THEN Register(v) /\ jobs' = [jobs EXCEPT !.queue = Append(@, visitor[v].asks)]
     ELSE visitor' = [visitor EXCEPT ![v].at = "closed"] /\ UNCHANGED <<held, jobs>>
  /\ loop' = [loop EXCEPT !.at = "accept", !.reads = Nobody]

ReadFailure ==
  LET v == loop.reads IN
  /\ loop.at = "read" /\ v \in Visitors /\ visitor[v].at = "silent" /\ ~visitor[v].stays
  /\ visitor' = [visitor EXCEPT ![v].at = "closed"]
  /\ loop' = [loop EXCEPT !.at = "accept", !.reads = Nobody]
  /\ UNCHANGED <<held, jobs>>

\* The UDP server takes in what datagrams there are once nobody waits.
ReceiveDatagrams ==
  /\ loop.kind = "udp" /\ loop.at = "accept" /\ loop.waiting = <<>>
  /\ jobs' = Executing(loop.datagrams)
  /\ loop' = [loop EXCEPT !.datagrams = 0, !.at = "tick"]
  /\ UNCHANGED <<visitor, held>>

\* Each response is written to the connection held for it, which is then shut
\* down; a client that has left is not told.
Responded(S) ==
  [u \in Visitors |->
    IF u \in S THEN [visitor[u] EXCEPT !.at = IF @ = "taken" /\ visitor[u].stays THEN "answered" ELSE "closed"]
    ELSE visitor[u]]

\* What the agent's handle_tick returns: the requests executed since the last one.
Responses == {jobs.queue[i] : i \in 1 .. jobs.executed}

\* A tick, when nobody waits: what was executed is taken from the agent, and behind
\* is_leader the responses are sent and their connections let go.
TickServer ==
  LET sent == IF IsLeader THEN Responses ELSE {} IN
  /\ \/ loop.kind = "tcp" /\ loop.at = "accept" /\ loop.waiting = <<>>
     \/ loop.kind = "udp" /\ loop.at = "tick"
  /\ loop' = [loop EXCEPT !.at = "accept"]
  /\ jobs' = [queue |-> SubSeq(jobs.queue, jobs.executed + 1, Len(jobs.queue)), executed |-> 0]
  /\ visitor' = Responded({held[k] : k \in sent})
  /\ held' = [k \in Wishes |-> IF k \in sent THEN Nobody ELSE held[k]]

LoopStep == AcceptConnection \/ ReadMessage \/ ReadRequest \/ ReadFailure \/ ReceiveDatagrams \/ TickServer

ModularNext == PeerSends \/ LoopStep \/ \E v \in Visitors : Visit(v) \/ Speak(v) \/ LeaveServer(v)

\* The loop goes on, and a peer's message for a request that is not executed
\* arrives in the end.  Clients need not speak.
ModularFairness == WF_modularVars(LoopStep) /\ SF_modularVars(PeerSends)

ModularSpec == ModularInit /\ [][ModularNext]_modularVars /\ ModularFairness

----------------------------------------------------------------------------
\* The loop waits for a client that has connected, says nothing and stays.
Stalled == \E v \in Visitors : loop.reads = v /\ visitor[v].at = "silent" /\ visitor[v].stays

\* A client of a leading proposer gets its response, unless it leaves or the same
\* request comes by another connection too, although the loop waits for every
\* connection it accepts and ticks when none is there: nothing but a silent client
\* can stop it (tcp-server.rs, run).  A leading coordinator answers nobody.
AskedIsAnswered == []<>~Stalled => \A v \in Visitors :
  IsLeader /\ visitor[v].at = "spoke" ~>
    \/ visitor[v].at = "answered" \/ ~visitor[v].stays
    \/ \E u \in Visitors \ {v} : visitor[u].asks = visitor[v].asks /\ visitor[u].at \in {"taken", "answered", "closed"}
=============================================================================
