------------------------------ MODULE Transport -----------------------------
(***************************************************************************)
(* Frames on TCP connections between nodes.  A node's network client is    *)
(* the guest component (network-ws/tcp-client), which connects and writes  *)
(* in the caller's thread, or the host's (runner-ws/host_network_client),  *)
(* which hands the frames to a background thread.  A node's network server *)
(* is the guest component (network-ws/network-server), which reads when it *)
(* is polled, or the host's (runner-ws/host_network_server), whose thread  *)
(* reads into an inbox.  A frame is two cells, its length and its text     *)
(* (Serializer says what is in it); any number of cells may have arrived   *)
(* when somebody reads.                                                    *)
(***************************************************************************)
EXTENDS Integers, Sequences, FiniteSets, SequencesExt

CONSTANTS
  Garbled, Nobody,           \* what cannot be read as a frame; Option::None
  Senders, HostSenders,      \* nodes that send; those with the host's client
  Receivers, HostReceivers,  \* nodes that receive; those with the host's server
  MaxMessages, \* the max of get_messages
  MaxLinks,    \* bound: connections ever opened
  MaxFailures  \* bound: broken connections and stopped receivers

\* What is sent: its sender, its receiver, its place in all its sender sends, and
\* whether a serializer can read its text.
Messages == [from : Senders, to : Receivers, n : Nat, readable : BOOLEAN]

ASSUME TransportAssumption ==
  /\ HostSenders \subseteq Senders /\ HostReceivers \subseteq Receivers
  /\ MaxMessages \in Nat /\ MaxLinks \in Nat
  /\ Garbled \notin Messages /\ Nobody \notin Senders \cup Receivers \cup 1 .. MaxLinks

VARIABLES
  script,    \* script[s]: all that s wants to send, in order
  outbox,     \* outbox[s]: what of it is still to be handed to the network client
  queue,      \* queue[s]: the channel to the background thread of a host client
  alive,      \* alive[s]: that thread has not panicked
  conn,       \* conn[s][r]: the connection s holds to r, or Nobody
  link,       \* link[c]: the connection, as the receiver sees it
  up,         \* the receivers that run
  inbox,      \* inbox[r]: the messages the host's server has read
  handed,     \* handed[r]: the messages the runner of r has got, with their sender
  failures,   \* how many failures there have been
  hurt        \* receivers that were stopped or had a connection broken

clientSide == <<script, outbox, queue, alive, conn>>
serverSide == <<up, inbox, handed>>
transportVars == <<clientSide, link, serverSide, failures, hurt>>

Links == 1 .. MaxLinks
NoLink == [from |-> Nobody, to |-> Nobody, accepted |-> FALSE, cut |-> FALSE, wire |-> <<>>, buffer |-> <<>>]

\* What senders may want to send: no two messages of a sender are the same.
Scripts == {w \in [Senders -> Seq(Messages)] :
              \A s \in Senders : \A i \in DOMAIN w[s] : w[s][i].from = s /\ w[s][i].n = i}

TransportInit(wanted) ==
  /\ script = wanted
  /\ outbox = script
  /\ queue = [s \in Senders |-> <<>>]
  /\ alive = [s \in Senders |-> TRUE]
  /\ conn = [s \in Senders |-> [r \in Receivers |-> Nobody]]
  /\ link = [c \in Links |-> NoLink]
  /\ up = Receivers
  /\ inbox = [r \in Receivers |-> <<>>]
  /\ handed = [r \in Receivers |-> <<>>]
  /\ failures = 0
  /\ hurt = {}

----------------------------------------------------------------------------
(* Writing. *)

Cells(m) == <<[part |-> "len", of |-> m], [part |-> "text", of |-> m]>>

LinksTo(r) == {c \in Links : link[c].to = r}
Usable(c)  == link[c].to # Nobody /\ ~link[c].cut
NextLink   == CHOOSE c \in Links : link[c] = NoLink /\ \A d \in Links : d < c => link[d] # NoLink
CanConnect == \E c \in Links : link[c] = NoLink   \* bound

\* A new connection that carries the frame, or one more frame on the one there is.
Write(s, r, m) ==
  \/ /\ conn[s][r] = Nobody /\ r \in up /\ CanConnect
     /\ link' = [link EXCEPT ![NextLink] =
                   [NoLink EXCEPT !.from = s, !.to = r, !.wire = Cells(m)]]
     /\ conn' = [conn EXCEPT ![s][r] = NextLink]
     /\ UNCHANGED <<failures, hurt>>
  \/ /\ conn[s][r] # Nobody
     /\ Usable(conn[s][r])
     /\ link' = [link EXCEPT ![conn[s][r]].wire = @ \o Cells(m)]
     /\ UNCHANGED <<conn, failures, hurt>>

\* Writing fails in the middle of a frame, or on a connection that is gone:
\* the connection is given up, and the message with it.
WriteFails(s, r, m) ==
  LET c == conn[s][r]
  IN /\ c # Nobody
     /\ conn' = [conn EXCEPT ![s][r] = Nobody]
     /\ IF Usable(c)
          THEN /\ failures < MaxFailures
               /\ failures' = failures + 1
               /\ hurt' = hurt \cup {r}
               /\ \E n \in 0 .. 1 : link' = [link EXCEPT ![c].cut = TRUE,
                                               ![c].wire = @ \o SubSeq(Cells(m), 1, n)]
          ELSE UNCHANGED <<link, failures, hurt>>

\* The first write after the peer has gone is taken by the socket and lost.
WriteLost(s, r) ==
  /\ conn[s][r] # Nobody /\ ~Usable(conn[s][r])
  /\ UNCHANGED <<conn, link, failures, hurt>>

CannotConnect(s, r) == conn[s][r] = Nobody /\ r \notin up

\* Variant: a peer that cannot be reached ends the loop over the peers.
GuestSendAborts(s) ==
  LET m == Head(outbox[s])
  IN /\ s \notin HostSenders /\ outbox[s] # <<>>
     /\ outbox' = [outbox EXCEPT ![s] = IF CannotConnect(s, m.to) THEN <<>> ELSE Tail(@)]
     /\ \/ Write(s, m.to, m)
        \/ WriteFails(s, m.to, m)
        \/ WriteLost(s, m.to)
        \/ CannotConnect(s, m.to) /\ UNCHANGED <<conn, link, failures, hurt>>
     /\ UNCHANGED <<script, queue, alive, serverSide>>
\* send_message_forget of the guest: a peer that cannot be reached is skipped.
GuestSend(s) ==
  LET m == Head(outbox[s])
  IN /\ s \notin HostSenders /\ outbox[s] # <<>>
     /\ outbox' = [outbox EXCEPT ![s] = Tail(@)]
     /\ \/ Write(s, m.to, m)
        \/ WriteFails(s, m.to, m)
        \/ WriteLost(s, m.to)
        \/ CannotConnect(s, m.to) /\ UNCHANGED <<conn, link, failures, hurt>>
     /\ UNCHANGED <<script, queue, alive, serverSide>>

\* send_message_forget of the host: into the channel; when the thread is gone
\* the error of the channel is ignored.
HostEnqueue(s) ==
  /\ s \in HostSenders /\ outbox[s] # <<>>
  /\ outbox' = [outbox EXCEPT ![s] = Tail(@)]
  /\ queue' = IF alive[s] THEN [queue EXCEPT ![s] = Append(@, Head(outbox[s]))] ELSE queue
  /\ UNCHANGED <<script, alive, conn, link, serverSide, failures, hurt>>

\* The background thread writes one frame.  If it cannot connect it unwraps
\* the result of a second connect, to nowhere, and panics.
HostWrite(s) ==
  LET m == Head(queue[s])
  IN /\ alive[s] /\ queue[s] # <<>>
     /\ \/ /\ \/ Write(s, m.to, m)
              \/ WriteFails(s, m.to, m)
              \/ WriteLost(s, m.to)
           /\ queue' = [queue EXCEPT ![s] = Tail(@)]
           /\ UNCHANGED alive
        \/ /\ CannotConnect(s, m.to)
           /\ alive' = [alive EXCEPT ![s] = FALSE]
           /\ queue' = [queue EXCEPT ![s] = <<>>]
           /\ UNCHANGED <<conn, link, failures, hurt>>
     /\ UNCHANGED <<script, outbox, serverSide>>

----------------------------------------------------------------------------
(* Reading. *)

\* Variant: what is left of an incomplete frame is thrown away.
ForgetRest(cells) == <<>>
\* The whole frames at the start of the buffered cells, and what is left.
Rest(cells) == SubSeq(cells, 2 * (Len(cells) \div 2) + 1, Len(cells))
\* The length of one message and the text of another make no message.
Decode(len, text) == IF len.part = "len" /\ text.part = "text" /\ len.of = text.of
                          /\ len.of.readable THEN len.of ELSE Garbled
Decoded(cells) == [i \in 1 .. Len(cells) \div 2 |-> Decode(cells[2 * i - 1], cells[2 * i])]

Dead(c) == link[c].cut /\ link[c].wire = <<>>
\* One connection is read: n cells have arrived.  A connection that is cut and
\* empty gives an error instead, and is dropped with its buffer.
\* Variant: whole frames stay in the buffer after they were taken out.
AfterReadKeeps(c, n) ==
  IF Dead(c) THEN [link[c] EXCEPT !.to = Nobody, !.buffer = <<>>]
  ELSE [link[c] EXCEPT !.accepted = TRUE, !.wire = SubSeq(@, n + 1, Len(@)),
                       !.buffer = @ \o SubSeq(link[c].wire, 1, n)]
AfterRead(c, n) ==
  IF Dead(c) THEN [link[c] EXCEPT !.to = Nobody, !.buffer = <<>>]
  ELSE LET got == link[c].buffer \o SubSeq(link[c].wire, 1, n)
       IN [link[c] EXCEPT !.accepted = TRUE, !.wire = SubSeq(@, n + 1, Len(@)), !.buffer = Rest(got)]
ReadFrom(c, n) ==
  IF Dead(c) THEN <<>> ELSE Decoded(link[c].buffer \o SubSeq(link[c].wire, 1, n))

\* The connections on which a read does something.
Ready(open, arrived) == {c \in open : arrived[c] > 0 \/ Dead(c)}
Orders(S) == {f \in [1 .. Cardinality(S) -> S] : Range(f) = S}
Arrivals(r) == {f \in [LinksTo(r) -> 0 .. Max({0} \cup {Len(link[c].wire) : c \in LinksTo(r)})] :
                  \A c \in LinksTo(r) : f[c] <= Len(link[c].wire)}
AllArrived(r) == [c \in LinksTo(r) |-> Len(link[c].wire)]

\* The elements of a sequence that are in T.
Only(T, seq) ==
  LET kept[i \in 0 .. Len(seq)] == IF i = 0 THEN <<>>
                                   ELSE IF seq[i] \in T THEN Append(kept[i - 1], seq[i]) ELSE kept[i - 1]
  IN kept[Len(seq)]

\* Everything that is lost when r stops.
StopReceiver(r) ==
  /\ up' = up \ {r}
  /\ link' = [c \in Links |-> IF link[c].to = r
                                THEN [link[c] EXCEPT !.to = Nobody, !.cut = TRUE, !.wire = <<>>, !.buffer = <<>>]
                                ELSE link[c]]
  /\ inbox' = [inbox EXCEPT ![r] = <<>>]
  /\ hurt' = hurt \cup {r}

\* What is read from the first k connections of an order, and whether a poll
\* ends there: at the end, or once there are max messages.
Got(order, arrived, k) == FlattenSeq([i \in 1 .. k |-> ReadFrom(order[i], arrived[order[i]])])
Full(order, arrived, k) == ~Dead(order[k]) /\ Len(Got(order, arrived, k)) >= MaxMessages
EndsAt(order, arrived, k) == /\ k = Len(order) \/ Full(order, arrived, k)
                             /\ \A j \in 1 .. k - 1 : ~Full(order, arrived, j)

\* get_messages of the guest: accept, then read the connections in the order
\* of a HashMap until there are max messages; the rest waits for the next poll.
\* A frame that cannot be read traps the whole node.
GuestPoll(r, arrived) ==
  /\ r \in up \ HostReceivers
  /\ \E order \in Orders(Ready(LinksTo(r), arrived)) : \E k \in DOMAIN order :
       /\ EndsAt(order, arrived, k)
       /\ IF Garbled \in Range(Got(order, arrived, k))
            THEN StopReceiver(r) /\ UNCHANGED handed
            ELSE /\ link' = [c \in Links |-> IF \E i \in 1 .. k : order[i] = c THEN AfterRead(c, arrived[c])
                                            ELSE IF c \in LinksTo(r) THEN [link[c] EXCEPT !.accepted = TRUE]
                                            ELSE link[c]]
                 /\ handed' = [handed EXCEPT ![r] = @ \o Got(order, arrived, k)]
                 /\ UNCHANGED <<up, inbox, hurt>>
  /\ UNCHANGED <<clientSide, failures>>

\* One round of the host's server thread: at most one new connection, then
\* every accepted one is read.  A frame that cannot be read is left out.
HostRead(r, arrived) == r \in up \cap HostReceivers /\ \E new \in SUBSET {c \in LinksTo(r) : ~link[c].accepted} :
  LET open == {c \in LinksTo(r) : link[c].accepted} \cup new
  IN /\ Cardinality(new) <= 1
     /\ new = {} => \A c \in LinksTo(r) : link[c].accepted
     /\ new \cup Ready(open, arrived) # {}
     /\ \E order \in Orders(Ready(open, arrived)) :
          inbox' = [inbox EXCEPT ![r] = @ \o Only(Messages, Got(order, arrived, Len(order)))]
     /\ link' = [c \in Links |-> IF c \in open THEN AfterRead(c, arrived[c]) ELSE link[c]]
     /\ UNCHANGED <<clientSide, up, handed, failures, hurt>>

\* get_messages of the host.
HostGet(r) ==
  LET n == Min({MaxMessages, Len(inbox[r])})
  IN /\ r \in up /\ n > 0
     /\ handed' = [handed EXCEPT ![r] = @ \o SubSeq(inbox[r], 1, n)]
     /\ inbox' = [inbox EXCEPT ![r] = SubSeq(@, n + 1, Len(@))]
     /\ UNCHANGED <<clientSide, link, up, failures, hurt>>

----------------------------------------------------------------------------
(* Failures. *)

\* A connection breaks without either end noticing at once; cells under way
\* from some point on are lost.
Break(c) ==
  /\ Usable(c) /\ failures < MaxFailures
  /\ failures' = failures + 1
  /\ hurt' = hurt \cup {link[c].to}
  /\ \E n \in 0 .. Len(link[c].wire) :
       link' = [link EXCEPT ![c].cut = TRUE, ![c].wire = SubSeq(@, 1, n)]
  /\ UNCHANGED <<clientSide, serverSide>>

Stop(r) ==
  /\ r \in up /\ failures < MaxFailures
  /\ failures' = failures + 1
  /\ StopReceiver(r)
  /\ UNCHANGED <<clientSide, handed>>

Start(r) ==
  /\ r \notin up
  /\ up' = up \cup {r}
  /\ UNCHANGED <<clientSide, link, inbox, handed, failures, hurt>>

----------------------------------------------------------------------------

Poll(r) == \E arrived \in Arrivals(r) : GuestPoll(r, arrived) \/ HostRead(r, arrived)
PollAll(r) == GuestPoll(r, AllArrived(r)) \/ HostRead(r, AllArrived(r))

TransportNext ==
  \/ \E s \in Senders : GuestSend(s) \/ HostEnqueue(s) \/ HostWrite(s)
  \/ \E r \in Receivers : Poll(r) \/ HostGet(r) \/ Stop(r) \/ Start(r)
  \/ \E c \in Links : Break(c)

TransportSpec == (\E wanted \in Scripts : TransportInit(wanted)) /\ [][TransportNext]_transportVars

\* The main loop polls for ever, the host's threads run, and what has been
\* sent arrives.
TransportFairness ==
  /\ \A r \in Receivers : WF_transportVars(PollAll(r)) /\ WF_transportVars(HostGet(r))
  /\ \A s \in Senders : WF_transportVars(HostWrite(s))

----------------------------------------------------------------------------
(* What was promised to arrive, and in which order. *)

\* What r's runner has got from s, and what it could read of what s has handed
\* over for it so far.
From(s, seq) == Only({m \in Messages : m.from = s}, seq)
HandedOver(s) == SubSeq(script[s], 1, Len(script[s]) - Len(outbox[s]))
Sent(s, r) == Only({m \in Messages : m.to = r /\ m.readable}, HandedOver(s))

\* While nothing has happened to r, its runner gets what a node sends it without
\* gaps, repetitions or changes of order, across polls that stop at max, frames
\* that arrive in pieces and reads that hold several (get_messages).
InOrder == \A s \in Senders, r \in Receivers \ hurt : IsPrefix(From(s, handed[r]), Sent(s, r))

\* Whatever fails, a runner gets no message that was not sent to it and none
\* twice: half a frame of a broken connection never meets the next connection.
NeverTwice == \A r \in Receivers :
  /\ IsInjective(handed[r])
  /\ \A m \in Range(handed[r]) : m.to = r /\ m.readable /\ m \in Range(HandedOver(m.from))

\* What nodes with the guest's client have sent arrives in the end, unless its
\* receiver was hurt - no matter what happened to their other peers.
GuestSendsArrive == <>[](\A s \in Senders \ HostSenders, r \in Receivers \ hurt :
                           From(s, handed[r]) = Sent(s, r))
=============================================================================
