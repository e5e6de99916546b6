--------------------------- MODULE ClientSessions ---------------------------
(***************************************************************************)
(* The clients of the leader (modular-ws-client): programs that keep one   *)
(* connection, send a request, wait for its answer and resend it when the  *)
(* connection breaks, and programs that open a connection for every        *)
(* request.  Both give a request up when its answer takes too long.        *)
(***************************************************************************)
EXTENDS ClientServer

CONSTANTS
  Persistent,   \* the clients that run run_logical_client; the others are one-shot
  NumRequests,  \* the requests of a client
  TopSeq        \* u64::MAX, here a small number

ASSUME ClientsAssumption == Persistent \subseteq Clients
ASSUME SeqsAssumption == NumRequests \in Nat /\ TopSeq \in Nat /\ TopSeq > NumRequests
                         /\ Seqs = (0 .. NumRequests - 1) \cup {TopSeq}

VARIABLE client   \* client[c]: where the program is, and what it has sent and seen

sessionVars == <<client, serverVars>>

NewClient == [at |-> "send", conn |-> NoChan, next |-> 0, sent |-> {}, seen |-> {}]

ClientsInit == client = [c \in Clients |-> NewClient]
SessionsInit == ServerInit /\ ClientsInit

OneShot == Clients \ Persistent

----------------------------------------------------------------------------
(* The connection.  Every outcome of a call is a record of the connections  *)
(* after it, the client's among them, and whether the call succeeded.       *)

\* A client that closes with answers unread resets the connection.
Closed(ch) ==
  IF ~chans[ch].live THEN {[chans EXCEPT ![ch] = Gone(@.client)]}
  ELSE {[chans EXCEPT ![ch].open = FALSE, ![ch].toClient = <<>>, ![ch].toServer = unread] :
          unread \in {chans[ch].toServer} \cup IF chans[ch].toClient = <<>> THEN {} ELSE {<<>>}}

Connected(c, first) ==
  IF server.up
  THEN {[chans |-> Append(chans, [NewChan(c) EXCEPT !.toServer = first]), conn |-> Len(chans) + 1, ok |-> TRUE]}
  ELSE {[chans |-> chans, conn |-> NoChan, ok |-> FALSE]}

Dropped(ch) == {[chans |-> f, conn |-> NoChan, ok |-> FALSE] : f \in Closed(ch)}

\* send_request connects if need be.  The first write to a connection that the
\* server has closed succeeds and is lost; a failed one closes the connection.
SendRequest(c, seq) ==
  LET ch == client[c].conn
      request == [client |-> c, seq |-> seq]
  IN IF ch = NoChan THEN Connected(c, <<request>>)
     ELSE IF chans[ch].live
     THEN {[chans |-> [chans EXCEPT ![ch].toServer = Append(@, request)], conn |-> ch, ok |-> TRUE]}
     ELSE {[chans |-> chans, conn |-> ch, ok |-> TRUE]} \cup Dropped(ch)

\* try_receive connects if need be; it fails when it cannot, or when everything
\* is read and the server has closed.
TryReceive(c) ==
  LET ch == client[c].conn IN
  IF ch = NoChan THEN Connected(c, <<>>)
  ELSE IF chans[ch].toClient # <<>> \/ chans[ch].live
  THEN {[chans |-> [chans EXCEPT ![ch].toClient = <<>>], conn |-> ch, ok |-> TRUE]}
  ELSE Dropped(ch)
Replies(c) == IF client[c].conn = NoChan THEN {}
              ELSE {chans[client[c].conn].toClient[i].seq : i \in DOMAIN chans[client[c].conn].toClient}

----------------------------------------------------------------------------
(* run_logical_client. *)

Counted(c) == Cardinality(client[c].seen) >= NumRequests

\* The last request, in 64 bits: the one before the first is the greatest.
Last(n) == (n - 1) % (TopSeq + 1)

\* At the head of the loop: enough requests are settled or the time is up, ...
Finish(c, timeUp) ==
  /\ client[c].at = "send" /\ (Counted(c) \/ timeUp)
  /\ client' = [client EXCEPT ![c].at = "done", ![c].conn = NoChan]
  /\ IF client[c].conn = NoChan THEN UNCHANGED chans ELSE chans' \in Closed(client[c].conn)

\* ... or the next request is sent if none is in flight.
MaySend(c) == client[c].next < NumRequests /\ client[c].sent = {}
SendNext(c) ==
  /\ client[c].at = "send" /\ ~Counted(c) /\ MaySend(c)
  /\ \E o \in SendRequest(c, client[c].next) :
       /\ chans' = o.chans
       /\ client' = [client EXCEPT ![c] =
            [client[c] EXCEPT !.at = "receive", !.conn = o.conn, !.next = @ + (IF o.ok THEN 1 ELSE 0),
               !.sent = IF o.ok THEN {client[c].next} ELSE @]]

Wait(c) ==
  /\ client[c].at = "send" /\ ~Counted(c) /\ ~MaySend(c)
  /\ client' = [client EXCEPT ![c].at = "receive"]
  /\ UNCHANGED chans

\* Variant: a reply settles its request, but the next one waits for it still.
SettleSeen(p, seqs) == [p EXCEPT !.seen = @ \cup seqs]
\* A request that is answered or given up is in flight no more.
Settle(p, seqs) == [p EXCEPT !.seen = @ \cup seqs, !.sent = @ \ seqs]

\* The last request is given up if it has been late for too long; then the
\* replies are taken in.
Receive(c, late) ==
  /\ client[c].at = "receive"
  /\ late => Last(client[c].next) \in client[c].sent
  /\ \E o \in TryReceive(c) :
       /\ chans' = o.chans
       /\ client' = [client EXCEPT ![c] =
            [Settle(client[c], Replies(c) \cup IF late THEN {Last(client[c].next)} ELSE {}) EXCEPT
               !.conn = o.conn, !.at = IF o.ok THEN "send" ELSE "resend"]]

\* After a failed try the last request is sent again, whether or not it is settled.
Resend(c) ==
  /\ client[c].at = "resend"
  /\ \E o \in SendRequest(c, Last(client[c].next)) :
       /\ chans' = o.chans
       /\ client' = [client EXCEPT ![c].at = "send", ![c].conn = o.conn]

PersistentStep(c) == SendNext(c) \/ Wait(c) \/ Resend(c) \/ Receive(c, FALSE) \/ Finish(c, FALSE)

----------------------------------------------------------------------------
(* The one-shot mode: perform_request for one number after the other. *)

Ask(c) ==
  /\ client[c].at = "send" /\ client[c].next < NumRequests
  /\ \E o \in Connected(c, <<[client |-> c, seq |-> client[c].next]>>) :
       /\ chans' = o.chans
       /\ client' = [client EXCEPT ![c] =
            IF o.ok THEN [client[c] EXCEPT !.at = "receive", !.conn = o.conn]
            ELSE [client[c] EXCEPT !.next = @ + 1]]

\* The answer arrives, or the time is up, or the server is gone: on to the next.
Answered(c) ==
  /\ client[c].at = "receive"
  /\ chans' \in Closed(client[c].conn)
  /\ client' = [client EXCEPT ![c] =
       [client[c] EXCEPT !.at = "send", !.conn = NoChan, !.next = @ + 1, !.seen = @ \cup Replies(c)]]

LastAsked(c) ==
  /\ client[c].at = "send" /\ client[c].next = NumRequests
  /\ client' = [client EXCEPT ![c].at = "done"]
  /\ UNCHANGED chans

OneShotStep(c) == Ask(c) \/ Answered(c) \/ LastAsked(c)

----------------------------------------------------------------------------
ClientStep(c) ==
  /\ \/ c \in Persistent /\ (PersistentStep(c) \/ Receive(c, TRUE) \/ Finish(c, TRUE))
     \/ c \in OneShot /\ OneShotStep(c)
  /\ UNCHANGED <<server, lives>>

SessionsNext == \/ \E c \in Clients : ClientStep(c)
                \/ ServerNext /\ UNCHANGED client

\* Every program goes on, the last request is late at last, and a leader goes
\* on polling and answering.
GivesUp(c) == Receive(c, TRUE) /\ UNCHANGED <<server, lives>>
GoesOn(c)  == PersistentStep(c) /\ UNCHANGED <<server, lives>>
SessionsFairness ==
  /\ \A c \in Persistent : WF_sessionVars(GoesOn(c)) /\ SF_sessionVars(GivesUp(c))

SessionsSpec == SessionsInit /\ [][SessionsNext]_sessionVars /\ SessionsFairness

----------------------------------------------------------------------------
\* An answer reaches the client whose request it answers, by a connection on
\* which it was asked, although connections come and go, requests are resent
\* and a client numbers its requests like any other.
AnswersWereAsked == \A ch \in DOMAIN chans : chans[ch].live => Range(chans[ch].toClient) \subseteq chans[ch].asked

\* A request that was read off the connection its client still has gets its
\* answer while the leader leads: it is queued with a route to that connection,
\* or the answer is on its way, whatever other clients drop meanwhile.
AnswerOnItsWay == \A c \in Persistent :
  LET ch == client[c].conn IN
  server.leads /\ ch # NoChan =>
    \A r \in chans[ch].asked : chans[ch].live /\ r.seq \in client[c].sent =>
      \/ r \in Range(server.work) /\ server.routes[r] = ch
      \/ r \in Range(chans[ch].toClient)

\* If the leader stays up at last, every client gets through its requests,
\* whatever requests, answers and connections were lost before (main.rs, "the
\* leader lives, so we retry the last request").
ClientsFinish == <>[]server.up => \A c \in Persistent : <>(client[c].at = "done")

\* Clients that leave do not take the leader with them: a response that cannot
\* be written tears its channel down (client_server_tcp.rs, "Tear down any
\* broken channels exactly as in get_requests").  For MaxLives = 0, where
\* nothing else ends the process.
ServesOn == [][server.leads => server'.up]_sessionVars
=============================================================================
