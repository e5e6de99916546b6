---------------------------- MODULE MCWire ----------------------------------
(***************************************************************************)
(* Serializer and Transport for TLC: either one message of some shape goes *)
(* from one node to another, or there is traffic on connections that fail. *)
(***************************************************************************)
EXTENDS Serializer, Transport

CONSTANT OpKinds   \* the operations that commands have

VARIABLE probe     \* the one message: who writes, who reads, what became of it

Ops == {None} \cup [kind : OpKinds \cap {"demo", "clear"}]
       \cup [kind : OpKinds \cap {"get", "remove"}, key : {<<"k">>}]
       \cup [kind : OpKinds \cap {"set"}, key : {<<"k">>}, value : {<<"v">>}]
Outcomes == [kind : {"no-op"}] \cup [kind : {"cmd-value"}, value : {None, <<"v">>}]
Command1(op) == [client_id |-> <<"c">>, client_seq |-> 1, op |-> op]
Slotted(slot, rec) == ("slot" :> slot) @@ rec
Two(S) == {<<>>} \cup {<<x>> : x \in S} \cup {<<x, y>> : x, y \in S}

Empty == [x \in {} |-> 0]
Payloads ==
       {Payload("ignore", Empty, <<>>), Payload("heartbeat", Empty, <<>>)}
  \cup {Payload("client-request", Command1(op), <<>>) : op \in Ops}
  \cup {Payload("client-response", [client_id |-> <<"c">>, client_seq |-> 1, success |-> b, result |-> o], <<>>) :
          b \in BOOLEAN, o \in Outcomes}
  \cup {Payload("prepare", [slot |-> 1, ballot |-> 2], <<>>)}
  \cup {Payload("promise", [slot |-> 1, ballot |-> 2], es) :
          es \in Two([slot : {1}, ballot : {2}, value : {None} \cup {Command1(op) : op \in Ops}])}
  \cup {Payload("accept", [slot |-> 1, ballot |-> 2] @@ Command1(op), <<>>) : op \in Ops}
  \cup {Payload("accepted", [slot |-> 1, ballot |-> 2, success |-> b], <<>>) : b \in BOOLEAN}
  \cup {Payload("learn", Slotted(1, Command1(op)), <<>>) : op \in Ops}
  \cup {Payload("retry-learns", <<>>, s) : s \in {<<1>>, <<1, 3>>}}
  \cup {Payload("executed", [adu |-> 3], es) :
          es \in Two({[slot |-> 1, success |-> TRUE, result |-> o] @@ Command1(op) : op \in Ops, o \in Outcomes})}
  \cup {Payload("retry-learn", [slot |-> 3], <<>>)}
  \cup {Payload("benchmark", [send_timestamp |-> 1, payload |-> <<"p">>], <<>>)}
  \cup {Payload("adu", [adu |-> 3], <<>>)}

Sender == [node_id |-> 1, address |-> <<"127.0.0.1", ":", "8080">>, role |-> <<"proposer">>]
Copies == {"guest", "host", "bench"}
Writes(copy) == CASE copy = "guest" -> GuestWrites [] copy = "host" -> HostWrites [] OTHER -> BenchWrites
Reads(copy)  == CASE copy = "guest" -> GuestReads  [] copy = "host" -> HostReads  [] OTHER -> BenchReads
\* The copies of the program understand each other, that of the experiment itself.
Pairs == {<<w, r>> \in Copies \X Copies : w = "bench" <=> r = "bench"}

Probes == {[pair |-> p, message |-> [sender |-> Sender, payload |-> m], frame |-> None, read |-> None] :
             p \in Pairs, m \in Payloads}
Speaks(p) == p.message.payload.type \in DOMAIN Writes(p.pair[1])
WriteProbe ==
  /\ probe # None /\ probe.frame = None
  /\ probe' = [probe EXCEPT !.frame = Serialize(Writes(probe.pair[1]), probe.message)]
ReadProbe ==
  /\ probe # None /\ probe.frame # None /\ probe.read = None
  /\ probe' = [probe EXCEPT !.read = Deserialize(Reads(probe.pair[2]), probe.frame)]

\* The one thing the readers change: a value without an operation, among those a
\* promise reports, arrives as no value ("or treat `none` as no-value",
\* serializer.rs:444).
Understood(m) == IF m.payload.type # "promise" THEN m
  ELSE [m EXCEPT !.payload.entries = [i \in DOMAIN @ |->
          IF @[i].value # None /\ @[i].value.op = None THEN [@[i] EXCEPT !.value = None] ELSE @[i]]]

\* What is read is what was sent, whichever copies of the serializer the two
\* nodes have (serializer.rs, "exactly the string your parser can read back"):
\* every field of every entry, but for what Understood leaves out.
ReadsBack == probe # None /\ probe.read # None => probe.read = Understood(probe.message)

Other(r) == CHOOSE t \in Receivers : t # r
\* Every sender has a message for one receiver and then two for the other; the
\* first one of a node with the host's client is the "set" that nobody can read.
Message(s, r, n) == [from |-> s, to |-> r, n |-> n, readable |-> n > 1 \/ s \notin HostSenders]
Traffic == {[s \in Senders |-> <<Message(s, Other(r), 1), Message(s, r, 2), Message(s, r, 3)>>] :
              r \in Receivers}
Nothing == [s \in Senders |-> <<>>]

ASSUME TrafficAssumption == Traffic \cup {Nothing} \subseteq Scripts

Init == \/ TransportInit(Nothing) /\ probe \in {p \in Probes : Speaks(p)}
        \/ \E w \in Traffic : TransportInit(w) /\ probe = None
Next == \/ (WriteProbe \/ ReadProbe) /\ UNCHANGED transportVars
        \/ probe = None /\ TransportNext /\ UNCHANGED probe
Spec == Init /\ [][Next]_<<probe, transportVars>> /\ TransportFairness
=============================================================================
