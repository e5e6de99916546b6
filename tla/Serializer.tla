----------------------------- MODULE Serializer -----------------------------
(***************************************************************************)
(* The text that messages are turned into between two nodes.  The guest    *)
(* component (network-ws/serializer), the host's native copy               *)
(* (runner-ws/src/host_serializer.rs) and the older copy of the overhead   *)
(* experiment (pocs/wasm-overhead) each have a layout: which fields a      *)
(* payload is written with, and which ones its reader asks for.            *)
(*                                                                         *)
(* A text, and so a Rust string, is a sequence of tokens; the separators   *)
(* the readers look for are tokens of their own.                           *)
(***************************************************************************)
EXTENDS Integers, Sequences, FiniteSets, TLC, SequencesExt

CONSTANTS
  Err,        \* what a reader returns for a text it cannot read
  None,       \* Option::None, of a command or of a command's value
  MaxNumber   \* bound: the numbers are 0 .. MaxNumber

ASSUME MaxNumberAssumption == MaxNumber \in Nat

Quote == "\""

\* str::split at one token.
SplitOn(text, sep) == FoldLeft(
  LAMBDA parts, t : IF t = sep THEN Append(parts, <<>>)
                    ELSE [parts EXCEPT ![Len(parts)] = Append(@, t)], <<<<>>>>, text)
JoinWith(texts, sep) == IF texts = <<>> THEN <<>>
  ELSE FoldLeft(LAMBDA all, t : all \o <<sep>> \o t, Head(texts), Tail(texts))

----------------------------------------------------------------------------
(* Operations and results. *)

WriteOperation(op) ==
  IF op = None THEN <<"none">>
  ELSE CASE op.kind \in {"get", "remove"} -> <<op.kind, "(", Quote>> \o op.key \o <<Quote, ")">>
         [] op.kind = "set" -> <<"set", "(", Quote>> \o op.key \o <<Quote, ",", Quote>>
                               \o op.value \o <<Quote, ")">>
         [] OTHER -> <<op.kind>>

\* kind("...") around the text between the first and the last quote.
IsCall(text, kind) == /\ Len(text) >= 5
                      /\ SubSeq(text, 1, 3) = <<kind, "(", Quote>>
                      /\ SubSeq(text, Len(text) - 1, Len(text)) = <<Quote, ")">>
Argument(text) == SubSeq(text, 4, Len(text) - 2)
Cuts(arg) == {i \in 2 .. Len(arg) - 1 : SubSeq(arg, i - 1, i + 1) = <<Quote, ",", Quote>>}

ReadOperation(text) ==
  LET arg == Argument(text)
      cut == CHOOSE i \in Cuts(arg) : TRUE
  IN CASE IsCall(text, "get")     -> [kind |-> "get", key |-> arg]
       [] IsCall(text, "remove")  -> [kind |-> "remove", key |-> arg]
       [] IsCall(text, "set") /\ Cardinality(Cuts(arg)) = 1 ->
            [kind |-> "set", key |-> SubSeq(arg, 1, cut - 2), value |-> SubSeq(arg, cut + 2, Len(arg))]
       [] text \in {<<"clear">>, <<"demo">>} -> [kind |-> text[1]]
       [] OTHER -> Err

WriteResult(r) == CASE r.kind = "no-op" -> <<"no-op">>
                    [] r.value = None   -> <<"cmd-value", ":", "none">>
                    [] OTHER            -> <<"cmd-value", ":">> \o r.value
\* Variant: the value "none" is not told from no value.
ReadResultPlain(text) ==
  IF text = <<"no-op">> THEN [kind |-> "no-op"]
  ELSE IF Len(text) < 2 \/ SubSeq(text, 1, 2) # <<"cmd-value", ":">> THEN Err
  ELSE [kind |-> "cmd-value", value |-> SubSeq(text, 3, Len(text))]
ReadResult(text) ==
  IF text = <<"no-op">> THEN [kind |-> "no-op"]
  ELSE IF Len(text) < 2 \/ SubSeq(text, 1, 2) # <<"cmd-value", ":">> THEN Err
  ELSE LET rest == SubSeq(text, 3, Len(text))
       IN [kind |-> "cmd-value", value |-> IF rest = <<"none">> THEN None ELSE rest]

----------------------------------------------------------------------------
(* Fields. *)

NumberFields == {"slot", "ballot", "client_seq", "adu", "node_id", "send_timestamp"}

\* How a field's value is written, and read: numbers and booleans by their own
\* parsers, the rest as it stands.
WriteValue(name, v) == CASE name \in NumberFields \cup {"success"} -> <<ToString(v)>>
                         [] name = "op"     -> WriteOperation(v)
                         [] name = "result" -> WriteResult(v)
                         [] OTHER           -> v
Parse(text, S) == IF \E v \in S : text = <<ToString(v)>>
                    THEN CHOOSE v \in S : text = <<ToString(v)>> ELSE Err
ReadValue(name, text) == CASE name \in NumberFields -> Parse(text, 0 .. MaxNumber)
                           [] name = "success" -> Parse(text, BOOLEAN)
                           [] name = "op"      -> IF text = <<"none">> THEN None ELSE ReadOperation(text)
                           [] name = "result"  -> ReadResult(text)
                           [] OTHER            -> text

WriteFields(names, rec) ==
  JoinWith([i \in DOMAIN names |-> <<names[i], ":">> \o WriteValue(names[i], rec[names[i]])], ",")

\* Of the parts that start with the name, the last one counts.
PartsNamed(text, name) == SelectSeq(SplitOn(text, ","),
  LAMBDA p : Len(p) >= 2 /\ p[1] = name /\ p[2] = ":")
ReadField(text, name) == LET part == Last(PartsNamed(text, name))
                         IN ReadValue(name, SubSeq(part, 3, Len(part)))
\* A number that cannot be parsed counts as a field that is not there.
Lacks(text, name) == \/ PartsNamed(text, name) = <<>>
                     \/ ReadField(text, name) = Err /\ name \notin {"op", "result"}
ReadFields(names, text) ==
  IF \E n \in Range(names) : Lacks(text, n) \/ ReadField(text, n) = Err
    THEN Err ELSE [n \in Range(names) |-> ReadField(text, n)]

NodeFields == <<"node_id", "address", "role">>
Roles == {<<"proposer">>, <<"acceptor">>, <<"learner">>, <<"client">>, <<"coordinator">>}
WriteNode(n) == WriteFields(NodeFields, n)
ReadNode(text) == LET n == ReadFields(NodeFields, text)
                  IN IF n = Err THEN Err ELSE IF n.role \in Roles THEN n ELSE Err

----------------------------------------------------------------------------
(* Payloads: a type, fields, and for some types a list of entries.  A row of *)
(* a layout says which fields, and which fields an entry has.                *)

Flat(names)   == [form |-> "flat", fields |-> names]
Bare(name)    == [form |-> "bare", fields |-> <<name>>]    \* one value without its name
Numbers(name) == [form |-> "numbers", list |-> name]       \* a list of slots, no brackets
Listed(names, name, entry, omit) ==                        \* omit: an empty list is left out
  [form |-> "list", fields |-> names, list |-> name, entry |-> entry, omit |-> omit]

\* An entry of a promise is a p-value, whose value is optional.  The writer has
\* fields for no value; the reader takes any entry without an operation for one.
PValueFields(pv) ==
  [slot |-> pv.slot, ballot |-> pv.ballot] @@
  IF pv.value = None THEN [client_id |-> <<"unknown">>, client_seq |-> 0, op |-> None] ELSE pv.value
PValue(entry) ==
  [slot |-> entry.slot, ballot |-> entry.ballot,
   value |-> IF entry.op = None THEN None
             ELSE [client_id |-> entry.client_id, client_seq |-> entry.client_seq, op |-> entry.op]]

WritePayload(layout, m) ==
  LET row     == layout[m.type]
      Fields(e) == IF m.type = "promise" THEN PValueFields(e) ELSE e
      header  == IF row.fields = <<>> THEN <<m.type>>
                 ELSE <<m.type, ",">> \o WriteFields(row.fields, m.fields)
      entries == [i \in DOMAIN m.entries |-> WriteFields(row.entry, Fields(m.entries[i]))]
      slots   == [i \in DOMAIN m.entries |-> WriteValue("slot", m.entries[i])]
  IN CASE row.form = "bare" -> <<m.type, ",">> \o WriteValue(row.fields[1], m.fields[row.fields[1]])
       [] row.form = "numbers" -> <<m.type, ",", row.list, ":">> \o JoinWith(slots, "|")
       [] row.form = "list" /\ ~(row.omit /\ m.entries = <<>>) ->
            header \o <<",", row.list, ":", "[">> \o JoinWith(entries, "|") \o <<"]">>
       [] OTHER -> header

Payload(type, fields, entries) == [type |-> type, fields |-> fields, entries |-> entries]

ReadFlat(row, type, text) ==
  LET f == ReadFields(row.fields, text) IN IF f = Err THEN Err ELSE Payload(type, f, <<>>)

ReadBare(row, type, text) ==
  LET parts == SplitOn(text, ",")
      v     == ReadValue(row.fields[1], parts[2])
  IN IF Len(parts) # 2 \/ v = Err THEN Err
     ELSE Payload(type, row.fields[1] :> v, <<>>)

ReadNumbers(row, type, text) ==
  LET parts == SplitOn(text, ",")
      slots == SplitOn(SubSeq(parts[2], 3, Len(parts[2])), "|")
      read  == [i \in DOMAIN slots |-> ReadValue("slot", slots[i])]
  IN IF Len(parts) # 2 \/ SubSeq(parts[2], 1, 2) # <<row.list, ":">> \/ Err \in Range(read) THEN Err
     ELSE Payload(type, <<>>, read)

\* The header stands before the first "name:[", the entries between that and
\* the first "]".  An entry that lacks a field is passed over; one whose
\* command or result cannot be read fails the payload.
ReadListed(row, type, text) ==
  LET open   == {i \in 3 .. Len(text) : SubSeq(text, i - 2, i) = <<row.list, ":", "[">>}
      from   == Min(open)
      close  == {i \in 1 .. Len(text) : i > from /\ text[i] = "]"}
      texts  == SelectSeq(SplitOn(SubSeq(text, from + 1, Min(close) - 1), "|"),
                          LAMBDA e : \A n \in Range(row.entry) : ~Lacks(e, n))
      read   == [i \in DOMAIN texts |-> ReadFields(row.entry, texts[i])]
      header == IF open = {} THEN text ELSE SubSeq(text, 1, from - 3)
      fields == ReadFields(row.fields, header)
  IN IF fields = Err THEN Err
     ELSE IF open = {} THEN Payload(type, fields, <<>>)
     ELSE IF close = {} THEN Err
     ELSE IF Err \in Range(read) THEN Err
     ELSE Payload(type, fields,
                  [i \in DOMAIN read |-> IF type = "promise" THEN PValue(read[i]) ELSE read[i]])

ReadPayload(layout, text) ==
  LET type == SplitOn(text, ",")[1]
  IN IF ~\E t \in DOMAIN layout : type = <<t>> THEN Err
     ELSE LET row == layout[type[1]]
          IN CASE row.form = "bare"    -> ReadBare(row, type[1], text)
               [] row.form = "numbers" -> ReadNumbers(row, type[1], text)
               [] row.form = "list"    -> ReadListed(row, type[1], text)
               [] OTHER                -> ReadFlat(row, type[1], text)

----------------------------------------------------------------------------
(* Frames: a length and the text of sender and payload. *)

Serialize(layout, m) ==
  LET text == <<"sender=">> \o WriteNode(m.sender) \o <<"||", "payload=">>
              \o WritePayload(layout, m.payload)
  IN [len |-> Len(text), text |-> text]

Deserialize(layout, frame) ==
  LET parts   == SplitOn(frame.text, "||")
      sender  == ReadNode(Tail(parts[1]))
      payload == ReadPayload(layout, Tail(parts[2]))
  IN IF \/ frame.len # Len(frame.text)
        \/ Len(parts) # 2
        \/ parts[1] = <<>> \/ parts[2] = <<>>
     THEN Err
     ELSE IF parts[1][1] # "sender=" \/ parts[2][1] # "payload=" THEN Err
     ELSE IF sender = Err \/ payload = Err THEN Err
     ELSE [sender |-> sender, payload |-> payload]

----------------------------------------------------------------------------
(* The layouts: what each of the copies writes, and what it asks for.  Every *)
(* copy has its own table; two nodes understand each other only as far as    *)
(* the tables agree.                                                         *)

Command == <<"client_id", "client_seq", "op">>
AcceptedEntry == <<"slot", "ballot">> \o Command
ResultEntry == <<"slot">> \o Command \o <<"success", "result">>

GuestWrites ==
     "ignore" :> Flat(<<>>) @@ "heartbeat" :> Flat(<<>>)
  @@ "client-request" :> Flat(Command)
  @@ "client-response" :> Flat(<<"client_id", "client_seq", "success", "result">>)
  @@ "prepare" :> Flat(<<"slot", "ballot">>)
  @@ "promise" :> Listed(<<"slot", "ballot">>, "accepted", AcceptedEntry, TRUE)
  @@ "accept" :> Flat(<<"slot", "ballot">> \o Command)
  @@ "accepted" :> Flat(<<"slot", "ballot", "success">>)
  @@ "learn" :> Flat(<<"slot">> \o Command)
  @@ "retry-learns" :> Numbers("slots")
  @@ "executed" :> Listed(<<"adu">>, "results", ResultEntry, FALSE)
  @@ "benchmark" :> Flat(<<"send_timestamp", "payload">>)
  @@ "adu" :> Bare("adu")
\* The reader, in the order of its match arms.
GuestReadsPhaseOne ==
     "ignore" :> Flat(<<>>)
  @@ "client-request" :> Flat(<<"client_id", "client_seq", "op">>)
  @@ "client-response" :> Flat(<<"client_id", "client_seq", "success", "result">>)
  @@ "prepare" :> Flat(<<"slot", "ballot">>)
GuestReadsPromise ==
  "promise" :> Listed(<<"slot", "ballot">>, "accepted",
                      <<"slot", "ballot", "client_id", "client_seq", "op">>, TRUE)
GuestReadsPhaseTwo ==
     "accept" :> Flat(<<"slot", "ballot", "client_id", "client_seq", "op">>)
  @@ "accepted" :> Flat(<<"slot", "ballot", "success">>)
  @@ "learn" :> Flat(<<"slot", "client_id", "client_seq", "op">>)
  @@ "heartbeat" :> Flat(<<>>)
  @@ "retry-learns" :> Numbers("slots")
GuestReadsExecuted ==
     "executed" :> Listed(<<"adu">>, "results",
                          <<"slot", "client_id", "client_seq", "op", "success", "result">>, FALSE)
  @@ "benchmark" :> Flat(<<"send_timestamp", "payload">>)
  @@ "adu" :> Bare("adu")
GuestReads == GuestReadsPhaseOne @@ GuestReadsPromise @@ GuestReadsPhaseTwo @@ GuestReadsExecuted

HostWrites ==
     "ignore" :> Flat(<<>>) @@ "heartbeat" :> Flat(<<>>)
  @@ "client-request" :> Flat(Command)
  @@ "client-response" :> Flat(<<"client_id", "client_seq", "success", "result">>)
  @@ "prepare" :> Flat(<<"slot", "ballot">>)
  @@ "promise" :> Listed(<<"slot", "ballot">>, "accepted", AcceptedEntry, TRUE)
  @@ "accept" :> Flat(<<"slot", "ballot">> \o Command)
  @@ "accepted" :> Flat(<<"slot", "ballot", "success">>)
  @@ "learn" :> Flat(<<"slot">> \o Command)
  @@ "retry-learns" :> Numbers("slots")
  @@ "executed" :> Listed(<<"adu">>, "results", ResultEntry, FALSE)
  @@ "benchmark" :> Flat(<<"send_timestamp", "payload">>)
  @@ "adu" :> Bare("adu")
HostReadsPhaseOne ==
     "ignore" :> Flat(<<>>)
  @@ "client-request" :> Flat(<<"client_id", "client_seq", "op">>)
  @@ "client-response" :> Flat(<<"client_id", "client_seq", "success", "result">>)
  @@ "prepare" :> Flat(<<"slot", "ballot">>)
HostReadsPromise ==
  "promise" :> Listed(<<"slot", "ballot">>, "accepted",
                      <<"slot", "ballot", "client_id", "client_seq", "op">>, TRUE)
HostReadsPhaseTwo ==
     "accept" :> Flat(<<"slot", "ballot", "client_id", "client_seq", "op">>)
  @@ "accepted" :> Flat(<<"slot", "ballot", "success">>)
  @@ "learn" :> Flat(<<"slot", "client_id", "client_seq", "op">>)
  @@ "heartbeat" :> Flat(<<>>)
  @@ "retry-learns" :> Numbers("slots")
HostReadsExecuted ==
     "executed" :> Listed(<<"adu">>, "results",
                          <<"slot", "client_id", "client_seq", "op", "success", "result">>, FALSE)
  @@ "benchmark" :> Flat(<<"send_timestamp", "payload">>)
  @@ "adu" :> Bare("adu")
HostReads == HostReadsPhaseOne @@ HostReadsPromise @@ HostReadsPhaseTwo @@ HostReadsExecuted

\* The copy of the overhead experiment is older: one slot in a retry, no adu.
BenchWrites ==
     "ignore" :> Flat(<<>>) @@ "heartbeat" :> Flat(<<>>)
  @@ "client-request" :> Flat(Command)
  @@ "client-response" :> Flat(<<"client_id", "client_seq", "success", "result">>)
  @@ "prepare" :> Flat(<<"slot", "ballot">>)
  @@ "promise" :> Listed(<<"slot", "ballot">>, "accepted", AcceptedEntry, TRUE)
  @@ "accept" :> Flat(<<"slot", "ballot">> \o Command)
  @@ "accepted" :> Flat(<<"slot", "ballot", "success">>)
  @@ "learn" :> Flat(<<"slot">> \o Command)
  @@ "retry-learn" :> Bare("slot")
  @@ "executed" :> Listed(<<"adu">>, "results", ResultEntry, FALSE)
  @@ "benchmark" :> Flat(<<"send_timestamp", "payload">>)
BenchReadsPhaseOne ==
     "ignore" :> Flat(<<>>)
  @@ "client-request" :> Flat(<<"client_id", "client_seq", "op">>)
  @@ "client-response" :> Flat(<<"client_id", "client_seq", "success", "result">>)
  @@ "prepare" :> Flat(<<"slot", "ballot">>)
BenchReadsPromise ==
  "promise" :> Listed(<<"slot", "ballot">>, "accepted",
                      <<"slot", "ballot", "client_id", "client_seq", "op">>, TRUE)
BenchReadsPhaseTwo ==
     "accept" :> Flat(<<"slot", "ballot", "client_id", "client_seq", "op">>)
  @@ "accepted" :> Flat(<<"slot", "ballot", "success">>)
  @@ "learn" :> Flat(<<"slot", "client_id", "client_seq", "op">>)
  @@ "heartbeat" :> Flat(<<>>)
  @@ "retry-learn" :> Bare("slot")
BenchReadsExecuted ==
     "executed" :> Listed(<<"adu">>, "results",
                          <<"slot", "client_id", "client_seq", "op", "success", "result">>, FALSE)
  @@ "benchmark" :> Flat(<<"send_timestamp", "payload">>)
BenchReads == BenchReadsPhaseOne @@ BenchReadsPromise @@ BenchReadsPhaseTwo @@ BenchReadsExecuted
=============================================================================
