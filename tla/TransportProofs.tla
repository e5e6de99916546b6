--------------------------- MODULE TransportProofs --------------------------
(***************************************************************************)
(* What the connections between nodes keep, for any number of nodes,       *)
(* connections, messages and failures: nothing arrives twice, and what     *)
(* arrives at a node that nothing happened to arrives in order.            *)
(***************************************************************************)
EXTENDS Transport, LoopProofs, FiniteSetTheorems

----------------------------------------------------------------------------
(* Sequences that are joined (FlattenSeq).                                 *)

\* F holds the elements of the first k of the sequences p, those of one sequence in
\* their order, and one of them twice only if they have it twice.
IsJoined(F, p, k, X) ==
  /\ F \in Seq(X)
  /\ \A q \in 1 .. Len(F) : \E i \in 1 .. k : \E j \in 1 .. Len(p[i]) :
       F[q] = p[i][j] /\ \A e \in 1 .. j - 1 : \E d \in 1 .. q - 1 : F[d] = p[i][e]
  /\ \A i \in 1 .. k : \A j \in 1 .. Len(p[i]) : \E q \in 1 .. Len(F) : F[q] = p[i][j]
  /\ \A q, d \in 1 .. Len(F) : F[q] = F[d] /\ q # d =>
       \E i, e \in 1 .. k : \E j \in 1 .. Len(p[i]), h \in 1 .. Len(p[e]) :
         p[i][j] = F[q] /\ p[e][h] = F[q] /\ ~(i = e /\ j = h)

\* One more sequence is joined.
LEMMA JoinedStep ==
  ASSUME NEW X, NEW n \in Nat, NEW p \in [1 .. n -> Seq(X)], NEW k \in 1 .. n, NEW F,
         IsJoined(F, p, k - 1, X)
  PROVE  IsJoined(F \o p[k], p, k, X)
<1> DEFINE t == p[k]
           G == F \o t
<1>1. F \in Seq(X) /\ t \in Seq(X) /\ k \in Int /\ Len(F) \in Nat /\ Len(t) \in Nat
  BY DEF IsJoined
<1>2. G \in Seq(X) /\ Len(G) = Len(F) + Len(t)
  BY <1>1
<1>3. \A q \in 1 .. Len(F) : G[q] = F[q]
  BY <1>1
<1>4. \A j \in 1 .. Len(t) : Len(F) + j \in 1 .. Len(G) /\ G[Len(F) + j] = t[j]
  BY <1>1, <1>2
<1>5. \A q \in 1 .. Len(G) : q \notin 1 .. Len(F) => q - Len(F) \in 1 .. Len(t) /\ G[q] = t[q - Len(F)]
  BY <1>1, <1>2
<1> HIDE DEF G
<1>6. ASSUME NEW q \in 1 .. Len(G)
      PROVE  \E i \in 1 .. k : \E j \in 1 .. Len(p[i]) :
               G[q] = p[i][j] /\ \A e \in 1 .. j - 1 : \E d \in 1 .. q - 1 : G[d] = p[i][e]
  <2>1. CASE q \in 1 .. Len(F)
    <3>1. PICK i \in 1 .. k - 1 : \E j \in 1 .. Len(p[i]) :
            F[q] = p[i][j] /\ \A e \in 1 .. j - 1 : \E d \in 1 .. q - 1 : F[d] = p[i][e]
      BY <2>1 DEF IsJoined
    <3>2. PICK j \in 1 .. Len(p[i]) :
            F[q] = p[i][j] /\ \A e \in 1 .. j - 1 : \E d \in 1 .. q - 1 : F[d] = p[i][e]
      BY <3>1
    <3>3. \A d \in 1 .. q - 1 : d \in 1 .. Len(F)
      BY <1>1, <2>1
    <3>4. \A e \in 1 .. j - 1 : \E d \in 1 .. q - 1 : G[d] = p[i][e]
      BY <1>3, <3>2, <3>3
    <3>5. G[q] = p[i][j] /\ i \in 1 .. k
      BY <1>1, <1>3, <2>1, <3>2
    <3> QED
      BY <3>4, <3>5
  <2>2. CASE q \notin 1 .. Len(F)
    <3> DEFINE j == q - Len(F)
    <3>1. j \in 1 .. Len(t) /\ G[q] = t[j] /\ k \in 1 .. k
      BY <1>1, <1>5, <2>2
    <3>2. \A e \in 1 .. j - 1 : Len(F) + e \in 1 .. q - 1 /\ e \in 1 .. Len(t)
      BY <1>1, <1>2, <3>1
    <3>3. \A e \in 1 .. j - 1 : G[Len(F) + e] = t[e]
      BY <1>4, <3>2
    <3> HIDE DEF j
    <3>4. \A e \in 1 .. j - 1 : \E d \in 1 .. q - 1 : G[d] = t[e]
      BY <3>2, <3>3
    <3> QED
      BY <3>1, <3>4
  <2> QED
    BY <2>1, <2>2
<1>7. ASSUME NEW i \in 1 .. k, NEW j \in 1 .. Len(p[i])
      PROVE  \E q \in 1 .. Len(G) : G[q] = p[i][j]
  <2>1. CASE i = k
    BY <1>4, <2>1
  <2>2. CASE i # k
    <3>1. i \in 1 .. k - 1
      BY <1>1, <2>2
    <3>2. PICK q \in 1 .. Len(F) : F[q] = p[i][j]
      BY <3>1 DEF IsJoined
    <3>3. q \in 1 .. Len(G) /\ G[q] = F[q]
      BY <1>1, <1>2, <1>3
    <3> QED
      BY <3>2, <3>3
  <2> QED
    BY <2>1, <2>2
<1>8. ASSUME NEW q \in 1 .. Len(G), NEW d \in 1 .. Len(G), G[q] = G[d], q # d
      PROVE  \E i, e \in 1 .. k : \E j \in 1 .. Len(p[i]), h \in 1 .. Len(p[e]) :
               p[i][j] = G[q] /\ p[e][h] = G[q] /\ ~(i = e /\ j = h)
  <2>1. \A f \in 1 .. Len(F) : \E i \in 1 .. k - 1 : \E j \in 1 .. Len(p[i]) : F[f] = p[i][j]
    BY DEF IsJoined
  <2>2. \A i \in 1 .. k - 1 : i \in 1 .. k /\ i # k
    BY <1>1
  <2>3. k \in 1 .. k
    BY <1>1
  <2>4. CASE q \in 1 .. Len(F) /\ d \in 1 .. Len(F)
    <3>1. F[q] = F[d] /\ G[q] = F[q]
      BY <1>3, <1>8, <2>4
    <3>2. PICK i \in 1 .. k - 1, e \in 1 .. k - 1 : \E j \in 1 .. Len(p[i]), h \in 1 .. Len(p[e]) :
            p[i][j] = F[q] /\ p[e][h] = F[q] /\ ~(i = e /\ j = h)
      BY <1>8, <2>4, <3>1 DEF IsJoined
    <3>3. PICK j \in 1 .. Len(p[i]), h \in 1 .. Len(p[e]) :
            p[i][j] = F[q] /\ p[e][h] = F[q] /\ ~(i = e /\ j = h)
      BY <3>2
    <3>4. i \in 1 .. k /\ e \in 1 .. k /\ p[i][j] = G[q] /\ p[e][h] = G[q]
      BY <2>2, <3>1, <3>3
    <3> QED
      BY <3>3, <3>4
  <2>5. CASE q \in 1 .. Len(F) /\ d \notin 1 .. Len(F)
    <3>1. PICK i \in 1 .. k - 1 : \E j \in 1 .. Len(p[i]) : F[q] = p[i][j]
      BY <2>1, <2>5
    <3>2. d - Len(F) \in 1 .. Len(t) /\ G[d] = t[d - Len(F)] /\ G[q] = F[q]
      BY <1>3, <1>5, <2>5
    <3> QED
      BY <1>8, <2>2, <2>3, <3>1, <3>2
  <2>6. CASE q \notin 1 .. Len(F) /\ d \in 1 .. Len(F)
    <3>1. PICK i \in 1 .. k - 1 : \E j \in 1 .. Len(p[i]) : F[d] = p[i][j]
      BY <2>1, <2>6
    <3>2. q - Len(F) \in 1 .. Len(t) /\ G[q] = t[q - Len(F)] /\ G[d] = F[d]
      BY <1>3, <1>5, <2>6
    <3> QED
      BY <1>8, <2>2, <2>3, <3>1, <3>2
  <2>7. CASE q \notin 1 .. Len(F) /\ d \notin 1 .. Len(F)
    <3>1. /\ q - Len(F) \in 1 .. Len(t) /\ G[q] = t[q - Len(F)]
          /\ d - Len(F) \in 1 .. Len(t) /\ G[d] = t[d - Len(F)]
      BY <1>5, <2>7
    <3>2. q - Len(F) # d - Len(F)
      BY <1>1, <1>8
    <3> QED
      BY <1>8, <2>3, <3>1, <3>2
  <2> QED
    BY <2>4, <2>5, <2>6, <2>7
<1>9. IsJoined(G, p, k, X)
  BY <1>2, <1>6, <1>7, <1>8 DEF IsJoined
<1> QED
  BY <1>9 DEF G

\* What FlattenSeq returns.
LEMMA FlattenIs ==
  ASSUME NEW X, NEW n \in Nat, NEW p \in [1 .. n -> Seq(X)]
  PROVE  IsJoined(FlattenSeq(p), p, n, X)
<1>1. p \in Seq(Seq(X)) /\ Len(p) = n
  OBVIOUS
<1>2. CASE n = 0
  <2>1. FlattenSeq(p) = p
    BY <1>1, <1>2 DEF FlattenSeq
  <2>2. p = <<>> /\ p \in Seq(X) /\ Len(p) = 0
    BY <1>1, <1>2
  <2> QED
    BY <1>2, <2>1, <2>2 DEF IsJoined
<1>3. CASE n # 0
  <2> DEFINE Solves(g) == g = [i \in 1 .. Len(p) |-> IF i = 1 THEN p[i] ELSE g[i - 1] \o p[i]]
             step == [i \in 1 .. n |-> [x \in Seq(X) |-> x \o p[i]]]
             flat == CHOOSE g : Solves(g)
  <2>1. KeepsTo(Seq(X), n, step)
    BY DEF KeepsTo
  <2>2. <<>> \in Seq(X)
    OBVIOUS
  <2>3. PICK f : IsRun(f, Seq(X), <<>>, n, step)
    <3> HIDE DEF step
    <3> QED
      BY <2>1, <2>2, LoopRuns
  <2>4. f \in [0 .. n -> Seq(X)] /\ f[0] = <<>> /\ \A i \in 1 .. n : f[i] = step[i][f[i - 1]]
    BY <2>3 DEF IsRun
  <2>5. ASSUME NEW i \in 1 .. n PROVE i - 1 \in 0 .. n /\ f[i - 1] \in Seq(X) /\ f[i] = f[i - 1] \o p[i]
    <3>1. i - 1 \in 0 .. n
      OBVIOUS
    <3>2. f[i - 1] \in Seq(X)
      BY <2>4, <3>1
    <3> QED
      BY <2>4, <3>1, <3>2
  <2> DEFINE g == [i \in 1 .. n |-> f[i]]
  <2>6. ASSUME NEW i \in 1 .. n PROVE g[i] = IF i = 1 THEN p[i] ELSE g[i - 1] \o p[i]
    <3>1. CASE i = 1
      <4> HIDE DEF g, step
      <4>1. f[i] = f[i - 1] \o p[i]
        BY <2>5
      <4>2. p[i] \in Seq(X)
        OBVIOUS
      <4>3. i - 1 = 0
        BY <3>1
      <4>4. <<>> \o p[i] = p[i]
        BY <4>2, ConcatEmptySeq
      <4>5. f[i - 1] = <<>>
        BY <2>4, <4>3, Zenon
      <4>6. f[i] = p[i]
        BY <4>1, <4>4, <4>5, Zenon
      <4>7. g[i] = f[i]
        BY DEF g
      <4> QED
        BY <3>1, <4>6, <4>7
    <3>2. CASE i # 1
      <4>1. i - 1 \in 1 .. n
        BY <3>2
      <4> QED
        BY <2>5, <3>2, <4>1
    <3> QED
      BY <3>1, <3>2
  <2>7. Solves(g)
    <3>1. g = [i \in 1 .. n |-> g[i]]
      OBVIOUS
    <3> HIDE DEF g
    <3> QED
      BY <1>1, <2>6, <3>1
  <2>8. Solves(flat)
    <3> HIDE DEF Solves
    <3> QED
      BY <2>7
  <2>9. FlattenSeq(p) = flat[n]
    BY <1>1, <1>3, Zenon DEF FlattenSeq
  <2>10. \A i \in 1 .. n : flat[i] = IF i = 1 THEN p[i] ELSE flat[i - 1] \o p[i]
    <3> HIDE DEF flat
    <3> QED
      BY <1>1, <2>8
  <2> HIDE DEF flat, Solves
  <2> DEFINE T == {k \in 0 .. n : k = 0 \/ IsJoined(flat[k], p, k, X)}
  <2>11. 0 \in T
    OBVIOUS
  <2>12. ASSUME NEW k \in 1 .. n, k - 1 \in T PROVE k \in T
    <3>1. CASE k = 1
      <4>1. IsJoined(<<>>, p, k - 1, X)
        BY <2>2, <3>1 DEF IsJoined
      <4>2. IsJoined(<<>> \o p[k], p, k, X)
        BY <4>1, JoinedStep
      <4>3. flat[k] = p[k] /\ p[k] \in Seq(X)
        BY <2>10, <3>1
      <4>4. <<>> \o p[k] = p[k]
        BY <4>3, ConcatEmptySeq
      <4> QED
        BY <4>2, <4>3, <4>4
    <3>2. CASE k # 1
      <4>1. k - 1 # 0 /\ IsJoined(flat[k - 1], p, k - 1, X)
        BY <2>12, <3>2
      <4>2. IsJoined(flat[k - 1] \o p[k], p, k, X)
        BY <4>1, JoinedStep
      <4>3. flat[k] = flat[k - 1] \o p[k]
        BY <2>10, <3>2
      <4>4. IsJoined(flat[k], p, k, X)
        <5> HIDE DEF T, g
        <5> QED
          BY <4>2, <4>3, Zenon
      <4> QED
        BY <4>4
    <3> QED
      BY <3>1, <3>2
  <2> HIDE DEF T
  <2>13. \A k \in 0 .. n : k \in T
    BY <2>11, <2>12, Induction
  <2>14. n \in T
    BY <2>13
  <2> QED
    BY <1>3, <2>9, <2>14 DEF T
<1> QED
  BY <1>2, <1>3

----------------------------------------------------------------------------
(* The parts of messages that are on a connection.                         *)

Cell == [part : {"len", "text"}, of : Messages]
Link == [from : Senders \cup {Nobody}, to : Receivers \cup {Nobody}, accepted : BOOLEAN, cut : BOOLEAN,
         wire : Seq(Cell), buffer : Seq(Cell)]

WireOK ==
  /\ script \in Scripts
  /\ outbox \in [Senders -> Seq(Messages)]
  /\ queue \in [Senders -> Seq(Messages)]
  /\ alive \in [Senders -> BOOLEAN]
  /\ conn \in [Senders -> [Receivers -> Links \cup {Nobody}]]
  /\ link \in [Links -> Link]
  /\ up \subseteq Receivers
  /\ inbox \in [Receivers -> Seq(Messages)]
  /\ handed \in [Receivers -> Seq(Messages)]
  /\ hurt \subseteq Receivers

----------------------------------------------------------------------------
(* Where a message may be.  It leaves its script, waits in a queue, goes   *)
(* onto a connection and arrives.                                          *)

\* The cells of a connection that nobody has taken out yet.
Stream(l) == l.buffer \o l.wire

\* What r has read, in the order it was read.
Arrived(r) == handed[r] \o inbox[r]

\* Messages that have left their script; those that were queued behind no other
\* one that still waits.
Count(s) == Len(script[s]) - Len(outbox[s])
Left(m) == m.n \in 1 .. Count(m.from) /\ script[m.from][m.n] = m
Written(m) == Left(m) /\ \A i \in DOMAIN queue[m.from] : m.n < queue[m.from][i].n

OutboxOK == \A s \in Senders :
  /\ Len(outbox[s]) <= Len(script[s])
  /\ \A i \in DOMAIN outbox[s] : outbox[s][i] = script[s][Count(s) + i]

QueueOK == \A s \in Senders :
  /\ \A i \in DOMAIN queue[s] : Left(queue[s][i]) /\ queue[s][i].from = s
  /\ \A i, j \in DOMAIN queue[s] : i < j => queue[s][i].n < queue[s][j].n
  /\ s \notin HostSenders => alive[s] /\ queue[s] = <<>>
  /\ ~alive[s] => queue[s] = <<>>

\* A length cell is the only one of its message, and the message has not arrived.  What
\* is buffered between two reads is at most half a frame.
Carries(c, i) == LET m == Stream(link[c])[i].of IN
  Written(m) /\ m.to = link[c].to /\ m.from = link[c].from
OnlyOne(c, i) == \A d \in Links : \A j \in DOMAIN Stream(link[d]) :
  Stream(link[d])[j] = Stream(link[c])[i] => d = c /\ j = i
Fresh(c, i) == Stream(link[c])[i].part = "len" =>
  /\ \A r \in Receivers : link[c].to = r => Stream(link[c])[i].of \notin Range(Arrived(r))
  /\ OnlyOne(c, i)

LinkOK == \A c \in Links :
  /\ Len(link[c].buffer) <= 1
  /\ link[c].to = Nobody => Stream(link[c]) = <<>>
  /\ \A i \in DOMAIN Stream(link[c]) : Carries(c, i) /\ Fresh(c, i)

ConnOK == \A s \in Senders, r \in Receivers : conn[s][r] # Nobody =>
  link[conn[s][r]].from = s /\ link[conn[s][r]].to \in {r, Nobody}

ArrivedOK == \A r \in Receivers :
  /\ IsInjective(Arrived(r))
  /\ \A m \in Range(Arrived(r)) : Written(m) /\ m.to = r /\ m.readable
  /\ r \notin HostReceivers => inbox[r] = <<>>

WireInv == WireOK /\ OutboxOK /\ QueueOK /\ LinkOK /\ ConnOK /\ ArrivedOK

----------------------------------------------------------------------------
(* Order.  What a sender sends before a message and the receiver can read  *)
(* is always ahead of it, as long as nothing has happened to the receiver. *)

Before(sc, m) == {w \in Range(sc[m.from]) : w.to = m.to /\ w.readable /\ w.n < m.n}

\* A stream of whole frames, each behind all that goes before it, or after that has
\* arrived, in A.
Framed(S, k) == {S[2 * i - 1].of : i \in 1 .. k}
IsFrame(len, text) == len.part = "len" /\ text = [part |-> "text", of |-> len.of]
FramesOK(sc, S, A) == \E k \in Nat :
  /\ Len(S) = 2 * k
  /\ \A i \in 1 .. k : /\ IsFrame(S[2 * i - 1], S[2 * i])
                       /\ Before(sc, S[2 * i - 1].of) \subseteq A \cup Framed(S, i - 1)

\* Messages each of which has all that goes before it in front of it.
InTurn(sc, s) == \A j \in DOMAIN s : Before(sc, s[j]) \subseteq {s[i] : i \in 1 .. j - 1}

\* All that is on its way to r or there.
Holds(c, m) == \E i \in DOMAIN Stream(link[c]) : Stream(link[c])[i].of = m
OnItsWay(r) == Range(Arrived(r)) \cup {m \in Messages : \E c \in LinksTo(r) : Holds(c, m)}

Well(r) ==
  /\ r \in up
  /\ \A c \in LinksTo(r) : ~link[c].cut /\ link[c].from \in Senders /\ conn[link[c].from][r] = c
  /\ \A c \in LinksTo(r) : FramesOK(script, Stream(link[c]), Range(Arrived(r)))
  /\ \A s \in Senders : conn[s][r] # Nobody => link[conn[s][r]].to = r
  /\ InTurn(script, Arrived(r))
  /\ \A s \in Senders : alive[s] => \A k \in 1 .. Count(s) :
       script[s][k].to = r /\ script[s][k].readable => script[s][k] \in Range(queue[s]) \cup OnItsWay(r)

OrderInv == WireInv /\ \A r \in Receivers \ hurt : Well(r)

----------------------------------------------------------------------------
(* Sequences: what Only and Decoded return.                                *)

\* F holds the elements in T of the first n of s, in their order.
IsOnly(F, T, s, n, X) ==
  /\ F \in Seq(X)
  /\ \A q \in 1 .. Len(F) : F[q] \in T /\ \E i \in 1 .. n :
       F[q] = s[i] /\ \A e \in 1 .. i - 1 : s[e] \in T => \E d \in 1 .. q - 1 : F[d] = s[e]
  /\ \A i \in 1 .. n : s[i] \in T => \E q \in 1 .. Len(F) : F[q] = s[i]
  /\ \A q, d \in 1 .. Len(F) : d < q => \E i, e \in 1 .. n : e < i /\ F[d] = s[e] /\ F[q] = s[i]

\* One more element is looked at.
LEMMA OnlyStep ==
  ASSUME NEW X, NEW T, NEW s \in Seq(X), NEW k \in 1 .. Len(s), NEW F, IsOnly(F, T, s, k - 1, X)
  PROVE  IsOnly(IF s[k] \in T THEN Append(F, s[k]) ELSE F, T, s, k, X)
<1>1. F \in Seq(X) /\ s[k] \in X /\ k \in Int /\ Len(F) \in Nat /\ Len(s) \in Nat
  BY DEF IsOnly
<1>2. /\ \A i \in 1 .. k - 1 : i \in 1 .. k /\ i # k
      /\ \A i \in 1 .. k : i # k => i \in 1 .. k - 1
      /\ k \in 1 .. k
  BY <1>1
<1>3. CASE s[k] \notin T
  <2>1. IsOnly(F, T, s, k, X)
    <3>1. \A q \in 1 .. Len(F) : F[q] \in T /\ \E i \in 1 .. k :
            F[q] = s[i] /\ \A e \in 1 .. i - 1 : s[e] \in T => \E d \in 1 .. q - 1 : F[d] = s[e]
      BY <1>2 DEF IsOnly
    <3>2. \A i \in 1 .. k : s[i] \in T => \E q \in 1 .. Len(F) : F[q] = s[i]
      BY <1>2, <1>3 DEF IsOnly
    <3>3. \A q, d \in 1 .. Len(F) : d < q => \E i, e \in 1 .. k : e < i /\ F[d] = s[e] /\ F[q] = s[i]
      BY <1>2 DEF IsOnly
    <3> QED
      BY <1>1, <3>1, <3>2, <3>3 DEF IsOnly
  <2> QED
    BY <1>3, <2>1
<1>4. CASE s[k] \in T
  <2> DEFINE G == Append(F, s[k])
  <2>1. /\ G \in Seq(X) /\ Len(G) = Len(F) + 1 /\ G[Len(F) + 1] = s[k]
        /\ \A q \in 1 .. Len(F) : G[q] = F[q]
    BY <1>1
  <2>2. \A q \in 1 .. Len(G) : q \in 1 .. Len(F) \/ q = Len(F) + 1
    BY <1>1, <2>1
  <2>3. Len(F) + 1 \in 1 .. Len(G) /\ \A q \in 1 .. Len(F) : q \in 1 .. Len(G)
    BY <1>1, <2>1
  <2> HIDE DEF G
  <2>4. ASSUME NEW q \in 1 .. Len(G)
        PROVE  G[q] \in T /\ \E i \in 1 .. k :
                 G[q] = s[i] /\ \A e \in 1 .. i - 1 : s[e] \in T => \E d \in 1 .. q - 1 : G[d] = s[e]
    <3>1. CASE q \in 1 .. Len(F)
      <4>1. PICK i \in 1 .. k - 1 :
              F[q] = s[i] /\ \A e \in 1 .. i - 1 : s[e] \in T => \E d \in 1 .. q - 1 : F[d] = s[e]
        BY <3>1 DEF IsOnly
      <4>2. \A d \in 1 .. q - 1 : d \in 1 .. Len(F)
        BY <1>1, <3>1
      <4>3. F[q] \in T
        BY <3>1 DEF IsOnly
      <4> QED
        BY <1>2, <2>1, <3>1, <4>1, <4>2, <4>3
    <3>2. CASE q = Len(F) + 1
      <4>1. \A d \in 1 .. Len(F) : d \in 1 .. q - 1
        BY <1>1, <3>2
      <4>2. \A e \in 1 .. k - 1 : s[e] \in T => \E d \in 1 .. Len(F) : F[d] = s[e]
        BY DEF IsOnly
      <4>3. \A e \in 1 .. k - 1 : s[e] \in T => \E d \in 1 .. q - 1 : G[d] = s[e]
        BY <2>1, <4>1, <4>2
      <4> QED
        BY <1>2, <1>4, <2>1, <3>2, <4>3
    <3> QED
      BY <2>2, <3>1, <3>2
  <2>5. ASSUME NEW i \in 1 .. k, s[i] \in T PROVE \E q \in 1 .. Len(G) : G[q] = s[i]
    <3>1. CASE i = k
      BY <2>1, <2>3, <3>1
    <3>2. CASE i # k
      <4>1. PICK q \in 1 .. Len(F) : F[q] = s[i]
        BY <1>2, <2>5, <3>2 DEF IsOnly
      <4> QED
        BY <2>1, <2>3, <4>1
    <3> QED
      BY <3>1, <3>2
  <2>6. ASSUME NEW q \in 1 .. Len(G), NEW d \in 1 .. Len(G), d < q
        PROVE  \E i, e \in 1 .. k : e < i /\ G[d] = s[e] /\ G[q] = s[i]
    <3>1. d \in 1 .. Len(F)
      BY <1>1, <2>1, <2>6
    <3>2. CASE q \in 1 .. Len(F)
      <4>1. PICK i \in 1 .. k - 1, e \in 1 .. k - 1 : e < i /\ F[d] = s[e] /\ F[q] = s[i]
        BY <2>6, <3>1, <3>2 DEF IsOnly
      <4> QED
        BY <1>2, <2>1, <3>1, <3>2, <4>1
    <3>3. CASE q = Len(F) + 1
      <4>1. PICK e \in 1 .. k - 1 : F[d] = s[e]
        BY <3>1 DEF IsOnly
      <4>2. e < k /\ e \in 1 .. k
        BY <1>1
      <4> QED
        BY <1>2, <2>1, <3>1, <3>3, <4>1, <4>2
    <3> QED
      BY <2>2, <3>2, <3>3
  <2>7. IsOnly(G, T, s, k, X)
    BY <2>1, <2>4, <2>5, <2>6 DEF IsOnly
  <2> QED
    BY <1>4, <2>7 DEF G
<1> QED
  BY <1>3, <1>4

\* What Only returns.
LEMMA OnlyIs ==
  ASSUME NEW X, NEW T, NEW s \in Seq(X)
  PROVE  IsOnly(Only(T, s), T, s, Len(s), X)
<1> DEFINE n == Len(s)
           next(x, i) == IF s[i] \in T THEN Append(x, s[i]) ELSE x
           Solves(g) == g = [i \in 0 .. Len(s) |-> IF i = 0 THEN <<>>
                               ELSE IF s[i] \in T THEN Append(g[i - 1], s[i]) ELSE g[i - 1]]
           step == [i \in 1 .. n |-> [x \in Seq(X) |-> next(x, i)]]
           kept == CHOOSE g : Solves(g)
<1>1. n \in Nat /\ <<>> \in Seq(X)
  OBVIOUS
<1>2. KeepsTo(Seq(X), n, step)
  <2>1. ASSUME NEW i \in 1 .. n, NEW x \in Seq(X) PROVE next(x, i) \in Seq(X)
    OBVIOUS
  <2> HIDE DEF next
  <2> QED
    BY <2>1 DEF KeepsTo
<1>3. PICK f : IsRun(f, Seq(X), <<>>, n, step)
  <2> HIDE DEF step, n
  <2> QED
    BY <1>1, <1>2, LoopRuns
<1>4. f \in [0 .. n -> Seq(X)] /\ f[0] = <<>> /\ \A i \in 1 .. n : f[i] = step[i][f[i - 1]]
  BY <1>3 DEF IsRun
<1>5. ASSUME NEW i \in 1 .. n PROVE f[i] = next(f[i - 1], i)
  <2>1. i - 1 \in 0 .. n
    OBVIOUS
  <2>2. f[i - 1] \in Seq(X)
    BY <1>4, <2>1
  <2> HIDE DEF next
  <2> QED
    BY <1>4, <2>2
<1>6. Solves(f)
  <2>1. f = [i \in 0 .. n |-> f[i]]
    BY <1>4
  <2>2. ASSUME NEW i \in 0 .. n
        PROVE  f[i] = IF i = 0 THEN <<>> ELSE IF s[i] \in T THEN Append(f[i - 1], s[i]) ELSE f[i - 1]
    <3>1. CASE i = 0
      BY <1>4, <3>1
    <3>2. CASE i # 0
      <4>1. i \in 1 .. n
        BY <3>2
      <4> QED
        BY <1>5, <3>2, <4>1
    <3> QED
      BY <3>1, <3>2
  <2> QED
    BY <2>1, <2>2
<1>7. Solves(kept)
  <2> HIDE DEF Solves
  <2> QED
    BY <1>6
<1>8. Only(T, s) = kept[n]
  BY Zenon DEF Only
<1>9. \A i \in 0 .. n : kept[i] = IF i = 0 THEN <<>> ELSE next(kept[i - 1], i)
  <2> HIDE DEF kept
  <2> QED
    BY <1>7
<1> HIDE DEF kept, Solves
<1> DEFINE Good == {k \in 0 .. n : IsOnly(kept[k], T, s, k, X)}
<1>10. 0 \in Good
  <2>1. kept[0] = <<>>
    BY <1>1, <1>9
  <2>2. IsOnly(<<>>, T, s, 0, X)
    BY <1>1 DEF IsOnly
  <2> QED
    BY <1>1, <2>1, <2>2
<1>11. ASSUME NEW k \in 1 .. n, k - 1 \in Good PROVE k \in Good
  <2>1. IsOnly(next(kept[k - 1], k), T, s, k, X)
    BY <1>11, OnlyStep
  <2>2. k \in 0 .. n /\ k # 0
    OBVIOUS
  <2>3. kept[k] = next(kept[k - 1], k)
    BY <1>9, <2>2
  <2> HIDE DEF next
  <2>4. IsOnly(kept[k], T, s, k, X)
    BY <2>1, <2>3
  <2> QED
    BY <2>2, <2>4
<1> HIDE DEF Good
<1>12. \A k \in 0 .. n : k \in Good
  <2> HIDE DEF n
  <2> QED
    BY <1>1, <1>10, <1>11, Induction
<1>13. n \in Good
  BY <1>1, <1>12
<1> QED
  BY <1>8, <1>13 DEF Good

Read == Messages \cup {Garbled}

\* A sequence that is cut somewhere and joined again.
LEMMA CutAndJoined ==
  ASSUME NEW X, NEW s \in Seq(X), NEW n \in 0 .. Len(s)
  PROVE  /\ SubSeq(s, 1, n) \in Seq(X) /\ Len(SubSeq(s, 1, n)) = n
         /\ \A i \in 1 .. n : SubSeq(s, 1, n)[i] = s[i]
         /\ SubSeq(s, n + 1, Len(s)) \in Seq(X) /\ Len(SubSeq(s, n + 1, Len(s))) = Len(s) - n
         /\ \A i \in 1 .. Len(s) - n : SubSeq(s, n + 1, Len(s))[i] = s[n + i]
<1>1. Len(s) \in Nat /\ n \in Nat
  OBVIOUS
<1>2. /\ \A i \in 1 .. n : i \in 1 .. Len(s) /\ 1 + i - 1 = i
      /\ \A i \in n + 1 .. Len(s) : i \in 1 .. Len(s)
  BY <1>1
<1>3. \A i \in 1 .. Len(s) : s[i] \in X
  OBVIOUS
<1>4. /\ SubSeq(s, 1, n) \in Seq(X) /\ Len(SubSeq(s, 1, n)) = IF 1 <= n THEN n - 1 + 1 ELSE 0
      /\ \A i \in 1 .. n - 1 + 1 : SubSeq(s, 1, n)[i] = s[1 + i - 1]
  <2>1. \A i \in 1 .. n : s[i] \in X
    BY <1>2, <1>3
  <2> QED
    BY <1>1, <2>1, SubSeqProperties
<1>5. /\ SubSeq(s, n + 1, Len(s)) \in Seq(X)
      /\ Len(SubSeq(s, n + 1, Len(s))) = IF n + 1 <= Len(s) THEN Len(s) - (n + 1) + 1 ELSE 0
      /\ \A i \in 1 .. Len(s) - (n + 1) + 1 : SubSeq(s, n + 1, Len(s))[i] = s[(n + 1) + i - 1]
  <2>1. \A i \in n + 1 .. Len(s) : s[i] \in X
    BY <1>2, <1>3
  <2>2. n + 1 \in Int /\ Len(s) \in Int
    BY <1>1
  <2> QED
    BY <2>1, <2>2, SubSeqProperties
<1>6. (IF 1 <= n THEN n - 1 + 1 ELSE 0) = n /\ n - 1 + 1 = n
  BY <1>1
<1>7. /\ (IF n + 1 <= Len(s) THEN Len(s) - (n + 1) + 1 ELSE 0) = Len(s) - n
      /\ Len(s) - (n + 1) + 1 = Len(s) - n
      /\ \A i \in 1 .. Len(s) - n : (n + 1) + i - 1 = n + i
  BY <1>1
<1> QED
  BY <1>2, <1>4, <1>5, <1>6, <1>7

\* Half of a number, rounded down.
LEMMA HalfIs ==
  ASSUME NEW n \in Nat
  PROVE  n \div 2 \in Nat /\ 2 * (n \div 2) <= n /\ n <= 2 * (n \div 2) + 1
OBVIOUS

\* What a frame is read as (message text that no serializer reads is Garbled).
LEMMA DecodeIs ==
  ASSUME NEW len \in Cell, NEW text \in Cell
  PROVE  /\ Decode(len, text) \in Read
         /\ Decode(len, text) # Garbled => /\ len.part = "len" /\ Decode(len, text) = len.of
                                          /\ len.of.readable
         /\ IsFrame(len, text) /\ len.of.readable => Decode(len, text) = len.of
<1>1. len.of \in Messages
  BY DEF Cell
<1> QED
  BY <1>1 DEF Decode, Read, IsFrame

\* One connection is read, with buffer b and n cells of the wire w: the frames at the
\* start of the whole stream are taken out (tcp-client and host_network_server, reading).
LEMMA ReadIs ==
  ASSUME NEW b \in Seq(Cell), NEW w \in Seq(Cell), NEW n \in 0 .. Len(w)
  PROVE  LET got  == b \o SubSeq(w, 1, n)
             all  == b \o w
             k    == Len(Decoded(got))
             left == Rest(got) \o SubSeq(w, n + 1, Len(w))
         IN /\ Decoded(got) \in Seq(Read) /\ k \in Nat /\ 2 * k <= Len(all)
            /\ \A i \in 1 .. k : Decoded(got)[i] = Decode(all[2 * i - 1], all[2 * i])
            /\ Rest(got) \in Seq(Cell) /\ SubSeq(w, n + 1, Len(w)) \in Seq(Cell)
            /\ left \in Seq(Cell) /\ Len(left) = Len(all) - 2 * k
            /\ \A i \in 1 .. Len(left) : left[i] = all[2 * k + i]
            /\ Len(Rest(got)) <= 1
            /\ n = 0 /\ Len(b) <= 1 => k = 0
<1> DEFINE taken == SubSeq(w, 1, n)
           kept  == SubSeq(w, n + 1, Len(w))
           got   == b \o taken
           all   == b \o w
           h     == Len(got) \div 2
           rest  == Rest(got)
           left  == rest \o kept
<1>1. /\ taken \in Seq(Cell) /\ Len(taken) = n /\ \A i \in 1 .. n : taken[i] = w[i]
      /\ kept \in Seq(Cell) /\ Len(kept) = Len(w) - n /\ \A i \in 1 .. Len(w) - n : kept[i] = w[n + i]
  BY CutAndJoined
<1>2. Len(b) \in Nat /\ Len(w) \in Nat /\ n \in Nat /\ n <= Len(w)
  OBVIOUS
<1> HIDE DEF taken, kept
<1>3. /\ got \in Seq(Cell) /\ Len(got) = Len(b) + n
      /\ \A i \in 1 .. Len(b) + n : got[i] = IF i <= Len(b) THEN b[i] ELSE taken[i - Len(b)]
  BY <1>1, ConcatProperties
<1>4. /\ all \in Seq(Cell) /\ Len(all) = Len(b) + Len(w)
      /\ \A i \in 1 .. Len(b) + Len(w) : all[i] = IF i <= Len(b) THEN b[i] ELSE w[i - Len(b)]
  BY ConcatProperties
<1> HIDE DEF got, all
<1>5. ASSUME NEW i \in 1 .. Len(got) PROVE got[i] = all[i] /\ i \in 1 .. Len(all)
  <2>1. i \in 1 .. Len(b) + n /\ i \in 1 .. Len(b) + Len(w)
    BY <1>2, <1>3
  <2>2. CASE i <= Len(b)
    BY <1>3, <1>4, <2>1, <2>2
  <2>3. CASE ~(i <= Len(b))
    <3>1. i - Len(b) \in 1 .. n
      BY <1>2, <2>1, <2>3
    <3> QED
      BY <1>1, <1>3, <1>4, <2>1, <2>3, <3>1
  <2> QED
    BY <1>4, <2>1, <2>2, <2>3
<1>6. h \in Nat /\ 2 * h <= Len(got) /\ Len(got) <= 2 * h + 1
  BY <1>2, <1>3, HalfIs
<1> HIDE DEF h
<1>7. 2 * h \in 0 .. Len(got) /\ Len(got) \in Nat
  BY <1>2, <1>3, <1>6
<1>8. rest = SubSeq(got, 2 * h + 1, Len(got))
  BY DEF Rest, h
<1>9. /\ rest \in Seq(Cell) /\ Len(rest) = Len(got) - 2 * h
      /\ \A i \in 1 .. Len(got) - 2 * h : rest[i] = got[2 * h + i]
  <2> DEFINE t == 2 * h
  <2>1. t \in 0 .. Len(got) /\ got \in Seq(Cell) /\ rest = SubSeq(got, t + 1, Len(got))
    BY <1>3, <1>7, <1>8
  <2> HIDE DEF t, rest
  <2>2. /\ rest \in Seq(Cell) /\ Len(rest) = Len(got) - t
        /\ \A i \in 1 .. Len(got) - t : rest[i] = got[t + i]
    BY <2>1, CutAndJoined
  <2> QED
    BY <2>2 DEF t
<1> HIDE DEF rest
<1>10. /\ left \in Seq(Cell) /\ Len(left) = Len(rest) + Len(kept)
       /\ \A i \in 1 .. Len(rest) + Len(kept) : left[i] = IF i <= Len(rest) THEN rest[i] ELSE kept[i - Len(rest)]
  BY <1>1, <1>9, ConcatProperties
<1> HIDE DEF left
<1>11. Len(left) = Len(all) - 2 * h
  BY <1>1, <1>2, <1>3, <1>4, <1>6, <1>9, <1>10
<1>12. ASSUME NEW i \in 1 .. Len(left) PROVE left[i] = all[2 * h + i]
  <2>1. CASE i <= Len(rest)
    <3>1. i \in 1 .. Len(got) - 2 * h /\ i \in 1 .. Len(rest) + Len(kept) /\ 2 * h + i \in 1 .. Len(got)
      BY <1>1, <1>2, <1>3, <1>6, <1>9, <1>10, <2>1
    <3>2. left[i] = rest[i] /\ rest[i] = got[2 * h + i]
      BY <1>9, <1>10, <2>1, <3>1
    <3> QED
      BY <1>5, <3>1, <3>2
  <2>2. CASE ~(i <= Len(rest))
    <3> DEFINE j == i - Len(rest)
               x == 2 * h + i
               y == n + j
    <3>1. /\ j \in 1 .. Len(w) - n /\ i \in 1 .. Len(rest) + Len(kept)
          /\ x = Len(b) + y /\ x \in 1 .. Len(b) + Len(w) /\ y \in Nat /\ y >= 1
      BY <1>1, <1>2, <1>3, <1>4, <1>6, <1>9, <1>10, <1>11, <2>2
    <3>2. left[i] = kept[j] /\ kept[j] = w[y]
      BY <1>1, <1>10, <2>2, <3>1
    <3> HIDE DEF j, x, y
    <3>3. ~(x <= Len(b)) /\ x - Len(b) = y
      BY <1>2, <3>1
    <3>4. all[x] = w[y]
      BY <1>4, <3>1, <3>3
    <3>5. left[i] = all[x]
      BY <3>2, <3>4
    <3> QED
      BY <3>5 DEF x
  <2> QED
    BY <2>1, <2>2
<1>13. ASSUME NEW i \in 1 .. h
       PROVE  /\ 2 * i - 1 \in 1 .. Len(got) /\ 2 * i \in 1 .. Len(got)
              /\ Decode(got[2 * i - 1], got[2 * i]) = Decode(all[2 * i - 1], all[2 * i])
              /\ Decode(got[2 * i - 1], got[2 * i]) \in Read
  <2>1. 2 * i - 1 \in 1 .. Len(got) /\ 2 * i \in 1 .. Len(got)
    BY <1>6, <1>7
  <2>2. got[2 * i - 1] = all[2 * i - 1] /\ got[2 * i] = all[2 * i]
    BY <1>5, <2>1
  <2>3. got[2 * i - 1] \in Cell /\ got[2 * i] \in Cell
    BY <1>3, <2>1
  <2> QED
    BY <2>1, <2>2, <2>3, DecodeIs
<1>14. Decoded(got) = [i \in 1 .. h |-> Decode(got[2 * i - 1], got[2 * i])]
  BY DEF Decoded, h
<1>15. Decoded(got) \in Seq(Read) /\ Len(Decoded(got)) = h
  BY <1>6, <1>13, <1>14
<1>16. \A i \in 1 .. h : Decoded(got)[i] = Decode(all[2 * i - 1], all[2 * i])
  BY <1>13, <1>14
<1>17. 2 * h <= Len(all) /\ Len(rest) <= 1 /\ (n = 0 /\ Len(b) <= 1 => h = 0)
  BY <1>2, <1>3, <1>4, <1>6, <1>9
<1> QED
  BY <1>1, <1>6, <1>9, <1>10, <1>11, <1>12, <1>15, <1>16, <1>17 DEF got, all, left, rest, taken, kept

----------------------------------------------------------------------------
(* One round of reading: what it takes out of the connections to r, and in *)
(* which order.                                                            *)

\* A connection before and after it is read: the first k cells of its stream are gone,
\* and with them the frames that g was read from.  A broken one may be dropped.
IsRead(old, new, g, k) ==
  /\ new.from = old.from /\ new.cut = old.cut
  /\ g \in Seq(Read) /\ k \in 0 .. Len(Stream(old))
  /\ Len(Stream(new)) = Len(Stream(old)) - k
  /\ \A i \in 1 .. Len(Stream(new)) : Stream(new)[i] = Stream(old)[k + i]
  /\ \A i \in 1 .. Len(g) : 2 * i <= k /\ g[i] = Decode(Stream(old)[2 * i - 1], Stream(old)[2 * i])
  /\ Len(new.buffer) <= 1
  /\ \/ new.to = old.to /\ k = 2 * Len(g)
     \/ old.cut /\ new.to = Nobody /\ g = <<>> /\ k = Len(Stream(old))

LEMMA StreamType ==
  ASSUME NEW l \in Link
  PROVE  /\ Stream(l) \in Seq(Cell) /\ Len(Stream(l)) \in Nat /\ DOMAIN Stream(l) = 1 .. Len(Stream(l))
         /\ \A i \in 1 .. Len(Stream(l)) : Stream(l)[i] \in Cell /\ Stream(l)[i].of \in Messages
         /\ l.buffer \in Seq(Cell) /\ l.wire \in Seq(Cell)
<1>1. l.buffer \in Seq(Cell) /\ l.wire \in Seq(Cell)
  BY DEF Link
<1>2. Stream(l) \in Seq(Cell)
  BY <1>1 DEF Stream
<1>3. \A x \in Cell : x.of \in Messages
  BY DEF Cell
<1> HIDE DEF Stream
<1> QED
  BY <1>1, <1>2, <1>3

\* A connection that is not read.
LEMMA NotRead ==
  ASSUME NEW l \in Link, Len(l.buffer) <= 1
  PROVE  /\ [l EXCEPT !.accepted = TRUE] \in Link
         /\ IsRead(l, l, <<>>, 0) /\ IsRead(l, [l EXCEPT !.accepted = TRUE], <<>>, 0)
<1> DEFINE m == [l EXCEPT !.accepted = TRUE]
<1>1. m \in Link /\ m.from = l.from /\ m.to = l.to /\ m.cut = l.cut /\ m.wire = l.wire /\ m.buffer = l.buffer
  BY DEF Link
<1> HIDE DEF m
<1>2. Stream(m) = Stream(l) /\ Len(Stream(l)) \in Nat
  BY <1>1, StreamType DEF Stream
<1>3. \A i \in 1 .. Len(Stream(l)) : 0 + i = i
  OBVIOUS
<1>4. <<>> \in Seq(Read) /\ Len(<<>>) = 0 /\ 0 \in 0 .. Len(Stream(l)) /\ 0 = 2 * Len(<<>>)
      /\ Len(Stream(l)) = Len(Stream(l)) - 0 /\ 1 .. Len(<<>>) = {}
  BY <1>2
<1>5. IsRead(l, l, <<>>, 0)
  BY <1>3, <1>4 DEF IsRead
<1>6. IsRead(l, m, <<>>, 0)
  BY <1>1, <1>2, <1>3, <1>4 DEF IsRead
<1> QED
  BY <1>1, <1>5, <1>6 DEF m

\* What AfterRead and ReadFrom make of a connection.
LEMMA AfterReadIs ==
  ASSUME WireOK, NEW c \in Links, NEW n \in 0 .. Len(link[c].wire)
  PROVE  /\ AfterRead(c, n) \in Link
         /\ \E k \in Nat : IsRead(link[c], AfterRead(c, n), ReadFrom(c, n), k)
         /\ ReadFrom(c, n) \in Seq(Read)
         /\ n = 0 /\ ~Dead(c) /\ Len(link[c].buffer) <= 1 => ReadFrom(c, n) = <<>>
<1> DEFINE b   == link[c].buffer
           w   == link[c].wire
           got == b \o SubSeq(w, 1, n)
           all == b \o w
<1>1. link[c] \in Link
  BY DEF WireOK
<1>2. b \in Seq(Cell) /\ w \in Seq(Cell) /\ all = Stream(link[c]) /\ Len(Stream(link[c])) \in Nat
  BY <1>1, StreamType DEF Stream
<1>3. CASE Dead(c)
  <2> DEFINE m == [link[c] EXCEPT !.to = Nobody, !.buffer = <<>>]
  <2>1. <<>> \in Seq(Cell) /\ <<>> \in Seq(Read) /\ Len(<<>>) = 0
    OBVIOUS
  <2>2. /\ m \in Link /\ m.from = link[c].from /\ m.to = Nobody /\ m.cut = link[c].cut
        /\ m.wire = link[c].wire /\ m.buffer = <<>>
    BY <1>1, <2>1 DEF Link
  <2>3. w = <<>> /\ link[c].cut
    BY <1>3 DEF Dead
  <2>4. AfterRead(c, n) = m /\ ReadFrom(c, n) = <<>>
    BY <1>3 DEF AfterRead, ReadFrom
  <2> HIDE DEF m
  <2>5. Stream(m) = <<>> \o <<>>
    BY <2>2, <2>3 DEF Stream
  <2>6. Len(Stream(m)) = 0
    BY <2>1, <2>5
  <2> DEFINE k == Len(Stream(link[c]))
  <2>7. /\ k \in 0 .. k /\ 0 = k - k /\ k \in Nat /\ 1 .. Len(<<>>) = {} /\ 1 .. Len(Stream(m)) = {}
        /\ Len(<<>>) <= 1
    BY <1>2, <2>1, <2>6
  <2>8. IsRead(link[c], m, <<>>, k)
    BY <2>1, <2>2, <2>3, <2>6, <2>7 DEF IsRead
  <2> QED
    BY <2>1, <2>2, <2>4, <2>7, <2>8
<1>4. CASE ~Dead(c)
  <2> DEFINE g    == Decoded(got)
             rest == Rest(got)
             tail == SubSeq(w, n + 1, Len(w))
             left == rest \o tail
             k    == 2 * Len(g)
             m    == [link[c] EXCEPT !.accepted = TRUE, !.wire = tail, !.buffer = rest]
  <2>1. /\ g \in Seq(Read) /\ Len(g) \in Nat /\ 2 * Len(g) <= Len(all)
        /\ \A i \in 1 .. Len(g) : g[i] = Decode(all[2 * i - 1], all[2 * i])
        /\ rest \in Seq(Cell) /\ tail \in Seq(Cell)
        /\ left \in Seq(Cell) /\ Len(left) = Len(all) - 2 * Len(g)
        /\ \A i \in 1 .. Len(left) : left[i] = all[2 * Len(g) + i]
        /\ Len(rest) <= 1
        /\ n = 0 /\ Len(b) <= 1 => Len(g) = 0
    BY <1>2, ReadIs
  <2>2. AfterRead(c, n) = m /\ ReadFrom(c, n) = g
    BY <1>4 DEF AfterRead, ReadFrom
  <2> HIDE DEF rest, tail
  <2>3. /\ m \in Link /\ m.from = link[c].from /\ m.to = link[c].to /\ m.cut = link[c].cut
        /\ m.wire = tail /\ m.buffer = rest
    BY <1>1, <2>1 DEF Link
  <2> HIDE DEF m, g
  <2>4. Stream(m) = left
    BY <2>3 DEF Stream
  <2>5. k \in Nat /\ k \in 0 .. Len(all) /\ \A i \in 1 .. Len(g) : 2 * i <= k
    BY <1>2, <2>1
  <2>6. IsRead(link[c], m, g, k)
    <3> HIDE DEF all, left
    <3>1. /\ \A i \in 1 .. Len(left) : left[i] = all[k + i]
          /\ Len(left) = Len(all) - k
      BY <2>1
    <3> HIDE DEF k
    <3>2. k = 2 * Len(g)
      BY DEF k
    <3> QED
      BY <1>2, <2>1, <2>3, <2>4, <2>5, <3>1, <3>2 DEF IsRead
  <2>7. ASSUME n = 0, Len(b) <= 1 PROVE g = <<>>
    BY <2>1, <2>7
  <2> QED
    BY <2>1, <2>2, <2>3, <2>5, <2>6, <2>7
<1> QED
  BY <1>3, <1>4

\* B holds what was read from the connections in R, as far as it is in T: that of one
\* connection in its order, and nothing twice unless it was read twice.
IsBatch(B, g, R, T) ==
  /\ B \in Seq(T)
  /\ \A q \in 1 .. Len(B) : \E c \in R : \E j \in 1 .. Len(g[c]) :
       B[q] = g[c][j] /\ \A e \in 1 .. j - 1 : g[c][e] \in T => \E d \in 1 .. q - 1 : B[d] = g[c][e]
  /\ \A c \in R : \A j \in 1 .. Len(g[c]) : g[c][j] \in T => \E q \in 1 .. Len(B) : B[q] = g[c][j]
  /\ \A q, d \in 1 .. Len(B) : B[q] = B[d] /\ q # d =>
       \E c, e \in R : \E j \in 1 .. Len(g[c]), h \in 1 .. Len(g[e]) :
         g[c][j] = B[q] /\ g[e][h] = B[q] /\ ~(c = e /\ j = h)

\* The connections are read one after the other, in any order, each of them once.
LEMMA OrderedBatch ==
  ASSUME NEW R \in SUBSET Links, NEW g \in [Links -> Seq(Read)], NEW n \in Nat,
         NEW order \in [1 .. n -> R], \A i, j \in 1 .. n : order[i] = order[j] => i = j,
         \A c \in R : (\A i \in 1 .. n : order[i] # c) => g[c] = <<>>,
         NEW p \in [1 .. n -> Seq(Read)], \A i \in 1 .. n : p[i] = g[order[i]]
  PROVE  IsBatch(FlattenSeq(p), g, R, Read)
<1> DEFINE F == FlattenSeq(p)
<1>1. \A i \in 1 .. n : order[i] \in R /\ p[i] = g[order[i]]
  OBVIOUS
<1>2. IsJoined(F, p, n, Read)
  BY FlattenIs
<1> HIDE DEF F
<1>3. \A c \in R : \A j \in 1 .. Len(g[c]) : \E i \in 1 .. n : order[i] = c
  <2>1. Len(<<>>) = 0 /\ 1 .. 0 = {}
    OBVIOUS
  <2> QED
    BY <2>1
<1>4. ASSUME NEW q \in 1 .. Len(F)
      PROVE  \E c \in R : \E j \in 1 .. Len(g[c]) : F[q] = g[c][j] /\
               \A e \in 1 .. j - 1 : g[c][e] \in Read => \E d \in 1 .. q - 1 : F[d] = g[c][e]
  <2>1. PICK i \in 1 .. n : \E j \in 1 .. Len(p[i]) :
          F[q] = p[i][j] /\ \A e \in 1 .. j - 1 : \E d \in 1 .. q - 1 : F[d] = p[i][e]
    BY <1>2 DEF IsJoined
  <2>2. PICK c \in R : c = order[i] /\ p[i] = g[c]
    BY <1>1
  <2>3. PICK j \in 1 .. Len(g[c]) :
          F[q] = g[c][j] /\ \A e \in 1 .. j - 1 : \E d \in 1 .. q - 1 : F[d] = g[c][e]
    BY <2>1, <2>2
  <2> QED
    BY <2>3
<1>5. ASSUME NEW c \in R, NEW j \in 1 .. Len(g[c])
      PROVE  \E q \in 1 .. Len(F) : F[q] = g[c][j]
  <2>1. PICK i \in 1 .. n : order[i] = c
    BY <1>3
  <2>2. p[i] = g[c]
    BY <1>1, <2>1
  <2>3. \A h \in 1 .. Len(p[i]) : \E q \in 1 .. Len(F) : F[q] = p[i][h]
    BY <1>2 DEF IsJoined
  <2> QED
    BY <2>2, <2>3
<1>6. ASSUME NEW q \in 1 .. Len(F), NEW d \in 1 .. Len(F), F[q] = F[d], q # d
      PROVE  \E c, e \in R : \E j \in 1 .. Len(g[c]), h \in 1 .. Len(g[e]) :
               g[c][j] = F[q] /\ g[e][h] = F[q] /\ ~(c = e /\ j = h)
  <2>1. PICK i \in 1 .. n, e \in 1 .. n : \E j \in 1 .. Len(p[i]), h \in 1 .. Len(p[e]) :
          p[i][j] = F[q] /\ p[e][h] = F[q] /\ ~(i = e /\ j = h)
    BY <1>2, <1>6 DEF IsJoined
  <2> QED
    BY <1>1, <2>1
<1>7. F \in Seq(Read)
  BY <1>2 DEF IsJoined
<1>8. IsBatch(F, g, R, Read)
  BY <1>4, <1>5, <1>6, <1>7 DEF IsBatch
<1> QED
  BY <1>8 DEF F

\* The host leaves out what it cannot read.
LEMMA FilteredBatch ==
  ASSUME NEW R \in SUBSET Links, NEW g \in [Links -> Seq(Read)], NEW G, IsBatch(G, g, R, Read)
  PROVE  IsBatch(Only(Messages, G), g, R, Messages)
<1> DEFINE B == Only(Messages, G)
<1>1. G \in Seq(Read) /\ Len(G) \in Nat
  BY DEF IsBatch
<1>2. IsOnly(B, Messages, G, Len(G), Read)
  BY <1>1, OnlyIs
<1> HIDE DEF B
<1>3. B \in Seq(Messages)
  <2>1. B \in Seq(Read) /\ \A q \in 1 .. Len(B) : B[q] \in Messages
    BY <1>2 DEF IsOnly
  <2> QED
    BY <2>1
<1>4. \A c \in R : \A j \in 1 .. Len(g[c]) : g[c][j] \in Read
  OBVIOUS
<1>5. ASSUME NEW q \in 1 .. Len(B)
      PROVE  \E c \in R : \E j \in 1 .. Len(g[c]) : B[q] = g[c][j] /\
               \A e \in 1 .. j - 1 : g[c][e] \in Messages => \E d \in 1 .. q - 1 : B[d] = g[c][e]
  <2>1. PICK i \in 1 .. Len(G) :
          B[q] = G[i] /\ \A e \in 1 .. i - 1 : G[e] \in Messages => \E d \in 1 .. q - 1 : B[d] = G[e]
    BY <1>2 DEF IsOnly
  <2>2. PICK c \in R : \E j \in 1 .. Len(g[c]) : G[i] = g[c][j] /\
          \A e \in 1 .. j - 1 : g[c][e] \in Read => \E d \in 1 .. i - 1 : G[d] = g[c][e]
    BY DEF IsBatch
  <2>3. PICK j \in 1 .. Len(g[c]) : G[i] = g[c][j] /\
          \A e \in 1 .. j - 1 : g[c][e] \in Read => \E d \in 1 .. i - 1 : G[d] = g[c][e]
    BY <2>2
  <2>4. ASSUME NEW e \in 1 .. j - 1, g[c][e] \in Messages PROVE \E d \in 1 .. q - 1 : B[d] = g[c][e]
    <3>1. g[c][e] \in Read
      BY <2>4 DEF Read
    <3> QED
      BY <2>1, <2>3, <2>4, <3>1
  <2> QED
    BY <2>1, <2>3, <2>4
<1>6. ASSUME NEW c \in R, NEW j \in 1 .. Len(g[c]), g[c][j] \in Messages
      PROVE  \E q \in 1 .. Len(B) : B[q] = g[c][j]
  <2>1. PICK i \in 1 .. Len(G) : G[i] = g[c][j]
    BY <1>4 DEF IsBatch
  <2> QED
    BY <1>2, <1>6, <2>1 DEF IsOnly
<1>7. ASSUME NEW q \in 1 .. Len(B), NEW d \in 1 .. Len(B), B[q] = B[d], q # d
      PROVE  \E c, e \in R : \E j \in 1 .. Len(g[c]), h \in 1 .. Len(g[e]) :
               g[c][j] = B[q] /\ g[e][h] = B[q] /\ ~(c = e /\ j = h)
  <2>1. \A x, y \in 1 .. Len(B) : x < y => \E i, e \in 1 .. Len(G) : e < i /\ B[x] = G[e] /\ B[y] = G[i]
    BY <1>2 DEF IsOnly
  <2>2. q \in Int /\ d \in Int
    OBVIOUS
  <2>3. PICK i \in 1 .. Len(G), e \in 1 .. Len(G) : e < i /\ G[e] = B[q] /\ G[i] = B[q]
    <3>1. CASE d < q
      BY <1>7, <2>1, <3>1
    <3>2. CASE q < d
      BY <1>7, <2>1, <3>2
    <3> QED
      BY <1>7, <2>2, <3>1, <3>2
  <2>4. G[i] = G[e] /\ i # e
    BY <1>1, <2>3
  <2> QED
    BY <2>3, <2>4 DEF IsBatch
<1>8. IsBatch(B, g, R, Messages)
  BY <1>3, <1>5, <1>6, <1>7 DEF IsBatch
<1> QED
  BY <1>8 DEF B

\* The guest has nothing to leave out, or it traps.
LEMMA ReadableBatch ==
  ASSUME NEW R \in SUBSET Links, NEW g \in [Links -> Seq(Read)], NEW G, IsBatch(G, g, R, Read),
         Garbled \notin Range(G)
  PROVE  IsBatch(G, g, R, Messages)
<1>1. G \in Seq(Messages)
  <2>1. G \in Seq(Read) /\ DOMAIN G = 1 .. Len(G) /\ Len(G) \in Nat
    BY DEF IsBatch
  <2>2. \A q \in 1 .. Len(G) : G[q] \in Read /\ G[q] # Garbled
    BY <2>1 DEF Range
  <2> QED
    BY <2>1, <2>2 DEF Read
<1>2. \A c \in R : \A j \in 1 .. Len(g[c]) : g[c][j] \in Read
  OBVIOUS
<1>3. ASSUME NEW q \in 1 .. Len(G)
      PROVE  \E c \in R : \E j \in 1 .. Len(g[c]) : G[q] = g[c][j] /\
               \A e \in 1 .. j - 1 : g[c][e] \in Messages => \E d \in 1 .. q - 1 : G[d] = g[c][e]
  <2>1. PICK c \in R : \E j \in 1 .. Len(g[c]) : G[q] = g[c][j] /\
          \A e \in 1 .. j - 1 : g[c][e] \in Read => \E d \in 1 .. q - 1 : G[d] = g[c][e]
    BY DEF IsBatch
  <2> QED
    BY <2>1 DEF Read
<1>4. \A c \in R : \A j \in 1 .. Len(g[c]) : g[c][j] \in Messages => \E q \in 1 .. Len(G) : G[q] = g[c][j]
  BY <1>2 DEF IsBatch
<1>5. \A q, d \in 1 .. Len(G) : G[q] = G[d] /\ q # d =>
        \E c, e \in R : \E j \in 1 .. Len(g[c]), h \in 1 .. Len(g[e]) :
          g[c][j] = G[q] /\ g[e][h] = G[q] /\ ~(c = e /\ j = h)
  BY DEF IsBatch
<1> QED
  BY <1>1, <1>3, <1>4, <1>5 DEF IsBatch

----------------------------------------------------------------------------
(* Nothing arrives twice.                                                  *)

\* Two sequences without repetitions that have nothing in common.
LEMMA JoinedInjective ==
  ASSUME NEW X, NEW s \in Seq(X), NEW t \in Seq(X), IsInjective(s), IsInjective(t),
         \A i \in 1 .. Len(t) : t[i] \notin Range(s)
  PROVE  IsInjective(s \o t)
<1> DEFINE u == s \o t
<1>1. /\ u \in Seq(X) /\ Len(u) = Len(s) + Len(t) /\ Len(s) \in Nat /\ Len(t) \in Nat
      /\ \A i \in 1 .. Len(s) + Len(t) : u[i] = IF i <= Len(s) THEN s[i] ELSE t[i - Len(s)]
  BY ConcatProperties
<1>2. DOMAIN s = 1 .. Len(s) /\ DOMAIN t = 1 .. Len(t) /\ DOMAIN u = 1 .. Len(s) + Len(t)
  BY <1>1
<1> HIDE DEF u
<1>3. \A i \in DOMAIN u : \/ i \in DOMAIN s /\ u[i] = s[i]
                          \/ i - Len(s) \in DOMAIN t /\ u[i] = t[i - Len(s)] /\ u[i] \notin Range(s)
  <2> SUFFICES ASSUME NEW i \in DOMAIN u
               PROVE  \/ i \in DOMAIN s /\ u[i] = s[i]
                      \/ i - Len(s) \in DOMAIN t /\ u[i] = t[i - Len(s)] /\ u[i] \notin Range(s)
    OBVIOUS
  <2>1. i \in 1 .. Len(s) + Len(t)
    BY <1>2
  <2>2. CASE i <= Len(s)
    BY <1>1, <1>2, <2>1, <2>2
  <2>3. CASE ~(i <= Len(s))
    <3>1. i - Len(s) \in 1 .. Len(t)
      BY <1>1, <2>1, <2>3
    <3> QED
      BY <1>1, <1>2, <2>1, <2>3, <3>1
  <2> QED
    BY <2>2, <2>3
<1>4. \A i \in DOMAIN s : s[i] \in Range(s)
  BY DEF Range
<1>5. ASSUME NEW i \in DOMAIN u, NEW j \in DOMAIN u, u[i] = u[j] PROVE i = j
  <2>1. i \in Int /\ j \in Int
    BY <1>2
  <2>2. CASE i \in DOMAIN s /\ u[i] = s[i] /\ j \in DOMAIN s /\ u[j] = s[j]
    BY <1>5, <2>2 DEF IsInjective
  <2>3. CASE /\ i - Len(s) \in DOMAIN t /\ u[i] = t[i - Len(s)]
             /\ j - Len(s) \in DOMAIN t /\ u[j] = t[j - Len(s)]
    <3>1. i - Len(s) = j - Len(s)
      BY <1>5, <2>3, Zenon DEF IsInjective
    <3> QED
      BY <1>1, <2>1, <3>1
  <2> QED
    BY <1>3, <1>4, <1>5, <2>2, <2>3
<1>6. IsInjective(u)
  BY <1>5 DEF IsInjective
<1> QED
  BY <1>6 DEF u

\* A message that a round of reading gets: its length cell is taken out, and it is new.
Taken(c, i, k, m) ==
  /\ i \in 1 .. k /\ i \in DOMAIN Stream(link[c])
  /\ Stream(link[c])[i] = [part |-> "len", of |-> m] /\ Stream(link[c])[i].part = "len"
  /\ m.readable /\ Written(m) /\ m.to = link[c].to /\ m.from = link[c].from
  /\ \A r \in Receivers : link[c].to = r => m \notin Range(Arrived(r))

LEMMA TakenIs ==
  ASSUME WireInv, NEW c \in Links, NEW new, NEW g, NEW k, IsRead(link[c], new, g, k),
         NEW j \in 1 .. Len(g), g[j] \in Messages
  PROVE  Taken(c, 2 * j - 1, k, g[j])
<1> DEFINE S == Stream(link[c])
           m == g[j]
<1>1. link[c] \in Link
  BY DEF WireInv, WireOK
<1>2. S \in Seq(Cell) /\ Len(S) \in Nat /\ DOMAIN S = 1 .. Len(S)
  BY <1>1, StreamType
<1>3. k \in 0 .. Len(S) /\ 2 * j <= k /\ m = Decode(S[2 * j - 1], S[2 * j])
  BY DEF IsRead
<1> HIDE DEF S
<1>4. j \in Int /\ j >= 1
  OBVIOUS
<1>5. 2 * j - 1 \in 1 .. k /\ 2 * j - 1 \in 1 .. Len(S) /\ 2 * j \in 1 .. Len(S)
  BY <1>2, <1>3, <1>4
<1>6. S[2 * j - 1] \in Cell /\ S[2 * j] \in Cell
  BY <1>2, <1>5
<1>7. m # Garbled
  BY TransportAssumption
<1>8. S[2 * j - 1].part = "len" /\ S[2 * j - 1].of = m /\ m.readable
  BY <1>3, <1>6, <1>7, DecodeIs
<1>9. S[2 * j - 1] = [part |-> "len", of |-> m]
  BY <1>6, <1>8 DEF Cell
<1>10. Carries(c, 2 * j - 1) /\ Fresh(c, 2 * j - 1)
  BY <1>2, <1>5 DEF WireInv, LinkOK, S
<1>11. /\ Written(m) /\ m.to = link[c].to /\ m.from = link[c].from
       /\ \A r \in Receivers : link[c].to = r => m \notin Range(Arrived(r))
  BY <1>8, <1>10 DEF Carries, Fresh, S
<1> QED
  BY <1>2, <1>5, <1>8, <1>9, <1>11 DEF S, Taken

\* Connections that lose cells, at the start or at the end, of which the receiver gets
\* some of those at the start.
Shrinks(c, off) ==
  /\ link'[c].from = link[c].from /\ Len(link'[c].buffer) <= 1
  /\ link'[c].to = link[c].to \/ (link'[c].to = Nobody /\ Stream(link'[c]) = <<>>)
  /\ \A i \in DOMAIN Stream(link'[c]) : off[c] + i \in DOMAIN Stream(link[c])
                                       /\ Stream(link'[c])[i] = Stream(link[c])[off[c] + i]

LEMMA LinksShrink ==
  ASSUME WireInv, WireOK', UNCHANGED <<script, outbox, queue>>,
         NEW off \in [Links -> Nat], \A c \in Links : Shrinks(c, off),
         \A r \in Receivers : \A m \in Range(Arrived(r)') : m \notin Range(Arrived(r)) =>
           \E c \in Links : \E i \in 1 .. off[c] :
             i \in DOMAIN Stream(link[c]) /\ Stream(link[c])[i] = [part |-> "len", of |-> m]
  PROVE  LinkOK'
<1>1. ASSUME NEW c \in Links
      PROVE  /\ link[c] \in Link /\ link'[c] \in Link
             /\ DOMAIN Stream(link[c]) = 1 .. Len(Stream(link[c])) /\ Len(Stream(link[c])) \in Nat
             /\ DOMAIN Stream(link'[c]) = 1 .. Len(Stream(link'[c])) /\ Len(Stream(link'[c])) \in Nat
             /\ \A i \in DOMAIN Stream(link'[c]) : Stream(link'[c])[i] \in Cell
             /\ off[c] \in Nat
             /\ link'[c].to # Nobody => link'[c].to \in Receivers
  <2>1. link[c] \in Link /\ link'[c] \in Link
    BY DEF WireInv, WireOK
  <2>2. /\ DOMAIN Stream(link[c]) = 1 .. Len(Stream(link[c])) /\ Len(Stream(link[c])) \in Nat
        /\ DOMAIN Stream(link'[c]) = 1 .. Len(Stream(link'[c])) /\ Len(Stream(link'[c])) \in Nat
        /\ \A i \in DOMAIN Stream(link'[c]) : Stream(link'[c])[i] \in Cell
    BY <2>1, StreamType
  <2>3. link'[c].to # Nobody => link'[c].to \in Receivers
    BY <2>1 DEF Link
  <2> QED
    BY <2>1, <2>2, <2>3
<1>2. \A m : Written(m)' <=> Written(m)
  BY DEF Written, Left, Count
<1>3. ASSUME NEW c \in Links, NEW i \in DOMAIN Stream(link'[c])
      PROVE  /\ link'[c].to = link[c].to /\ link'[c].to \in Receivers
             /\ off[c] + i \in DOMAIN Stream(link[c])
             /\ Stream(link'[c])[i] = Stream(link[c])[off[c] + i]
  <2>1. link'[c].to # Nobody /\ Stream(link'[c]) # <<>>
    <3>1. Stream(link'[c]) # <<>>
      BY <1>1
    <3>2. off[c] + i \in DOMAIN Stream(link[c])
      BY DEF Shrinks
    <3>3. Stream(link[c]) # <<>>
      <4>1. Len(Stream(link[c])) # 0
        BY <1>1, <3>2
      <4>2. Len(<<>>) = 0
        OBVIOUS
      <4> QED
        BY <4>1, <4>2
    <3>4. link[c].to # Nobody
      BY <3>3 DEF WireInv, LinkOK
    <3> QED
      BY <3>1, <3>4 DEF Shrinks
  <2> QED
    BY <1>1, <2>1 DEF Shrinks
<1>4. ASSUME NEW c \in Links PROVE link'[c].to = Nobody => Stream(link'[c]) = <<>>
  <2>1. \/ link'[c].to = link[c].to
        \/ Stream(link'[c]) = <<>>
    BY DEF Shrinks
  <2>2. link[c].to = Nobody => Stream(link[c]) = <<>>
    BY DEF WireInv, LinkOK
  <2>3. \A i \in DOMAIN Stream(link'[c]) : off[c] + i \in DOMAIN Stream(link[c])
    BY DEF Shrinks
  <2>4. Len(<<>>) = 0
    OBVIOUS
  <2>5. ASSUME link'[c].to = Nobody, link'[c].to = link[c].to PROVE Stream(link'[c]) = <<>>
    <3>1. DOMAIN Stream(link[c]) = {}
      BY <1>1, <2>2, <2>4, <2>5
    <3>2. DOMAIN Stream(link'[c]) = {}
      BY <2>3, <3>1
    <3>3. link'[c] \in Link
      BY <1>1
    <3>4. Stream(link'[c]) \in Seq(Cell)
      BY <3>3, StreamType
    <3> QED
      BY <3>2, <3>4
  <2> QED
    BY <2>1, <2>5
<1>5. ASSUME NEW c \in Links, NEW i \in DOMAIN Stream(link'[c]) PROVE Carries(c, i)'
  <2>1. link'[c].from = link[c].from
    BY DEF Shrinks
  <2>2. Carries(c, off[c] + i)
    BY <1>3 DEF WireInv, LinkOK
  <2> QED
    BY <1>2, <1>3, <2>1, <2>2 DEF Carries
<1>6. ASSUME NEW c \in Links, NEW i \in DOMAIN Stream(link'[c]), Stream(link'[c])[i].part = "len"
      PROVE  Fresh(c, i)'
  <2> DEFINE x == Stream(link'[c])[i]
             m == x.of
  <2>1. x = Stream(link[c])[off[c] + i] /\ off[c] + i \in DOMAIN Stream(link[c]) /\ x \in Cell /\ x.part = "len"
    BY <1>1, <1>3, <1>6
  <2>2. /\ \A r \in Receivers : link[c].to = r => m \notin Range(Arrived(r))
        /\ \A d \in Links : \A j \in DOMAIN Stream(link[d]) : Stream(link[d])[j] = x => d = c /\ j = off[c] + i
    <3>1. Fresh(c, off[c] + i)
      BY <2>1 DEF WireInv, LinkOK
    <3> QED
      BY <2>1, <3>1 DEF Fresh, OnlyOne
  <2>3. x = [part |-> "len", of |-> m]
    BY <2>1 DEF Cell
  <2>4. i \in Int /\ i >= 1 /\ off[c] \in Nat
    BY <1>1
  <2> HIDE DEF x
  <2>5. ASSUME NEW r \in Receivers, link'[c].to = r PROVE m \notin Range(Arrived(r)')
    <3> SUFFICES ASSUME m \in Range(Arrived(r)') PROVE FALSE
      OBVIOUS
    <3>1. link[c].to = r
      BY <1>3, <2>5
    <3>2. m \in Range(Arrived(r)') /\ m \notin Range(Arrived(r))
      BY <2>2, <3>1
    <3>3. PICK d \in Links : \E j \in 1 .. off[d] :
            j \in DOMAIN Stream(link[d]) /\ Stream(link[d])[j] = [part |-> "len", of |-> m]
      BY <3>2
    <3>5. PICK j \in 1 .. off[d] : j \in DOMAIN Stream(link[d]) /\ Stream(link[d])[j] = [part |-> "len", of |-> m]
      BY <3>3
    <3>4. d = c /\ j = off[c] + i
      BY <2>2, <2>3, <3>5
    <3> QED
      BY <2>4, <3>5, <3>4
  <2>6. ASSUME NEW d \in Links, NEW j \in DOMAIN Stream(link'[d]), Stream(link'[d])[j] = x PROVE d = c /\ j = i
    <3>1. off[d] + j \in DOMAIN Stream(link[d]) /\ Stream(link[d])[off[d] + j] = x
      BY <1>3, <2>6
    <3>2. d = c /\ off[d] + j = off[c] + i
      <4> HIDE <2>6
      <4> QED
        BY <2>2, <3>1
    <3>3. j \in Int
      BY <1>1
    <3> QED
      BY <2>4, <3>2, <3>3
  <2> QED
    BY <2>5, <2>6 DEF x, Fresh, OnlyOne
<1>7. \A c \in Links : Len(link'[c].buffer) <= 1
  BY DEF Shrinks
<1>8. \A c \in Links : \A i \in DOMAIN Stream(link'[c]) : Carries(c, i)' /\ Fresh(c, i)'
  BY <1>5, <1>6 DEF Fresh
<1> QED
  BY <1>4, <1>7, <1>8 DEF LinkOK

\* What the receivers do leaves the senders as they are; what they have read is judged
\* by the actions that read.
LEMMA ServerSideKeeps ==
  ASSUME WireInv, WireOK', UNCHANGED clientSide,
         NEW off \in [Links -> Nat], \A c \in Links : Shrinks(c, off),
         \A r \in Receivers : \A m \in Range(Arrived(r)') : m \notin Range(Arrived(r)) =>
           \E c \in Links : \E i \in 1 .. off[c] :
             i \in DOMAIN Stream(link[c]) /\ Stream(link[c])[i] = [part |-> "len", of |-> m],
         ArrivedOK'
  PROVE  WireInv'
<1>1. UNCHANGED <<script, outbox, queue>> /\ alive' = alive /\ conn' = conn
  BY DEF clientSide
<1>2. LinkOK'
  BY <1>1, LinksShrink
<1>3. OutboxOK'
  BY <1>1 DEF OutboxOK, Count, WireInv
<1>4. QueueOK'
  <2>1. QueueOK
    BY DEF WireInv
  <2>2. \A m : Left(m)' <=> Left(m)
    BY <1>1 DEF Left, Count
  <2> QED
    BY <1>1, <2>1, <2>2 DEF QueueOK
<1>5. ConnOK'
  <2> SUFFICES ASSUME NEW s \in Senders, NEW r \in Receivers, conn[s][r] # Nobody
               PROVE  link'[conn[s][r]].from = s /\ link'[conn[s][r]].to \in {r, Nobody}
    BY <1>1 DEF ConnOK
  <2>1. conn[s][r] \in Links
    BY DEF WireInv, WireOK
  <2>2. link[conn[s][r]].from = s /\ link[conn[s][r]].to \in {r, Nobody}
    BY DEF WireInv, ConnOK
  <2> QED
    BY <2>1, <2>2 DEF Shrinks
<1> QED
  BY <1>2, <1>3, <1>4, <1>5 DEF WireInv

LEMMA ConcatRange ==
  ASSUME NEW X, NEW s \in Seq(X), NEW t \in Seq(X)
  PROVE  /\ s \o t \in Seq(X)
         /\ \A x : x \in Range(s \o t) <=> x \in Range(s) \/ x \in Range(t)
<1> DEFINE u == s \o t
<1>1. /\ u \in Seq(X) /\ Len(u) = Len(s) + Len(t) /\ Len(s) \in Nat /\ Len(t) \in Nat
      /\ \A i \in 1 .. Len(s) + Len(t) : u[i] = IF i <= Len(s) THEN s[i] ELSE t[i - Len(s)]
  BY ConcatProperties
<1>2. DOMAIN s = 1 .. Len(s) /\ DOMAIN t = 1 .. Len(t) /\ DOMAIN u = 1 .. Len(s) + Len(t)
  BY <1>1
<1> HIDE DEF u
<1>3. ASSUME NEW i \in DOMAIN u PROVE u[i] \in Range(s) \/ u[i] \in Range(t)
  <2>1. CASE i <= Len(s)
    <3>1. i \in DOMAIN s /\ u[i] = s[i]
      BY <1>1, <1>2, <2>1
    <3> QED
      BY <3>1 DEF Range
  <2>2. CASE ~(i <= Len(s))
    <3>1. i - Len(s) \in DOMAIN t /\ u[i] = t[i - Len(s)]
      BY <1>1, <1>2, <2>2
    <3> QED
      BY <3>1 DEF Range
  <2> QED
    BY <2>1, <2>2
<1>4. ASSUME NEW i \in DOMAIN s PROVE s[i] \in Range(u)
  <2>1. i \in DOMAIN u /\ u[i] = s[i]
    BY <1>1, <1>2
  <2> QED
    BY <2>1 DEF Range
<1>5. ASSUME NEW i \in DOMAIN t PROVE t[i] \in Range(u)
  <2> DEFINE j == Len(s) + i
  <2>1. j \in DOMAIN u /\ ~(j <= Len(s)) /\ j - Len(s) = i
    BY <1>1, <1>2
  <2>2. u[j] = t[i]
    BY <1>1, <1>2, <2>1
  <2> HIDE DEF j
  <2> QED
    BY <2>1, <2>2 DEF Range
<1>6. /\ \A x : x \in Range(u) => \E i \in DOMAIN u : x = u[i]
      /\ \A x : x \in Range(s) => \E i \in DOMAIN s : x = s[i]
      /\ \A x : x \in Range(t) => \E i \in DOMAIN t : x = t[i]
  BY DEF Range
<1>7. \A x : x \in Range(u) <=> x \in Range(s) \/ x \in Range(t)
  BY <1>3, <1>4, <1>5, <1>6
<1> QED
  BY <1>1, <1>7 DEF u

\* A round of reading: the batch B is taken out of the connections to r (get_messages
\* of the guest, one round of the host's thread).
LEMMA ReceiveKeeps ==
  ASSUME WireInv, WireOK', UNCHANGED clientSide, NEW r \in Receivers,
         NEW g \in [Links -> Seq(Read)], NEW k \in [Links -> Nat], NEW B,
         IsBatch(B, g, LinksTo(r), Messages),
         \A c \in LinksTo(r) : IsRead(link[c], link'[c], g[c], k[c]),
         \A c \in Links \ LinksTo(r) : link'[c] = link[c] /\ k[c] = 0,
         Arrived(r)' = Arrived(r) \o B,
         \A t \in Receivers \ {r} : Arrived(t)' = Arrived(t),
         \A t \in Receivers \ HostReceivers : inbox'[t] = <<>>
  PROVE  WireInv'
<1>1. ASSUME NEW c \in Links
      PROVE  /\ link[c] \in Link /\ link'[c] \in Link /\ k[c] \in Nat
             /\ Stream(link[c]) \in Seq(Cell) /\ DOMAIN Stream(link[c]) = 1 .. Len(Stream(link[c]))
             /\ Len(Stream(link[c])) \in Nat
             /\ Stream(link'[c]) \in Seq(Cell) /\ DOMAIN Stream(link'[c]) = 1 .. Len(Stream(link'[c]))
             /\ Len(Stream(link'[c])) \in Nat
  <2>1. link[c] \in Link /\ link'[c] \in Link
    BY DEF WireInv, WireOK
  <2> QED
    BY <2>1, StreamType
<1>2. \A c \in LinksTo(r) : c \in Links /\ link[c].to = r
  BY DEF LinksTo
<1>3. ASSUME NEW c \in Links PROVE Shrinks(c, k)
  <2>1. CASE c \in LinksTo(r)
    <3>1. IsRead(link[c], link'[c], g[c], k[c])
      BY <2>1
    <3>2. /\ link'[c].from = link[c].from /\ Len(link'[c].buffer) <= 1
          /\ k[c] \in 0 .. Len(Stream(link[c]))
          /\ Len(Stream(link'[c])) = Len(Stream(link[c])) - k[c]
          /\ \A i \in 1 .. Len(Stream(link'[c])) : Stream(link'[c])[i] = Stream(link[c])[k[c] + i]
          /\ \/ link'[c].to = link[c].to
             \/ link'[c].to = Nobody /\ k[c] = Len(Stream(link[c]))
      BY <3>1 DEF IsRead
    <3>3. k[c] = Len(Stream(link[c])) => Stream(link'[c]) = <<>>
      BY <1>1, <3>2
    <3>4. \A i \in 1 .. Len(Stream(link'[c])) : k[c] + i \in DOMAIN Stream(link[c])
      BY <1>1, <3>2
    <3> QED
      BY <1>1, <3>2, <3>3, <3>4 DEF Shrinks
  <2>2. CASE c \notin LinksTo(r)
    <3>1. link'[c] = link[c] /\ k[c] = 0
      BY <2>2
    <3>2. \A i \in DOMAIN Stream(link[c]) : 0 + i = i
      BY <1>1
    <3>3. Len(link[c].buffer) <= 1
      BY DEF WireInv, LinkOK
    <3> QED
      BY <3>1, <3>2, <3>3 DEF Shrinks
  <2> QED
    BY <2>1, <2>2
<1>4. B \in Seq(Messages) /\ DOMAIN B = 1 .. Len(B) /\ Len(B) \in Nat
  BY DEF IsBatch
<1>5. ASSUME NEW c \in LinksTo(r), NEW j \in 1 .. Len(g[c]), g[c][j] \in Messages
      PROVE  /\ 2 * j - 1 \in 1 .. k[c] /\ 2 * j - 1 \in DOMAIN Stream(link[c])
             /\ Stream(link[c])[2 * j - 1] = [part |-> "len", of |-> g[c][j]]
             /\ Stream(link[c])[2 * j - 1].part = "len"
             /\ g[c][j].readable /\ Written(g[c][j]) /\ g[c][j].to = r
             /\ g[c][j] \notin Range(Arrived(r))
  <2>1. c \in Links /\ link[c].to = r /\ IsRead(link[c], link'[c], g[c], k[c])
    BY <1>2
  <2>2. Taken(c, 2 * j - 1, k[c], g[c][j])
    BY <1>5, <2>1, TakenIs
  <2> QED
    BY <2>1, <2>2 DEF Taken
<1>6. ASSUME NEW q \in 1 .. Len(B)
      PROVE  \E c \in LinksTo(r) : \E j \in 1 .. Len(g[c]) : B[q] = g[c][j] /\ g[c][j] \in Messages
  <2>1. B[q] \in Messages
    BY <1>4
  <2>2. \E c \in LinksTo(r) : \E j \in 1 .. Len(g[c]) : B[q] = g[c][j]
    BY DEF IsBatch
  <2> QED
    BY <2>1, <2>2
<1>7. Arrived(r) \in Seq(Messages)
  BY DEF Arrived, WireInv, WireOK
<1>8. Arrived(r)' \in Seq(Messages) /\ \A x : x \in Range(Arrived(r)') <=> x \in Range(Arrived(r)) \/ x \in Range(B)
  BY <1>4, <1>7, ConcatRange
<1>9. \A x \in Range(B) : \E q \in 1 .. Len(B) : x = B[q]
  BY <1>4 DEF Range
<1>10. ASSUME NEW t \in Receivers, NEW m \in Range(Arrived(t)'), m \notin Range(Arrived(t))
       PROVE  \E c \in Links : \E i \in 1 .. k[c] :
                i \in DOMAIN Stream(link[c]) /\ Stream(link[c])[i] = [part |-> "len", of |-> m]
  <2>1. t = r
    BY <1>10
  <2>2. PICK q \in 1 .. Len(B) : m = B[q]
    BY <1>8, <1>9, <1>10, <2>1
  <2>3. PICK c \in LinksTo(r) : \E j \in 1 .. Len(g[c]) : B[q] = g[c][j] /\ g[c][j] \in Messages
    BY <1>6
  <2>4. PICK j \in 1 .. Len(g[c]) : B[q] = g[c][j] /\ g[c][j] \in Messages
    BY <2>3
  <2> QED
    BY <1>2, <1>5, <2>2, <2>4
<1>11. \A m : Written(m)' <=> Written(m)
  BY DEF Written, Left, Count, clientSide
<1>12. IsInjective(B)
  <2> SUFFICES ASSUME NEW q \in DOMAIN B, NEW d \in DOMAIN B, B[q] = B[d], q # d PROVE FALSE
    BY DEF IsInjective
  <2>1. PICK c \in LinksTo(r), e \in LinksTo(r) : \E j \in 1 .. Len(g[c]), h \in 1 .. Len(g[e]) :
          g[c][j] = B[q] /\ g[e][h] = B[q] /\ ~(c = e /\ j = h)
    BY <1>4 DEF IsBatch
  <2>2. PICK j \in 1 .. Len(g[c]), h \in 1 .. Len(g[e]) :
          g[c][j] = B[q] /\ g[e][h] = B[q] /\ ~(c = e /\ j = h)
    BY <2>1
  <2>3. B[q] \in Messages
    BY <1>4
  <2>4. /\ 2 * j - 1 \in DOMAIN Stream(link[c]) /\ 2 * h - 1 \in DOMAIN Stream(link[e])
        /\ Stream(link[c])[2 * j - 1] = Stream(link[e])[2 * h - 1]
        /\ Stream(link[c])[2 * j - 1].part = "len"
    <3>1. /\ 2 * j - 1 \in DOMAIN Stream(link[c])
          /\ Stream(link[c])[2 * j - 1] = [part |-> "len", of |-> B[q]]
          /\ Stream(link[c])[2 * j - 1].part = "len"
      BY <1>5, <2>2, <2>3
    <3>2. /\ 2 * h - 1 \in DOMAIN Stream(link[e])
          /\ Stream(link[e])[2 * h - 1] = [part |-> "len", of |-> B[q]]
      BY <1>5, <2>2, <2>3
    <3> QED
      BY <3>1, <3>2
  <2>5. OnlyOne(c, 2 * j - 1)
    BY <1>2, <2>4 DEF WireInv, LinkOK, Fresh
  <2>6. c = e /\ 2 * j - 1 = 2 * h - 1
    BY <1>2, <2>4, <2>5 DEF OnlyOne
  <2>7. j = h
    <3>1. j \in Int /\ h \in Int
      OBVIOUS
    <3> QED
      BY <2>6, <3>1
  <2> QED
    BY <2>2, <2>6, <2>7
<1>13. ASSUME NEW i \in 1 .. Len(B) PROVE B[i] \notin Range(Arrived(r)) /\ Written(B[i]) /\ B[i].to = r /\ B[i].readable
  <2>1. PICK c \in LinksTo(r) : \E j \in 1 .. Len(g[c]) : B[i] = g[c][j] /\ g[c][j] \in Messages
    BY <1>6
  <2>2. PICK j \in 1 .. Len(g[c]) : B[i] = g[c][j] /\ g[c][j] \in Messages
    BY <2>1
  <2>3. /\ g[c][j].readable /\ Written(g[c][j]) /\ g[c][j].to = r
        /\ g[c][j] \notin Range(Arrived(r))
    BY <1>5, <2>2
  <2> QED
    BY <2>2, <2>3
<1>14. ArrivedOK'
  <2>1. ASSUME NEW t \in Receivers
        PROVE  /\ IsInjective(Arrived(t)')
               /\ \A m \in Range(Arrived(t)') : Written(m) /\ m.to = t /\ m.readable
    <3>1. /\ IsInjective(Arrived(t))
          /\ \A m \in Range(Arrived(t)) : Written(m) /\ m.to = t /\ m.readable
      BY DEF WireInv, ArrivedOK
    <3>2. CASE t = r
      <4>1. IsInjective(Arrived(r) \o B)
        BY <1>4, <1>7, <1>12, <1>13, <3>1, <3>2, JoinedInjective
      <4>2. \A m \in Range(B) : Written(m) /\ m.to = r /\ m.readable
        BY <1>9, <1>13
      <4> QED
        BY <1>8, <3>1, <3>2, <4>1, <4>2
    <3>3. CASE t # r
      BY <3>1, <3>3
    <3> QED
      BY <3>2, <3>3
  <2> QED
    BY <1>11, <2>1 DEF ArrivedOK
<1> QED
  BY <1>3, <1>10, <1>14, ServerSideKeeps

----------------------------------------------------------------------------
(* What get_messages and the host's thread do to the connections.          *)

LEMMA OrdersIs ==
  ASSUME NEW S \in SUBSET Links, NEW order \in Orders(S)
  PROVE  /\ Len(order) \in Nat /\ DOMAIN order = 1 .. Len(order)
         /\ \A i \in 1 .. Len(order) : order[i] \in S
         /\ \A i, j \in 1 .. Len(order) : order[i] = order[j] => i = j
         /\ \A c \in S : \E i \in 1 .. Len(order) : order[i] = c
<1> DEFINE n == Cardinality(S)
<1>1. IsFiniteSet(S)
  <2>1. IsFiniteSet(Links)
    BY TransportAssumption, FS_Interval DEF Links
  <2> QED
    BY <2>1, FS_Subset
<1>2. n \in Nat
  BY <1>1, FS_CardinalityType
<1>3. order \in [1 .. n -> S] /\ Range(order) = S
  BY DEF Orders
<1> HIDE DEF n
<1>4. IsFiniteSet(1 .. n) /\ Cardinality(1 .. n) = n
  BY <1>2, FS_Interval
<1>5. \A c \in S : \E i \in 1 .. n : order[i] = c
  BY <1>3 DEF Range
<1>6. order \in Surjection(1 .. n, S)
  BY <1>3, <1>5 DEF Surjection
<1>7. Cardinality(1 .. n) = Cardinality(S)
  BY <1>4 DEF n
<1>8. order \in Injection(1 .. n, S)
  BY <1>4, <1>6, <1>7, FS_SurjSameCardinalityImpliesInj
<1>9. \A i, j \in 1 .. n : order[i] = order[j] => i = j
  BY <1>3, <1>8 DEF Injection, IsInjective
<1>10. Len(order) = n /\ DOMAIN order = 1 .. n
  BY <1>2, <1>3
<1> QED
  BY <1>2, <1>3, <1>5, <1>9, <1>10

LEMMA GreatestIs ==
  ASSUME NEW n \in Nat, NEW f \in [1 .. n -> Nat]
  PROVE  \E x \in {0} \cup {f[i] : i \in 1 .. n} : \A y \in {0} \cup {f[i] : i \in 1 .. n} : x >= y
<1> DEFINE T == {k \in 0 .. n : \E x \in {0} \cup {f[i] : i \in 1 .. k} : x \in Nat /\ \A i \in 1 .. k : f[i] <= x}
<1>1. 0 \in T
  OBVIOUS
<1>2. ASSUME NEW k \in 1 .. n, k - 1 \in T PROVE k \in T
  <2>1. PICK x \in {0} \cup {f[i] : i \in 1 .. k - 1} : x \in Nat /\ \A i \in 1 .. k - 1 : f[i] <= x
    BY <1>2
  <2>2. /\ \A i \in 1 .. k - 1 : i \in 1 .. k
        /\ \A i \in 1 .. k : i = k \/ i \in 1 .. k - 1
        /\ k \in 1 .. k /\ k \in 0 .. n /\ f[k] \in Nat
    OBVIOUS
  <2>3. CASE f[k] <= x
    BY <2>1, <2>2, <2>3
  <2>4. CASE ~(f[k] <= x)
    <3>1. \A i \in 1 .. k : f[i] <= f[k]
      BY <2>1, <2>2, <2>4
    <3> QED
      BY <2>2, <3>1
  <2> QED
    BY <2>3, <2>4
<1> HIDE DEF T
<1>3. n \in T
  <2>1. \A i \in 0 .. n : i \in T
    BY <1>1, <1>2, Induction
  <2> QED
    BY <2>1
<1> QED
  BY <1>3 DEF T

\* No more cells arrive than there are.
LEMMA ArrivalsIs ==
  ASSUME WireOK, NEW r \in Receivers, NEW arrived \in Arrivals(r), NEW c \in LinksTo(r)
  PROVE  arrived[c] \in 0 .. Len(link[c].wire)
<1> DEFINE S == {0} \cup {Len(link[d].wire) : d \in LinksTo(r)}
           f == [d \in 1 .. MaxLinks |-> IF d \in LinksTo(r) THEN Len(link[d].wire) ELSE 0]
<1>1. \A d \in Links : link[d] \in Link /\ Len(link[d].wire) \in Nat
  <2>1. \A d \in Links : link[d] \in Link
    BY DEF WireOK
  <2>2. \A d \in Links : link[d].wire \in Seq(Cell)
    BY <2>1, StreamType
  <2> QED
    BY <2>1, <2>2
<1>2. LinksTo(r) \subseteq Links /\ Links = 1 .. MaxLinks /\ MaxLinks \in Nat
  BY TransportAssumption DEF LinksTo, Links
<1>3. f \in [1 .. MaxLinks -> Nat]
  BY <1>1, <1>2
<1>4. \E x \in {0} \cup {f[i] : i \in 1 .. MaxLinks} : \A y \in {0} \cup {f[i] : i \in 1 .. MaxLinks} : x >= y
  <2> HIDE DEF f
  <2> QED
    BY <1>2, <1>3, GreatestIs
<1>5. {0} \cup {f[i] : i \in 1 .. MaxLinks} = S
  BY <1>2
<1> HIDE DEF f
<1>6. S \subseteq Nat
  BY <1>1, <1>2
<1> HIDE DEF S
<1>7. \E x \in S : \A y \in S : x >= y
  BY <1>4, <1>5
<1>8. Max(S) \in Nat
  BY <1>6, <1>7 DEF Max
<1>9. arrived[c] \in 0 .. Max(S) /\ arrived[c] <= Len(link[c].wire)
  BY DEF Arrivals, S
<1> QED
  BY <1>1, <1>2, <1>8, <1>9

\* Reading takes the streams g of messages from the connections to r.
Reading(r, g, k) ==
  /\ g \in [Links -> Seq(Read)] /\ k \in [Links -> Nat]
  /\ \A c \in LinksTo(r) : IsRead(link[c], link'[c], g[c], k[c])
  /\ \A c \in Links \ LinksTo(r) : link'[c] = link[c] /\ k[c] = 0

\* The connections in D are read, in an order of those where a read does something.
LEMMA RoundIs ==
  ASSUME WireOK, LinkOK, NEW r \in Receivers, NEW arrived \in Arrivals(r), NEW n \in Nat,
         NEW D \in SUBSET LinksTo(r), NEW order \in [1 .. n -> D],
         \A i, j \in 1 .. n : order[i] = order[j] => i = j,
         \A c \in D : (\A i \in 1 .. n : order[i] # c) => ~Dead(c) /\ arrived[c] = 0,
         link' \in [Links -> Link],
         \A c \in D : link'[c] = AfterRead(c, arrived[c]),
         \A c \in LinksTo(r) \ D : link'[c] = link[c] \/ link'[c] = [link[c] EXCEPT !.accepted = TRUE],
         \A c \in Links \ LinksTo(r) : link'[c] = link[c]
  PROVE  \E g, k : /\ Reading(r, g, k)
                   /\ IsBatch(Got(order, arrived, n), g, LinksTo(r), Read)
<1> DEFINE R == LinksTo(r)
           get(c) == IF c \in D THEN ReadFrom(c, arrived[c]) ELSE <<>>
           g == [c \in Links |-> get(c)]
           IsOff(c, x) == IF c \in R THEN IsRead(link[c], link'[c], g[c], x) ELSE x = 0
           k == [c \in Links |-> CHOOSE x \in Nat : IsOff(c, x)]
<1>1. R \in SUBSET Links /\ D \subseteq R
  BY DEF LinksTo
<1>2. \A c \in Links : link[c] \in Link /\ Len(link[c].buffer) <= 1
  BY DEF WireOK, LinkOK
<1>3. ASSUME NEW c \in D
      PROVE  /\ g[c] = ReadFrom(c, arrived[c]) /\ g[c] \in Seq(Read)
             /\ \E x \in Nat : IsRead(link[c], link'[c], g[c], x)
             /\ (\A i \in 1 .. n : order[i] # c) => g[c] = <<>>
  <2>1. c \in Links /\ c \in R
    BY <1>1
  <2>2. arrived[c] \in 0 .. Len(link[c].wire)
    BY <2>1, ArrivalsIs
  <2>3. g[c] = ReadFrom(c, arrived[c])
    BY <2>1
  <2>4. /\ \E x \in Nat : IsRead(link[c], AfterRead(c, arrived[c]), ReadFrom(c, arrived[c]), x)
        /\ ReadFrom(c, arrived[c]) \in Seq(Read)
        /\ arrived[c] = 0 /\ ~Dead(c) /\ Len(link[c].buffer) <= 1 => ReadFrom(c, arrived[c]) = <<>>
    BY <2>1, <2>2, AfterReadIs
  <2> HIDE DEF g
  <2> QED
    BY <1>2, <2>1, <2>3, <2>4
<1>4. ASSUME NEW c \in Links \ D PROVE g[c] = <<>> /\ g[c] \in Seq(Read)
  OBVIOUS
<1>5. g \in [Links -> Seq(Read)]
  <2>1. \A c \in Links : g[c] \in Seq(Read)
    BY <1>3, <1>4
  <2> QED
    BY <2>1
<1> HIDE DEF g
<1>6. ASSUME NEW c \in Links PROVE \E x \in Nat : IsOff(c, x)
  <2>1. CASE c \in D
    BY <1>1, <1>3, <2>1
  <2>2. CASE c \in R \ D
    <3>1. IsRead(link[c], link'[c], <<>>, 0)
      BY <1>2, <2>2, NotRead
    <3> QED
      BY <1>4, <2>2, <3>1
  <2>3. CASE c \notin R
    BY <2>3
  <2> QED
    BY <2>1, <2>2, <2>3
<1>7. \A c \in Links : k[c] \in Nat /\ IsOff(c, k[c])
  <2> SUFFICES ASSUME NEW c \in Links PROVE k[c] \in Nat /\ IsOff(c, k[c])
    OBVIOUS
  <2>1. k[c] = CHOOSE x \in Nat : IsOff(c, x)
    OBVIOUS
  <2> HIDE DEF IsOff, k
  <2> QED
    BY <1>6, <2>1
<1>8. k \in [Links -> Nat]
  <2>1. \A c \in Links : (CHOOSE x \in Nat : IsOff(c, x)) \in Nat
    <3> HIDE DEF IsOff
    <3> QED
      BY <1>6
  <2> HIDE DEF IsOff
  <2> QED
    BY <2>1
<1> HIDE DEF k
<1>9. Reading(r, g, k)
  BY <1>1, <1>5, <1>7, <1>8 DEF Reading
<1>10. \A i \in 1 .. n : order[i] \in R /\ ReadFrom(order[i], arrived[order[i]]) = g[order[i]]
  BY <1>1, <1>3
<1> DEFINE p == [i \in 1 .. n |-> ReadFrom(order[i], arrived[order[i]])]
<1>11. p \in [1 .. n -> Seq(Read)] /\ \A i \in 1 .. n : p[i] = g[order[i]]
  BY <1>1, <1>5, <1>10
<1> HIDE DEF p
<1>12. \A c \in R : (\A i \in 1 .. n : order[i] # c) => g[c] = <<>>
  BY <1>1, <1>3, <1>4
<1>13. order \in [1 .. n -> R]
  BY <1>1
<1> HIDE DEF R
<1>14. IsBatch(FlattenSeq(p), g, R, Read)
  <2>1. R \in SUBSET Links
    BY <1>1
  <2>2. p \in [1 .. n -> Seq(Read)]
    BY <1>11
  <2>3. \A i \in 1 .. n : p[i] = g[order[i]]
    BY <1>11
  <2> QED
    BY <1>5, <1>12, <1>13, <2>1, <2>2, <2>3, OrderedBatch, Zenon
<1> QED
  BY <1>9, <1>14 DEF p, R, Got

LEMMA StepParts ==
  ASSUME WireInv
  PROVE  /\ WireOK /\ OutboxOK /\ QueueOK /\ LinkOK /\ ConnOK /\ ArrivedOK
         /\ Links = 1 .. MaxLinks /\ \A r : LinksTo(r) \in SUBSET Links
         /\ \A r \in Receivers : handed[r] \in Seq(Messages) /\ inbox[r] \in Seq(Messages)
         /\ \A c \in Links : link[c] \in Link
BY DEF WireInv, WireOK, Links, LinksTo

\* r reads a batch B of messages.
Receive(r, g, k, B) ==
  /\ Reading(r, g, k) /\ IsBatch(B, g, LinksTo(r), Messages)
  /\ WireOK' /\ UNCHANGED <<clientSide, up, hurt>>
  /\ Arrived(r)' = Arrived(r) \o B
  /\ \A t \in Receivers \ {r} : Arrived(t)' = Arrived(t)
  /\ \A t \in Receivers \ HostReceivers : inbox'[t] = <<>>

\* A poll of the guest is a batch, unless something cannot be read.
LEMMA GuestPollIs ==
  ASSUME WireInv, NEW r \in Receivers, NEW arrived \in Arrivals(r), GuestPoll(r, arrived)
  PROVE  \/ StopReceiver(r) /\ UNCHANGED <<clientSide, handed>>
         \/ \E g, k, B : Receive(r, g, k, B)
<1> DEFINE R == LinksTo(r)
<1>1. PICK order \in Orders(Ready(R, arrived)) : \E n \in DOMAIN order :
        IF Garbled \in Range(Got(order, arrived, n))
          THEN StopReceiver(r) /\ UNCHANGED handed
          ELSE /\ link' = [c \in Links |-> IF \E i \in 1 .. n : order[i] = c THEN AfterRead(c, arrived[c])
                                          ELSE IF c \in LinksTo(r) THEN [link[c] EXCEPT !.accepted = TRUE]
                                          ELSE link[c]]
               /\ handed' = [handed EXCEPT ![r] = @ \o Got(order, arrived, n)]
               /\ UNCHANGED <<up, inbox, hurt>>
  BY DEF GuestPoll
<1>2. PICK n \in DOMAIN order :
        IF Garbled \in Range(Got(order, arrived, n))
          THEN StopReceiver(r) /\ UNCHANGED handed
          ELSE /\ link' = [c \in Links |-> IF \E i \in 1 .. n : order[i] = c THEN AfterRead(c, arrived[c])
                                          ELSE IF c \in LinksTo(r) THEN [link[c] EXCEPT !.accepted = TRUE]
                                          ELSE link[c]]
               /\ handed' = [handed EXCEPT ![r] = @ \o Got(order, arrived, n)]
               /\ UNCHANGED <<up, inbox, hurt>>
  BY <1>1
<1>3. UNCHANGED clientSide /\ r \notin HostReceivers
  BY DEF GuestPoll
<1>4. CASE Garbled \in Range(Got(order, arrived, n))
  BY <1>2, <1>3, <1>4
<1>5. CASE Garbled \notin Range(Got(order, arrived, n))
  <2> DEFINE G == Got(order, arrived, n)
             short == [i \in 1 .. n |-> order[i]]
             D == {short[i] : i \in 1 .. n}
  <2>1. /\ link' = [c \in Links |-> IF \E i \in 1 .. n : order[i] = c THEN AfterRead(c, arrived[c])
                                   ELSE IF c \in LinksTo(r) THEN [link[c] EXCEPT !.accepted = TRUE]
                                   ELSE link[c]]
        /\ handed' = [handed EXCEPT ![r] = @ \o G] /\ up' = up /\ inbox' = inbox /\ hurt' = hurt
    BY <1>2, <1>5
  <2>2. Ready(R, arrived) \in SUBSET R /\ R \in SUBSET Links /\ Ready(R, arrived) \in SUBSET Links
    BY DEF Ready, LinksTo
  <2>3. /\ Len(order) \in Nat /\ DOMAIN order = 1 .. Len(order)
        /\ \A i \in 1 .. Len(order) : order[i] \in R
        /\ \A i, j \in 1 .. Len(order) : order[i] = order[j] => i = j
    <3>1. /\ Len(order) \in Nat /\ DOMAIN order = 1 .. Len(order)
          /\ \A i \in 1 .. Len(order) : order[i] \in Ready(R, arrived)
          /\ \A i, j \in 1 .. Len(order) : order[i] = order[j] => i = j
      BY <2>2, OrdersIs
    <3> QED
      BY <2>2, <3>1
  <2>4. n \in Nat /\ \A i \in 1 .. n : i \in 1 .. Len(order)
    BY <2>3
  <2>5. /\ short \in [1 .. n -> D] /\ D \in SUBSET R
        /\ \A i \in 1 .. n : short[i] = order[i]
        /\ \A i, j \in 1 .. n : short[i] = short[j] => i = j
        /\ \A c : c \in D <=> \E i \in 1 .. n : order[i] = c
    BY <2>3, <2>4
  <2>6. G = Got(short, arrived, n)
    <3>1. [i \in 1 .. n |-> ReadFrom(short[i], arrived[short[i]])] = [i \in 1 .. n |-> ReadFrom(order[i], arrived[order[i]])]
      BY <2>5
    <3> QED
      BY <3>1 DEF Got
  <2> HIDE DEF G
  <2>7. \A c \in D : (\A i \in 1 .. n : short[i] # c) => ~Dead(c) /\ arrived[c] = 0
    OBVIOUS
  <2> HIDE DEF short, D
  <2>8. /\ \A c \in D : link'[c] = AfterRead(c, arrived[c])
        /\ \A c \in R \ D : link'[c] = [link[c] EXCEPT !.accepted = TRUE]
        /\ \A c \in Links \ R : link'[c] = link[c]
    BY <2>1, <2>2, <2>5
  <2>9. link' \in [Links -> Link]
    <3>1. ASSUME NEW c \in Links PROVE link'[c] \in Link
      <4>1. link[c] \in Link /\ Len(link[c].buffer) <= 1 /\ WireOK
        BY DEF WireInv, WireOK, LinkOK
      <4>2. [link[c] EXCEPT !.accepted = TRUE] \in Link
        BY <4>1, NotRead
      <4>3. CASE c \in D
        <5>1. c \in R
          BY <2>5, <4>3
        <5>2. arrived[c] \in 0 .. Len(link[c].wire)
          BY <4>1, <5>1, ArrivalsIs
        <5>3. AfterRead(c, arrived[c]) \in Link
          BY <4>1, <5>2, AfterReadIs
        <5> QED
          BY <2>8, <4>3, <5>3
      <4> QED
        BY <2>8, <4>1, <4>2, <4>3
    <3>2. link' = [c \in Links |-> link'[c]]
      BY <2>1
    <3> QED
      BY <3>1, <3>2
  <2>10. PICK g, k : Reading(r, g, k) /\ IsBatch(G, g, R, Read)
    <3>1. WireOK /\ LinkOK
      BY DEF WireInv
    <3>2. \A c \in R \ D : link'[c] = link[c] \/ link'[c] = [link[c] EXCEPT !.accepted = TRUE]
      BY <2>8
    <3>3. \A c \in D : link'[c] = AfterRead(c, arrived[c])
      BY <2>8
    <3>4. \A c \in Links \ R : link'[c] = link[c]
      BY <2>8
    <3>5. \A i, j \in 1 .. n : short[i] = short[j] => i = j
      BY <2>5
    <3>6. short \in [1 .. n -> D]
      BY <2>5
    <3>7. D \in SUBSET R /\ n \in Nat
      BY <2>4, <2>5
    <3>8. \E g, k : Reading(r, g, k) /\ IsBatch(Got(short, arrived, n), g, R, Read)
      BY <2>7, <2>9, <3>1, <3>2, <3>3, <3>4, <3>5, <3>6, <3>7, RoundIs
    <3> QED
      BY <2>6, <3>8
  <2>11. IsBatch(G, g, R, Messages)
    <3>1. g \in [Links -> Seq(Read)]
      BY <2>10 DEF Reading
    <3>2. Garbled \notin Range(G)
      BY <1>5 DEF G
    <3> QED
      BY <2>2, <2>10, <3>1, <3>2, ReadableBatch
  <2>12. G \in Seq(Messages)
    BY <2>11 DEF IsBatch
  <2>13. WireOK' /\ handed'[r] = handed[r] \o G /\ \A t \in Receivers \ {r} : handed'[t] = handed[t]
    <3>1. handed \in [Receivers -> Seq(Messages)] /\ handed[r] \o G \in Seq(Messages)
      BY <2>12 DEF WireInv, WireOK
    <3>2. /\ handed' \in [Receivers -> Seq(Messages)]
          /\ handed'[r] = handed[r] \o G /\ \A t \in Receivers \ {r} : handed'[t] = handed[t]
      BY <2>1, <3>1
    <3> QED
      BY <1>3, <2>1, <2>9, <3>2 DEF WireInv, WireOK, clientSide
  <2>14. \A t \in Receivers \ HostReceivers : inbox'[t] = <<>>
    BY <2>1 DEF WireInv, ArrivedOK
  <2>15. Arrived(r)' = Arrived(r) \o G
    <3>1. inbox'[r] = <<>> /\ inbox[r] = <<>>
      BY <1>3, <2>14 DEF WireInv, ArrivedOK
    <3>2. handed[r] \in Seq(Messages) /\ handed'[r] \in Seq(Messages)
      BY <2>13 DEF WireInv, WireOK
    <3>3. handed[r] \o <<>> = handed[r] /\ handed'[r] \o <<>> = handed'[r]
      BY <3>2
    <3> QED
      BY <2>13, <3>1, <3>3 DEF Arrived
  <2>16. \A t \in Receivers \ {r} : Arrived(t)' = Arrived(t)
    BY <2>1, <2>13 DEF Arrived
  <2>17. UNCHANGED <<clientSide, up, hurt>>
    BY <1>3, <2>1
  <2>18. Receive(r, g, k, G)
    BY <2>10, <2>11, <2>13, <2>14, <2>15, <2>16, <2>17 DEF Receive
  <2> QED
    BY <2>18
<1> QED
  BY <1>4, <1>5

\* A round of the host's thread is a batch.
LEMMA HostReadIs ==
  ASSUME WireInv, NEW r \in Receivers, NEW arrived \in Arrivals(r), HostRead(r, arrived)
  PROVE  \E g, k, B : Receive(r, g, k, B)
<1> DEFINE R == LinksTo(r)
<1>1. PICK new \in SUBSET {c \in R : ~link[c].accepted} :
        LET open == {c \in R : link[c].accepted} \cup new
        IN /\ \E order \in Orders(Ready(open, arrived)) :
                inbox' = [inbox EXCEPT ![r] = @ \o Only(Messages, Got(order, arrived, Len(order)))]
           /\ link' = [c \in Links |-> IF c \in open THEN AfterRead(c, arrived[c]) ELSE link[c]]
           /\ UNCHANGED <<clientSide, up, handed, failures, hurt>>
  BY DEF HostRead
<1> DEFINE D == {c \in R : link[c].accepted} \cup new
<1>2. PICK order \in Orders(Ready(D, arrived)) :
        inbox' = [inbox EXCEPT ![r] = @ \o Only(Messages, Got(order, arrived, Len(order)))]
  BY <1>1
<1>3. /\ link' = [c \in Links |-> IF c \in D THEN AfterRead(c, arrived[c]) ELSE link[c]]
      /\ UNCHANGED clientSide /\ up' = up /\ handed' = handed /\ hurt' = hurt /\ r \in HostReceivers
  BY <1>1 DEF HostRead
<1> DEFINE n == Len(order)
           G == Got(order, arrived, n)
           B == Only(Messages, G)
<1>4. Ready(D, arrived) \in SUBSET D /\ D \in SUBSET R /\ R \in SUBSET Links /\ Ready(D, arrived) \in SUBSET Links
  BY DEF Ready, LinksTo
<1>5. /\ n \in Nat /\ DOMAIN order = 1 .. n
      /\ \A i \in 1 .. n : order[i] \in Ready(D, arrived)
      /\ \A i, j \in 1 .. n : order[i] = order[j] => i = j
      /\ \A c \in Ready(D, arrived) : \E i \in 1 .. n : order[i] = c
  <2> HIDE DEF D
  <2> QED
    BY <1>4, OrdersIs
<1>6. order \in [1 .. n -> D]
  <2>1. order = [i \in 1 .. n |-> order[i]]
    BY <1>5 DEF Orders
  <2> HIDE DEF n, D
  <2> QED
    BY <1>4, <1>5, <2>1
<1>7. ASSUME NEW c \in D, \A i \in 1 .. n : order[i] # c PROVE ~Dead(c) /\ arrived[c] = 0
  <2>1. c \notin Ready(D, arrived)
    BY <1>5, <1>7
  <2>2. ~Dead(c) /\ ~(arrived[c] > 0)
    BY <2>1 DEF Ready
  <2>3. arrived[c] \in 0 .. Len(link[c].wire) /\ Len(link[c].wire) \in Nat
    <3>1. c \in R /\ WireOK /\ link[c] \in Link
      BY <1>4 DEF WireInv, WireOK
    <3>2. arrived[c] \in 0 .. Len(link[c].wire)
      BY <3>1, ArrivalsIs
    <3>3. link[c].wire \in Seq(Cell)
      BY <3>1, StreamType
    <3> QED
      BY <3>2, <3>3
  <2> QED
    BY <2>2, <2>3
<1> HIDE DEF n, G, B, D
<1>8. /\ \A c \in D : link'[c] = AfterRead(c, arrived[c])
      /\ \A c \in R \ D : link'[c] = link[c]
      /\ \A c \in Links \ R : link'[c] = link[c]
  BY <1>3, <1>4
<1>9. link' \in [Links -> Link]
  <2>1. ASSUME NEW c \in Links PROVE link'[c] \in Link
    <3>1. link[c] \in Link /\ WireOK
      BY DEF WireInv, WireOK
    <3>2. CASE c \in D
      <4>1. c \in R
        BY <1>4, <3>2
      <4>2. arrived[c] \in 0 .. Len(link[c].wire)
        BY <3>1, <4>1, ArrivalsIs
      <4>3. AfterRead(c, arrived[c]) \in Link
        BY <3>1, <4>2, AfterReadIs
      <4> QED
        BY <1>8, <3>2, <4>3
    <3> QED
      BY <1>8, <3>1, <3>2
  <2>2. link' = [c \in Links |-> link'[c]]
    BY <1>3
  <2> QED
    BY <2>1, <2>2
<1>10. PICK g, k : Reading(r, g, k) /\ IsBatch(G, g, R, Read)
  <2>1. WireOK /\ LinkOK
    BY DEF WireInv
  <2>2. \A c \in R \ D : link'[c] = link[c] \/ link'[c] = [link[c] EXCEPT !.accepted = TRUE]
    BY <1>8
  <2>3. \A c \in D : link'[c] = AfterRead(c, arrived[c])
    BY <1>8
  <2>4. \A c \in Links \ R : link'[c] = link[c]
    BY <1>8
  <2>5. \A i, j \in 1 .. n : order[i] = order[j] => i = j
    BY <1>5
  <2>6. D \in SUBSET R /\ n \in Nat
    BY <1>4, <1>5
  <2>7. \A c \in D : (\A i \in 1 .. n : order[i] # c) => ~Dead(c) /\ arrived[c] = 0
    BY <1>7
  <2>8. \E g, k : Reading(r, g, k) /\ IsBatch(Got(order, arrived, n), g, R, Read)
    BY <1>6, <1>9, <2>1, <2>2, <2>3, <2>4, <2>5, <2>6, <2>7, RoundIs
  <2> QED
    BY <2>8 DEF G
<1>11. IsBatch(B, g, R, Messages)
  <2>1. g \in [Links -> Seq(Read)]
    BY <1>10 DEF Reading
  <2>2. IsBatch(Only(Messages, G), g, R, Messages)
    BY <1>4, <1>10, <2>1, FilteredBatch
  <2> QED
    BY <2>2 DEF B
<1>12. B \in Seq(Messages)
  BY <1>11 DEF IsBatch
<1>13. inbox' = [inbox EXCEPT ![r] = @ \o B]
  BY <1>2 DEF B, G, n
<1>14. /\ inbox' \in [Receivers -> Seq(Messages)]
       /\ inbox'[r] = inbox[r] \o B /\ \A t \in Receivers \ {r} : inbox'[t] = inbox[t]
  <2>1. inbox \in [Receivers -> Seq(Messages)] /\ inbox[r] \o B \in Seq(Messages)
    BY <1>12 DEF WireInv, WireOK
  <2> QED
    BY <1>13, <2>1
<1>15. WireOK'
  BY <1>3, <1>9, <1>14 DEF WireInv, WireOK, clientSide
<1>16. \A t \in Receivers \ HostReceivers : inbox'[t] = <<>>
  BY <1>3, <1>14 DEF WireInv, ArrivedOK
<1>17. Arrived(r)' = Arrived(r) \o B
  <2>1. handed[r] \in Seq(Messages) /\ inbox[r] \in Seq(Messages)
    BY DEF WireInv, WireOK
  <2>2. (handed[r] \o inbox[r]) \o B = handed[r] \o (inbox[r] \o B)
    <3>1. \A s, t, u \in Seq(Messages) : (s \o t) \o u = s \o (t \o u)
      BY ConcatAssociative
    <3> QED
      BY <1>12, <2>1, <3>1
  <2> QED
    BY <1>3, <1>14, <2>2 DEF Arrived
<1>18. \A t \in Receivers \ {r} : Arrived(t)' = Arrived(t)
  BY <1>3, <1>14 DEF Arrived
<1>19. UNCHANGED <<clientSide, up, hurt>>
  BY <1>3
<1>20. Receive(r, g, k, B)
  BY <1>10, <1>11, <1>15, <1>16, <1>17, <1>18, <1>19 DEF Receive
<1> QED
  BY <1>20

\* What is taken from the inbox of the host goes to its runner: nothing is read.
LEMMA HostGetIs ==
  ASSUME WireInv, NEW r \in Receivers, HostGet(r)
  PROVE  /\ WireOK' /\ UNCHANGED <<clientSide, link, up, hurt>>
         /\ \A t \in Receivers : Arrived(t)' = Arrived(t)
         /\ \A t \in Receivers \ HostReceivers : inbox'[t] = <<>>
<1> DEFINE n == Min({MaxMessages, Len(inbox[r])})
           q == inbox[r]
<1>1. /\ n > 0 /\ UNCHANGED <<clientSide, link, up, hurt>>
      /\ handed' = [handed EXCEPT ![r] = @ \o SubSeq(q, 1, n)]
      /\ inbox' = [inbox EXCEPT ![r] = SubSeq(@, n + 1, Len(@))]
  BY DEF HostGet
<1>2. /\ handed \in [Receivers -> Seq(Messages)] /\ inbox \in [Receivers -> Seq(Messages)]
      /\ q \in Seq(Messages) /\ handed[r] \in Seq(Messages) /\ Len(q) \in Nat
  BY DEF WireInv, WireOK
<1>3. n \in 0 .. Len(q)
  <2>1. MaxMessages \in Nat
    BY TransportAssumption
  <2> DEFINE a == MaxMessages
             b == Len(q)
  <2>2. \E x \in {a, b} : \A y \in {a, b} : x <= y
    BY <1>2, <2>1
  <2>3. n \in {a, b} /\ \A y \in {a, b} : n <= y
    BY <2>2 DEF Min
  <2> HIDE DEF n
  <2> QED
    BY <1>2, <2>1, <2>3
<1> HIDE DEF n
<1> DEFINE first == SubSeq(q, 1, n)
           rest  == SubSeq(q, n + 1, Len(q))
<1>4. first \in Seq(Messages) /\ rest \in Seq(Messages)
  BY <1>2, <1>3, CutAndJoined
<1>5. first \o rest = q
  <2>1. /\ 1 \in 1 .. Len(q) + 1 /\ n \in 1 - 1 .. Len(q) /\ Len(q) \in n .. Len(q)
    BY <1>2, <1>3
  <2>2. first \o rest = SubSeq(q, 1, Len(q))
    BY <1>2, <2>1, ConcatAdjacentSubSeq
  <2> QED
    BY <1>2, <2>2, SubSeqFull
<1>6. inbox' = [inbox EXCEPT ![r] = rest] /\ handed' = [handed EXCEPT ![r] = @ \o first]
  BY <1>1
<1> HIDE DEF first, rest
<1>7. handed[r] \o first \in Seq(Messages)
  BY <1>2, <1>4
<1>8. /\ inbox' \in [Receivers -> Seq(Messages)] /\ handed' \in [Receivers -> Seq(Messages)]
      /\ inbox'[r] = rest /\ handed'[r] = handed[r] \o first
      /\ \A t \in Receivers \ {r} : inbox'[t] = inbox[t] /\ handed'[t] = handed[t]
  BY <1>2, <1>4, <1>6, <1>7
<1>9. WireOK'
  BY <1>1, <1>8 DEF WireInv, WireOK, clientSide
<1>10. Arrived(r)' = Arrived(r)
  <2>1. (handed[r] \o first) \o rest = handed[r] \o (first \o rest)
    BY <1>2, <1>4, ConcatAssociative
  <2> QED
    BY <1>5, <1>8, <2>1 DEF Arrived, q
<1>11. \A t \in Receivers \ {r} : Arrived(t)' = Arrived(t)
  BY <1>8 DEF Arrived
<1>12. ASSUME NEW t \in Receivers \ HostReceivers PROVE inbox'[t] = <<>>
  <2>1. inbox[t] = <<>>
    BY DEF WireInv, ArrivedOK
  <2>2. CASE t = r
    <3>1. Len(q) = 0
      BY <2>1, <2>2
    <3> QED
      BY <1>1, <1>3, <3>1
  <2> QED
    BY <1>8, <2>1, <2>2
<1> QED
  BY <1>1, <1>9, <1>10, <1>11, <1>12

LEMMA ReceiveKeepsWire ==
  ASSUME WireInv, NEW r \in Receivers, NEW g, NEW k, NEW B, Receive(r, g, k, B)
  PROVE  WireInv'
<1>1. /\ WireOK' /\ UNCHANGED clientSide /\ Arrived(r)' = Arrived(r) \o B
      /\ IsBatch(B, g, LinksTo(r), Messages) /\ Reading(r, g, k)
      /\ \A t \in Receivers \ {r} : Arrived(t)' = Arrived(t)
      /\ \A t \in Receivers \ HostReceivers : inbox'[t] = <<>>
  BY DEF Receive
<1>2. /\ g \in [Links -> Seq(Read)] /\ k \in [Links -> Nat]
      /\ \A c \in LinksTo(r) : IsRead(link[c], link'[c], g[c], k[c])
      /\ \A c \in Links \ LinksTo(r) : link'[c] = link[c] /\ k[c] = 0
  BY <1>1 DEF Reading
<1> QED
  BY <1>1, <1>2, ReceiveKeeps

LEMMA StartOfConcat ==
  ASSUME NEW X, NEW s \in Seq(X), NEW t \in Seq(X)
  PROVE  \A i \in DOMAIN s : i \in DOMAIN (s \o t) /\ s[i] = (s \o t)[i]
<1>1. /\ Len(s \o t) = Len(s) + Len(t) /\ Len(s) \in Nat /\ Len(t) \in Nat
      /\ \A i \in 1 .. Len(s) + Len(t) : (s \o t)[i] = IF i <= Len(s) THEN s[i] ELSE t[i - Len(s)]
      /\ DOMAIN s = 1 .. Len(s) /\ DOMAIN (s \o t) = 1 .. Len(s) + Len(t)
  BY ConcatProperties
<1> QED
  BY <1>1

LEMMA ConcatOfStart ==
  ASSUME NEW X, NEW b \in Seq(X), NEW x \in Seq(X), NEW n \in 0 .. Len(x)
  PROVE  \A i \in DOMAIN (b \o SubSeq(x, 1, n)) :
           i \in DOMAIN (b \o x) /\ (b \o SubSeq(x, 1, n))[i] = (b \o x)[i] /\ i \in Int
<1> DEFINE w == SubSeq(x, 1, n)
           v == SubSeq(x, n + 1, Len(x))
<1>1. w \in Seq(X) /\ v \in Seq(X)
  BY CutAndJoined
<1>2. w \o v = x
  <2>1. 1 \in 1 .. Len(x) + 1 /\ n \in 1 - 1 .. Len(x) /\ Len(x) \in n .. Len(x)
    OBVIOUS
  <2>2. w \o v = SubSeq(x, 1, Len(x))
    BY <2>1, ConcatAdjacentSubSeq
  <2> QED
    BY <2>2, SubSeqFull
<1> HIDE DEF w, v
<1>3. (b \o w) \o v = b \o x
  <2>1. ASSUME NEW s \in Seq(X), NEW t \in Seq(X), NEW u \in Seq(X)
        PROVE  (s \o t) \o u = s \o (t \o u)
    BY ConcatAssociative
  <2>2. (b \o w) \o v = b \o (w \o v)
    BY <1>1, <2>1, Zenon
  <2> QED
    BY <1>2, <2>2, Zenon
<1>4. b \o w \in Seq(X)
  BY <1>1
<1>5. \A i \in DOMAIN (b \o w) : i \in DOMAIN ((b \o w) \o v) /\ (b \o w)[i] = ((b \o w) \o v)[i]
  BY <1>1, <1>4, StartOfConcat
<1>6. \A i \in DOMAIN (b \o w) : i \in Int
  BY <1>4
<1> QED
  BY <1>3, <1>5, <1>6 DEF w

\* Connections lose cells, receivers what they have read but not handed on.
LEMMA LossKeeps ==
  ASSUME WireInv, WireOK', UNCHANGED <<clientSide, handed>>,
         \A c \in Links : Shrinks(c, [d \in Links |-> 0]),
         \A r \in Receivers : inbox'[r] = inbox[r] \/ inbox'[r] = <<>>
  PROVE  WireInv'
<1> DEFINE off == [d \in Links |-> 0]
<1>1. off \in [Links -> Nat]
  OBVIOUS
<1>2. ASSUME NEW r \in Receivers
      PROVE  /\ IsInjective(Arrived(r)')
             /\ \A m \in Range(Arrived(r)') : m \in Range(Arrived(r))
             /\ r \notin HostReceivers => inbox'[r] = <<>>
  <2>1. /\ IsInjective(Arrived(r)) /\ (r \notin HostReceivers => inbox[r] = <<>>)
        /\ handed[r] \in Seq(Messages) /\ inbox[r] \in Seq(Messages)
    BY DEF WireInv, ArrivedOK, WireOK
  <2>2. CASE inbox'[r] = inbox[r]
    BY <2>1, <2>2 DEF Arrived
  <2>3. CASE inbox'[r] = <<>>
    <3> DEFINE s == handed[r]
               u == Arrived(r)
    <3>1. u = s \o inbox[r] /\ Arrived(r)' = s \o <<>>
      BY <2>3 DEF Arrived
    <3>2. s \o <<>> = s
      BY <2>1
    <3>3. \A i \in DOMAIN s : i \in DOMAIN (s \o inbox[r]) /\ s[i] = (s \o inbox[r])[i]
      BY <2>1, StartOfConcat
    <3> HIDE DEF s, u
    <3>4. \A i \in DOMAIN s : i \in DOMAIN u /\ s[i] = u[i]
      BY <3>1, <3>3
    <3>5. IsInjective(s) /\ \A m \in Range(s) : m \in Range(u)
      BY <2>1, <3>4 DEF IsInjective, Range, u
    <3> QED
      BY <2>3, <3>1, <3>2, <3>5 DEF u
  <2> QED
    BY <2>2, <2>3
<1>3. \A m : Written(m)' <=> Written(m)
  BY DEF Written, Left, Count, clientSide
<1>4. ArrivedOK'
  <2>1. \A r \in Receivers : \A m \in Range(Arrived(r)) : Written(m) /\ m.to = r /\ m.readable
    BY DEF WireInv, ArrivedOK
  <2> QED
    BY <1>2, <1>3, <2>1 DEF ArrivedOK
<1>5. UNCHANGED clientSide /\ \A c \in Links : Shrinks(c, off)
  OBVIOUS
<1> HIDE DEF off
<1> QED
  BY <1>1, <1>2, <1>4, <1>5, ServerSideKeeps

LEMMA HostGetKeepsWire ==
  ASSUME WireInv, NEW r \in Receivers, HostGet(r)
  PROVE  WireInv'
<1> DEFINE off == [d \in Links |-> 0]
<1>1. /\ WireOK' /\ UNCHANGED clientSide /\ link' = link
      /\ \A t \in Receivers : Arrived(t)' = Arrived(t)
      /\ \A t \in Receivers \ HostReceivers : inbox'[t] = <<>>
  BY HostGetIs
<1>2. off \in [Links -> Nat] /\ \A c \in Links : off[c] = 0
  OBVIOUS
<1> HIDE DEF off
<1>3. ASSUME NEW c \in Links PROVE Shrinks(c, off)
  <2>1. link[c] \in Link /\ Len(link[c].buffer) <= 1
    BY DEF WireInv, WireOK, LinkOK
  <2>2. \A i \in DOMAIN Stream(link[c]) : off[c] + i = i
    BY <1>2, <2>1, StreamType
  <2> QED
    BY <1>1, <2>1, <2>2 DEF Shrinks
<1>4. \A m : Written(m)' <=> Written(m)
  BY <1>1 DEF Written, Left, Count, clientSide
<1>5. ArrivedOK'
  <2>1. ArrivedOK
    BY DEF WireInv
  <2> QED
    BY <1>1, <1>4, <2>1 DEF ArrivedOK
<1> QED
  BY <1>1, <1>2, <1>3, <1>5, ServerSideKeeps

\* r stops, by itself or at a frame that it cannot read.
LEMMA StopKeepsWire ==
  ASSUME WireInv, NEW r \in Receivers, StopReceiver(r), UNCHANGED <<clientSide, handed>>
  PROVE  WireInv'
<1> DEFINE gone(l) == [l EXCEPT !.to = Nobody, !.cut = TRUE, !.wire = <<>>, !.buffer = <<>>]
<1>1. /\ link' = [c \in Links |-> IF link[c].to = r THEN gone(link[c]) ELSE link[c]]
      /\ inbox' = [inbox EXCEPT ![r] = <<>>]
      /\ up' = up \ {r} /\ hurt' = hurt \cup {r}
  BY DEF StopReceiver
<1>2. ASSUME NEW c \in Links
      PROVE  /\ gone(link[c]) \in Link /\ gone(link[c]).from = link[c].from /\ gone(link[c]).to = Nobody
             /\ gone(link[c]).wire = <<>> /\ gone(link[c]).buffer = <<>>
             /\ link[c] \in Link
  <2>1. link[c] \in Link
    BY DEF WireInv, WireOK
  <2>2. <<>> \in Seq(Cell)
    OBVIOUS
  <2> QED
    BY <2>1, <2>2 DEF Link
<1> HIDE DEF gone
<1>3. link' \in [Links -> Link]
  BY <1>1, <1>2
<1>4. /\ inbox' \in [Receivers -> Seq(Messages)]
      /\ \A t \in Receivers : inbox'[t] = inbox[t] \/ inbox'[t] = <<>>
  <2>1. inbox \in [Receivers -> Seq(Messages)] /\ <<>> \in Seq(Messages)
    BY DEF WireInv, WireOK
  <2> QED
    BY <1>1, <2>1
<1>5. WireOK'
  BY <1>1, <1>3, <1>4 DEF WireInv, WireOK, clientSide
<1>6. ASSUME NEW c \in Links PROVE Shrinks(c, [d \in Links |-> 0])
  <2> DEFINE off == [d \in Links |-> 0]
  <2>1. link[c] \in Link /\ Len(link[c].buffer) <= 1
    BY DEF WireInv, WireOK, LinkOK
  <2>2. \A i \in DOMAIN Stream(link[c]) : off[c] + i = i
    BY <2>1, StreamType
  <2>3. Len(<<>>) = 0 /\ <<>> \o <<>> = <<>> /\ DOMAIN <<>> = {}
    OBVIOUS
  <2> HIDE DEF off
  <2>4. CASE link[c].to = r
    <3>1. link'[c] = gone(link[c])
      BY <1>1, <2>4
    <3>2. Stream(link'[c]) = <<>>
      BY <1>2, <2>3, <3>1 DEF Stream
    <3>3. Shrinks(c, off)
      BY <1>2, <2>3, <3>1, <3>2 DEF Shrinks
    <3> QED
      BY <3>3 DEF off
  <2>5. CASE link[c].to # r
    <3>1. link'[c] = link[c]
      BY <1>1, <2>5
    <3>2. Shrinks(c, off)
      BY <2>1, <2>2, <3>1 DEF Shrinks
    <3> QED
      BY <3>2 DEF off
  <2> QED
    BY <2>4, <2>5
<1> QED
  BY <1>4, <1>5, <1>6, LossKeeps

LEMMA BreakKeepsWire ==
  ASSUME WireInv, NEW c \in Links, Break(c)
  PROVE  WireInv'
<1>1. PICK n \in 0 .. Len(link[c].wire) : link' = [link EXCEPT ![c].cut = TRUE, ![c].wire = SubSeq(@, 1, n)]
  BY DEF Break
<1>2. /\ UNCHANGED <<clientSide, serverSide>> /\ link[c].to # Nobody
      /\ hurt' = hurt \cup {link[c].to}
  BY DEF Break, Usable
<1> DEFINE w == SubSeq(link[c].wire, 1, n)
           new == [link[c] EXCEPT !.cut = TRUE, !.wire = w]
<1>3. /\ link \in [Links -> Link] /\ link[c] \in Link /\ link[c].buffer \in Seq(Cell) /\ link[c].wire \in Seq(Cell)
      /\ Len(link[c].buffer) <= 1
  <2>1. link \in [Links -> Link] /\ link[c] \in Link /\ Len(link[c].buffer) <= 1
    BY DEF WireInv, WireOK, LinkOK
  <2> QED
    BY <2>1, StreamType
<1>4. /\ w \in Seq(Cell) /\ Len(w) = n /\ \A i \in 1 .. n : w[i] = link[c].wire[i]
      /\ Len(link[c].wire) \in Nat /\ n \in Nat /\ n <= Len(link[c].wire)
  BY <1>3, CutAndJoined
<1>5. link' = [link EXCEPT ![c] = new]
  BY <1>1, <1>3
<1> HIDE DEF w
<1>6. /\ new \in Link /\ new.from = link[c].from /\ new.to = link[c].to
      /\ new.wire = w /\ new.buffer = link[c].buffer
  BY <1>3, <1>4 DEF Link
<1> HIDE DEF new
<1>7. link' \in [Links -> Link] /\ link'[c] = new /\ \A d \in Links \ {c} : link'[d] = link[d]
  BY <1>3, <1>5, <1>6
<1>8. link[c].to \in Receivers
  BY <1>2, <1>3 DEF Link
<1>9. WireOK'
  BY <1>2, <1>7, <1>8 DEF WireInv, WireOK, clientSide, serverSide
<1>10. ASSUME NEW d \in Links PROVE Shrinks(d, [e \in Links |-> 0])
  <2> DEFINE off == [e \in Links |-> 0]
  <2>1. link[d] \in Link /\ Len(link[d].buffer) <= 1
    BY DEF WireInv, WireOK, LinkOK
  <2>2. off[d] = 0 /\ \A i \in DOMAIN Stream(link[d]) : off[d] + i = i
    BY <2>1, StreamType
  <2> HIDE DEF off
  <2>3. CASE d = c
    <3> DEFINE b == link[c].buffer
               x == link[c].wire
               S == b \o x
               N == b \o w
    <3>1. Stream(link[c]) = S /\ Stream(link'[c]) = N
      BY <1>6, <1>7 DEF Stream
    <3>2. \A i \in DOMAIN N : i \in DOMAIN S /\ N[i] = S[i] /\ i \in Int
      BY <1>3, ConcatOfStart DEF w
    <3> HIDE DEF S, N
    <3>3. \A i \in DOMAIN N : i \in DOMAIN S /\ N[i] = S[i] /\ off[c] + i = i
      BY <2>2, <2>3, <3>2
    <3>4. /\ link'[c].from = link[c].from /\ Len(link'[c].buffer) <= 1 /\ link'[c].to = link[c].to
      BY <1>3, <1>6, <1>7
    <3>5. Shrinks(c, off)
      BY <3>1, <3>3, <3>4 DEF Shrinks
    <3> QED
      BY <2>3, <3>5 DEF off
  <2>4. CASE d # c
    <3>1. link'[d] = link[d]
      BY <1>7, <2>4
    <3>2. Shrinks(d, off)
      BY <2>1, <2>2, <3>1 DEF Shrinks
    <3> QED
      BY <3>2 DEF off
  <2> QED
    BY <2>3, <2>4
<1>11. \A r \in Receivers : inbox'[r] = inbox[r]
  BY <1>2 DEF serverSide
<1>12. UNCHANGED <<clientSide, handed>>
  BY <1>2 DEF serverSide
<1> QED
  BY <1>9, <1>10, <1>11, <1>12, LossKeeps

LEMMA StartKeepsWire ==
  ASSUME WireInv, NEW r \in Receivers, Start(r)
  PROVE  WireInv'
<1>1. UNCHANGED <<clientSide, link, inbox, handed, hurt>> /\ up' = up \cup {r}
  BY DEF Start
<1>2. WireOK'
  BY <1>1 DEF WireInv, WireOK, clientSide
<1>3. ASSUME NEW c \in Links PROVE Shrinks(c, [d \in Links |-> 0])
  <2> DEFINE off == [d \in Links |-> 0]
  <2>1. link[c] \in Link /\ Len(link[c].buffer) <= 1 /\ link'[c] = link[c]
    BY <1>1 DEF WireInv, WireOK, LinkOK
  <2>2. \A i \in DOMAIN Stream(link[c]) : off[c] + i = i
    BY <2>1, StreamType
  <2> HIDE DEF off
  <2>3. Shrinks(c, off)
    BY <2>1, <2>2 DEF Shrinks
  <2> QED
    BY <2>3 DEF off
<1> QED
  BY <1>1, <1>2, <1>3, LossKeeps

----------------------------------------------------------------------------
(* What the senders do.                                                    *)

\* Frames of a sender are handed on: outboxes and queues shrink or move, and what was
\* written stays written.
Handing ==
  /\ script' = script /\ UNCHANGED serverSide
  /\ outbox' \in [Senders -> Seq(Messages)] /\ queue' \in [Senders -> Seq(Messages)]
  /\ alive' \in [Senders -> BOOLEAN]
  /\ OutboxOK' /\ QueueOK'
  /\ \A x \in Messages : Written(x) => Written(x)'

\* m is the message of s that is to be written now.
Due(s, m) == m \in Messages /\ m.from = s /\ Written(m)' /\ ~Written(m)

\* The connection of s to r is x now.
ConnSet(s, r, x) ==
  /\ conn' \in [Senders -> [Receivers -> Links \cup {Nobody}]]
  /\ conn'[s][r] = x
  /\ \A t \in Senders, q \in Receivers : t # s \/ q # r => conn'[t][q] = conn[t][q]

\* The first j cells of m are written on c.
Appended(c, m, j) ==
  /\ link' \in [Links -> Link] /\ \A d \in Links \ {c} : link'[d] = link[d]
  /\ link'[c].from = m.from /\ link'[c].to = m.to /\ link'[c].buffer = link[c].buffer
  /\ link'[c].wire = link[c].wire \o SubSeq(Cells(m), 1, j)
  /\ link[c] = NoLink \/ (link[c].from = m.from /\ link[c].to = m.to)

\* What becomes of a message that is written: it goes on a connection, old or new; half
\* of it does; or it is lost, because the connection or the receiver is gone.
Sends(s, m) ==
  \/ \E c \in Links :
       /\ Appended(c, m, 2) /\ ~link'[c].cut
       /\ (link[c] = NoLink /\ conn[s][m.to] = Nobody) \/ (conn[s][m.to] = c /\ link[c].to = m.to)
       /\ ConnSet(s, m.to, c) /\ hurt' = hurt
  \/ \E c \in Links, j \in 0 .. 1 :
       Appended(c, m, j) /\ ConnSet(s, m.to, Nobody) /\ hurt' = hurt \cup {m.to}
  \/ /\ link' = link /\ hurt' = hurt
     /\ m.to \notin up \/ (conn[s][m.to] # Nobody /\ ~Usable(conn[s][m.to]))
     /\ ConnSet(s, m.to, Nobody) \/ conn' = conn

LEMMA CellsAre ==
  ASSUME NEW m \in Messages, NEW j \in 0 .. 2
  PROVE  /\ Cells(m) \in Seq(Cell) /\ Len(Cells(m)) = 2
         /\ SubSeq(Cells(m), 1, j) \in Seq(Cell) /\ Len(SubSeq(Cells(m), 1, j)) = j
         /\ j >= 1 => SubSeq(Cells(m), 1, j)[1] = [part |-> "len", of |-> m]
         /\ j >= 2 => SubSeq(Cells(m), 1, j)[2] = [part |-> "text", of |-> m]
         /\ SubSeq(Cells(m), 1, 2) = Cells(m)
<1> DEFINE a == [part |-> "len", of |-> m]
           b == [part |-> "text", of |-> m]
<1>1. a \in Cell /\ b \in Cell /\ Cells(m) = <<a, b>>
  BY DEF Cell, Cells
<1> HIDE DEF a, b
<1>2. Cells(m) \in Seq(Cell) /\ Len(Cells(m)) = 2 /\ Cells(m)[1] = a /\ Cells(m)[2] = b
  BY <1>1
<1>3. /\ SubSeq(Cells(m), 1, j) \in Seq(Cell) /\ Len(SubSeq(Cells(m), 1, j)) = j
      /\ \A i \in 1 .. j : SubSeq(Cells(m), 1, j)[i] = Cells(m)[i]
  <2> DEFINE t == Cells(m)
  <2>1. t \in Seq(Cell) /\ j \in 0 .. Len(t)
    BY <1>2
  <2> HIDE DEF t
  <2>2. SubSeq(t, 1, j) \in Seq(Cell) /\ Len(SubSeq(t, 1, j)) = j /\ \A i \in 1 .. j : SubSeq(t, 1, j)[i] = t[i]
    BY <2>1, CutAndJoined
  <2> QED
    BY <2>2 DEF t
<1>4. SubSeq(Cells(m), 1, 2) = Cells(m)
  BY <1>2, SubSeqFull
<1>5. (j >= 1 => 1 \in 1 .. j) /\ (j >= 2 => 2 \in 1 .. j)
  OBVIOUS
<1> QED
  BY <1>2, <1>3, <1>4, <1>5 DEF a, b

LEMMA CellsWhole ==
  ASSUME NEW m \in Messages
  PROVE  Cells(m) \in Seq(Cell) /\ SubSeq(Cells(m), 1, 2) = Cells(m) /\ <<>> \o Cells(m) = Cells(m)
<1>1. 2 \in 0 .. 2
  OBVIOUS
<1>2. Cells(m) \in Seq(Cell) /\ SubSeq(Cells(m), 1, 2) = Cells(m)
  BY <1>1, CellsAre
<1> HIDE DEF Cells
<1> QED
  BY <1>2, ConcatEmptySeq

\* The stream of a connection on which cells of m are written.
LEMMA AppendedIs ==
  ASSUME WireOK, NEW c \in Links, NEW m \in Messages, NEW j \in 0 .. 2, Appended(c, m, j)
  PROVE  LET S == Stream(link[c])
             N == Stream(link'[c])
         IN /\ Len(N) = Len(S) + j /\ DOMAIN N = 1 .. Len(S) + j /\ DOMAIN S = 1 .. Len(S) /\ Len(S) \in Nat
            /\ \A i \in 1 .. Len(S) : N[i] = S[i]
            /\ j >= 1 => N[Len(S) + 1] = [part |-> "len", of |-> m]
            /\ j >= 2 => N[Len(S) + 2] = [part |-> "text", of |-> m]
            /\ N = S \o SubSeq(Cells(m), 1, j)
<1> DEFINE b == link[c].buffer
           w == link[c].wire
           v == SubSeq(Cells(m), 1, j)
           S == b \o w
           N == S \o v
<1>1. b \in Seq(Cell) /\ w \in Seq(Cell)
  <2>1. link[c] \in Link
    BY DEF WireOK
  <2> QED
    BY <2>1, StreamType
<1>2. /\ v \in Seq(Cell) /\ Len(v) = j
      /\ j >= 1 => v[1] = [part |-> "len", of |-> m]
      /\ j >= 2 => v[2] = [part |-> "text", of |-> m]
  BY CellsAre
<1>3. Stream(link'[c]) = b \o (w \o v) /\ Stream(link[c]) = S
  BY DEF Appended, Stream
<1> HIDE DEF b, w, v
<1>4. N = b \o (w \o v)
  BY <1>1, <1>2, ConcatAssociative
<1>5. S \in Seq(Cell)
  BY <1>1
<1> HIDE DEF S
<1>6. /\ N \in Seq(Cell) /\ Len(N) = Len(S) + Len(v) /\ Len(S) \in Nat
      /\ \A i \in 1 .. Len(S) + Len(v) : N[i] = IF i <= Len(S) THEN S[i] ELSE v[i - Len(S)]
  BY <1>2, <1>5, ConcatProperties
<1>7. DOMAIN N = 1 .. Len(S) + j /\ DOMAIN S = 1 .. Len(S) /\ Len(N) = Len(S) + j
  BY <1>2, <1>5, <1>6
<1> HIDE DEF N
<1>8. \A i \in 1 .. Len(S) : N[i] = S[i]
  BY <1>2, <1>6
<1>9. j >= 1 => N[Len(S) + 1] = v[1]
  <2> HAVE j >= 1
  <2>1. Len(S) + 1 \in 1 .. Len(S) + Len(v) /\ ~(Len(S) + 1 <= Len(S)) /\ Len(S) + 1 - Len(S) = 1
    BY <1>2, <1>6
  <2> QED
    BY <1>6, <2>1
<1>10. j >= 2 => N[Len(S) + 2] = v[2]
  <2> HAVE j >= 2
  <2>1. Len(S) + 2 \in 1 .. Len(S) + Len(v) /\ ~(Len(S) + 2 <= Len(S)) /\ Len(S) + 2 - Len(S) = 2
    BY <1>2, <1>6
  <2> QED
    BY <1>6, <2>1
<1>11. N = S \o v
  BY DEF N
<1> QED
  BY <1>2, <1>3, <1>4, <1>6, <1>7, <1>8, <1>9, <1>10, <1>11 DEF v, S, N

LEMMA WholeFrameIs ==
  ASSUME WireOK, NEW c \in Links, NEW m \in Messages, Appended(c, m, 2)
  PROVE  LET S == Stream(link[c])
             N == Stream(link'[c])
         IN /\ Len(N) = Len(S) + 2 /\ DOMAIN N = 1 .. Len(S) + 2 /\ DOMAIN S = 1 .. Len(S) /\ Len(S) \in Nat
            /\ \A i \in 1 .. Len(S) : N[i] = S[i]
            /\ N[Len(S) + 1] = [part |-> "len", of |-> m] /\ N[Len(S) + 2] = [part |-> "text", of |-> m]
<1>1. PICK j \in 0 .. 2 : j = 2
  OBVIOUS
<1>2. Appended(c, m, j)
  BY <1>1
<1> DEFINE S == Stream(link[c])
           N == Stream(link'[c])
<1>3. /\ Len(N) = Len(S) + j /\ DOMAIN N = 1 .. Len(S) + j /\ DOMAIN S = 1 .. Len(S) /\ Len(S) \in Nat
      /\ \A i \in 1 .. Len(S) : N[i] = S[i]
      /\ j >= 1 => N[Len(S) + 1] = [part |-> "len", of |-> m]
      /\ j >= 2 => N[Len(S) + 2] = [part |-> "text", of |-> m]
  BY <1>2, AppendedIs
<1> HIDE DEF S, N
<1> QED
  BY <1>1, <1>3 DEF S, N

\* A message that is written for the first time is on no connection and has not arrived.
LEMMA DueIsNew ==
  ASSUME WireInv, NEW s, NEW m, Due(s, m)
  PROVE  /\ \A d \in Links : \A i \in DOMAIN Stream(link[d]) : Stream(link[d])[i].of # m
         /\ \A r \in Receivers : m \notin Range(Arrived(r))
<1>1. ~Written(m)
  BY DEF Due
<1>2. \A d \in Links : \A i \in DOMAIN Stream(link[d]) : Written(Stream(link[d])[i].of)
  BY DEF WireInv, LinkOK, Carries
<1>3. \A r \in Receivers : \A x \in Range(Arrived(r)) : Written(x)
  BY DEF WireInv, ArrivedOK
<1> QED
  BY <1>1, <1>2, <1>3

LEMMA AppendKeepsLinks ==
  ASSUME WireInv, Handing, NEW s, NEW m, Due(s, m), NEW c \in Links, NEW j \in 0 .. 2, Appended(c, m, j)
  PROVE  LinkOK'
<1> DEFINE S == Stream(link[c])
           N == Stream(link'[c])
<1>1. /\ Len(N) = Len(S) + j /\ DOMAIN N = 1 .. Len(S) + j /\ DOMAIN S = 1 .. Len(S) /\ Len(S) \in Nat
      /\ \A i \in 1 .. Len(S) : N[i] = S[i]
      /\ j >= 1 => N[Len(S) + 1] = [part |-> "len", of |-> m]
      /\ j >= 2 => N[Len(S) + 2] = [part |-> "text", of |-> m]
  <2>1. WireOK /\ m \in Messages
    BY DEF WireInv, Due
  <2> QED
    BY <2>1, AppendedIs
<1>2. /\ link' \in [Links -> Link] /\ \A d \in Links \ {c} : link'[d] = link[d]
      /\ link'[c].from = m.from /\ link'[c].to = m.to /\ link'[c].buffer = link[c].buffer
      /\ m \in Messages /\ m.from = s /\ Written(m)'
  BY DEF Appended, Due
<1> HIDE DEF N, S
<1>3. \A i \in DOMAIN N : \/ i \in DOMAIN S /\ N[i] = S[i]
                          \/ i = Len(S) + 1 /\ N[i] = [part |-> "len", of |-> m]
                          \/ i = Len(S) + 2 /\ N[i] = [part |-> "text", of |-> m]
  <2> SUFFICES ASSUME NEW i \in DOMAIN N, i \notin DOMAIN S
               PROVE  \/ i = Len(S) + 1 /\ N[i] = [part |-> "len", of |-> m]
                      \/ i = Len(S) + 2 /\ N[i] = [part |-> "text", of |-> m]
    BY <1>1
  <2>1. (i = Len(S) + 1 /\ j >= 1) \/ (i = Len(S) + 2 /\ j >= 2)
    BY <1>1
  <2> QED
    BY <1>1, <2>1
<1>4. \A i \in DOMAIN S : m.from = link[c].from /\ m.to = link[c].to
  <2>1. link[c] = NoLink => S = <<>> \o <<>>
    BY DEF NoLink, S, Stream
  <2>2. DOMAIN (<<>> \o <<>>) = {}
    OBVIOUS
  <2>3. link[c] = NoLink \/ (link[c].from = m.from /\ link[c].to = m.to)
    BY DEF Appended
  <2> QED
    BY <2>1, <2>2, <2>3
<1>5. \A d \in Links : link[d] \in Link /\ \A i \in DOMAIN Stream(link[d]) : Stream(link[d])[i].of \in Messages
  <2>1. \A d \in Links : link[d] \in Link
    BY DEF WireInv, WireOK
  <2> QED
    BY <2>1, StreamType
<1>6. \A d \in Links : \A i \in DOMAIN Stream(link[d]) : Carries(d, i) /\ Fresh(d, i)
  BY DEF WireInv, LinkOK
<1>7. \A x \in Messages : Written(x) => Written(x)'
  BY DEF Handing
<1>8. \A r \in Receivers : Arrived(r)' = Arrived(r)
  BY DEF Handing, serverSide, Arrived
<1>9. ASSUME NEW d \in Links PROVE Len(link'[d].buffer) <= 1 /\ (link'[d].to = Nobody => Stream(link'[d]) = <<>>)
  <2>1. Len(link[d].buffer) <= 1 /\ (link[d].to = Nobody => Stream(link[d]) = <<>>)
    BY DEF WireInv, LinkOK
  <2>2. m.to # Nobody
    BY <1>2, TransportAssumption DEF Messages
  <2> QED
    BY <1>2, <2>1, <2>2
<1>10. ASSUME NEW d \in Links, NEW i \in DOMAIN Stream(link'[d]) PROVE Carries(d, i)'
  <2>1. CASE d # c
    <3>1. link'[d] = link[d]
      BY <1>2, <2>1
    <3>2. Carries(d, i)
      BY <1>6, <3>1
    <3>3. Stream(link[d])[i].of \in Messages
      BY <1>5, <3>1
    <3> QED
      BY <1>7, <3>1, <3>2, <3>3 DEF Carries
  <2>2. CASE d = c
    <3>1. i \in DOMAIN N
      BY <2>2 DEF N
    <3>2. CASE i \in DOMAIN S /\ N[i] = S[i]
      <4>1. Carries(c, i) /\ S[i].of \in Messages
        BY <1>5, <1>6, <3>2 DEF S
      <4>2. PICK x \in Messages : x = S[i].of
        BY <4>1
      <4>3. Written(x) /\ x.to = link[c].to /\ x.from = link[c].from
        BY <4>1, <4>2 DEF Carries, S
      <4>4. Written(x)' /\ x.to = m.to /\ x.from = m.from
        BY <1>4, <1>7, <3>2, <4>3
      <4>5. Stream(link'[d])[i].of = x
        BY <2>2, <3>2, <4>2 DEF N
      <4> QED
        BY <1>2, <2>2, <4>4, <4>5 DEF Carries
    <3>3. CASE N[i].of = m
      BY <1>2, <2>2, <3>3 DEF Carries, N
    <3> QED
      BY <1>3, <3>1, <3>2, <3>3
  <2> QED
    BY <2>1, <2>2
\* Cells that were there before, wherever they are, are where they were.
<1>11. ASSUME NEW d \in Links, NEW i \in DOMAIN Stream(link'[d]), Stream(link'[d])[i].of # m
       PROVE  i \in DOMAIN Stream(link[d]) /\ Stream(link'[d])[i] = Stream(link[d])[i]
  <2>1. CASE d # c
    BY <1>2, <2>1
  <2>2. CASE d = c
    <3>1. i \in DOMAIN N /\ N[i].of # m
      BY <1>11, <2>2 DEF N
    <3>2. i \in DOMAIN S /\ N[i] = S[i]
      BY <1>3, <3>1
    <3> QED
      BY <2>2, <3>2 DEF S, N
  <2> QED
    BY <2>1, <2>2
<1>12. ASSUME NEW d \in Links, NEW i \in DOMAIN Stream(link'[d]), Stream(link'[d])[i].of = m,
              Stream(link'[d])[i].part = "len"
       PROVE  d = c /\ i = Len(S) + 1
  <2>1. \A e \in Links : \A h \in DOMAIN Stream(link[e]) : Stream(link[e])[h].of # m
    BY DueIsNew
  <2>2. d = c
    BY <1>2, <1>12, <2>1
  <2>3. i \in DOMAIN N /\ N[i].of = m /\ N[i].part = "len"
    BY <1>12, <2>2 DEF N
  <2>4. ~(i \in DOMAIN S /\ N[i] = S[i])
    BY <2>1, <2>3 DEF S
  <2> QED
    BY <1>3, <2>2, <2>3, <2>4
<1>13. ASSUME NEW d \in Links, NEW i \in DOMAIN Stream(link'[d]), Stream(link'[d])[i].part = "len"
       PROVE  Fresh(d, i)'
  <2> DEFINE x == Stream(link'[d])[i]
  <2>1. CASE x.of = m
    <3>1. \A r \in Receivers : x.of \notin Range(Arrived(r)')
      BY <1>8, <2>1, DueIsNew
    <3>2. ASSUME NEW e \in Links, NEW h \in DOMAIN Stream(link'[e]), Stream(link'[e])[h] = x PROVE e = d /\ h = i
      BY <1>12, <1>13, <2>1, <3>2
    <3> QED
      BY <3>1, <3>2 DEF Fresh, OnlyOne
  <2>2. CASE x.of # m
    <3>1. i \in DOMAIN Stream(link[d]) /\ x = Stream(link[d])[i] /\ Stream(link[d])[i].part = "len"
      BY <1>11, <1>13, <2>2
    <3>2. /\ \A r \in Receivers : link[d].to = r => x.of \notin Range(Arrived(r))
          /\ \A e \in Links : \A h \in DOMAIN Stream(link[e]) : Stream(link[e])[h] = x => e = d /\ h = i
      BY <1>6, <3>1 DEF Fresh, OnlyOne
    <3>3. \A r \in Receivers : link'[d].to = r => x.of \notin Range(Arrived(r)')
      <4>1. CASE d = c
        <5>1. link'[c].to = link[c].to
          BY <1>2, <1>4, <3>1, <4>1 DEF S
        <5> QED
          BY <1>8, <3>2, <4>1, <5>1
      <4>2. CASE d # c
        BY <1>2, <1>8, <3>2, <4>2
      <4> QED
        BY <4>1, <4>2
    <3>4. ASSUME NEW e \in Links, NEW h \in DOMAIN Stream(link'[e]), Stream(link'[e])[h] = x PROVE e = d /\ h = i
      BY <1>11, <2>2, <3>2, <3>4
    <3> QED
      BY <3>3, <3>4 DEF Fresh, OnlyOne
  <2> QED
    BY <2>1, <2>2
<1>14. \A d \in Links : \A i \in DOMAIN Stream(link'[d]) : Carries(d, i)' /\ Fresh(d, i)'
  BY <1>10, <1>13 DEF Fresh
<1> QED
  BY <1>9, <1>14 DEF LinkOK

LEMMA SameLinksKept ==
  ASSUME WireInv, Handing, link' = link
  PROVE  LinkOK'
<1>1. \A r \in Receivers : Arrived(r)' = Arrived(r)
  BY DEF Handing, serverSide, Arrived
<1>2. \A d \in Links : \A i \in DOMAIN Stream(link[d]) : Stream(link[d])[i].of \in Messages
  <2>1. \A d \in Links : link[d] \in Link
    BY DEF WireInv, WireOK
  <2> QED
    BY <2>1, StreamType
<1>3. ASSUME NEW d \in Links
      PROVE  /\ Len(link[d].buffer) <= 1
             /\ link[d].to = Nobody => Stream(link[d]) = <<>>
             /\ \A i \in DOMAIN Stream(link[d]) : Carries(d, i) /\ Fresh(d, i)
  BY DEF WireInv, LinkOK
<1>4. ASSUME NEW d \in Links, NEW i \in DOMAIN Stream(link[d]) PROVE Carries(d, i)'
  <2>1. PICK x \in Messages : x = Stream(link[d])[i].of
    BY <1>2
  <2>2. Written(x) /\ x.to = link[d].to /\ x.from = link[d].from
    BY <1>3, <2>1 DEF Carries
  <2>3. Written(x)'
    BY <2>2 DEF Handing
  <2>4. Stream(link'[d])[i].of = x
    BY <2>1
  <2> QED
    BY <2>2, <2>3, <2>4 DEF Carries
<1>5. ASSUME NEW d \in Links, NEW i \in DOMAIN Stream(link[d]) PROVE Fresh(d, i)'
  <2>1. Fresh(d, i)
    BY <1>3
  <2> QED
    BY <1>1, <2>1 DEF Fresh, OnlyOne
<1> QED
  BY <1>3, <1>4, <1>5 DEF LinkOK

LEMMA HandingKeepsArrived ==
  ASSUME WireInv, Handing
  PROVE  ArrivedOK' /\ \A r \in Receivers : Arrived(r)' = Arrived(r)
<1>1. inbox' = inbox /\ \A r \in Receivers : Arrived(r)' = Arrived(r)
  BY DEF Handing, serverSide, Arrived
<1>2. ASSUME NEW r \in Receivers, NEW m \in Range(Arrived(r)) PROVE Written(m)'
  <2>1. Written(m)
    BY DEF WireInv, ArrivedOK
  <2>2. m \in Messages
    <3>1. handed[r] \in Seq(Messages) /\ inbox[r] \in Seq(Messages)
      BY DEF WireInv, WireOK
    <3>2. Arrived(r) \in Seq(Messages)
      BY <3>1 DEF Arrived
    <3> QED
      BY <3>2 DEF Range
  <2> QED
    BY <2>1, <2>2 DEF Handing
<1>3. \A r \in Receivers : /\ IsInjective(Arrived(r))
                           /\ \A m \in Range(Arrived(r)) : m.to = r /\ m.readable
                           /\ r \notin HostReceivers => inbox[r] = <<>>
  BY DEF WireInv, ArrivedOK
<1>4. ArrivedOK'
  BY <1>1, <1>2, <1>3 DEF ArrivedOK
<1> QED
  BY <1>1, <1>4

\* A message is put into the channel to the background thread.
LEMMA HandingKeepsWire ==
  ASSUME WireInv, Handing, UNCHANGED <<conn, link, hurt>>
  PROVE  WireInv'
<1>1. LinkOK'
  BY SameLinksKept
<1>2. ArrivedOK'
  BY HandingKeepsArrived
<1>3. WireOK'
  BY DEF Handing, serverSide, WireInv, WireOK
<1>4. ConnOK'
  BY DEF WireInv, ConnOK
<1>5. OutboxOK' /\ QueueOK'
  BY DEF Handing
<1> QED
  BY <1>1, <1>2, <1>3, <1>4, <1>5 DEF WireInv

LEMMA SendsKeepsWire ==
  ASSUME WireInv, Handing, NEW s \in Senders, NEW m, Due(s, m), Sends(s, m)
  PROVE  WireInv'
<1>1. /\ m \in Messages /\ m.to \in Receivers /\ m.from = s
      /\ script' = script /\ up' = up /\ inbox' = inbox /\ handed' = handed
  BY DEF Due, Messages, Handing, serverSide
<1>2. ArrivedOK' /\ OutboxOK' /\ QueueOK'
  BY HandingKeepsArrived DEF Handing
<1>3. ASSUME NEW x \in Links \cup {Nobody}, ConnSet(s, m.to, x),
             NEW c \in Links, NEW j \in 0 .. 2, Appended(c, m, j), x \in {c, Nobody},
             hurt' \in {hurt, hurt \cup {m.to}}
      PROVE  WireInv'
  <2>1. LinkOK'
    BY <1>3, AppendKeepsLinks
  <2>2. WireOK'
    BY <1>1, <1>3 DEF Handing, Appended, ConnSet, WireInv, WireOK
  <2>3. ConnOK'
    <3> SUFFICES ASSUME NEW t \in Senders, NEW q \in Receivers, conn'[t][q] # Nobody
                 PROVE  link'[conn'[t][q]].from = t /\ link'[conn'[t][q]].to \in {q, Nobody}
      BY DEF ConnOK
    <3>1. CASE t = s /\ q = m.to
      <4>1. conn'[t][q] = c
        BY <1>3, <3>1 DEF ConnSet
      <4> QED
        BY <1>1, <1>3, <3>1, <4>1 DEF Appended
    <3>2. CASE t # s \/ q # m.to
      <4>1. conn'[t][q] = conn[t][q]
        BY <1>3, <3>2 DEF ConnSet
      <4> DEFINE e == conn[t][q]
      <4>2. e \in Links /\ link[e].from = t /\ link[e].to \in {q, Nobody}
        BY <4>1 DEF WireInv, WireOK, ConnOK
      <4> HIDE DEF e
      <4>3. CASE e # c
        <5>1. link'[e] = link[e]
          BY <1>3, <4>2, <4>3 DEF Appended
        <5> QED
          BY <4>1, <4>2, <5>1 DEF e
      <4>4. CASE e = c
        <5>1. t # Nobody
          BY TransportAssumption
        <5>2. link[c] # NoLink
          BY <4>2, <4>4, <5>1 DEF NoLink
        <5>3. link'[c].from = link[c].from /\ link'[c].to = link[c].to
          BY <1>3, <5>2 DEF Appended
        <5> QED
          BY <4>1, <4>2, <4>4, <5>3 DEF e
      <4> QED
        BY <4>3, <4>4
    <3> QED
      BY <3>1, <3>2
  <2> QED
    BY <1>2, <2>1, <2>2, <2>3 DEF WireInv
<1>4. ASSUME link' = link, hurt' = hurt, ConnSet(s, m.to, Nobody) \/ conn' = conn PROVE WireInv'
  <2>1. LinkOK'
    BY <1>4, SameLinksKept
  <2>2. /\ conn' \in [Senders -> [Receivers -> Links \cup {Nobody}]]
        /\ \A t \in Senders, q \in Receivers : conn'[t][q] = conn[t][q] \/ conn'[t][q] = Nobody
    BY <1>4 DEF ConnSet, WireInv, WireOK
  <2>3. WireOK'
    BY <1>1, <1>4, <2>2 DEF Handing, WireInv, WireOK
  <2>4. ConnOK'
    <3> SUFFICES ASSUME NEW t \in Senders, NEW q \in Receivers, conn'[t][q] # Nobody
                 PROVE  link'[conn'[t][q]].from = t /\ link'[conn'[t][q]].to \in {q, Nobody}
      BY DEF ConnOK
    <3>1. conn'[t][q] = conn[t][q]
      BY <2>2
    <3> QED
      BY <1>4, <3>1 DEF WireInv, ConnOK
  <2> QED
    BY <1>2, <2>1, <2>3, <2>4 DEF WireInv
<1>5. CASE \E c \in Links :
             /\ Appended(c, m, 2) /\ ~link'[c].cut
             /\ (link[c] = NoLink /\ conn[s][m.to] = Nobody) \/ (conn[s][m.to] = c /\ link[c].to = m.to)
             /\ ConnSet(s, m.to, c) /\ hurt' = hurt
  <2>1. PICK c \in Links : Appended(c, m, 2) /\ ConnSet(s, m.to, c) /\ hurt' = hurt
    BY <1>5
  <2>2. c \in Links \cup {Nobody} /\ 2 \in 0 .. 2 /\ c \in {c, Nobody} /\ hurt' \in {hurt, hurt \cup {m.to}}
    BY <2>1
  <2> QED
    BY <1>3, <2>1, <2>2
<1>6. CASE \E c \in Links, j \in 0 .. 1 :
             Appended(c, m, j) /\ ConnSet(s, m.to, Nobody) /\ hurt' = hurt \cup {m.to}
  <2>1. PICK c \in Links, j \in 0 .. 1 : Appended(c, m, j) /\ ConnSet(s, m.to, Nobody) /\ hurt' = hurt \cup {m.to}
    BY <1>6
  <2>2. Nobody \in Links \cup {Nobody} /\ j \in 0 .. 2 /\ Nobody \in {c, Nobody} /\ hurt' \in {hurt, hurt \cup {m.to}}
    BY <2>1
  <2> QED
    BY <1>3, <2>1, <2>2
<1>7. CASE /\ link' = link /\ hurt' = hurt
           /\ m.to \notin up \/ (conn[s][m.to] # Nobody /\ ~Usable(conn[s][m.to]))
           /\ ConnSet(s, m.to, Nobody) \/ conn' = conn
  BY <1>4, <1>7
<1> QED
  BY <1>5, <1>6, <1>7 DEF Sends

\* What Write, WriteFails, WriteLost and the failed connect make of a message.
LEMMA ConnSetIs ==
  ASSUME WireOK, NEW s \in Senders, NEW r \in Receivers, NEW x \in Links \cup {Nobody},
         conn' = [conn EXCEPT ![s][r] = x]
  PROVE  ConnSet(s, r, x)
<1>1. conn \in [Senders -> [Receivers -> Links \cup {Nobody}]]
  BY DEF WireOK
<1>2. PICK f \in [Receivers -> Links \cup {Nobody}] : f = [conn[s] EXCEPT ![r] = x]
  BY <1>1
<1>3. f[r] = x /\ \A q \in Receivers : q # r => f[q] = conn[s][q]
  BY <1>1, <1>2
<1>4. conn' = [conn EXCEPT ![s] = f]
  BY <1>1, <1>2
<1>5. conn' \in [Senders -> [Receivers -> Links \cup {Nobody}]] /\ conn'[s] = f
      /\ \A t \in Senders : t # s => conn'[t] = conn[t]
  BY <1>1, <1>4
<1> QED
  BY <1>3, <1>5 DEF ConnSet

LEMMA WriteIs ==
  ASSUME WireInv, NEW s \in Senders, NEW m \in Messages, m.from = s, Write(s, m.to, m)
  PROVE  Sends(s, m)
<1> DEFINE r == m.to
<1>1. r \in Receivers /\ WireOK /\ link \in [Links -> Link]
  BY DEF Messages, WireInv, WireOK
<1>2. CASE /\ conn[s][r] = Nobody /\ r \in up /\ CanConnect
           /\ link' = [link EXCEPT ![NextLink] = [NoLink EXCEPT !.from = s, !.to = r, !.wire = Cells(m)]]
           /\ conn' = [conn EXCEPT ![s][r] = NextLink]
           /\ UNCHANGED <<failures, hurt>>
  <2> DEFINE free == {c \in Links : link[c] = NoLink}
             new  == [NoLink EXCEPT !.from = s, !.to = r, !.wire = Cells(m)]
             c    == NextLink
  <2>1. free # {} /\ free \subseteq Nat /\ free \subseteq Links
    BY <1>2, TransportAssumption DEF CanConnect, Links
  <2>2. \E e \in free : \A d \in free : e <= d
    BY <2>1, LeastOf
  <2>3. PICK e \in Links : link[e] = NoLink /\ \A d \in Links : d < e => link[d] # NoLink
    <3>1. PICK e \in free : \A d \in free : e <= d
      BY <2>2
    <3>2. e \in Links /\ link[e] = NoLink /\ e \in Nat
      BY <2>1, <3>1
    <3>3. \A d \in Links : d < e => link[d] # NoLink
      <4> SUFFICES ASSUME NEW d \in Links, d < e, link[d] = NoLink PROVE FALSE
        OBVIOUS
      <4>1. d \in free
        OBVIOUS
      <4>2. e <= d /\ d \in Nat
        BY <2>1, <3>1, <4>1
      <4> QED
        BY <3>2, <4>2
    <3> QED
      BY <3>2, <3>3
  <2>4. c \in Links /\ link[c] = NoLink
    BY <2>3 DEF NextLink
  <2> HIDE DEF c
  <2>5. link' = [link EXCEPT ![c] = new] /\ conn' = [conn EXCEPT ![s][r] = c]
    BY <1>2 DEF c
  <2>6. /\ new \in Link /\ new.from = s /\ new.to = r /\ new.cut = FALSE /\ new.wire = Cells(m)
        /\ new.buffer = <<>>
    <3>1. Cells(m) \in Seq(Cell)
      BY CellsWhole
    <3> DEFINE l == NoLink
    <3>2. l \in Link /\ l.cut = FALSE /\ l.buffer = <<>>
      <4>1. <<>> \in Seq(Cell)
        OBVIOUS
      <4> QED
        BY <4>1 DEF NoLink, Link
    <3>3. new = [l EXCEPT !.from = s, !.to = r, !.wire = Cells(m)]
      BY DEF new
    <3> HIDE DEF l, new
    <3> QED
      BY <1>1, <3>1, <3>2, <3>3 DEF Link
  <2> HIDE DEF new
  <2>7. link' \in [Links -> Link] /\ link'[c] = new /\ \A d \in Links \ {c} : link'[d] = link[d]
    BY <1>1, <2>4, <2>5, <2>6
  <2>8. Appended(c, m, 2)
    <3>1. <<>> \o Cells(m) = Cells(m) /\ SubSeq(Cells(m), 1, 2) = Cells(m)
      BY CellsWhole
    <3>2. link[c].wire = <<>> /\ link[c].buffer = <<>>
      BY <2>4 DEF NoLink
    <3>3. link'[c].wire = link[c].wire \o SubSeq(Cells(m), 1, 2)
      BY <2>6, <2>7, <3>1, <3>2
    <3> QED
      BY <2>4, <2>6, <2>7, <3>2, <3>3 DEF Appended
  <2>9. ConnSet(s, r, c)
    BY <1>1, <2>4, <2>5, ConnSetIs
  <2> QED
    BY <1>2, <2>4, <2>6, <2>7, <2>8, <2>9 DEF Sends
<1>3. CASE /\ conn[s][r] # Nobody
           /\ Usable(conn[s][r])
           /\ link' = [link EXCEPT ![conn[s][r]].wire = @ \o Cells(m)]
           /\ UNCHANGED <<conn, failures, hurt>>
  <2> DEFINE c   == conn[s][r]
             w   == link[c].wire \o Cells(m)
             new == [link[c] EXCEPT !.wire = w]
  <2>1. c \in Links /\ link[c].from = s /\ link[c].to = r /\ ~link[c].cut /\ link[c] \in Link
    BY <1>1, <1>3 DEF WireInv, WireOK, ConnOK, Usable
  <2>2. link' = [link EXCEPT ![c] = new]
    BY <1>1, <1>3
  <2>3. w \in Seq(Cell)
    <3>1. Cells(m) \in Seq(Cell) /\ link[c].wire \in Seq(Cell)
      BY <2>1, CellsWhole, StreamType
    <3> QED
      BY <3>1
  <2> HIDE DEF c, w
  <2>4. /\ new \in Link /\ new.from = s /\ new.to = r /\ new.cut = FALSE /\ new.wire = w
        /\ new.buffer = link[c].buffer
    BY <2>1, <2>3 DEF Link
  <2> HIDE DEF new
  <2>5. link' \in [Links -> Link] /\ link'[c] = new /\ \A d \in Links \ {c} : link'[d] = link[d]
    BY <1>1, <2>1, <2>2, <2>4
  <2>6. Appended(c, m, 2)
    <3>1. SubSeq(Cells(m), 1, 2) = Cells(m)
      BY CellsWhole
    <3>2. link'[c].wire = link[c].wire \o SubSeq(Cells(m), 1, 2)
      BY <2>4, <2>5, <3>1 DEF w
    <3> QED
      BY <2>1, <2>4, <2>5, <3>2 DEF Appended
  <2>7. ConnSet(s, r, c)
    BY <1>1, <1>3 DEF WireOK, ConnSet, c
  <2> QED
    BY <1>3, <2>1, <2>4, <2>5, <2>6, <2>7 DEF Sends, c
<1> QED
  BY <1>2, <1>3 DEF Write

LEMMA WriteFailsIs ==
  ASSUME WireInv, NEW s \in Senders, NEW m \in Messages, m.from = s, WriteFails(s, m.to, m)
  PROVE  Sends(s, m)
<1> DEFINE r == m.to
           c == conn[s][r]
<1>1. r \in Receivers /\ WireOK /\ link \in [Links -> Link]
  BY DEF Messages, WireInv, WireOK
<1>2. c # Nobody /\ conn' = [conn EXCEPT ![s][r] = Nobody]
  BY DEF WriteFails
<1>3. c \in Links /\ link[c].from = s /\ link[c].to \in {r, Nobody} /\ link[c] \in Link
  BY <1>1, <1>2 DEF WireInv, WireOK, ConnOK
<1>4. ConnSet(s, r, Nobody)
  BY <1>1, <1>2, ConnSetIs
<1>5. CASE Usable(c)
  <2>1. PICK n \in 0 .. 1 : link' = [link EXCEPT ![c].cut = TRUE, ![c].wire = @ \o SubSeq(Cells(m), 1, n)]
    BY <1>5 DEF WriteFails
  <2>2. hurt' = hurt \cup {r}
    BY <1>5 DEF WriteFails
  <2> DEFINE w   == link[c].wire \o SubSeq(Cells(m), 1, n)
             new == [link[c] EXCEPT !.cut = TRUE, !.wire = w]
  <2>3. link' = [link EXCEPT ![c] = new]
    BY <1>1, <1>3, <2>1
  <2>4. w \in Seq(Cell)
    <3>1. n \in 0 .. 2
      OBVIOUS
    <3>2. SubSeq(Cells(m), 1, n) \in Seq(Cell)
      BY <3>1, CellsAre
    <3>3. link[c].wire \in Seq(Cell)
      BY <1>3, StreamType
    <3> QED
      BY <3>2, <3>3
  <2>5. link[c].to = r
    BY <1>3, <1>5 DEF Usable
  <2> HIDE DEF c, w
  <2>6. /\ new \in Link /\ new.from = s /\ new.to = r /\ new.wire = w /\ new.buffer = link[c].buffer
    BY <1>3, <2>4, <2>5 DEF Link
  <2> HIDE DEF new
  <2>7. link' \in [Links -> Link] /\ link'[c] = new /\ \A d \in Links \ {c} : link'[d] = link[d]
    BY <1>1, <1>3, <2>3, <2>6
  <2>8. Appended(c, m, n)
    BY <1>3, <2>5, <2>6, <2>7 DEF Appended, w
  <2> QED
    BY <1>3, <1>4, <2>2, <2>8 DEF Sends
<1>6. CASE ~Usable(c)
  <2>1. link' = link /\ hurt' = hurt
    BY <1>6 DEF WriteFails
  <2> QED
    BY <1>2, <1>4, <1>6, <2>1 DEF Sends
<1> QED
  BY <1>5, <1>6

LEMMA NotWrittenIs ==
  ASSUME NEW s, NEW m, WriteLost(s, m.to) \/ (CannotConnect(s, m.to) /\ UNCHANGED <<conn, link, failures, hurt>>)
  PROVE  Sends(s, m)
<1>1. /\ link' = link /\ hurt' = hurt /\ conn' = conn
      /\ m.to \notin up \/ (conn[s][m.to] # Nobody /\ ~Usable(conn[s][m.to]))
  BY DEF WriteLost, CannotConnect
<1> QED
  BY <1>1 DEF Sends

\* A sender that is not dead still has, or has written, all that it had: only m may be
\* new on its way.
Kept(m) == \A t \in Senders : alive'[t] =>
  /\ alive[t]
  /\ \A k \in 1 .. Count(t)' : \/ script[t][k] = m
                              \/ script[t][k] \in Range(queue'[t])
                              \/ (k \in 1 .. Count(t) /\ script[t][k] \notin Range(queue[t]))

\* The first message of the outbox is handed to the network client.
LEMMA OutboxTail ==
  ASSUME WireInv, NEW s \in Senders, outbox[s] # <<>>, NEW m, m = Head(outbox[s]),
         outbox' = [outbox EXCEPT ![s] = Tail(@)], script' = script
  PROVE  /\ outbox' \in [Senders -> Seq(Messages)] /\ OutboxOK'
         /\ Count(s) \in Nat /\ Count(s)' = Count(s) + 1
         /\ \A t \in Senders : t # s => Count(t)' = Count(t)
         /\ m \in Messages /\ m.from = s /\ m.n = Count(s) + 1 /\ m = script[s][Count(s) + 1]
         /\ \A x \in Messages : Left(x) => Left(x)'
         /\ Left(m)' /\ ~Left(m)
<1> DEFINE q == outbox[s]
           a == Len(script[s])
           b == Len(q)
<1>1. /\ outbox \in [Senders -> Seq(Messages)] /\ q \in Seq(Messages) /\ script[s] \in Seq(Messages) /\ script \in Scripts
  BY DEF WireInv, WireOK, Scripts
<1>2. /\ a \in Nat /\ b \in Nat /\ b <= a /\ DOMAIN q = 1 .. b /\ DOMAIN script[s] = 1 .. a
      /\ \A i \in 1 .. b : q[i] = script[s][Count(s) + i]
      /\ Count(s) = a - b
  BY <1>1 DEF WireInv, OutboxOK, Count
<1>3. m = q[1] /\ Tail(q) \in Seq(Messages) /\ Len(Tail(q)) = b - 1 /\ \A i \in 1 .. b - 1 : Tail(q)[i] = q[i + 1]
  BY <1>1, HeadTailProperties
<1>4. b >= 1 /\ 1 \in 1 .. b
  BY <1>1, <1>2
<1>5. /\ outbox' \in [Senders -> Seq(Messages)] /\ outbox'[s] = Tail(q)
      /\ \A t \in Senders : t # s => outbox'[t] = outbox[t]
  BY <1>1, <1>3
<1> HIDE DEF q, a, b
<1>6. Count(s)' = Count(s) + 1 /\ Count(s) \in Nat /\ Count(s) + 1 \in 1 .. a
  <2>1. Count(s)' = a - (b - 1)
    BY <1>3, <1>5 DEF Count, a
  <2> QED
    BY <1>2, <1>4, <2>1
<1>7. \A t \in Senders : t # s => Count(t)' = Count(t)
  BY <1>5 DEF Count
<1>8. m = script[s][Count(s) + 1] /\ m \in Messages
  BY <1>1, <1>2, <1>3, <1>4, <1>6
<1>9. m.from = s /\ m.n = Count(s) + 1
  BY <1>1, <1>2, <1>6, <1>8 DEF Scripts
<1>10. OutboxOK'
  <2> SUFFICES ASSUME NEW t \in Senders
               PROVE  /\ Len(outbox'[t]) <= Len(script[t])
                      /\ \A i \in DOMAIN outbox'[t] : outbox'[t][i] = script[t][Count(t)' + i]
    BY DEF OutboxOK
  <2>1. CASE t # s
    BY <1>5, <1>7, <2>1 DEF WireInv, OutboxOK
  <2>2. CASE t = s
    <3>1. Len(outbox'[s]) <= Len(script[s])
      BY <1>2, <1>3, <1>5 DEF a
    <3>2. ASSUME NEW i \in 1 .. b - 1 PROVE Tail(q)[i] = script[s][(Count(s) + 1) + i]
      <4>1. i + 1 \in 1 .. b /\ Count(s) + (i + 1) = (Count(s) + 1) + i
        BY <1>2, <1>6
      <4> QED
        BY <1>2, <1>3, <4>1
    <3>3. DOMAIN outbox'[s] = 1 .. b - 1
      BY <1>3, <1>5
    <3> QED
      BY <1>5, <1>6, <2>2, <3>1, <3>2, <3>3
  <2> QED
    BY <2>1, <2>2
<1>11. ASSUME NEW x \in Messages, Left(x) PROVE Left(x)'
  <2>1. x.from \in Senders /\ x.n \in 1 .. Count(x.from) /\ script[x.from][x.n] = x
    BY <1>11 DEF Left, Messages
  <2>2. x.n \in 1 .. Count(x.from)'
    BY <1>6, <1>7, <2>1
  <2> QED
    BY <2>1, <2>2 DEF Left
<1>12. Left(m)'
  <2>1. m.n \in 1 .. Count(m.from)' /\ script[m.from][m.n] = m
    BY <1>6, <1>8, <1>9
  <2> QED
    BY <2>1 DEF Left
<1>13. ~Left(m)
  BY <1>6, <1>9 DEF Left
<1> QED
  BY <1>5, <1>6, <1>7, <1>8, <1>9, <1>10, <1>11, <1>12, <1>13

\* What a queue has to be after a step.
QueueLeft(t) ==
  /\ \A i \in DOMAIN queue'[t] : queue'[t][i].from = t /\ \E x : x = queue'[t][i] /\ Left(x)'
  /\ \A i, j \in DOMAIN queue'[t] : i < j => queue'[t][i].n < queue'[t][j].n
  /\ t \notin HostSenders => alive'[t] /\ queue'[t] = <<>>
  /\ ~alive'[t] => queue'[t] = <<>>

LEMMA QueueShown ==
  ASSUME \A t \in Senders : QueueLeft(t)
  PROVE  QueueOK'
<1> SUFFICES ASSUME NEW t \in Senders
             PROVE  /\ \A i \in DOMAIN queue'[t] : Left(queue[t][i])' /\ queue'[t][i].from = t
                    /\ \A i, j \in DOMAIN queue'[t] : i < j => queue'[t][i].n < queue'[t][j].n
                    /\ t \notin HostSenders => alive'[t] /\ queue'[t] = <<>>
                    /\ ~alive'[t] => queue'[t] = <<>>
  BY DEF QueueOK
<1>1. ASSUME NEW i \in DOMAIN queue'[t] PROVE Left(queue[t][i])'
  <2>1. PICK x : x = queue'[t][i] /\ Left(x)'
    BY DEF QueueLeft
  <2> QED
    BY <2>1 DEF Left
<1> QED
  BY <1>1 DEF QueueLeft

\* The guest writes in the caller's thread.
LEMMA GuestSendIs ==
  ASSUME WireInv, NEW s \in Senders, GuestSend(s)
  PROVE  \E m : Handing /\ Due(s, m) /\ Sends(s, m) /\ Kept(m) /\ alive'[s]
<1>1. PICK m : m = Head(outbox[s])
  OBVIOUS
<1>2. /\ s \notin HostSenders /\ outbox[s] # <<>> /\ outbox' = [outbox EXCEPT ![s] = Tail(@)]
      /\ script' = script /\ queue' = queue /\ alive' = alive /\ UNCHANGED serverSide
  BY DEF GuestSend
<1>3. /\ outbox' \in [Senders -> Seq(Messages)] /\ OutboxOK'
      /\ Count(s) \in Nat /\ Count(s)' = Count(s) + 1
      /\ \A t \in Senders : t # s => Count(t)' = Count(t)
      /\ m \in Messages /\ m.from = s /\ m.n = Count(s) + 1 /\ m = script[s][Count(s) + 1]
      /\ \A x \in Messages : Left(x) => Left(x)'
      /\ Left(m)' /\ ~Left(m)
  BY <1>1, <1>2, OutboxTail
<1>4. QueueOK /\ queue[s] = <<>> /\ alive[s] /\ queue \in [Senders -> Seq(Messages)] /\ alive \in [Senders -> BOOLEAN]
  BY <1>2 DEF WireInv, WireOK, QueueOK
<1>5. \A t \in Senders : \A i \in DOMAIN queue[t] : queue[t][i] \in Messages
  BY <1>4
<1>6. QueueOK'
  <2> SUFFICES ASSUME NEW t \in Senders PROVE QueueLeft(t)
    BY QueueShown
  <2>1. ASSUME NEW i \in DOMAIN queue[t] PROVE \E x : x = queue[t][i] /\ Left(x)'
    <3>1. PICK x \in Messages : x = queue[t][i]
      BY <1>5
    <3>2. Left(x)
      BY <1>4, <3>1 DEF QueueOK
    <3> QED
      BY <1>3, <3>1, <3>2
  <2>2. /\ \A i \in DOMAIN queue[t] : queue[t][i].from = t
        /\ \A i, j \in DOMAIN queue[t] : i < j => queue[t][i].n < queue[t][j].n
        /\ t \notin HostSenders => alive[t] /\ queue[t] = <<>>
        /\ ~alive[t] => queue[t] = <<>>
    BY <1>4 DEF QueueOK
  <2> QED
    BY <1>2, <2>1, <2>2 DEF QueueLeft
<1>7. \A x \in Messages : Written(x) => Written(x)'
  BY <1>2, <1>3 DEF Written
<1>8. Due(s, m)
  <2>1. DOMAIN <<>> = {}
    OBVIOUS
  <2>2. Written(m)'
    BY <1>2, <1>3, <1>4, <2>1 DEF Written
  <2> QED
    BY <1>3, <2>2 DEF Due, Written
<1>9. Handing
  BY <1>2, <1>3, <1>4, <1>6, <1>7 DEF Handing
<1>10. Sends(s, m)
  <2>1. \/ Write(s, m.to, m)
        \/ WriteFails(s, m.to, m)
        \/ WriteLost(s, m.to)
        \/ CannotConnect(s, m.to) /\ UNCHANGED <<conn, link, failures, hurt>>
    BY <1>1 DEF GuestSend
  <2> QED
    BY <1>3, <2>1, WriteIs, WriteFailsIs, NotWrittenIs
<1>11. Kept(m)
  <2> SUFFICES ASSUME NEW t \in Senders, alive[t], NEW k \in 1 .. Count(t)'
               PROVE  script[t][k] = m \/ k \in 1 .. Count(t)
    BY <1>2 DEF Kept
  <2>1. CASE t = s
    <3>1. k \in 1 .. Count(s) \/ k = Count(s) + 1
      BY <1>3, <2>1
    <3> QED
      BY <1>3, <2>1, <3>1
  <2>2. CASE t # s
    BY <1>3, <2>2
  <2> QED
    BY <2>1, <2>2
<1> QED
  BY <1>2, <1>4, <1>8, <1>9, <1>10, <1>11

\* The host puts the message into the channel, or the error is ignored.
LEMMA HostEnqueueIs ==
  ASSUME WireInv, NEW s \in Senders, HostEnqueue(s)
  PROVE  Handing /\ Kept(Garbled) /\ UNCHANGED <<conn, link, hurt>>
<1>1. PICK m : m = Head(outbox[s])
  OBVIOUS
<1>2. /\ s \in HostSenders /\ outbox[s] # <<>> /\ outbox' = [outbox EXCEPT ![s] = Tail(@)]
      /\ queue' = IF alive[s] THEN [queue EXCEPT ![s] = Append(@, m)] ELSE queue
      /\ script' = script /\ alive' = alive /\ UNCHANGED serverSide /\ UNCHANGED <<conn, link, hurt>>
  BY <1>1 DEF HostEnqueue
<1>3. /\ outbox' \in [Senders -> Seq(Messages)] /\ OutboxOK'
      /\ Count(s) \in Nat /\ Count(s)' = Count(s) + 1
      /\ \A t \in Senders : t # s => Count(t)' = Count(t)
      /\ m \in Messages /\ m.from = s /\ m.n = Count(s) + 1 /\ m = script[s][Count(s) + 1]
      /\ \A x \in Messages : Left(x) => Left(x)'
      /\ Left(m)' /\ ~Left(m)
  BY <1>1, <1>2, OutboxTail
<1>4. QueueOK /\ queue \in [Senders -> Seq(Messages)] /\ alive \in [Senders -> BOOLEAN]
  BY DEF WireInv, WireOK
<1> DEFINE q == queue[s]
           n == Len(q)
<1>5. q \in Seq(Messages) /\ n \in Nat /\ DOMAIN q = 1 .. n
  BY <1>4
<1>6. PICK p : p = Append(q, m)
  OBVIOUS
<1>7. /\ p \in Seq(Messages) /\ Len(p) = n + 1 /\ DOMAIN p = 1 .. n + 1 /\ p[n + 1] = m
      /\ \A i \in 1 .. n : p[i] = q[i]
  BY <1>3, <1>5, <1>6
<1>8. /\ queue' \in [Senders -> Seq(Messages)]
      /\ \A t \in Senders : t # s => queue'[t] = queue[t]
      /\ queue'[s] = IF alive[s] THEN p ELSE q
  <2>1. queue' = IF alive[s] THEN [queue EXCEPT ![s] = p] ELSE queue
    BY <1>2, <1>6
  <2> QED
    BY <1>4, <1>7, <2>1
<1>9. \A t \in Senders : \A i \in DOMAIN queue[t] :
        queue[t][i] \in Messages /\ Left(queue[t][i]) /\ queue[t][i].from = t
  BY <1>4 DEF QueueOK
<1>10. ASSUME NEW i \in 1 .. n PROVE q[i].n \in Int /\ q[i].n < m.n
  <2>1. Left(q[i]) /\ q[i].from = s
    BY <1>5, <1>9
  <2>2. q[i].n \in 1 .. Count(s)
    BY <2>1 DEF Left
  <2> QED
    BY <1>3, <2>2
<1>11. \A i, j \in 1 .. n : i < j => q[i].n < q[j].n
  BY <1>4, <1>5 DEF QueueOK
<1> HIDE DEF q, n
<1>12. ASSUME NEW i \in DOMAIN p PROVE (i \in 1 .. n /\ p[i] = q[i]) \/ (i = n + 1 /\ p[i] = m)
  BY <1>5, <1>7
<1>13. \A t \in Senders : \A i \in DOMAIN queue[t] : queue[t][i].from = t /\ \E x : x = queue[t][i] /\ Left(x)'
  <2> TAKE t \in Senders
  <2> TAKE i \in DOMAIN queue[t]
  <2>1. PICK x \in Messages : x = queue[t][i] /\ Left(x) /\ x.from = t
    BY <1>9
  <2>2. Left(x)'
    BY <1>3, <2>1
  <2> QED
    BY <2>1, <2>2
<1>14. QueueOK'
  <2> SUFFICES ASSUME NEW t \in Senders PROVE QueueLeft(t)
    BY QueueShown
  <2>1. CASE queue'[t] = queue[t]
    <3>1. /\ \A i, j \in DOMAIN queue[t] : i < j => queue[t][i].n < queue[t][j].n
          /\ t \notin HostSenders => alive[t] /\ queue[t] = <<>>
          /\ ~alive[t] => queue[t] = <<>>
      BY <1>4 DEF QueueOK
    <3>2. alive' = alive
      BY <1>2
    <3>3. \A i \in DOMAIN queue'[t] : queue'[t][i].from = t /\ \E x : x = queue'[t][i] /\ Left(x)'
      BY <1>13, <2>1
    <3> QED
      BY <2>1, <3>1, <3>2, <3>3 DEF QueueLeft
  <2>2. CASE queue'[t] # queue[t]
    <3>1. t = s /\ alive[s] /\ queue'[s] = p
      BY <1>8, <2>2 DEF q
    <3>2. ASSUME NEW i \in DOMAIN p PROVE p[i].from = s /\ \E x : x = p[i] /\ Left(x)'
      <4>1. CASE i \in 1 .. n /\ p[i] = q[i]
        BY <1>5, <1>13, <4>1 DEF q
      <4>2. CASE i = n + 1 /\ p[i] = m
        BY <1>3, <4>2
      <4> QED
        BY <1>12, <4>1, <4>2
    <3>3. ASSUME NEW i \in DOMAIN p, NEW j \in DOMAIN p, i < j PROVE p[i].n < p[j].n
      <4>1. i \in 1 .. n /\ p[i] = q[i]
        BY <1>5, <1>7, <3>3
      <4>2. CASE j \in 1 .. n /\ p[j] = q[j]
        BY <1>11, <3>3, <4>1, <4>2
      <4>3. CASE j = n + 1 /\ p[j] = m
        BY <1>10, <4>1, <4>3
      <4> QED
        BY <1>12, <4>2, <4>3
    <3>4. alive'[s] /\ s \in HostSenders
      BY <1>2, <3>1
    <3> QED
      BY <3>1, <3>2, <3>3, <3>4 DEF QueueLeft
  <2> QED
    BY <2>1, <2>2
<1>15. ASSUME NEW x \in Messages, Written(x) PROVE Written(x)'
  <2>1. Left(x) /\ x.from \in Senders /\ x.n \in 1 .. Count(x.from)
        /\ \A i \in DOMAIN queue[x.from] : x.n < queue[x.from][i].n
    BY <1>15 DEF Written, Left, Messages
  <2>2. Left(x)'
    BY <1>3, <2>1
  <2>3. ASSUME NEW i \in DOMAIN queue'[x.from] PROVE x.n < queue'[x.from][i].n
    <3>1. CASE queue'[x.from] = queue[x.from]
      BY <2>1, <3>1
    <3>2. CASE queue'[x.from] # queue[x.from]
      <4>1. x.from = s /\ queue'[s] = p
        BY <1>8, <2>1, <3>2 DEF q
      <4>2. CASE i \in 1 .. n /\ p[i] = q[i]
        <5>1. i \in DOMAIN queue[s]
          BY <1>5, <4>2 DEF q
        <5> QED
          BY <2>1, <4>1, <4>2, <5>1 DEF q
      <4>3. CASE i = n + 1 /\ p[i] = m
        BY <1>3, <2>1, <4>1, <4>3
      <4> QED
        BY <1>12, <2>3, <4>1, <4>2, <4>3
    <3> QED
      BY <3>1, <3>2
  <2> QED
    BY <2>2, <2>3 DEF Written
<1>16. Handing
  BY <1>2, <1>3, <1>4, <1>8, <1>14, <1>15 DEF Handing
<1>17. Kept(Garbled)
  <2> SUFFICES ASSUME NEW t \in Senders, alive[t], NEW k \in 1 .. Count(t)', script[t][k] \notin Range(queue'[t])
               PROVE  k \in 1 .. Count(t) /\ script[t][k] \notin Range(queue[t])
    BY <1>2 DEF Kept
  <2>1. CASE t # s
    BY <1>3, <1>8, <2>1
  <2>2. CASE t = s
    <3>1. queue'[s] = p
      BY <1>8, <2>2
    <3>2. n + 1 \in DOMAIN p /\ \A i \in 1 .. n : i \in DOMAIN p
      BY <1>5, <1>7
    <3>3. m \in Range(p) /\ \A x \in Range(q) : x \in Range(p)
      BY <1>5, <1>7, <3>2 DEF Range
    <3>4. k # Count(s) + 1
      BY <1>3, <2>2, <3>1, <3>3
    <3>5. k \in 1 .. Count(s)
      BY <1>3, <2>2, <3>4
    <3> QED
      BY <2>2, <3>1, <3>3, <3>5 DEF q
  <2> QED
    BY <2>1, <2>2
<1> QED
  BY <1>2, <1>16, <1>17

\* The background thread writes the next message of its channel, or panics.
LEMMA HostWriteIs ==
  ASSUME WireInv, NEW s \in Senders, HostWrite(s)
  PROVE  \/ \E m : Handing /\ Due(s, m) /\ Sends(s, m) /\ Kept(m) /\ alive'[s]
         \/ Handing /\ Kept(Garbled) /\ UNCHANGED <<conn, link, hurt>>
<1>1. PICK m : m = Head(queue[s])
  OBVIOUS
<1>2. alive[s] /\ queue[s] # <<>> /\ script' = script /\ outbox' = outbox /\ UNCHANGED serverSide
  BY DEF HostWrite
<1>3. /\ QueueOK /\ OutboxOK /\ queue \in [Senders -> Seq(Messages)] /\ alive \in [Senders -> BOOLEAN]
      /\ outbox \in [Senders -> Seq(Messages)]
  BY DEF WireInv, WireOK
<1>4. OutboxOK' /\ \A x : (Left(x)' <=> Left(x))
  BY <1>2, <1>3 DEF OutboxOK, Left, Count
<1>5. \A t \in Senders : Count(t)' = Count(t)
  BY <1>2 DEF Count
<1> DEFINE q == queue[s]
           n == Len(q)
           p == Tail(q)
<1>6. q \in Seq(Messages) /\ n \in Nat /\ DOMAIN q = 1 .. n /\ 1 \in 1 .. n
  BY <1>2, <1>3
<1>7. m = q[1] /\ p \in Seq(Messages) /\ DOMAIN p = 1 .. n - 1 /\ \A i \in 1 .. n - 1 : p[i] = q[i + 1]
  BY <1>1, <1>2, <1>6, HeadTailProperties
<1>8. /\ m \in Messages /\ Left(m) /\ m.from = s
      /\ \A i \in 1 .. n : Left(q[i]) /\ q[i].from = s
      /\ \A i, j \in 1 .. n : i < j => q[i].n < q[j].n
      /\ s \in HostSenders
  <2>1. /\ \A i \in DOMAIN q : Left(q[i]) /\ q[i].from = s
        /\ \A i, j \in DOMAIN q : i < j => q[i].n < q[j].n
        /\ s \notin HostSenders => q = <<>>
    BY <1>3 DEF QueueOK
  <2>2. q # <<>>
    BY <1>2
  <2> HIDE DEF q
  <2>3. Left(q[1]) /\ q[1].from = s /\ q[1] \in Messages
    BY <1>6, <2>1
  <2> QED
    BY <1>6, <1>7, <2>1, <2>2, <2>3
<1> HIDE DEF q, n, p
<1>9. \A i \in 1 .. n - 1 : i + 1 \in 1 .. n /\ 1 < i + 1
  BY <1>6
<1>10. \A i \in 1 .. n - 1 : Left(p[i]) /\ p[i].from = s /\ m.n < p[i].n
  BY <1>6, <1>7, <1>8, <1>9
<1>11. \A i, j \in 1 .. n - 1 : i < j => p[i].n < p[j].n
  <2> TAKE i, j \in 1 .. n - 1
  <2>1. i + 1 \in 1 .. n /\ j + 1 \in 1 .. n /\ (i < j => i + 1 < j + 1)
    BY <1>6
  <2> QED
    BY <1>7, <1>8, <2>1
<1>12. \A x \in Range(q) : x = m \/ x \in Range(p)
  <2> SUFFICES ASSUME NEW i \in 1 .. n PROVE q[i] = m \/ q[i] \in Range(p)
    BY <1>6 DEF Range
  <2>1. CASE i = 1
    BY <1>7, <2>1
  <2>2. CASE i # 1
    <3>1. i - 1 \in 1 .. n - 1 /\ (i - 1) + 1 = i
      BY <1>6, <2>2
    <3> QED
      BY <1>7, <3>1 DEF Range
  <2> QED
    BY <2>1, <2>2
<1>13. CASE /\ Write(s, m.to, m) \/ WriteFails(s, m.to, m) \/ WriteLost(s, m.to)
            /\ queue' = [queue EXCEPT ![s] = Tail(@)]
            /\ UNCHANGED alive
  <2>1. queue' = [queue EXCEPT ![s] = p]
    BY <1>3, <1>13 DEF p, q
  <2>2. queue' \in [Senders -> Seq(Messages)] /\ queue'[s] = p /\ \A t \in Senders : t # s => queue'[t] = queue[t]
    BY <1>3, <1>7, <2>1
  <2>3. QueueOK'
    <3> SUFFICES ASSUME NEW t \in Senders PROVE QueueLeft(t)
      BY QueueShown
    <3>1. CASE t = s
      <4>1. alive'[s]
        BY <1>2, <1>13
      <4>2. \A i \in DOMAIN p : p[i].from = s /\ \E x : x = p[i] /\ Left(x)'
        BY <1>4, <1>7, <1>10
      <4>3. \A i, j \in DOMAIN p : i < j => p[i].n < p[j].n
        BY <1>7, <1>11
      <4> QED
        BY <1>8, <2>2, <3>1, <4>1, <4>2, <4>3 DEF QueueLeft
    <3>2. CASE t # s
      BY <1>3, <1>4, <1>13, <2>2, <3>2 DEF QueueOK, QueueLeft
    <3> QED
      BY <3>1, <3>2
  <2>4. ASSUME NEW x \in Messages, Written(x) PROVE Written(x)'
    <3>1. x.from \in Senders /\ Left(x)' /\ \A i \in DOMAIN queue[x.from] : x.n < queue[x.from][i].n
      BY <1>4, <2>4 DEF Written, Messages
    <3>2. \A i \in DOMAIN queue'[x.from] : x.n < queue'[x.from][i].n
      <4>1. CASE x.from = s
        <5>1. \A i \in 1 .. n : x.n < q[i].n
          BY <1>6, <3>1, <4>1 DEF q
        <5> QED
          BY <1>7, <1>9, <2>2, <4>1, <5>1
      <4>2. CASE x.from # s
        BY <2>2, <3>1, <4>2
      <4> QED
        BY <4>1, <4>2
    <3> QED
      BY <3>1, <3>2 DEF Written
  <2>5. Due(s, m)
    <3>1. Written(m)'
      BY <1>4, <1>7, <1>8, <1>10, <2>2 DEF Written
    <3>2. ~Written(m)
      <4>1. 1 \in DOMAIN queue[m.from] /\ queue[m.from][1] = m
        BY <1>6, <1>7, <1>8 DEF q
      <4>2. m.n \in Nat
        BY <1>8 DEF Messages
      <4> QED
        BY <4>1, <4>2 DEF Written
    <3> QED
      BY <1>8, <3>1, <3>2 DEF Due
  <2>6. Handing
    BY <1>2, <1>3, <1>4, <1>13, <2>2, <2>3, <2>4 DEF Handing
  <2>7. Sends(s, m)
    BY <1>8, <1>13, WriteIs, WriteFailsIs, NotWrittenIs
  <2>8. Kept(m)
    <3> SUFFICES ASSUME NEW t \in Senders, alive[t], NEW k \in 1 .. Count(t), script[t][k] # m,
                        script[t][k] \notin Range(queue'[t])
                 PROVE  script[t][k] \notin Range(queue[t])
      BY <1>2, <1>5, <1>13 DEF Kept
    <3>1. CASE t = s
      BY <1>12, <2>2, <3>1 DEF q
    <3>2. CASE t # s
      BY <2>2, <3>2
    <3> QED
      BY <3>1, <3>2
  <2> QED
    BY <1>2, <1>13, <2>5, <2>6, <2>7, <2>8
<1>14. CASE /\ CannotConnect(s, m.to)
            /\ alive' = [alive EXCEPT ![s] = FALSE]
            /\ queue' = [queue EXCEPT ![s] = <<>>]
            /\ UNCHANGED <<conn, link, failures, hurt>>
  <2>1. <<>> \in Seq(Messages) /\ DOMAIN <<>> = {}
    OBVIOUS
  <2>2. /\ queue' \in [Senders -> Seq(Messages)] /\ queue'[s] = <<>> /\ \A t \in Senders : t # s => queue'[t] = queue[t]
        /\ alive' \in [Senders -> BOOLEAN] /\ ~alive'[s] /\ \A t \in Senders : t # s => alive'[t] = alive[t]
    BY <1>3, <1>14, <2>1
  <2>3. QueueOK'
    <3> SUFFICES ASSUME NEW t \in Senders PROVE QueueLeft(t)
      BY QueueShown
    <3>1. CASE t = s
      BY <1>8, <2>1, <2>2, <3>1 DEF QueueLeft
    <3>2. CASE t # s
      BY <1>3, <1>4, <2>2, <3>2 DEF QueueOK, QueueLeft
    <3> QED
      BY <3>1, <3>2
  <2>4. ASSUME NEW x \in Messages, Written(x) PROVE Written(x)'
    <3>1. x.from \in Senders /\ Left(x)' /\ \A i \in DOMAIN queue[x.from] : x.n < queue[x.from][i].n
      BY <1>4, <2>4 DEF Written, Messages
    <3>2. \A i \in DOMAIN queue'[x.from] : x.n < queue'[x.from][i].n
      BY <2>1, <2>2, <3>1
    <3> QED
      BY <3>1, <3>2 DEF Written
  <2>5. Handing
    BY <1>2, <1>3, <1>4, <2>2, <2>3, <2>4 DEF Handing
  <2>6. Kept(Garbled)
    <3> SUFFICES ASSUME NEW t \in Senders, alive'[t]
                 PROVE  /\ alive[t]
                        /\ \A k \in 1 .. Count(t) : \/ script[t][k] \in Range(queue'[t])
                                                    \/ script[t][k] \notin Range(queue[t])
      BY <1>2, <1>5 DEF Kept
    <3> QED
      BY <2>2
  <2> QED
    BY <1>14, <2>5, <2>6
<1> QED
  BY <1>1, <1>13, <1>14 DEF HostWrite

----------------------------------------------------------------------------
(* No message arrives twice.                                               *)

LEMMA InitWire ==
  ASSUME NEW wanted \in Scripts, TransportInit(wanted)
  PROVE  WireInv
<1>1. /\ script = wanted /\ outbox = script /\ script \in [Senders -> Seq(Messages)] /\ up = Receivers /\ hurt = {}
      /\ queue = [s \in Senders |-> <<>>] /\ alive = [s \in Senders |-> TRUE]
      /\ conn = [s \in Senders |-> [r \in Receivers |-> Nobody]] /\ link = [c \in Links |-> NoLink]
      /\ inbox = [r \in Receivers |-> <<>>] /\ handed = [r \in Receivers |-> <<>>]
  BY DEF TransportInit, Scripts
<1>2. /\ <<>> \in Seq(Messages) /\ <<>> \in Seq(Cell) /\ DOMAIN <<>> = {} /\ <<>> \o <<>> = <<>> /\ Len(<<>>) = 0
      /\ Range(<<>>) = {} /\ IsInjective(<<>>)
  BY DEF Range, IsInjective
<1>3. \A s \in Senders : queue[s] = <<>> /\ alive[s] /\ \A r \in Receivers : conn[s][r] = Nobody
  BY <1>1
<1>4. NoLink \in Link /\ Stream(NoLink) = <<>> /\ NoLink.to = Nobody /\ NoLink.buffer = <<>>
  <2> HIDE DEF Cell
  <2> QED
    BY <1>2 DEF NoLink, Link, Stream
<1>5. \A c \in Links : link[c] = NoLink
  BY <1>1
<1>6. \A r \in Receivers : Arrived(r) = <<>> /\ inbox[r] = <<>>
  BY <1>1, <1>2 DEF Arrived
<1>7. WireOK
  <2>1. /\ queue \in [Senders -> Seq(Messages)] /\ alive \in [Senders -> BOOLEAN]
        /\ inbox \in [Receivers -> Seq(Messages)] /\ handed \in [Receivers -> Seq(Messages)]
    BY <1>1, <1>2
  <2>2. conn \in [Senders -> [Receivers -> Links \cup {Nobody}]]
    BY <1>1
  <2>3. link \in [Links -> Link]
    <3> HIDE DEF NoLink, Link
    <3> QED
      BY <1>1, <1>4
  <2> QED
    BY <1>1, <2>1, <2>2, <2>3 DEF WireOK
<1>8. OutboxOK
  <2> SUFFICES ASSUME NEW s \in Senders
               PROVE  /\ Len(outbox[s]) <= Len(script[s])
                      /\ \A i \in DOMAIN outbox[s] : outbox[s][i] = script[s][Count(s) + i]
    BY DEF OutboxOK
  <2>1. outbox[s] = script[s] /\ script[s] \in Seq(Messages)
    BY <1>1
  <2>2. Len(script[s]) \in Nat /\ DOMAIN script[s] = 1 .. Len(script[s])
    BY <2>1
  <2>3. Count(s) = 0
    BY <2>1, <2>2 DEF Count
  <2> QED
    BY <2>1, <2>2, <2>3
<1>9. QueueOK
  BY <1>2, <1>3 DEF QueueOK
<1>10. LinkOK
  BY <1>2, <1>4, <1>5 DEF LinkOK
<1>11. ConnOK
  BY <1>3 DEF ConnOK
<1>12. ArrivedOK
  BY <1>2, <1>6 DEF ArrivedOK
<1> QED
  BY <1>7, <1>8, <1>9, <1>10, <1>11, <1>12 DEF WireInv

\* A sender's step, whichever it is.
LEMMA SenderStepIs ==
  ASSUME WireInv, NEW s \in Senders, GuestSend(s) \/ HostEnqueue(s) \/ HostWrite(s)
  PROVE  \/ \E m : Handing /\ Due(s, m) /\ Sends(s, m) /\ Kept(m) /\ alive'[s]
         \/ Handing /\ Kept(Garbled) /\ UNCHANGED <<conn, link, hurt>>
BY GuestSendIs, HostEnqueueIs, HostWriteIs

LEMMA SenderKeepsWire ==
  ASSUME WireInv, NEW s \in Senders, GuestSend(s) \/ HostEnqueue(s) \/ HostWrite(s)
  PROVE  WireInv'
<1>1. CASE \E m : Handing /\ Due(s, m) /\ Sends(s, m) /\ Kept(m) /\ alive'[s]
  <2>1. PICK m : Handing /\ Due(s, m) /\ Sends(s, m)
    BY <1>1
  <2> QED
    BY <2>1, SendsKeepsWire
<1>2. CASE Handing /\ Kept(Garbled) /\ UNCHANGED <<conn, link, hurt>>
  BY <1>2, HandingKeepsWire
<1> QED
  BY <1>1, <1>2, SenderStepIs

LEMMA PollKeepsWire ==
  ASSUME WireInv, NEW r \in Receivers, Poll(r)
  PROVE  WireInv'
<1>1. PICK arrived \in Arrivals(r) : GuestPoll(r, arrived) \/ HostRead(r, arrived)
  BY DEF Poll
<1>2. \/ StopReceiver(r) /\ UNCHANGED <<clientSide, handed>>
      \/ \E g, k, B : Receive(r, g, k, B)
  BY <1>1, GuestPollIs, HostReadIs
<1>3. CASE StopReceiver(r) /\ UNCHANGED <<clientSide, handed>>
  BY <1>3, StopKeepsWire
<1>4. CASE \E g, k, B : Receive(r, g, k, B)
  <2>1. PICK g, k, B : Receive(r, g, k, B)
    BY <1>4
  <2> QED
    BY <2>1, ReceiveKeepsWire
<1> QED
  BY <1>2, <1>3, <1>4

LEMMA StutterKeepsWire ==
  ASSUME WireInv, UNCHANGED transportVars
  PROVE  WireInv'
<1>1. /\ UNCHANGED <<script, outbox, queue, alive, conn, link, up, inbox, handed, hurt>>
  BY DEF transportVars, clientSide, serverSide
<1>2. \A x : (Left(x)' <=> Left(x)) /\ (Written(x)' <=> Written(x))
  BY <1>1 DEF Left, Written, Count
<1>3. QueueOK'
  <2>1. \A t \in Senders : QueueLeft(t)
    <3> TAKE t \in Senders
    <3>1. /\ \A i \in DOMAIN queue[t] : Left(queue[t][i]) /\ queue[t][i].from = t
          /\ \A i, j \in DOMAIN queue[t] : i < j => queue[t][i].n < queue[t][j].n
          /\ t \notin HostSenders => alive[t] /\ queue[t] = <<>>
          /\ ~alive[t] => queue[t] = <<>>
      BY DEF WireInv, QueueOK
    <3> QED
      BY <1>1, <1>2, <3>1 DEF QueueLeft
  <2> QED
    BY <2>1, QueueShown
<1>4. Handing
  <2>1. OutboxOK'
    BY <1>1 DEF WireInv, OutboxOK, Count
  <2> QED
    BY <1>1, <1>2, <1>3, <2>1 DEF Handing, WireInv, WireOK, serverSide
<1> QED
  BY <1>1, <1>4, HandingKeepsWire

\* What every step preserves: nothing that is on a connection has been there
\* before, and it has not arrived (send_message_forget, get_messages).
THEOREM WireInvariant == TransportSpec => []WireInv
<1>1. ASSUME NEW wanted \in Scripts, TransportInit(wanted) PROVE WireInv
  BY <1>1, InitWire
<1>2. (\E wanted \in Scripts : TransportInit(wanted)) => WireInv
  BY <1>1
<1>3. WireInv /\ [TransportNext]_transportVars => WireInv'
  <2> SUFFICES ASSUME WireInv, [TransportNext]_transportVars PROVE WireInv'
    OBVIOUS
  <2>1. ASSUME NEW s \in Senders, GuestSend(s) \/ HostEnqueue(s) \/ HostWrite(s) PROVE WireInv'
    BY <2>1, SenderKeepsWire
  <2>2. ASSUME NEW r \in Receivers, Poll(r) PROVE WireInv'
    BY <2>2, PollKeepsWire
  <2>3. ASSUME NEW r \in Receivers, HostGet(r) PROVE WireInv'
    BY <2>3, HostGetKeepsWire
  <2>4. ASSUME NEW r \in Receivers, Stop(r) PROVE WireInv'
    BY <2>4, StopKeepsWire DEF Stop
  <2>5. ASSUME NEW r \in Receivers, Start(r) PROVE WireInv'
    BY <2>5, StartKeepsWire
  <2>6. ASSUME NEW c \in Links, Break(c) PROVE WireInv'
    BY <2>6, BreakKeepsWire
  <2>7. CASE UNCHANGED transportVars
    BY <2>7, StutterKeepsWire
  <2> QED
    BY <2>1, <2>2, <2>3, <2>4, <2>5, <2>6, <2>7 DEF TransportNext
<1> QED
  BY <1>2, <1>3, PTL DEF TransportSpec

LEMMA WrittenIsHandedOver ==
  ASSUME WireInv, NEW m \in Messages, Left(m)
  PROVE  /\ HandedOver(m.from) \in Seq(Messages) /\ Len(HandedOver(m.from)) = Count(m.from)
         /\ m.n \in 1 .. Count(m.from) /\ HandedOver(m.from)[m.n] = m /\ m \in Range(HandedOver(m.from))
<1> DEFINE s == m.from
           w == script[s]
           n == Count(s)
<1>1. s \in Senders /\ m.n \in 1 .. n /\ w[m.n] = m
  BY DEF Left, Messages
<1>2. w \in Seq(Messages) /\ outbox[s] \in Seq(Messages) /\ Len(outbox[s]) <= Len(w)
  BY <1>1 DEF WireInv, WireOK, Scripts, OutboxOK
<1>3. n \in 0 .. Len(w) /\ HandedOver(s) = SubSeq(w, 1, n)
  <2>1. Len(w) \in Nat /\ Len(outbox[s]) \in Nat
    BY <1>2
  <2>2. \A a, b \in Nat : b <= a => a - b \in 0 .. a
    OBVIOUS
  <2>3. Len(w) - Len(outbox[s]) \in 0 .. Len(w)
    BY <1>2, <2>1, <2>2
  <2> QED
    BY <2>3 DEF Count, HandedOver
<1> HIDE DEF w, n
<1>4. /\ SubSeq(w, 1, n) \in Seq(Messages) /\ Len(SubSeq(w, 1, n)) = n
      /\ \A i \in 1 .. n : SubSeq(w, 1, n)[i] = w[i]
  BY <1>2, <1>3, CutAndJoined
<1>5. m.n \in DOMAIN HandedOver(s)
  BY <1>1, <1>3, <1>4
<1> QED
  BY <1>1, <1>3, <1>4, <1>5 DEF Range, n

\* A runner gets no message that was not handed over for it, and none twice,
\* whatever breaks or stops (get_messages, send_message_forget).
THEOREM NeverTwiceHolds == TransportSpec => []NeverTwice
<1>1. WireInv => NeverTwice
  <2> SUFFICES ASSUME WireInv, NEW r \in Receivers
               PROVE  /\ IsInjective(handed[r])
                      /\ \A m \in Range(handed[r]) : m.to = r /\ m.readable /\ m \in Range(HandedOver(m.from))
    BY DEF NeverTwice
  <2>1. handed[r] \in Seq(Messages) /\ inbox[r] \in Seq(Messages)
    BY StepParts
  <2>2. \A i \in DOMAIN handed[r] : i \in DOMAIN Arrived(r) /\ handed[r][i] = Arrived(r)[i]
    BY <2>1, StartOfConcat DEF Arrived
  <2>3. IsInjective(Arrived(r)) /\ \A m \in Range(Arrived(r)) : Written(m) /\ m.to = r /\ m.readable
    BY DEF WireInv, ArrivedOK
  <2>4. IsInjective(handed[r])
    BY <2>2, <2>3 DEF IsInjective
  <2>5. \A m \in Range(handed[r]) : m \in Range(Arrived(r)) /\ m \in Messages
    BY <2>1, <2>2 DEF Range
  <2>6. ASSUME NEW m \in Range(handed[r]) PROVE m \in Range(HandedOver(m.from))
    BY <2>3, <2>5, WrittenIsHandedOver DEF Written
  <2> QED
    BY <2>3, <2>4, <2>5, <2>6
<1> QED
  BY <1>1, WireInvariant, PTL

----------------------------------------------------------------------------
(* Streams of frames.                                                      *)

LEMMA FramesGrow ==
  ASSUME NEW sc, NEW S, NEW A, NEW D, FramesOK(sc, S, A), A \subseteq D
  PROVE  FramesOK(sc, S, D)
<1>1. PICK k \in Nat :
        /\ Len(S) = 2 * k
        /\ \A i \in 1 .. k : /\ IsFrame(S[2 * i - 1], S[2 * i])
                             /\ Before(sc, S[2 * i - 1].of) \subseteq A \cup Framed(S, i - 1)
  BY DEF FramesOK
<1>2. \A i \in 1 .. k : Before(sc, S[2 * i - 1].of) \subseteq D \cup Framed(S, i - 1)
  BY <1>1
<1> QED
  BY <1>1, <1>2 DEF FramesOK

\* Every cell of such a stream is of a frame.
LEMMA CellOfFrame ==
  ASSUME NEW S, NEW k \in Nat, Len(S) = 2 * k, \A i \in 1 .. k : IsFrame(S[2 * i - 1], S[2 * i]),
         NEW i \in 1 .. Len(S)
  PROVE  \E e \in 1 .. k : S[i].of = S[2 * e - 1].of /\ i <= 2 * e /\ 2 * e <= i + 1
<1>1. PICK e \in 1 .. k : i = 2 * e - 1 \/ i = 2 * e
  <2>1. i \in 1 .. 2 * k
    OBVIOUS
  <2>2. /\ (i + 1) \div 2 \in 1 .. k
        /\ i = 2 * ((i + 1) \div 2) - 1 \/ i = 2 * ((i + 1) \div 2)
    BY <2>1
  <2> QED
    BY <2>2
<1>2. IsFrame(S[2 * e - 1], S[2 * e])
  OBVIOUS
<1>3. S[i].of = S[2 * e - 1].of
  BY <1>1, <1>2 DEF IsFrame
<1> QED
  BY <1>1, <1>3

\* One more frame, of a message all that goes before which is there.
LEMMA FrameAppended ==
  ASSUME NEW sc, NEW S, NEW A, NEW m, NEW N, FramesOK(sc, S, A), Len(N) = Len(S) + 2,
         \A i \in 1 .. Len(S) : N[i] = S[i],
         N[Len(S) + 1] = [part |-> "len", of |-> m], N[Len(S) + 2] = [part |-> "text", of |-> m],
         \A w \in Before(sc, m) : w \in A \/ \E i \in 1 .. Len(S) : S[i].of = w
  PROVE  FramesOK(sc, N, A)
<1>1. PICK k \in Nat :
        /\ Len(S) = 2 * k
        /\ \A i \in 1 .. k : /\ IsFrame(S[2 * i - 1], S[2 * i])
                             /\ Before(sc, S[2 * i - 1].of) \subseteq A \cup Framed(S, i - 1)
  BY DEF FramesOK
<1>2. \A i \in 1 .. k : 2 * i - 1 \in 1 .. Len(S) /\ 2 * i \in 1 .. Len(S)
  BY <1>1
<1>3. \A i \in 1 .. k : N[2 * i - 1] = S[2 * i - 1] /\ N[2 * i] = S[2 * i]
  BY <1>2
<1>4. ASSUME NEW i \in 0 .. k PROVE Framed(N, i) = Framed(S, i)
  <2>1. \A e \in 1 .. i : e \in 1 .. k
    OBVIOUS
  <2>2. \A e \in 1 .. i : N[2 * e - 1].of = S[2 * e - 1].of
    BY <1>3, <2>1
  <2> QED
    BY <2>2 DEF Framed
<1>5. ASSUME NEW i \in 1 .. k
      PROVE  IsFrame(N[2 * i - 1], N[2 * i]) /\ Before(sc, N[2 * i - 1].of) \subseteq A \cup Framed(N, i - 1)
  <2>1. i - 1 \in 0 .. k
    OBVIOUS
  <2>2. Framed(N, i - 1) = Framed(S, i - 1)
    BY <1>4, <2>1
  <2> QED
    BY <1>1, <1>3, <2>2
<1>6. 2 * (k + 1) - 1 = Len(S) + 1 /\ 2 * (k + 1) = Len(S) + 2 /\ Len(N) = 2 * (k + 1) /\ k \in 0 .. k /\ (k + 1) - 1 = k
  BY <1>1
<1>7. IsFrame(N[2 * (k + 1) - 1], N[2 * (k + 1)]) /\ N[2 * (k + 1) - 1].of = m
  BY <1>6 DEF IsFrame
<1>8. \A i \in 1 .. Len(S) : S[i].of \in Framed(S, k)
  <2>1. \A i \in 1 .. k : IsFrame(S[2 * i - 1], S[2 * i])
    BY <1>1
  <2>2. ASSUME NEW i \in 1 .. Len(S) PROVE \E e \in 1 .. k : S[i].of = S[2 * e - 1].of
    BY <1>1, <2>1, CellOfFrame
  <2> QED
    BY <2>2 DEF Framed
<1>9. Before(sc, N[2 * (k + 1) - 1].of) \subseteq A \cup Framed(N, (k + 1) - 1)
  BY <1>4, <1>6, <1>7, <1>8
<1>10. \A i \in 1 .. k + 1 : i \in 1 .. k \/ i = k + 1
  OBVIOUS
<1>11. ASSUME NEW i \in 1 .. k + 1
       PROVE  IsFrame(N[2 * i - 1], N[2 * i]) /\ Before(sc, N[2 * i - 1].of) \subseteq A \cup Framed(N, i - 1)
  <2>1. CASE i \in 1 .. k
    BY <1>5, <2>1
  <2>2. CASE i = k + 1
    BY <1>7, <1>9, <2>2
  <2> QED
    BY <1>10, <2>1, <2>2
<1>12. k + 1 \in Nat
  OBVIOUS
<1> QED
  BY <1>6, <1>11, <1>12 DEF FramesOK

\* The first n frames are taken out, and what can be read of them has arrived.
LEMMA FramesTaken ==
  ASSUME NEW sc, NEW S, NEW A, NEW D, NEW n \in Nat, NEW N, FramesOK(sc, S, A), 2 * n <= Len(S),
         Len(N) = Len(S) - 2 * n, \A i \in 1 .. Len(N) : N[i] = S[2 * n + i], A \subseteq D,
         \A i \in 1 .. n : S[2 * i - 1].of.readable => S[2 * i - 1].of \in D
  PROVE  FramesOK(sc, N, D)
<1>1. PICK k \in Nat :
        /\ Len(S) = 2 * k
        /\ \A i \in 1 .. k : /\ IsFrame(S[2 * i - 1], S[2 * i])
                             /\ Before(sc, S[2 * i - 1].of) \subseteq A \cup Framed(S, i - 1)
  BY DEF FramesOK
<1>2. n <= k /\ k - n \in Nat /\ Len(N) = 2 * (k - n)
  BY <1>1
<1>3. ASSUME NEW i \in 1 .. k - n
      PROVE  N[2 * i - 1] = S[2 * (n + i) - 1] /\ N[2 * i] = S[2 * (n + i)] /\ n + i \in 1 .. k
  <2>1. 2 * i - 1 \in 1 .. Len(N) /\ 2 * i \in 1 .. Len(N)
    BY <1>2
  <2>2. 2 * n + (2 * i - 1) = 2 * (n + i) - 1 /\ 2 * n + 2 * i = 2 * (n + i)
    OBVIOUS
  <2>3. N[2 * i - 1] = S[2 * n + (2 * i - 1)] /\ N[2 * i] = S[2 * n + 2 * i]
    BY <2>1
  <2>4. n + i \in 1 .. k
    BY <1>2
  <2> QED
    BY <2>2, <2>3, <2>4
<1>4. ASSUME NEW i \in 1 .. k - n
      PROVE  IsFrame(N[2 * i - 1], N[2 * i]) /\ Before(sc, N[2 * i - 1].of) \subseteq D \cup Framed(N, i - 1)
  <2>1. IsFrame(N[2 * i - 1], N[2 * i]) /\ Before(sc, N[2 * i - 1].of) \subseteq A \cup Framed(S, (n + i) - 1)
    BY <1>1, <1>3
  <2>2. ASSUME NEW w \in Before(sc, N[2 * i - 1].of), w \notin D PROVE w \in Framed(N, i - 1)
    <3>1. w \in Framed(S, (n + i) - 1) /\ w.readable
      BY <2>1, <2>2 DEF Before
    <3>2. PICK e \in 1 .. (n + i) - 1 : w = S[2 * e - 1].of
      BY <3>1 DEF Framed
    <3>3. e \notin 1 .. n
      BY <2>2, <3>1, <3>2
    <3>4. e - n \in 1 .. i - 1 /\ e - n \in 1 .. k - n /\ n + (e - n) = e
      BY <1>2, <3>3
    <3>5. N[2 * (e - n) - 1] = S[2 * (n + (e - n)) - 1]
      BY <1>3, <3>4
    <3>6. N[2 * (e - n) - 1].of = w
      BY <3>2, <3>4, <3>5
    <3> QED
      BY <3>4, <3>6 DEF Framed
  <2> QED
    BY <2>1, <2>2
<1> QED
  BY <1>2, <1>4 DEF FramesOK

\* What is read in turn stays in turn.
LEMMA TurnGrows ==
  ASSUME NEW sc, NEW s \in Seq(Messages), NEW B \in Seq(Messages), InTurn(sc, s),
         \A q \in 1 .. Len(B) : Before(sc, B[q]) \subseteq Range(s) \cup {B[d] : d \in 1 .. q - 1}
  PROVE  InTurn(sc, s \o B)
<1> DEFINE t == s \o B
           n == Len(s)
<1>1. /\ t \in Seq(Messages) /\ n \in Nat /\ Len(B) \in Nat /\ DOMAIN t = 1 .. n + Len(B) /\ DOMAIN s = 1 .. n
      /\ \A i \in 1 .. n + Len(B) : t[i] = IF i <= n THEN s[i] ELSE B[i - n]
  <2>1. /\ t \in Seq(Messages) /\ Len(t) = n + Len(B) /\ n \in Nat /\ Len(B) \in Nat
        /\ \A i \in 1 .. n + Len(B) : t[i] = IF i <= n THEN s[i] ELSE B[i - n]
    BY ConcatProperties
  <2> HIDE DEF t
  <2> QED
    BY <2>1
<1> HIDE DEF t, n
<1>2. \A i \in 1 .. n : t[i] = s[i]
  BY <1>1
<1>3. \A i \in 1 .. Len(B) : t[n + i] = B[i]
  <2> TAKE i \in 1 .. Len(B)
  <2>1. n + i \in 1 .. n + Len(B) /\ ~(n + i <= n) /\ (n + i) - n = i
    BY <1>1
  <2> QED
    BY <1>1, <2>1
<1>4. ASSUME NEW j \in 1 .. n + Len(B) PROVE Before(sc, t[j]) \subseteq {t[i] : i \in 1 .. j - 1}
  <2>1. CASE j \in 1 .. n
    <3>1. Before(sc, s[j]) \subseteq {s[i] : i \in 1 .. j - 1}
      BY <1>1, <2>1 DEF InTurn
    <3>2. \A i \in 1 .. j - 1 : t[i] = s[i]
      BY <1>1, <1>2, <2>1
    <3> QED
      BY <1>2, <2>1, <3>1, <3>2
  <2>2. CASE j \notin 1 .. n
    <3>1. PICK q \in 1 .. Len(B) : j = n + q
      <4>1. j - n \in 1 .. Len(B) /\ n + (j - n) = j
        BY <1>1, <2>2
      <4> QED
        BY <4>1
    <3>2. Before(sc, t[j]) \subseteq Range(s) \cup {B[d] : d \in 1 .. q - 1}
      BY <1>3, <3>1
    <3>3. \A i \in 1 .. n : i \in 1 .. j - 1
      BY <1>1, <3>1
    <3>4. \A x \in Range(s) : x \in {t[i] : i \in 1 .. j - 1}
      BY <1>1, <1>2, <3>3 DEF Range
    <3>5. \A d \in 1 .. q - 1 : n + d \in 1 .. j - 1 /\ d \in 1 .. Len(B)
      BY <1>1, <3>1
    <3>6. \A d \in 1 .. q - 1 : B[d] \in {t[i] : i \in 1 .. j - 1}
      BY <1>3, <3>5
    <3> QED
      BY <3>2, <3>4, <3>6
  <2> QED
    BY <2>1, <2>2
<1> QED
  BY <1>1, <1>4 DEF InTurn, t

----------------------------------------------------------------------------
(* What the steps do to the order at a receiver.                           *)

\* Nothing comes to r or goes away: it is as well as before, if what the senders still
\* had for it they have, or had before.
LEMMA SameForReceiver ==
  ASSUME WireInv, NEW r \in Receivers, Well(r), r \in up', script' = script, Arrived(r)' = Arrived(r),
         \A c \in Links : link[c].to = r \/ link'[c].to = r => link'[c] = link[c],
         \A s \in Senders : conn'[s][r] = conn[s][r],
         \A s \in Senders : alive'[s] =>
           /\ alive[s]
           /\ \A k \in 1 .. Count(s)' : script[s][k].to = r =>
                \/ script[s][k] \in Range(queue'[s])
                \/ k \in 1 .. Count(s) /\ script[s][k] \notin Range(queue[s])
  PROVE  Well(r)'
<1>1. LinksTo(r)' = LinksTo(r) /\ \A c \in LinksTo(r) : link'[c] = link[c] /\ c \in Links
  BY DEF LinksTo
<1>2. OnItsWay(r)' = OnItsWay(r)
  <2>1. \A m : \A c \in LinksTo(r) : Holds(c, m)' <=> Holds(c, m)
    BY <1>1 DEF Holds
  <2>2. \A m : m \in OnItsWay(r)' <=> m \in OnItsWay(r)
    BY <1>1, <2>1 DEF OnItsWay
  <2> QED
    BY <2>2
<1>3. \A c \in LinksTo(r)' : ~link'[c].cut /\ link'[c].from \in Senders /\ conn'[link'[c].from][r] = c
  BY <1>1 DEF Well
<1>4. \A c \in LinksTo(r)' : FramesOK(script', Stream(link'[c]), Range(Arrived(r)'))
  BY <1>1 DEF Well
<1>5. \A s \in Senders : conn'[s][r] # Nobody => link'[conn'[s][r]].to = r
  <2> TAKE s \in Senders
  <2> HAVE conn'[s][r] # Nobody
  <2>1. conn[s][r] # Nobody /\ link[conn[s][r]].to = r /\ conn[s][r] \in Links \cup {Nobody}
    BY DEF Well, WireInv, WireOK
  <2> QED
    BY <2>1
<1>6. InTurn(script', Arrived(r)')
  BY DEF Well
<1>7. ASSUME NEW s \in Senders, alive'[s], NEW k \in 1 .. Count(s)', script[s][k].to = r, script[s][k].readable
      PROVE  script[s][k] \in Range(queue'[s]) \cup OnItsWay(r)
  BY <1>7 DEF Well
<1> QED
  BY <1>1, <1>2, <1>3, <1>4, <1>5, <1>6, <1>7 DEF Well

\* What a sender has handed on is what its script says.
LEMMA CountIs ==
  ASSUME WireInv, Handing, NEW t \in Senders, NEW k \in 1 .. Count(t)'
  PROVE  script[t][k] \in Messages /\ script[t][k].from = t /\ script[t][k].n = k
<1>1. script[t] \in Seq(Messages) /\ outbox'[t] \in Seq(Messages)
      /\ \A i \in DOMAIN script[t] : script[t][i].from = t /\ script[t][i].n = i
  BY DEF WireInv, WireOK, Scripts, Handing
<1>2. Count(t)' = Len(script[t]) - Len(outbox'[t])
  BY DEF Count, Handing
<1>3. Len(script[t]) \in Nat /\ Len(outbox'[t]) \in Nat /\ DOMAIN script[t] = 1 .. Len(script[t])
  BY <1>1
<1>4. \A a, b \in Nat : \A i \in 1 .. a - b : i \in 1 .. a
  OBVIOUS
<1>5. k \in DOMAIN script[t]
  BY <1>2, <1>3, <1>4
<1> QED
  BY <1>1, <1>5

\* A message for another receiver, or one that is put into a channel.
LEMMA SentElsewhere ==
  ASSUME WireInv, Handing, NEW s \in Senders, NEW m, Kept(m), NEW r \in Receivers, Well(r),
         m \in Messages => m.to # r,
         \A c \in Links : link[c].to = r \/ link'[c].to = r => link'[c] = link[c],
         \A t \in Senders : conn'[t][r] = conn[t][r]
  PROVE  Well(r)'
<1>1. r \in up' /\ script' = script /\ Arrived(r)' = Arrived(r)
  <2>1. r \in up' /\ script' = script
    BY DEF Well, Handing, serverSide
  <2> QED
    BY <2>1, HandingKeepsArrived
<1>2. ASSUME NEW t \in Senders, alive'[t]
      PROVE  /\ alive[t]
             /\ \A k \in 1 .. Count(t)' : script[t][k].to = r =>
                  \/ script[t][k] \in Range(queue'[t])
                  \/ k \in 1 .. Count(t) /\ script[t][k] \notin Range(queue[t])
  <2>1. \A k \in 1 .. Count(t)' : script[t][k].to = r => script[t][k] # m
    BY CountIs
  <2> QED
    BY <1>2, <2>1 DEF Kept
<1> QED
  BY <1>1, <1>2, SameForReceiver

\* A connection carries a whole frame more, for a receiver to which nothing happened.
LEMMA WholeFrameKeeps ==
  ASSUME WireInv, Handing, NEW s \in Senders, NEW m, Due(s, m), Kept(m), alive'[s],
         NEW c \in Links, Appended(c, m, 2), ~link'[c].cut, ConnSet(s, m.to, c),
         (link[c] = NoLink /\ conn[s][m.to] = Nobody) \/ (conn[s][m.to] = c /\ link[c].to = m.to),
         Well(m.to)
  PROVE  Well(m.to)'
<1> DEFINE A == Range(Arrived(m.to))
<1>1. PICK r \in Receivers : r = m.to
  BY DEF Due, Messages
<1>2. m \in Messages /\ m.from = s /\ m.n \in Int
  BY DEF Due, Messages
<1>3. r \in up' /\ script' = script /\ Arrived(r)' = Arrived(r)
  <2>1. r \in up' /\ script' = script
    BY <1>1 DEF Well, Handing, serverSide
  <2> QED
    BY <2>1, HandingKeepsArrived
<1>4. WireOK /\ link[c] \in Link /\ NoLink.to = Nobody /\ Stream(NoLink) = <<>>
  BY DEF WireInv, WireOK, NoLink, Stream
<1>5. /\ link'[c].to = r /\ link'[c].from = s /\ \A d \in Links \ {c} : link'[d] = link[d]
      /\ link[c] = NoLink \/ (link[c].from = s /\ link[c].to = r)
  BY <1>1, <1>2 DEF Appended
<1>6. LinksTo(r)' = LinksTo(r) \cup {c} /\ LinksTo(r) \subseteq Links
  BY <1>5 DEF LinksTo
<1>7. \A d \in LinksTo(r) : ~link[d].cut /\ link[d].from \in Senders /\ conn[link[d].from][r] = d
  BY <1>1 DEF Well
<1>8. \A d \in LinksTo(r) : link[d].from = s => d = c
  <2> TAKE d \in LinksTo(r)
  <2> HAVE link[d].from = s
  <2>1. conn[s][r] = d /\ d # Nobody
    BY <1>6, <1>7, TransportAssumption DEF Links
  <2> QED
    BY <1>1, <2>1
<1>9. /\ conn'[s][r] = c /\ \A t \in Senders : t # s => conn'[t][r] = conn[t][r]
  BY <1>1 DEF ConnSet
<1>10. \A d \in LinksTo(r)' : ~link'[d].cut /\ link'[d].from \in Senders /\ conn'[link'[d].from][r] = d
  <2> TAKE d \in LinksTo(r)'
  <2>1. CASE d = c
    BY <1>5, <1>9, <2>1
  <2>2. CASE d # c
    <3>1. d \in LinksTo(r) /\ link'[d] = link[d]
      BY <1>5, <1>6, <2>2
    <3>2. link[d].from # s
      BY <1>8, <2>2, <3>1
    <3> QED
      BY <1>7, <1>9, <3>1, <3>2
  <2> QED
    BY <2>1, <2>2
<1>11. \A t \in Senders : conn'[t][r] # Nobody => link'[conn'[t][r]].to = r
  <2> TAKE t \in Senders
  <2> HAVE conn'[t][r] # Nobody
  <2>1. CASE t = s
    BY <1>5, <1>9, <2>1
  <2>2. CASE t # s
    <3>1. conn'[t][r] = conn[t][r] /\ link[conn[t][r]].to = r /\ conn[t][r] \in Links
      BY <1>1, <1>4, <1>9, <2>2 DEF Well, WireOK
    <3> QED
      BY <1>5, <3>1
  <2> QED
    BY <2>1, <2>2
<1>12. InTurn(script', Arrived(r)')
  BY <1>1, <1>3 DEF Well
<1>13. /\ \A w : \A d \in LinksTo(r) \ {c} : Holds(d, w)' <=> Holds(d, w)
       /\ \A w : \A d \in LinksTo(r) : Holds(d, w) => Holds(d, w)'
       /\ Holds(c, m)'
  <2>1. \A w : \A d \in LinksTo(r) \ {c} : Holds(d, w)' <=> Holds(d, w)
    BY <1>5, <1>6 DEF Holds
  <2> DEFINE S == Stream(link[c])
             N == Stream(link'[c])
  <2>2. /\ DOMAIN N = 1 .. Len(S) + 2 /\ DOMAIN S = 1 .. Len(S) /\ Len(S) \in Nat
        /\ \A i \in 1 .. Len(S) : N[i] = S[i]
        /\ N[Len(S) + 1] = [part |-> "len", of |-> m]
    BY <1>2, <1>4, WholeFrameIs
  <2> HIDE DEF S, N
  <2>3. \A i \in 1 .. Len(S) : i \in DOMAIN N
    BY <2>2
  <2>4. \A w : (\E i \in DOMAIN S : S[i].of = w) => \E i \in DOMAIN N : N[i].of = w
    BY <2>2, <2>3
  <2>5. Len(S) + 1 \in DOMAIN N /\ N[Len(S) + 1].of = m
    BY <2>2
  <2>6. \A w : Holds(c, w) => Holds(c, w)'
    BY <2>4 DEF Holds, S, N
  <2>7. Holds(c, m)'
    BY <2>5 DEF Holds, N
  <2> QED
    BY <2>1, <2>6, <2>7
<1>14. \A w \in OnItsWay(r) \cup {m} : w \in OnItsWay(r)'
  BY <1>2, <1>3, <1>6, <1>13 DEF OnItsWay
<1>15. ASSUME NEW t \in Senders, alive'[t], NEW k \in 1 .. Count(t)', script[t][k].to = r, script[t][k].readable
       PROVE  script[t][k] \in Range(queue'[t]) \cup OnItsWay(r)'
  <2>1. \/ script[t][k] = m \/ script[t][k] \in Range(queue'[t])
        \/ (k \in 1 .. Count(t) /\ script[t][k] \notin Range(queue[t]) /\ alive[t])
    BY <1>15 DEF Kept
  <2> QED
    BY <1>1, <1>14, <1>15, <2>1 DEF Well
<1>16. ASSUME NEW w \in Before(script, m) PROVE w \in A \/ \E i \in 1 .. Len(Stream(link[c])) : Stream(link[c])[i].of = w
  <2>1. w \in Range(script[s]) /\ w.to = r /\ w.readable /\ w.n < m.n
    BY <1>1, <1>2 DEF Before
  <2>2. PICK k \in DOMAIN script[s] : w = script[s][k]
    BY <2>1 DEF Range
  <2>3. Left(m)' /\ \A i \in DOMAIN queue'[s] : m.n < queue'[s][i].n
    BY <1>2 DEF Due, Written
  <2>4. w \in Messages /\ w.from = s /\ w.n = k /\ k \in 1 .. Count(s)'
    <3>1. script[s] \in Seq(Messages) /\ script[s][k].from = s /\ script[s][k].n = k
      BY <1>4, <2>2 DEF WireOK, Scripts
    <3>2. m.n \in 1 .. Count(s)'
      BY <1>2, <2>3 DEF Left
    <3>3. k \in Int /\ 1 <= k
      BY <3>1
    <3>4. w.n = k /\ w \in Messages
      BY <2>2, <3>1
    <3>5. k \in 1 .. Count(s)'
      <4>1. Count(s)' \in Int
        <5>1. outbox'[s] \in Seq(Messages) /\ Count(s)' = Len(script[s]) - Len(outbox'[s])
          BY DEF Handing, Count
        <5>2. Len(outbox'[s]) \in Nat /\ Len(script[s]) \in Nat
          BY <3>1, <5>1
        <5> QED
          BY <5>1, <5>2
      <4> QED
        BY <2>1, <3>2, <3>3, <3>4, <4>1
    <3> QED
      BY <2>2, <3>1, <3>4, <3>5
  <2>5. w # m /\ w \notin Range(queue'[s])
    <3>1. \A i \in DOMAIN queue'[s] : queue'[s][i] \in Messages
      BY DEF Handing
    <3>2. \A i \in DOMAIN queue'[s] : queue'[s][i].n \in Int
      BY <3>1 DEF Messages
    <3> QED
      BY <1>2, <2>1, <2>3, <2>4, <3>2 DEF Range, Messages
  <2>6. k \in 1 .. Count(s) /\ w \notin Range(queue[s]) /\ alive[s]
    BY <2>2, <2>4, <2>5 DEF Kept
  <2>7. w \in OnItsWay(r)
    BY <1>1, <2>1, <2>2, <2>6 DEF Well
  <2>8. CASE w \in Range(Arrived(r))
    BY <1>1, <2>8
  <2>9. CASE \E d \in LinksTo(r) : Holds(d, w)
    <3>1. PICK d \in LinksTo(r) : \E i \in DOMAIN Stream(link[d]) : Stream(link[d])[i].of = w
      BY <2>9 DEF Holds
    <3>2. PICK i \in DOMAIN Stream(link[d]) : Stream(link[d])[i].of = w
      BY <3>1
    <3>3. w.from = link[d].from
      BY <1>6, <3>2 DEF WireInv, LinkOK, Carries
    <3>4. d = c
      BY <1>8, <2>4, <3>3
    <3>5. DOMAIN Stream(link[c]) = 1 .. Len(Stream(link[c]))
      BY <1>4, StreamType
    <3> QED
      BY <3>2, <3>4, <3>5
  <2> QED
    BY <2>7, <2>8, <2>9 DEF OnItsWay
<1>17. \A d \in LinksTo(r)' : FramesOK(script', Stream(link'[d]), Range(Arrived(r)'))
  <2> SUFFICES ASSUME NEW d \in LinksTo(r)' PROVE FramesOK(script, Stream(link'[d]), A)
    BY <1>1, <1>3
  <2>1. CASE d # c
    BY <1>1, <1>5, <1>6, <2>1 DEF Well
  <2>2. CASE d = c
    <3>1. FramesOK(script, Stream(link[c]), A)
      <4>1. CASE link[c] = NoLink
        <5>1. Len(<<>>) = 2 * 0 /\ 0 \in Nat /\ 1 .. 0 = {}
          OBVIOUS
        <5>2. FramesOK(script, <<>>, A)
          BY <5>1 DEF FramesOK
        <5> QED
          BY <1>4, <4>1, <5>2
      <4>2. CASE link[c].to = r
        BY <1>1, <4>2 DEF Well, LinksTo
      <4> QED
        BY <1>5, <4>1, <4>2
    <3> DEFINE S == Stream(link[c])
               N == Stream(link'[c])
    <3>2. /\ Len(N) = Len(S) + 2 /\ \A i \in 1 .. Len(S) : N[i] = S[i]
          /\ N[Len(S) + 1] = [part |-> "len", of |-> m] /\ N[Len(S) + 2] = [part |-> "text", of |-> m]
      BY <1>2, <1>4, WholeFrameIs
    <3>3. \A w \in Before(script, m) : w \in A \/ \E i \in 1 .. Len(S) : S[i].of = w
      BY <1>16
    <3> HIDE DEF S, N, A
    <3>4. FramesOK(script, N, A)
      BY <3>1, <3>2, <3>3, FrameAppended DEF S
    <3> QED
      BY <2>2, <3>4 DEF N
  <2> QED
    BY <2>1, <2>2
<1>18. Well(r)'
  BY <1>3, <1>10, <1>11, <1>12, <1>15, <1>17 DEF Well
<1> QED
  BY <1>1, <1>18

LEMMA SenderKeepsWell ==
  ASSUME WireInv, NEW s \in Senders, GuestSend(s) \/ HostEnqueue(s) \/ HostWrite(s),
         NEW r \in Receivers, r \notin hurt', Well(r)
  PROVE  Well(r)'
<1>1. CASE Handing /\ Kept(Garbled) /\ UNCHANGED <<conn, link, hurt>>
  <2>1. Garbled \notin Messages
    BY TransportAssumption
  <2> QED
    BY <1>1, <2>1, SentElsewhere
<1>2. CASE \E m : Handing /\ Due(s, m) /\ Sends(s, m) /\ Kept(m) /\ alive'[s]
  <2>1. PICK m : Handing /\ Due(s, m) /\ Sends(s, m) /\ Kept(m) /\ alive'[s]
    BY <1>2
  <2>2. m \in Messages /\ m.from = s /\ NoLink.to = Nobody /\ r # Nobody
    BY <2>1, TransportAssumption DEF Due, NoLink
  <2>3. ASSUME NEW c \in Links, NEW j, Appended(c, m, j), NEW x, ConnSet(s, m.to, x), r # m.to
        PROVE  Well(r)'
    <3>1. \A d \in Links : link[d].to = r \/ link'[d].to = r => link'[d] = link[d]
      BY <2>2, <2>3 DEF Appended
    <3>2. \A t \in Senders : conn'[t][r] = conn[t][r]
      BY <2>3 DEF ConnSet
    <3> QED
      BY <2>1, <2>3, <3>1, <3>2, SentElsewhere
  <2>4. CASE \E c \in Links :
               /\ Appended(c, m, 2) /\ ~link'[c].cut
               /\ (link[c] = NoLink /\ conn[s][m.to] = Nobody) \/ (conn[s][m.to] = c /\ link[c].to = m.to)
               /\ ConnSet(s, m.to, c) /\ hurt' = hurt
    <3>1. PICK c \in Links :
               /\ Appended(c, m, 2) /\ ~link'[c].cut
               /\ (link[c] = NoLink /\ conn[s][m.to] = Nobody) \/ (conn[s][m.to] = c /\ link[c].to = m.to)
               /\ ConnSet(s, m.to, c)
      BY <2>4
    <3>2. CASE r = m.to
      <4>1. Well(m.to)
        BY <3>2
      <4>2. Well(m.to)'
        BY <2>1, <3>1, <4>1, WholeFrameKeeps
      <4> QED
        BY <3>2, <4>2
    <3>3. CASE r # m.to
      BY <2>3, <3>1, <3>3
    <3> QED
      BY <3>2, <3>3
  <2>5. CASE \E c \in Links, j \in 0 .. 1 :
               Appended(c, m, j) /\ ConnSet(s, m.to, Nobody) /\ hurt' = hurt \cup {m.to}
    BY <2>3, <2>5
  <2>6. CASE /\ link' = link /\ hurt' = hurt
             /\ m.to \notin up \/ (conn[s][m.to] # Nobody /\ ~Usable(conn[s][m.to]))
             /\ ConnSet(s, m.to, Nobody) \/ conn' = conn
    <3>1. r # m.to
      <4> SUFFICES ASSUME r = m.to PROVE FALSE
        OBVIOUS
      <4>1. conn[s][r] # Nobody /\ ~Usable(conn[s][r])
        BY <2>6 DEF Well
      <4>2. conn[s][r] \in Links /\ link[conn[s][r]].to = r
        BY <4>1 DEF Well, WireInv, WireOK
      <4>3. ~link[conn[s][r]].cut
        BY <4>2 DEF Well, LinksTo
      <4> QED
        BY <2>2, <4>1, <4>2, <4>3 DEF Usable
    <3>2. \A t \in Senders : conn'[t][r] = conn[t][r]
      BY <2>6, <3>1 DEF ConnSet
    <3> QED
      BY <2>1, <2>6, <3>1, <3>2, SentElsewhere
  <2> QED
    BY <2>1, <2>4, <2>5, <2>6 DEF Sends
<1> QED
  BY <1>1, <1>2, SenderStepIs

\* What is read of a stream of frames is what they carry, as far as it can be read, and
\* it is read in turn.
LEMMA FramesRead ==
  ASSUME NEW sc, NEW A, NEW S \in Seq(Cell), FramesOK(sc, S, A), NEW h \in Seq(Read), 2 * Len(h) <= Len(S),
         \A i \in 1 .. Len(h) : h[i] = Decode(S[2 * i - 1], S[2 * i])
  PROVE  /\ \A i \in 1 .. Len(h) : S[2 * i - 1].of.readable => h[i] = S[2 * i - 1].of /\ h[i] \in Messages
         /\ \A i \in 1 .. Len(h) : h[i] \in Messages =>
              \A w \in Before(sc, h[i]) : w \in A \/ \E e \in 1 .. i - 1 : h[e] = w /\ h[e] \in Messages
         /\ \A i \in 1 .. 2 * Len(h) : S[i].of.readable => \E e \in 1 .. Len(h) : h[e] = S[i].of /\ h[e] \in Messages
<1>1. PICK k \in Nat :
        /\ Len(S) = 2 * k
        /\ \A i \in 1 .. k : /\ IsFrame(S[2 * i - 1], S[2 * i])
                             /\ Before(sc, S[2 * i - 1].of) \subseteq A \cup Framed(S, i - 1)
  BY DEF FramesOK
<1> DEFINE n == Len(h)
<1>2. n \in Nat /\ n <= k
  BY <1>1
<1> HIDE DEF n
<1>3. ASSUME NEW i \in 1 .. n
      PROVE  /\ i \in 1 .. k /\ S[2 * i - 1] \in Cell /\ S[2 * i] \in Cell /\ S[2 * i - 1].of \in Messages
             /\ h[i] = Decode(S[2 * i - 1], S[2 * i]) /\ IsFrame(S[2 * i - 1], S[2 * i])
  <2>1. i \in 1 .. k /\ 2 * i - 1 \in 1 .. Len(S) /\ 2 * i \in 1 .. Len(S)
    BY <1>1, <1>2
  <2>2. S[2 * i - 1] \in Cell /\ S[2 * i] \in Cell
    <3> HIDE DEF Cell
    <3> QED
      BY <2>1
  <2>3. S[2 * i - 1].of \in Messages
    BY <2>2 DEF Cell
  <2> QED
    BY <1>1, <2>1, <2>2, <2>3 DEF n
<1>4. ASSUME NEW i \in 1 .. n, S[2 * i - 1].of.readable PROVE h[i] = S[2 * i - 1].of /\ h[i] \in Messages
  BY <1>3, <1>4, DecodeIs
<1>5. ASSUME NEW i \in 1 .. n, h[i] \in Messages PROVE h[i] = S[2 * i - 1].of
  <2>1. h[i] # Garbled
    BY <1>5, TransportAssumption
  <2> QED
    BY <1>3, <2>1, DecodeIs
<1>6. ASSUME NEW i \in 1 .. n, h[i] \in Messages, NEW w \in Before(sc, h[i]), w \notin A
      PROVE  \E e \in 1 .. i - 1 : h[e] = w /\ h[e] \in Messages
  <2>1. w \in Framed(S, i - 1) /\ w.readable
    BY <1>1, <1>3, <1>5, <1>6 DEF Before
  <2>2. PICK e \in 1 .. i - 1 : w = S[2 * e - 1].of
    BY <2>1 DEF Framed
  <2>3. e \in 1 .. n
    BY <1>2
  <2> QED
    BY <1>4, <2>1, <2>2, <2>3
<1>7. ASSUME NEW i \in 1 .. 2 * n, S[i].of.readable PROVE \E e \in 1 .. n : h[e] = S[i].of /\ h[e] \in Messages
  <2>1. i \in 1 .. Len(S) /\ \A x \in 1 .. k : IsFrame(S[2 * x - 1], S[2 * x])
    BY <1>1, <1>2
  <2>2. PICK e \in 1 .. k : S[i].of = S[2 * e - 1].of /\ i <= 2 * e /\ 2 * e <= i + 1
    BY <1>1, <2>1, CellOfFrame
  <2>3. e \in 1 .. n
    BY <1>2, <2>2
  <2> QED
    BY <1>4, <1>7, <2>2, <2>3
<1> QED
  BY <1>4, <1>5, <1>6, <1>7 DEF n

\* A batch is read from the connections to r.
LEMMA ReceiveKeepsWell ==
  ASSUME WireInv, NEW r \in Receivers, NEW g, NEW k, NEW B, Receive(r, g, k, B), Well(r)
  PROVE  Well(r)'
<1>1. /\ g \in [Links -> Seq(Read)] /\ k \in [Links -> Nat]
      /\ \A c \in LinksTo(r) : IsRead(link[c], link'[c], g[c], k[c])
      /\ \A c \in Links \ LinksTo(r) : link'[c] = link[c]
      /\ IsBatch(B, g, LinksTo(r), Messages) /\ B \in Seq(Messages)
      /\ UNCHANGED <<script, outbox, queue, alive, conn, up>> /\ Arrived(r)' = Arrived(r) \o B
  BY DEF Receive, Reading, IsBatch, clientSide
<1>2. \A c \in LinksTo(r) : c \in Links /\ link[c].to = r /\ link[c] \in Link
  BY DEF LinksTo, WireInv, WireOK
<1>3. \A c \in LinksTo(r) : ~link[c].cut /\ link[c].from \in Senders /\ conn[link[c].from][r] = c
                            /\ FramesOK(script, Stream(link[c]), Range(Arrived(r)))
  BY DEF Well
<1>4. ASSUME NEW c \in LinksTo(r)
      PROVE  /\ link'[c].from = link[c].from /\ link'[c].cut = link[c].cut /\ link'[c].to = r
             /\ g[c] \in Seq(Read) /\ 2 * Len(g[c]) <= Len(Stream(link[c])) /\ Len(g[c]) \in Nat
             /\ Len(Stream(link'[c])) = Len(Stream(link[c])) - 2 * Len(g[c])
             /\ \A i \in 1 .. Len(Stream(link'[c])) : Stream(link'[c])[i] = Stream(link[c])[2 * Len(g[c]) + i]
             /\ \A i \in 1 .. Len(g[c]) : g[c][i] = Decode(Stream(link[c])[2 * i - 1], Stream(link[c])[2 * i])
             /\ Stream(link[c]) \in Seq(Cell) /\ Len(Stream(link[c])) \in Nat
             /\ DOMAIN Stream(link[c]) = 1 .. Len(Stream(link[c]))
             /\ DOMAIN Stream(link'[c]) = 1 .. Len(Stream(link'[c]))
  <2> DEFINE S == Stream(link[c])
             N == Stream(link'[c])
  <2>1. IsRead(link[c], link'[c], g[c], k[c]) /\ ~link[c].cut
    BY <1>1, <1>3
  <2>2. S \in Seq(Cell) /\ Len(S) \in Nat /\ DOMAIN S = 1 .. Len(S)
    BY <1>2, StreamType
  <2>3. link'[c] \in Link
    BY <1>2 DEF Receive, WireOK
  <2>4. DOMAIN N = 1 .. Len(N)
    BY <2>3, StreamType
  <2>5. /\ link'[c].from = link[c].from /\ link'[c].cut = link[c].cut
        /\ g[c] \in Seq(Read) /\ k[c] \in 0 .. Len(S)
        /\ Len(N) = Len(S) - k[c]
        /\ \A i \in 1 .. Len(N) : N[i] = S[k[c] + i]
        /\ \A i \in 1 .. Len(g[c]) : g[c][i] = Decode(S[2 * i - 1], S[2 * i])
        /\ link'[c].to = link[c].to /\ k[c] = 2 * Len(g[c])
    BY <2>1 DEF IsRead
  <2> HIDE DEF S, N
  <2>6. Len(g[c]) \in Nat /\ 2 * Len(g[c]) <= Len(S)
    <3>1. g[c] \in Seq(Read) /\ k[c] \in 0 .. Len(S) /\ k[c] = 2 * Len(g[c])
      BY <2>5
    <3>2. Len(g[c]) \in Nat
      BY <3>1
    <3> QED
      BY <2>2, <3>1, <3>2
  <2> QED
    BY <1>2, <2>2, <2>4, <2>5, <2>6 DEF S, N
<1>5. LinksTo(r)' = LinksTo(r)
  BY <1>1, <1>2, <1>4 DEF LinksTo
<1>6. Arrived(r) \in Seq(Messages)
  <2>1. handed[r] \in Seq(Messages) /\ inbox[r] \in Seq(Messages)
    BY StepParts
  <2> QED
    BY <2>1, ConcatRange DEF Arrived
<1>7. \A x : x \in Range(Arrived(r)') <=> x \in Range(Arrived(r)) \/ x \in Range(B)
  BY <1>1, <1>6, ConcatRange
<1>8. ASSUME NEW c \in LinksTo(r)
      PROVE  /\ \A i \in 1 .. Len(g[c]) : Stream(link[c])[2 * i - 1].of.readable =>
                  g[c][i] = Stream(link[c])[2 * i - 1].of /\ g[c][i] \in Messages
             /\ \A i \in 1 .. Len(g[c]) : g[c][i] \in Messages =>
                  \A w \in Before(script, g[c][i]) : \/ w \in Range(Arrived(r))
                                                     \/ \E e \in 1 .. i - 1 : g[c][e] = w /\ g[c][e] \in Messages
             /\ \A i \in 1 .. 2 * Len(g[c]) : Stream(link[c])[i].of.readable =>
                  \E e \in 1 .. Len(g[c]) : g[c][e] = Stream(link[c])[i].of /\ g[c][e] \in Messages
  <2> DEFINE S == Stream(link[c])
             h == g[c]
             A == Range(Arrived(r))
  <2>1. /\ h \in Seq(Read) /\ 2 * Len(h) <= Len(S) /\ S \in Seq(Cell)
        /\ \A i \in 1 .. Len(h) : h[i] = Decode(S[2 * i - 1], S[2 * i])
        /\ FramesOK(script, S, A)
    BY <1>3, <1>4
  <2> HIDE DEF S, h, A
  <2>2. /\ \A i \in 1 .. Len(h) : S[2 * i - 1].of.readable => h[i] = S[2 * i - 1].of /\ h[i] \in Messages
        /\ \A i \in 1 .. Len(h) : h[i] \in Messages =>
             \A w \in Before(script, h[i]) : w \in A \/ \E e \in 1 .. i - 1 : h[e] = w /\ h[e] \in Messages
        /\ \A i \in 1 .. 2 * Len(h) : S[i].of.readable => \E e \in 1 .. Len(h) : h[e] = S[i].of /\ h[e] \in Messages
    BY <2>1, FramesRead
  <2> QED
    BY <2>2 DEF S, h, A
<1>9. \A c \in LinksTo(r) : \A j \in 1 .. Len(g[c]) : g[c][j] \in Messages => g[c][j] \in Range(B)
  <2> TAKE c \in LinksTo(r)
  <2> TAKE j \in 1 .. Len(g[c])
  <2> HAVE g[c][j] \in Messages
  <2>1. PICK q \in 1 .. Len(B) : B[q] = g[c][j]
    BY <1>1 DEF IsBatch
  <2>2. q \in DOMAIN B
    BY <1>1
  <2> QED
    BY <2>1, <2>2 DEF Range
<1>10. \A c \in LinksTo(r)' : FramesOK(script', Stream(link'[c]), Range(Arrived(r)'))
  <2> SUFFICES ASSUME NEW c \in LinksTo(r) PROVE FramesOK(script, Stream(link'[c]), Range(Arrived(r)'))
    BY <1>1, <1>5
  <2> DEFINE S == Stream(link[c])
             N == Stream(link'[c])
             A == Range(Arrived(r))
             D == Range(Arrived(r)')
             n == Len(g[c])
  <2>1. A \subseteq D
    BY <1>7
  <2>2. \A i \in 1 .. n : S[2 * i - 1].of.readable => S[2 * i - 1].of \in D
    <3> TAKE i \in 1 .. n
    <3> HAVE S[2 * i - 1].of.readable
    <3>1. g[c][i] = S[2 * i - 1].of /\ g[c][i] \in Messages
      BY <1>8
    <3> QED
      BY <1>7, <1>9, <3>1
  <2>3. /\ FramesOK(script, S, A) /\ n \in Nat /\ 2 * n <= Len(S) /\ Len(N) = Len(S) - 2 * n
        /\ \A i \in 1 .. Len(N) : N[i] = S[2 * n + i]
    BY <1>3, <1>4
  <2> HIDE DEF S, N, A, D, n
  <2>4. FramesOK(script, N, D)
    BY <2>1, <2>2, <2>3, FramesTaken
  <2> QED
    BY <2>4 DEF N, D
<1>11. InTurn(script', Arrived(r)')
  <2>1. ASSUME NEW q \in 1 .. Len(B) PROVE Before(script, B[q]) \subseteq Range(Arrived(r)) \cup {B[d] : d \in 1 .. q - 1}
    <3>1. PICK c \in LinksTo(r) : \E j \in 1 .. Len(g[c]) :
            B[q] = g[c][j] /\ \A e \in 1 .. j - 1 : g[c][e] \in Messages => \E d \in 1 .. q - 1 : B[d] = g[c][e]
      BY <1>1 DEF IsBatch
    <3>2. PICK j \in 1 .. Len(g[c]) :
            B[q] = g[c][j] /\ \A e \in 1 .. j - 1 : g[c][e] \in Messages => \E d \in 1 .. q - 1 : B[d] = g[c][e]
      BY <3>1
    <3>3. B[q] \in Messages
      BY <1>1
    <3>4. \A w \in Before(script, B[q]) : \/ w \in Range(Arrived(r))
                                          \/ \E e \in 1 .. j - 1 : g[c][e] = w /\ g[c][e] \in Messages
      <4>1. g[c][j] \in Messages
        BY <3>2, <3>3
      <4>2. \A w \in Before(script, g[c][j]) : \/ w \in Range(Arrived(r))
                                               \/ \E e \in 1 .. j - 1 : g[c][e] = w /\ g[c][e] \in Messages
        BY <1>8, <4>1
      <4> QED
        BY <3>2, <4>2
    <3> QED
      BY <3>2, <3>4
  <2>2. InTurn(script, Arrived(r))
    BY DEF Well
  <2>3. InTurn(script, Arrived(r) \o B)
    BY <1>1, <1>6, <2>1, <2>2, TurnGrows
  <2> QED
    BY <1>1, <2>3
<1>12. ASSUME NEW w \in OnItsWay(r), w.readable PROVE w \in OnItsWay(r)'
  <2>1. CASE w \in Range(Arrived(r))
    BY <1>7, <2>1 DEF OnItsWay
  <2>2. CASE w \in Messages /\ \E c \in LinksTo(r) : Holds(c, w)
    <3>1. PICK c \in LinksTo(r) : \E i \in DOMAIN Stream(link[c]) : Stream(link[c])[i].of = w
      BY <2>2 DEF Holds
    <3>2. PICK i \in DOMAIN Stream(link[c]) : Stream(link[c])[i].of = w
      BY <3>1
    <3> DEFINE S == Stream(link[c])
               N == Stream(link'[c])
               n == Len(g[c])
    <3>3. /\ i \in 1 .. Len(S) /\ Len(S) \in Nat /\ n \in Nat /\ Len(N) = Len(S) - 2 * n /\ DOMAIN N = 1 .. Len(N)
          /\ \A e \in 1 .. Len(N) : N[e] = S[2 * n + e]
      BY <1>4
    <3>4. CASE i \in 1 .. 2 * n
      <4>1. PICK e \in 1 .. n : g[c][e] = w /\ g[c][e] \in Messages
        BY <1>8, <1>12, <3>2, <3>4
      <4> QED
        BY <1>7, <1>9, <4>1 DEF OnItsWay
    <3>5. CASE i \notin 1 .. 2 * n
      <4> HIDE DEF S, N, n
      <4>1. i - 2 * n \in 1 .. Len(N) /\ 2 * n + (i - 2 * n) = i
        BY <3>3, <3>5
      <4>2. N[i - 2 * n] = S[i]
        BY <3>3, <4>1
      <4>3. \E e \in DOMAIN N : N[e].of = w
        BY <3>2, <3>3, <4>1, <4>2 DEF S
      <4>4. Holds(c, w)'
        BY <4>3 DEF Holds, N
      <4> QED
        BY <1>5, <2>2, <4>4 DEF OnItsWay
    <3> QED
      BY <3>4, <3>5
  <2> QED
    BY <2>1, <2>2 DEF OnItsWay
<1>13. r \in up' /\ \A c \in LinksTo(r)' : ~link'[c].cut /\ link'[c].from \in Senders /\ conn'[link'[c].from][r] = c
  <2>1. r \in up' /\ conn' = conn
    BY <1>1 DEF Well
  <2>2. \A c \in LinksTo(r) : link'[c].from = link[c].from /\ link'[c].cut = link[c].cut
    BY <1>4
  <2> QED
    BY <1>3, <1>5, <2>1, <2>2
<1>14. \A s \in Senders : conn'[s][r] # Nobody => link'[conn'[s][r]].to = r
  <2> TAKE s \in Senders
  <2> HAVE conn'[s][r] # Nobody
  <2>1. conn[s][r] \in Links /\ link[conn[s][r]].to = r /\ conn'[s][r] = conn[s][r]
    BY <1>1 DEF Well, WireInv, WireOK
  <2>2. conn[s][r] \in LinksTo(r)
    BY <2>1 DEF LinksTo
  <2> QED
    BY <1>4, <2>1, <2>2
<1>15. ASSUME NEW s \in Senders, alive'[s], NEW i \in 1 .. Count(s)', script[s][i].to = r, script[s][i].readable
       PROVE  script[s][i] \in Range(queue'[s]) \cup OnItsWay(r)'
  <2>1. Count(s)' = Count(s) /\ alive[s] /\ queue'[s] = queue[s]
    BY <1>1, <1>15 DEF Count
  <2>2. script[s][i] \in Range(queue[s]) \cup OnItsWay(r)
    BY <1>15, <2>1 DEF Well
  <2> QED
    BY <1>12, <1>15, <2>1, <2>2
<1> QED
  BY <1>1, <1>10, <1>11, <1>13, <1>14, <1>15 DEF Well

\* Steps of the receivers and of the network, as r sees those that are not its own.
LEMMA OthersKeepWell ==
  ASSUME WireInv, NEW r \in Receivers, Well(r), UNCHANGED clientSide, Arrived(r)' = Arrived(r), r \in up',
         \A c \in Links : link[c].to = r \/ link'[c].to = r => link'[c] = link[c]
  PROVE  Well(r)'
<1>1. script' = script /\ conn' = conn /\ queue' = queue /\ alive' = alive /\ \A s \in Senders : Count(s)' = Count(s)
  BY DEF clientSide, Count
<1>2. ASSUME NEW s \in Senders, alive'[s]
      PROVE  /\ alive[s]
             /\ \A k \in 1 .. Count(s)' : script[s][k].to = r =>
                  \/ script[s][k] \in Range(queue'[s])
                  \/ k \in 1 .. Count(s) /\ script[s][k] \notin Range(queue[s])
  BY <1>1, <1>2
<1>3. \A s \in Senders : conn'[s][r] = conn[s][r]
  BY <1>1
<1> QED
  BY <1>1, <1>2, <1>3, SameForReceiver

LEMMA StopKeepsWell ==
  ASSUME WireInv, NEW t \in Receivers, StopReceiver(t), UNCHANGED <<clientSide, handed>>,
         NEW r \in Receivers \ hurt', Well(r)
  PROVE  Well(r)'
<1>1. /\ up' = up \ {t} /\ inbox' = [inbox EXCEPT ![t] = <<>>] /\ hurt' = hurt \cup {t}
      /\ \A c \in Links : link[c].to # t => link'[c] = link[c]
      /\ \A c \in Links : link[c].to = t =>
           link'[c] = [link[c] EXCEPT !.to = Nobody, !.cut = TRUE, !.wire = <<>>, !.buffer = <<>>]
  BY DEF StopReceiver
<1>2. r # t /\ r # Nobody /\ r \in up' /\ inbox \in [Receivers -> Seq(Messages)]
  BY <1>1, TransportAssumption DEF Well, WireInv, WireOK
<1>3. Arrived(r)' = Arrived(r)
  <2>1. inbox'[r] = inbox[r] /\ handed' = handed
    BY <1>1, <1>2
  <2> QED
    BY <2>1 DEF Arrived
<1>4. ASSUME NEW c \in Links, link[c].to = t PROVE link'[c].to = Nobody
  <2>1. link[c] \in Link /\ link'[c] = [link[c] EXCEPT !.to = Nobody, !.cut = TRUE, !.wire = <<>>, !.buffer = <<>>]
    BY <1>1, <1>4 DEF WireInv, WireOK
  <2> QED
    BY <2>1 DEF Link
<1>5. \A c \in Links : link[c].to = r \/ link'[c].to = r => link'[c] = link[c]
  BY <1>1, <1>2, <1>4
<1> QED
  BY <1>2, <1>3, <1>5, OthersKeepWell

LEMMA PollKeepsWell ==
  ASSUME WireInv, NEW t \in Receivers, Poll(t), NEW r \in Receivers \ hurt', Well(r)
  PROVE  Well(r)'
<1>1. PICK arrived \in Arrivals(t) : GuestPoll(t, arrived) \/ HostRead(t, arrived)
  BY DEF Poll
<1>2. \/ StopReceiver(t) /\ UNCHANGED <<clientSide, handed>>
      \/ \E g, k, B : Receive(t, g, k, B)
  BY <1>1, GuestPollIs, HostReadIs
<1>3. CASE StopReceiver(t) /\ UNCHANGED <<clientSide, handed>>
  BY <1>3, StopKeepsWell
<1>4. CASE \E g, k, B : Receive(t, g, k, B)
  <2>1. PICK g, k, B : Receive(t, g, k, B)
    BY <1>4
  <2>2. CASE r = t
    BY <2>1, <2>2, ReceiveKeepsWell
  <2>3. CASE r # t
    <3>1. /\ UNCHANGED clientSide /\ up' = up /\ Arrived(r)' = Arrived(r)
          /\ \A c \in LinksTo(t) : link'[c].to = link[c].to \/ link'[c].to = Nobody
          /\ \A c \in Links \ LinksTo(t) : link'[c] = link[c]
      BY <2>1, <2>3 DEF Receive, Reading, IsRead
    <3>2. r # Nobody /\ r \in up'
      BY <3>1, TransportAssumption DEF Well
    <3>3. \A c \in Links : link[c].to = r \/ link'[c].to = r => link'[c] = link[c]
      BY <2>3, <3>1, <3>2 DEF LinksTo
    <3> QED
      BY <3>1, <3>2, <3>3, OthersKeepWell
  <2> QED
    BY <2>2, <2>3
<1> QED
  BY <1>2, <1>3, <1>4

LEMMA HostGetKeepsWell ==
  ASSUME WireInv, NEW t \in Receivers, HostGet(t), NEW r \in Receivers, Well(r)
  PROVE  Well(r)'
<1>1. UNCHANGED <<clientSide, link, up>> /\ Arrived(r)' = Arrived(r)
  BY HostGetIs
<1> QED
  BY <1>1, OthersKeepWell DEF Well

LEMMA StartKeepsWell ==
  ASSUME WireInv, NEW t \in Receivers, Start(t), NEW r \in Receivers, Well(r)
  PROVE  Well(r)'
<1>1. UNCHANGED <<clientSide, link, inbox, handed>> /\ up' = up \cup {t}
  BY DEF Start
<1>2. Arrived(r)' = Arrived(r)
  BY <1>1 DEF Arrived
<1> QED
  BY <1>1, <1>2, OthersKeepWell DEF Well

LEMMA BreakKeepsWell ==
  ASSUME WireInv, NEW c \in Links, Break(c), NEW r \in Receivers \ hurt', Well(r)
  PROVE  Well(r)'
<1>1. PICK n \in 0 .. Len(link[c].wire) : link' = [link EXCEPT ![c].cut = TRUE, ![c].wire = SubSeq(@, 1, n)]
  BY DEF Break
<1>2. UNCHANGED <<clientSide, serverSide>> /\ hurt' = hurt \cup {link[c].to} /\ link \in [Links -> Link]
  BY DEF Break, WireInv, WireOK
<1> DEFINE w   == SubSeq(link[c].wire, 1, n)
           new == [link[c] EXCEPT !.cut = TRUE, !.wire = w]
<1>3. link' = [link EXCEPT ![c] = new]
  BY <1>1, <1>2
<1>4. new.to = link[c].to
  <2> HIDE DEF w
  <2> QED
    BY <1>2 DEF Link
<1> HIDE DEF new
<1>5. \A d \in Links : link[d].to = r \/ link'[d].to = r => link'[d] = link[d]
  BY <1>2, <1>3, <1>4
<1>6. Arrived(r)' = Arrived(r) /\ r \in up'
  BY <1>2 DEF Arrived, serverSide, Well
<1> QED
  BY <1>2, <1>5, <1>6, OthersKeepWell

\* What happened to a receiver is remembered.
LEMMA HurtGrows ==
  ASSUME WireInv, [TransportNext]_transportVars
  PROVE  hurt \subseteq hurt'
<1>1. ASSUME NEW s \in Senders, GuestSend(s) \/ HostEnqueue(s) \/ HostWrite(s) PROVE hurt \subseteq hurt'
  BY <1>1, SenderStepIs DEF Sends
<1>2. ASSUME NEW r \in Receivers, Poll(r) PROVE hurt \subseteq hurt'
  <2>1. PICK arrived \in Arrivals(r) : GuestPoll(r, arrived) \/ HostRead(r, arrived)
    BY <1>2 DEF Poll
  <2>2. \/ StopReceiver(r) /\ UNCHANGED <<clientSide, handed>>
        \/ \E g, k, B : Receive(r, g, k, B)
    BY <2>1, GuestPollIs, HostReadIs
  <2> QED
    BY <2>2 DEF StopReceiver, Receive
<1>3. ASSUME NEW r \in Receivers, HostGet(r) \/ Stop(r) \/ Start(r) PROVE hurt \subseteq hurt'
  BY <1>3 DEF HostGet, Stop, StopReceiver, Start
<1>4. ASSUME NEW c \in Links, Break(c) PROVE hurt \subseteq hurt'
  BY <1>4 DEF Break
<1>5. CASE UNCHANGED transportVars
  BY <1>5 DEF transportVars
<1> QED
  BY <1>1, <1>2, <1>3, <1>4, <1>5 DEF TransportNext

\* What every step preserves at a receiver to which nothing happens: all that a message
\* has to come after is ahead of it (send_message_forget, get_messages).
THEOREM OrderInvariant == TransportSpec => []OrderInv
<1>1. ASSUME NEW wanted \in Scripts, TransportInit(wanted) PROVE OrderInv
  <2>1. WireInv
    BY <1>1, InitWire
  <2>2. /\ up = Receivers /\ outbox = script /\ script \in [Senders -> Seq(Messages)]
        /\ \A s \in Senders : \A r \in Receivers : conn[s][r] = Nobody
        /\ \A c \in Links : link[c] = NoLink
        /\ \A r \in Receivers : handed[r] = <<>> /\ inbox[r] = <<>>
    BY <1>1 DEF TransportInit, Scripts
  <2>3. ASSUME NEW r \in Receivers PROVE Well(r)
    <3>1. LinksTo(r) = {}
      BY <2>2, TransportAssumption DEF LinksTo, NoLink
    <3>2. <<>> \o <<>> = <<>> /\ DOMAIN <<>> = {}
      OBVIOUS
    <3>3. Arrived(r) = <<>> /\ InTurn(script, <<>>)
      BY <2>2, <3>2 DEF Arrived, InTurn
    <3>4. ASSUME NEW s \in Senders PROVE 1 .. Count(s) = {}
      <4>1. Len(script[s]) \in Nat
        BY <2>2
      <4> QED
        BY <2>2, <4>1 DEF Count
    <3> QED
      BY <2>2, <3>1, <3>3, <3>4 DEF Well
  <2> QED
    BY <2>1, <2>3 DEF OrderInv
<1>2. (\E wanted \in Scripts : TransportInit(wanted)) => OrderInv
  BY <1>1
<1>3. OrderInv /\ WireInv' /\ [TransportNext]_transportVars => OrderInv'
  <2> SUFFICES ASSUME OrderInv, WireInv', [TransportNext]_transportVars, NEW r \in Receivers, r \notin hurt'
               PROVE  Well(r)'
    BY DEF OrderInv
  <2>1. WireInv /\ Well(r) /\ r \in Receivers \ hurt'
    BY HurtGrows DEF OrderInv
  <2>2. ASSUME NEW s \in Senders, GuestSend(s) \/ HostEnqueue(s) \/ HostWrite(s) PROVE Well(r)'
    BY <2>1, <2>2, SenderKeepsWell
  <2>3. ASSUME NEW t \in Receivers, Poll(t) PROVE Well(r)'
    BY <2>1, <2>3, PollKeepsWell
  <2>4. ASSUME NEW t \in Receivers, HostGet(t) PROVE Well(r)'
    BY <2>1, <2>4, HostGetKeepsWell
  <2>5. ASSUME NEW t \in Receivers, Stop(t) PROVE Well(r)'
    BY <2>1, <2>5, StopKeepsWell DEF Stop
  <2>6. ASSUME NEW t \in Receivers, Start(t) PROVE Well(r)'
    BY <2>1, <2>6, StartKeepsWell
  <2>7. ASSUME NEW c \in Links, Break(c) PROVE Well(r)'
    BY <2>1, <2>7, BreakKeepsWell
  <2>8. CASE UNCHANGED transportVars
    <3>1. UNCHANGED <<clientSide, link, up, inbox, handed>>
      BY <2>8 DEF transportVars, serverSide
    <3>2. Arrived(r)' = Arrived(r) /\ r \in up'
      BY <2>1, <3>1 DEF Arrived, Well
    <3> QED
      BY <2>1, <3>1, <3>2, OthersKeepWell
  <2> QED
    BY <2>2, <2>3, <2>4, <2>5, <2>6, <2>7, <2>8 DEF TransportNext
<1> QED
  BY <1>2, <1>3, WireInvariant, PTL DEF TransportSpec

----------------------------------------------------------------------------
(* The order in which a runner gets the messages.                          *)

\* F goes up in rank and holds all of G that ranks below one it holds: it starts G.
LEMMA RankedPrefix ==
  ASSUME NEW F \in Seq(Messages), NEW G \in Seq(Messages), IsInjective(F),
         \A d, q \in 1 .. Len(G) : d < q => G[d].n < G[q].n,
         \A q \in 1 .. Len(F) : \E p \in 1 .. Len(G) : F[q] = G[p],
         \A q \in 1 .. Len(F), p \in 1 .. Len(G) : G[p].n < F[q].n => \E d \in 1 .. q - 1 : F[d] = G[p]
  PROVE  IsPrefix(F, G)
<1> DEFINE n == Len(F)
           T == {i \in 0 .. n : i <= Len(G) /\ \A j \in 1 .. i : F[j] = G[j]}
<1>1. n \in Nat /\ Len(G) \in Nat /\ DOMAIN F = 1 .. n
  OBVIOUS
<1>2. \A i \in 1 .. Len(G) : G[i].n \in Int
  <2>1. \A i \in 1 .. Len(G) : G[i] \in Messages
    OBVIOUS
  <2> QED
    BY <2>1 DEF Messages
<1>3. 0 \in T
  BY <1>1
<1>4. ASSUME NEW i \in 1 .. n, i - 1 \in T PROVE i \in T
  <2>1. i - 1 <= Len(G) /\ \A j \in 1 .. i - 1 : F[j] = G[j] /\ j \in 1 .. n /\ j \in 1 .. Len(G)
    BY <1>1, <1>4
  <2>2. PICK p \in 1 .. Len(G) : F[i] = G[p]
    BY <1>1
  <2>3. p \notin 1 .. i - 1
    <3> SUFFICES ASSUME p \in 1 .. i - 1 PROVE FALSE
      OBVIOUS
    <3>1. F[p] = F[i] /\ p \in DOMAIN F /\ i \in DOMAIN F /\ p # i
      BY <1>1, <2>1, <2>2
    <3> QED
      BY <3>1 DEF IsInjective
  <2>4. ~(p > i)
    <3> SUFFICES ASSUME p > i PROVE FALSE
      OBVIOUS
    <3>1. i \in 1 .. Len(G) /\ i < p
      BY <1>1
    <3>2. G[i].n < F[i].n
      BY <2>2, <3>1
    <3>3. PICK d \in 1 .. i - 1 : F[d] = G[i]
      BY <1>1, <3>1, <3>2
    <3>4. G[d] = G[i] /\ d \in 1 .. Len(G) /\ d < i
      BY <1>1, <2>1, <3>3
    <3>5. G[d].n < G[i].n
      BY <3>1, <3>4
    <3> QED
      BY <1>2, <3>1, <3>4, <3>5
  <2>5. p = i
    BY <1>1, <2>3, <2>4
  <2>6. \A j \in 1 .. i : j \in 1 .. i - 1 \/ j = i
    BY <1>1
  <2>7. \A j \in 1 .. i : F[j] = G[j]
    BY <2>1, <2>2, <2>5, <2>6
  <2> QED
    BY <1>1, <2>2, <2>5, <2>7
<1> HIDE DEF T
<1>5. \A i \in 0 .. n : i \in T
  BY <1>1, <1>3, <1>4, Induction
<1>6. n <= Len(G) /\ \A j \in 1 .. n : F[j] = G[j]
  <2>1. n \in T
    BY <1>1, <1>5
  <2> QED
    BY <2>1 DEF T
<1>7. SubSeq(F, 1, n) = F
  BY SubSeqFull
<1>8. SubSeq(G, 1, n) = F
  <2>1. n \in 0 .. Len(G)
    BY <1>1, <1>6
  <2> DEFINE H == SubSeq(G, 1, n)
  <2>2. H \in Seq(Messages) /\ Len(H) = n /\ \A i \in 1 .. n : H[i] = G[i]
    BY <2>1, CutAndJoined
  <2> HIDE DEF H
  <2>3. H = F
    BY <1>6, <2>2, SeqEqual
  <2> QED
    BY <2>3 DEF H
<1> QED
  BY <1>6, <1>7, <1>8 DEF IsPrefix, n

LEMMA WellInOrder ==
  ASSUME WireInv, NEW s \in Senders, NEW r \in Receivers, Well(r)
  PROVE  IsPrefix(From(s, handed[r]), Sent(s, r))
<1> DEFINE T == {m \in Messages : m.from = s}
           U == {m \in Messages : m.to = r /\ m.readable}
           h == handed[r]
           H == HandedOver(s)
           F == From(s, h)
           G == Sent(s, r)
<1>1. h \in Seq(Messages) /\ inbox[r] \in Seq(Messages)
  BY StepParts
<1>2. /\ script[s] \in Seq(Messages) /\ outbox[s] \in Seq(Messages) /\ Len(outbox[s]) <= Len(script[s])
      /\ \A i \in DOMAIN script[s] : script[s][i].from = s /\ script[s][i].n = i
  BY DEF WireInv, WireOK, Scripts, OutboxOK
<1>3. /\ H \in Seq(Messages) /\ Len(H) = Count(s) /\ Count(s) \in Nat
      /\ \A i \in 1 .. Count(s) : H[i] = script[s][i] /\ H[i].from = s /\ H[i].n = i
  <2>1. Len(script[s]) \in Nat /\ Len(outbox[s]) \in Nat /\ DOMAIN script[s] = 1 .. Len(script[s])
    BY <1>2
  <2>2. \A a, b \in Nat : b <= a => a - b \in 0 .. a
    OBVIOUS
  <2>3. Count(s) \in 0 .. Len(script[s]) /\ H = SubSeq(script[s], 1, Count(s))
    BY <1>2, <2>1, <2>2 DEF Count, HandedOver
  <2> HIDE DEF H
  <2>4. H \in Seq(Messages) /\ Len(H) = Count(s) /\ \A i \in 1 .. Count(s) : H[i] = script[s][i]
    BY <1>2, <2>3, CutAndJoined
  <2>5. \A i \in 1 .. Count(s) : i \in DOMAIN script[s]
    BY <2>1, <2>3
  <2> QED
    BY <1>2, <2>1, <2>3, <2>4, <2>5
<1>4. IsOnly(F, T, h, Len(h), Messages)
  BY <1>1, OnlyIs DEF From
<1>5. IsOnly(G, U, H, Len(H), Messages)
  <2> HIDE DEF H
  <2>1. IsOnly(Only(U, H), U, H, Len(H), Messages)
    BY <1>3, OnlyIs
  <2>2. G = Only(U, H)
    BY DEF Sent, H
  <2> QED
    BY <2>1, <2>2
<1>6. /\ \A i \in 1 .. Len(h) : i \in DOMAIN Arrived(r) /\ Arrived(r)[i] = h[i]
      /\ \A i, j \in 1 .. Len(h) : h[i] = h[j] => i = j
      /\ \A i \in 1 .. Len(h) : h[i] \in Messages /\ Left(h[i]) /\ h[i].to = r /\ h[i].readable
      /\ \A i \in 1 .. Len(h) : Before(script, h[i]) \subseteq {h[j] : j \in 1 .. i - 1}
  <2>1. \A i \in 1 .. Len(h) : i \in DOMAIN Arrived(r) /\ Arrived(r)[i] = h[i]
    <3>1. \A i \in DOMAIN h : i \in DOMAIN Arrived(r) /\ h[i] = Arrived(r)[i]
      BY <1>1, StartOfConcat DEF Arrived
    <3>2. DOMAIN h = 1 .. Len(h)
      BY <1>1
    <3> QED
      BY <3>1, <3>2
  <2>2. IsInjective(Arrived(r)) /\ \A m \in Range(Arrived(r)) : Written(m) /\ m.to = r /\ m.readable
    BY DEF WireInv, ArrivedOK
  <2>3. \A i, j \in 1 .. Len(h) : h[i] = h[j] => i = j
    BY <2>1, <2>2 DEF IsInjective
  <2>4. \A i \in 1 .. Len(h) : h[i] \in Range(Arrived(r)) /\ h[i] \in Messages
    BY <1>1, <2>1 DEF Range
  <2>5. \A i \in 1 .. Len(h) : Left(h[i]) /\ h[i].to = r /\ h[i].readable
    BY <2>2, <2>4 DEF Written
  <2>6. ASSUME NEW i \in 1 .. Len(h) PROVE Before(script, h[i]) \subseteq {h[j] : j \in 1 .. i - 1}
    <3>1. Before(script, Arrived(r)[i]) \subseteq {Arrived(r)[j] : j \in 1 .. i - 1}
      BY <2>1 DEF Well, InTurn
    <3>2. \A j \in 1 .. i - 1 : j \in 1 .. Len(h)
      BY <1>1
    <3>3. \A j \in 1 .. i - 1 : Arrived(r)[j] = h[j]
      BY <2>1, <3>2
    <3> QED
      BY <2>1, <3>1, <3>3
  <2> QED
    BY <2>1, <2>3, <2>4, <2>5, <2>6
<1> HIDE DEF h, H, F, G
<1>7. F \in Seq(Messages) /\ G \in Seq(Messages) /\ Len(F) \in Nat /\ Len(G) \in Nat /\ Len(h) \in Nat /\ DOMAIN F = 1 .. Len(F)
  BY <1>1, <1>4, <1>5 DEF IsOnly
<1>8. IsInjective(F)
  <2> SUFFICES ASSUME NEW q \in 1 .. Len(F), NEW d \in 1 .. Len(F), d < q PROVE F[d] # F[q]
    BY <1>7 DEF IsInjective
  <2>1. PICK i \in 1 .. Len(h), e \in 1 .. Len(h) : e < i /\ F[d] = h[e] /\ F[q] = h[i]
    BY <1>4 DEF IsOnly
  <2> QED
    BY <1>6, <2>1
<1>9. \A d, q \in 1 .. Len(G) : d < q => G[d].n < G[q].n
  <2> TAKE d, q \in 1 .. Len(G)
  <2> HAVE d < q
  <2>1. PICK i \in 1 .. Len(H), e \in 1 .. Len(H) : e < i /\ G[d] = H[e] /\ G[q] = H[i]
    BY <1>5 DEF IsOnly
  <2> QED
    BY <1>3, <2>1
<1>10. \A q \in 1 .. Len(F) : \E p \in 1 .. Len(G) : F[q] = G[p]
  <2> TAKE q \in 1 .. Len(F)
  <2>1. PICK i \in 1 .. Len(h) : F[q] = h[i]
    BY <1>4 DEF IsOnly
  <2>2. F[q] \in T
    BY <1>4 DEF IsOnly
  <2>3. F[q].from = s /\ F[q].n \in 1 .. Count(s) /\ script[s][F[q].n] = F[q] /\ F[q] \in U
    BY <1>6, <2>1, <2>2 DEF Left
  <2>4. H[F[q].n] = F[q] /\ F[q].n \in 1 .. Len(H)
    BY <1>3, <2>3
  <2> QED
    BY <1>5, <2>3, <2>4 DEF IsOnly
<1>11. \A q \in 1 .. Len(F), p \in 1 .. Len(G) : G[p].n < F[q].n => \E d \in 1 .. q - 1 : F[d] = G[p]
  <2> TAKE q \in 1 .. Len(F), p \in 1 .. Len(G)
  <2> HAVE G[p].n < F[q].n
  <2>1. PICK i \in 1 .. Len(h) :
          F[q] = h[i] /\ \A e \in 1 .. i - 1 : h[e] \in T => \E d \in 1 .. q - 1 : F[d] = h[e]
    BY <1>4 DEF IsOnly
  <2>2. PICK x \in 1 .. Len(H) : G[p] = H[x]
    BY <1>5 DEF IsOnly
  <2>3. G[p] \in U /\ F[q] \in T
    BY <1>4, <1>5 DEF IsOnly
  <2>4. G[p].from = s /\ G[p] = script[s][x] /\ x \in DOMAIN script[s]
    <3>1. x \in 1 .. Count(s)
      BY <1>3
    <3>2. Count(s) <= Len(script[s])
      <4>1. Len(script[s]) \in Nat /\ Len(outbox[s]) \in Nat
        BY <1>2
      <4>2. \A a, b \in Nat : a - b <= a
        OBVIOUS
      <4> QED
        BY <4>1, <4>2 DEF Count
    <3>3. DOMAIN script[s] = 1 .. Len(script[s]) /\ Len(script[s]) \in Nat
      BY <1>2
    <3> QED
      BY <1>3, <2>2, <3>1, <3>2, <3>3
  <2>5. G[p] \in Before(script, F[q])
    <3>1. G[p] \in Range(script[s])
      BY <2>4 DEF Range
    <3>2. F[q].to = r
      BY <1>6, <2>1
    <3> QED
      BY <2>3, <3>1, <3>2 DEF Before
  <2>6. PICK e \in 1 .. i - 1 : h[e] = G[p]
    <3>1. Before(script, h[i]) \subseteq {h[j] : j \in 1 .. i - 1}
      BY <1>6
    <3>2. G[p] \in Before(script, h[i])
      BY <2>1, <2>5
    <3> QED
      BY <3>1, <3>2
  <2>7. h[e] \in T
    BY <2>3, <2>4, <2>6
  <2> QED
    BY <2>1, <2>6, <2>7
<1>12. IsPrefix(F, G)
  BY <1>7, <1>8, <1>9, <1>10, <1>11, RankedPrefix
<1> QED
  BY <1>12 DEF F, G, h

\* While nothing has happened to a node, its runner gets what another one sends it in
\* order, without gaps or repetitions, across polls that stop at max, frames that arrive
\* in pieces and reads that hold several (get_messages, send_message_forget).
THEOREM InOrderHolds == TransportSpec => []InOrder
<1>1. OrderInv => InOrder
  BY WellInOrder DEF OrderInv, InOrder
<1> QED
  BY <1>1, OrderInvariant, PTL
=============================================================================
