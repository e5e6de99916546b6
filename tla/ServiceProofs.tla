---------------------------- MODULE ServiceProofs ---------------------------
(***************************************************************************)
(* What the services around the protocol keep, for any number of nodes,    *)
(* slots, clients and requests: the election of a leader, the storage of   *)
(* an acceptor and of a learner, the leader's end of its connections.      *)
(***************************************************************************)
EXTENDS LeaderElection, AcceptorStorage, LearnerStorage, ClientSessions,
        LoopProofs, FiniteSetTheorems

----------------------------------------------------------------------------
(* The election.                                                           *)

Leaders == {Highest(S) : S \in SUBSET Candidates}
DetectorState == [state : [Nodes -> States], suspected : SUBSET Candidates, last : Leaders]
PassState == [state : [Nodes -> States], suspected : SUBSET Candidates, last : Leaders, new : Leaders]

\* The leader detector suspects the proposers that the failure detector holds dead, and
\* has the leader that follows.
SuspectsDead(d) == d.suspected = {c \in Candidates : d.state[c] = "Dead"}
InStep(d) == SuspectsDead(d) /\ d.last = Highest(Candidates \ d.suspected)

\* What a pass reports is its last leader; if it reports none, that is the one before
\* the pass, or there is none.
Reports(pass, before) == pass.last # None =>
  IF pass.new = None THEN pass.last = before ELSE pass.new = pass.last
Passes(before) == {pass \in PassState : InStep(pass) /\ Reports(pass, before)}

ElectionInv == /\ detector \in [Candidates -> DetectorState]
               /\ isLeader \in [Candidates -> BOOLEAN]
               /\ \A p \in Candidates : InStep(detector[p])
               /\ FlagFollowsDetector

\* The leader detector's recomputation (recompute_leader) brings it in step.
LEMMA ElectedKeeps ==
  ASSUME NEW before, NEW pass \in PassState, SuspectsDead(pass), Reports(pass, before)
  PROVE  Elected(pass) \in Passes(before)
<1> DEFINE leader == Highest(Candidates \ pass.suspected)
<1>1. leader \in Leaders
  BY DEF Leaders
<1> HIDE DEF leader
<1>2. CASE leader = pass.last
  BY <1>2 DEF Elected, Passes, InStep, leader
<1>3. CASE leader # pass.last
  <2> DEFINE new == IF leader = None THEN pass.new ELSE leader
  <2>1. new \in Leaders
    BY <1>1 DEF PassState
  <2>2. Elected(pass) = [[pass EXCEPT !.last = leader] EXCEPT !.new = new]
    BY <1>3 DEF Elected, leader, PassState
  <2>3. /\ Elected(pass) \in PassState
        /\ Elected(pass).last = leader /\ Elected(pass).new = new
        /\ Elected(pass).state = pass.state /\ Elected(pass).suspected = pass.suspected
    BY <1>1, <2>1, <2>2 DEF PassState
  <2> QED
    BY <2>3 DEF Passes, InStep, SuspectsDead, Reports, leader
<1> QED
  BY <1>2, <1>3

\* Checking a node (checker, suspect, restore) keeps the two detectors in step.
LEMMA CheckNodeKeeps ==
  ASSUME NEW before, NEW pass \in Passes(before), NEW n \in Nodes, NEW alive \in BOOLEAN
  PROVE  CheckNode(pass, n, alive) \in Passes(before)
<1> DEFINE marked(s) == [pass EXCEPT !.state[n] = s]
           suspecting(s) == [marked("Dead") EXCEPT !.suspected = s]
           restoring(s) == [marked("Alive") EXCEPT !.suspected = s]
<1>1. pass \in PassState /\ InStep(pass) /\ Reports(pass, before)
  BY DEF Passes
<1>2. \A s \in States : /\ marked(s) \in PassState
                        /\ marked(s).suspected = pass.suspected /\ marked(s).last = pass.last /\ marked(s).new = pass.new
                        /\ marked(s).state = [pass.state EXCEPT ![n] = s]
  BY <1>1 DEF PassState
<1>3. ASSUME NEW s \in States, n \in Candidates => (s = "Dead" <=> pass.state[n] = "Dead")
      PROVE  marked(s) \in Passes(before)
  <2> DEFINE m == marked(s)
  <2>1. /\ m \in PassState /\ m.suspected = pass.suspected /\ m.last = pass.last /\ m.new = pass.new
        /\ m.state = [pass.state EXCEPT ![n] = s]
    BY <1>2
  <2> HIDE DEF m
  <2>2. \A c \in Candidates : m.state[c] = "Dead" <=> pass.state[c] = "Dead"
    BY <1>1, <1>3, <2>1, CandidatesAssumption DEF PassState
  <2>3. InStep(m)
    BY <1>1, <2>1, <2>2 DEF InStep, SuspectsDead
  <2>4. Reports(m, before)
    BY <1>1, <2>1 DEF Reports
  <2> QED
    BY <2>1, <2>3, <2>4 DEF Passes, m
<1>4. pass.state[n] \in States /\ "Alive" \in States /\ "Dead" \in States /\ "Suspected" \in States
  BY <1>1 DEF PassState, States
<1>5. ASSUME n \in Candidates
      PROVE  /\ Elected([marked("Dead") EXCEPT !.suspected = @ \cup {n}]) \in Passes(before)
             /\ Elected([marked("Alive") EXCEPT !.suspected = @ \ {n}]) \in Passes(before)
  <2> DEFINE d == [marked("Dead") EXCEPT !.suspected = @ \cup {n}]
             a == [marked("Alive") EXCEPT !.suspected = @ \ {n}]
  <2>1. /\ d \in PassState /\ d.suspected = pass.suspected \cup {n} /\ d.state = [pass.state EXCEPT ![n] = "Dead"]
        /\ d.last = pass.last /\ d.new = pass.new
    <3> HIDE DEF marked
    <3> QED
      BY <1>2, <1>4, <1>5 DEF PassState
  <2>2. /\ a \in PassState /\ a.suspected = pass.suspected \ {n} /\ a.state = [pass.state EXCEPT ![n] = "Alive"]
        /\ a.last = pass.last /\ a.new = pass.new
    <3> HIDE DEF marked
    <3> QED
      BY <1>2, <1>4, <1>5 DEF PassState
  <2> HIDE DEF d, a
  <2>3. SuspectsDead(d) /\ Reports(d, before)
    BY <1>1, <1>5, <2>1 DEF InStep, SuspectsDead, Reports, PassState
  <2>4. SuspectsDead(a) /\ Reports(a, before)
    BY <1>1, <1>5, <2>2 DEF InStep, SuspectsDead, Reports, PassState
  <2> QED
    BY <2>1, <2>2, <2>3, <2>4, ElectedKeeps DEF d, a
<1>6. n \notin Candidates => marked("Alive") \in Passes(before) /\ marked("Dead") \in Passes(before)
  BY <1>3, <1>4
<1>7. pass.state[n] = "Alive" => marked("Suspected") \in Passes(before)
  BY <1>3, <1>4
<1>8. CASE alive /\ pass.state[n] = "Alive"
  BY <1>8 DEF CheckNode
<1>9. CASE alive /\ pass.state[n] # "Alive"
  BY <1>5, <1>6, <1>9 DEF CheckNode, Restore
<1>10. CASE ~alive /\ pass.state[n] = "Alive"
  BY <1>7, <1>10 DEF CheckNode
<1>11. CASE ~alive /\ pass.state[n] = "Suspected"
  BY <1>5, <1>6, <1>11 DEF CheckNode, Suspect
<1>12. CASE ~alive /\ pass.state[n] = "Dead"
  BY <1>12 DEF CheckNode
<1> QED
  BY <1>4, <1>8, <1>9, <1>10, <1>11, <1>12 DEF States

\* A whole pass (failure-detector.rs checker) keeps them in step, in whichever order it
\* looks at the nodes.
LEMMA CheckedKeeps ==
  ASSUME ElectionInv, NEW p \in Candidates, NEW order \in CheckOrders(p)
  PROVE  Checked(p, order) \in Passes(detector[p].last)
<1> DEFINE n == Cardinality(Nodes)
           S == Passes(detector[p].last)
           first == [state |-> detector[p].state, suspected |-> detector[p].suspected,
                     last |-> detector[p].last, new |-> None]
           pass[i \in 0 .. n] ==
             IF i = 0 THEN first ELSE CheckNode(pass[i - 1], order[i], order[i] \in seen[p])
           step == [i \in 1 .. n |-> [s \in S |-> CheckNode(s, order[i], order[i] \in seen[p])]]
           Is(f) == f = [i \in 0 .. n |-> IF i = 0 THEN first ELSE CheckNode(f[i - 1], order[i], order[i] \in seen[p])]
<1>1. n \in Nat /\ \A i \in 1 .. n : order[i] \in Nodes
  BY NodesAssumption, FS_CardinalityType DEF CheckOrders
<1>2. first \in S
  <2>1. None \in Leaders
    BY DEF Leaders, Highest
  <2>2. first \in PassState /\ first.new = None /\ first.last = detector[p].last
        /\ first.state = detector[p].state /\ first.suspected = detector[p].suspected
    BY <2>1 DEF ElectionInv, DetectorState, PassState
  <2> HIDE DEF first
  <2> QED
    BY <2>2 DEF Passes, ElectionInv, InStep, SuspectsDead, Reports
<1>3. Checked(p, order) = pass[n]
  BY DEF Checked
<1>4. \A i \in 1 .. n, s \in S : CheckNode(s, order[i], order[i] \in seen[p]) \in S
  <2> TAKE i \in 1 .. n, s \in S
  <2>1. (order[i] \in seen[p]) \in BOOLEAN
    OBVIOUS
  <2>2. order[i] \in Nodes
    BY <1>1
  <2> QED
    BY <2>1, <2>2, CheckNodeKeeps
<1> HIDE DEF S, first, n
<1>5. step \in [1 .. n -> [S -> S]]
  BY <1>4
<1>6. \E f : Is(f)
  <2>1. \A i \in 1 .. n, s \in S : step[i][s] = CheckNode(s, order[i], order[i] \in seen[p])
    OBVIOUS
  <2> HIDE DEF step
  <2>2. n \in Nat /\ KeepsTo(S, n, step)
    BY <1>1, <1>5 DEF KeepsTo
  <2>3. PICK f : IsRun(f, S, first, n, step)
    BY <1>2, <2>2, LoopRuns
  <2>4. ASSUME NEW i \in 1 .. n
        PROVE  f[i] = CheckNode(f[i - 1], order[i], order[i] \in seen[p])
    <3>1. i - 1 \in 0 .. n /\ f[i - 1] \in S
      BY <1>1, <2>3 DEF IsRun
    <3>2. step[i][f[i - 1]] = CheckNode(f[i - 1], order[i], order[i] \in seen[p])
      BY <2>1, <3>1
    <3> QED
      BY <2>3, <3>2 DEF IsRun
  <2>5. \A i \in 0 .. n : f[i] = IF i = 0 THEN first ELSE CheckNode(f[i - 1], order[i], order[i] \in seen[p])
    BY <1>1, <2>3, <2>4 DEF IsRun
  <2> QED
    BY <2>3, <2>5 DEF IsRun
<1>7. pass = CHOOSE f : Is(f)
  OBVIOUS
<1> HIDE DEF pass
<1>8. Is(pass)
  <2> HIDE DEF Is
  <2> QED
    BY <1>6, <1>7
<1> DEFINE T == {i \in 0 .. n : pass[i] \in S}
<1>9. 0 \in T
  BY <1>1, <1>2, <1>8
<1>10. ASSUME NEW i \in 1 .. n, i - 1 \in T PROVE i \in T
  BY <1>1, <1>4, <1>8, <1>10
<1>11. n \in T
  <2> HIDE DEF T
  <2> QED
    BY <1>1, <1>9, <1>10, Induction
<1> QED
  BY <1>3, <1>11 DEF S

\* A fresh process (failure-detector.rs new, leader-detector.rs new) is in step, and leads
\* exactly if it is the highest proposer.
LEMMA NewIsInStep ==
  ASSUME NEW p \in Candidates
  PROVE  /\ NewDetector \in DetectorState /\ InStep(NewDetector)
         /\ StartedAsLeader(p) \in BOOLEAN /\ (StartedAsLeader(p) <=> NewDetector.last = p)
<1>1. [n \in Nodes |-> "Alive"] \in [Nodes -> States]
  BY DEF States
<1>2. Highest(Candidates) \in Leaders /\ Candidates \ {} = Candidates
  BY DEF Leaders
<1>3. Highest(Candidates) = Max(Candidates)
  BY CandidatesAssumption DEF Highest
<1>4. NewDetector \in DetectorState /\ NewDetector.last = Highest(Candidates)
  BY <1>1, <1>2 DEF NewDetector, DetectorState
<1>5. InStep(NewDetector)
  <2>1. \A c \in Candidates : [n \in Nodes |-> "Alive"][c] # "Dead"
    BY CandidatesAssumption
  <2>2. NewDetector.suspected = {} /\ \A c \in Candidates : NewDetector.state[c] # "Dead"
    BY <2>1 DEF NewDetector
  <2> QED
    BY <1>2, <1>4, <2>2 DEF InStep, SuspectsDead
<1> QED
  BY <1>3, <1>4, <1>5 DEF StartedAsLeader

\* The detectors of a proposer stay in step, and the proposer's flag follows them, however
\* many nodes die or come back in one pass and whatever heartbeats are lost
\* (failure-detector.rs checker, leader-detector.rs recompute_leader, coordinator.rs
\* failure_service).
THEOREM ElectionInvariant == Spec => []ElectionInv
<1>1. Init => ElectionInv
  <2> SUFFICES ASSUME Init PROVE ElectionInv
    OBVIOUS
  <2>1. \A p \in Candidates : detector[p] = NewDetector /\ isLeader[p] = StartedAsLeader(p)
    BY DEF Init
  <2>2. detector \in [Candidates -> DetectorState] /\ isLeader \in [Candidates -> BOOLEAN]
    BY NewIsInStep DEF Init
  <2> QED
    BY <2>1, <2>2, NewIsInStep DEF ElectionInv, FlagFollowsDetector
<1>2. ASSUME ElectionInv, [Next]_vars PROVE ElectionInv'
  <2>1. CASE detector' = detector /\ isLeader' = isLeader
    BY <1>2, <2>1 DEF ElectionInv, InStep, SuspectsDead, FlagFollowsDetector
  <2>2. ASSUME NEW p \in Candidates, Check(p) PROVE ElectionInv'
    <3>1. PICK pass \in {Checked(p, order) : order \in CheckOrders(p)} :
            /\ detector' = [detector EXCEPT ![p] =
                 [state |-> pass.state, suspected |-> pass.suspected, last |-> pass.last]]
            /\ isLeader' = [isLeader EXCEPT ![p] = IF pass.new = None THEN isLeader[p] ELSE pass.new = p]
      BY <1>2, <2>2 DEF Check, ElectionInv
    <3>2. pass \in Passes(detector[p].last)
      BY <1>2, CheckedKeeps
    <3> DEFINE d == [state |-> pass.state, suspected |-> pass.suspected, last |-> pass.last]
               flag == IF pass.new = None THEN isLeader[p] ELSE pass.new = p
    <3>3. detector' = [detector EXCEPT ![p] = d] /\ isLeader' = [isLeader EXCEPT ![p] = flag]
      BY <3>1, <3>2
    <3>4. pass \in PassState /\ InStep(pass) /\ Reports(pass, detector[p].last)
      BY <3>2 DEF Passes
    <3>5. d \in DetectorState /\ d.state = pass.state /\ d.suspected = pass.suspected /\ d.last = pass.last
      BY <3>4 DEF PassState, DetectorState
    <3>6. flag \in BOOLEAN
      BY <1>2 DEF ElectionInv
    <3>7. pass.last # None => (flag <=> pass.last = p)
      <4>1. isLeader[p] \in BOOLEAN /\ (detector[p].last # None => (isLeader[p] <=> detector[p].last = p))
        BY <1>2 DEF ElectionInv, FlagFollowsDetector
      <4>2. CASE pass.new = None
        BY <3>4, <4>1, <4>2 DEF Reports
      <4>3. CASE pass.new # None
        BY <3>4, <4>3 DEF Reports
      <4> QED
        BY <4>2, <4>3
    <3> HIDE DEF d, flag
    <3>8. InStep(d)
      BY <3>4, <3>5 DEF InStep, SuspectsDead
    <3>9. /\ detector' \in [Candidates -> DetectorState] /\ isLeader' \in [Candidates -> BOOLEAN]
          /\ detector'[p] = d /\ isLeader'[p] = flag
          /\ \A q \in Candidates \ {p} : detector'[q] = detector[q] /\ isLeader'[q] = isLeader[q]
      BY <1>2, <3>3, <3>5, <3>6 DEF ElectionInv
    <3>10. \A q \in Candidates : InStep(detector'[q])
      BY <1>2, <3>8, <3>9 DEF ElectionInv
    <3>11. FlagFollowsDetector'
      BY <1>2, <3>5, <3>7, <3>9 DEF ElectionInv, FlagFollowsDetector
    <3> QED
      BY <3>9, <3>10, <3>11 DEF ElectionInv
  <2>3. ASSUME NEW n \in MayCrash, Restart(n) PROVE ElectionInv'
    <3>1. \A p \in Candidates : /\ detector'[p] = IF p = n THEN NewDetector ELSE detector[p]
                                /\ isLeader'[p] = IF p = n THEN StartedAsLeader(p) ELSE isLeader[p]
      BY <2>3 DEF Restart
    <3>2. \A p \in Candidates : /\ detector'[p] \in DetectorState /\ isLeader'[p] \in BOOLEAN
                                /\ InStep(detector'[p])
                                /\ detector'[p].last # None => (isLeader'[p] <=> detector'[p].last = p)
      BY <1>2, <3>1, NewIsInStep DEF ElectionInv, FlagFollowsDetector
    <3>3. detector' = [p \in Candidates |-> detector'[p]] /\ isLeader' = [p \in Candidates |-> isLeader'[p]]
      BY <2>3 DEF Restart
    <3> QED
      BY <3>2, <3>3 DEF ElectionInv, FlagFollowsDetector
  <2>4. [Next]_vars => \/ detector' = detector /\ isLeader' = isLeader
                       \/ \E p \in Candidates : Check(p)
                       \/ \E n \in MayCrash : Restart(n)
    BY DEF Next, vars, Heartbeat, Crash, BecomeTimely
  <2> QED
    BY <1>2, <2>1, <2>2, <2>3, <2>4
<1> QED
  BY <1>1, <1>2, PTL DEF Spec

\* The leader detector's leader is the highest proposer that the failure detector does not
\* hold dead (leader-detector.rs recompute_leader).
THEOREM LeaderIsHighestAliveHolds == Spec => []LeaderIsHighestAlive
<1>1. ElectionInv => LeaderIsHighestAlive
  <2> SUFFICES ASSUME ElectionInv, NEW p \in Candidates
               PROVE  detector[p].last = Highest({c \in Candidates : detector[p].state[c] # "Dead"})
    BY DEF LeaderIsHighestAlive
  <2>1. Candidates \ detector[p].suspected = {c \in Candidates : detector[p].state[c] # "Dead"}
    BY DEF ElectionInv, InStep, SuspectsDead
  <2> QED
    BY <2>1 DEF ElectionInv, InStep
<1> QED
  BY <1>1, ElectionInvariant, PTL

\* A proposer leads if and only if its own detector last named it (coordinator.rs
\* failure_service).
THEOREM FlagFollowsDetectorHolds == Spec => []FlagFollowsDetector
<1>1. ElectionInv => FlagFollowsDetector
  BY DEF ElectionInv
<1> QED
  BY <1>1, ElectionInvariant, PTL

----------------------------------------------------------------------------
(* What the storage is built from.                                         *)

\* A set of naturals with a bound has a greatest one.
LEMMA GreatestOf ==
  ASSUME NEW T, NEW b \in Nat, T \subseteq 0 .. b, T # {}
  PROVE  Max(T) \in T /\ \A y \in T : y <= Max(T)
<1> DEFINE below == {b - x : x \in T}
<1>1. below \subseteq Nat /\ below # {}
  <2>1. \A x \in T : b - x \in Nat
    OBVIOUS
  <2> QED
    BY <2>1
<1>2. PICK d \in below : \A e \in below : d <= e
  <2> HIDE DEF below
  <2> QED
    BY <1>1, LeastOf
<1>3. PICK x \in T : d = b - x
  OBVIOUS
<1>4. ASSUME NEW y \in T PROVE x >= y
  <2>1. b - y \in below
    OBVIOUS
  <2>2. d <= b - y
    BY <1>2, <2>1
  <2>3. x \in Nat /\ y \in Nat
    OBVIOUS
  <2> QED
    BY <1>3, <2>2, <2>3
<1>5. Max(T) \in T /\ \A y \in T : Max(T) >= y
  BY <1>4 DEF Max
<1> QED
  BY <1>5

\* The latest elements of a sequence (load_all_snapshots, prune_snapshots) are among its
\* elements, and the last of them is the last one.
LEMMA LatestOf ==
  ASSUME NEW X, NEW q \in Seq(X), NEW n \in Nat
  PROVE  /\ Latest(q, n) \in Seq(X)
         /\ \A i \in 1 .. Len(Latest(q, n)) : \E j \in 1 .. Len(q) : Latest(q, n)[i] = q[j]
         /\ n # 0 /\ q # <<>> => Latest(q, n) # <<>> /\ Latest(q, n)[Len(Latest(q, n))] = q[Len(q)]
<1> DEFINE k == IF n < Len(q) THEN n ELSE Len(q)
           m == Len(q) - k + 1
<1>1. Len(q) \in Nat /\ k \in 0 .. Len(q) /\ (n # 0 /\ q # <<>> => k # 0)
  OBVIOUS
<1>2. Latest(q, n) = SubSeq(q, m, Len(q))
  BY DEF Latest
<1> HIDE DEF k
<1>3. m \in 1 .. Len(q) + 1
  BY <1>1
<1>4. /\ SubSeq(q, m, Len(q)) \in Seq(X) /\ Len(SubSeq(q, m, Len(q))) = k
      /\ \A i \in 1 .. k : SubSeq(q, m, Len(q))[i] = q[m + i - 1]
  BY <1>1, <1>3
<1>5. \A i \in 1 .. k : m + i - 1 \in 1 .. Len(q)
  BY <1>1, <1>3
<1>6. k # 0 => k \in 1 .. k /\ m + k - 1 = Len(q)
  BY <1>1
<1> HIDE DEF m
<1> DEFINE last == SubSeq(q, m, Len(q))
<1>7. \A i \in 1 .. Len(last) : \E j \in 1 .. Len(q) : last[i] = q[j]
  BY <1>4, <1>5
<1>8. n # 0 /\ q # <<>> => last # <<>> /\ last[Len(last)] = q[Len(q)]
  <2> SUFFICES ASSUME n # 0, q # <<>> PROVE last # <<>> /\ last[Len(last)] = q[Len(q)]
    OBVIOUS
  <2>1. k # 0 /\ k \in 1 .. k /\ m + k - 1 = Len(q)
    BY <1>1, <1>6
  <2>2. Len(last) = k /\ last[k] = q[Len(q)]
    BY <1>4, <2>1
  <2>3. Len(<<>>) = 0
    OBVIOUS
  <2> HIDE DEF last
  <2> QED
    BY <2>1, <2>2, <2>3
<1> QED
  BY <1>2, <1>4, <1>7, <1>8

----------------------------------------------------------------------------
(* What the files keep of the map a role has in memory, an acceptor's or a *)
(* learner's, whose entries are in E.                                      *)

SnapshotWork == <<"rename", "truncate", "prune">>
Jobs == {<<>>, <<"write">>, <<"flush">>, <<"flush", "flush", "rename", "truncate", "prune">>,
         Checkpoint, SnapshotWork, <<"truncate", "prune">>, <<"prune">>}
MapsTo(E) == [Slots -> E \cup {Empty}]
Records(E) == [slot : Slots, entry : E]
SnapshotsOf(E) == [entries : MapsTo(E), adu : 0 .. MaxSlot]

StoredTypes(map, E) ==
  /\ map \in MapsTo(E)
  /\ buffer \in Seq(Records(E)) /\ changelog \in Seq(Records(E)) /\ snapshots \in Seq(SnapshotsOf(E))
  /\ job \in Jobs /\ tail \in {"clean", "half", "garbage"}

\* The records that wait say what the memory says.
BufferNow(map) == \A i \in 1 .. Len(buffer) : map[buffer[i].slot] = buffer[i].entry

\* Between the operations of a checkpoint: nothing waits once the changelog is flushed, and the
\* new snapshot, once it is in place, is that of the memory.
Behind(map) == snapshots # <<>> /\ snapshots[Len(snapshots)].entries = Trimmed(map)
MidCheckpoint(map) ==
  /\ job \in {SnapshotWork, <<"truncate", "prune">>, <<"prune">>} => buffer = <<>>
  /\ job \in {<<"truncate", "prune">>, <<"prune">>} => Behind(map)
  /\ job = <<"prune">> => changelog = <<>>

\* The Interval highest entries, unless they wait, are what the files give back.
RecentKept(map) == tail # "garbage" =>
  \A s \in Slots : Trimmed(map)[s] # Empty /\ ~Waiting(s) => Recovered(s) = map[s]

Durable(map, E) == StoredTypes(map, E) /\ BufferNow(map) /\ MidCheckpoint(map) /\ RecentKept(map)

\* A snapshot holds nothing but what the map does.
LEMMA TrimmedIs ==
  ASSUME NEW E, NEW map \in MapsTo(E)
  PROVE  /\ Trimmed(map) \in MapsTo(E) /\ Kept(map) \in MapsTo(E)
         /\ \A s \in Slots : Trimmed(map)[s] # Empty => Trimmed(map)[s] = map[s] /\ map[s] # Empty
         /\ \A s \in Slots : Kept(map)[s] # Empty => Kept(map)[s] = map[s] /\ map[s] # Empty
<1>1. \A s \in Slots : /\ Trimmed(map)[s] \in {map[s], Empty} /\ Kept(map)[s] \in {map[s], Empty}
                       /\ map[s] \in E \cup {Empty}
  BY DEF Trimmed, Kept, MapsTo
<1>2. /\ Trimmed(map) = [s \in Slots |-> Trimmed(map)[s]]
      /\ Kept(map) = [s \in Slots |-> Kept(map)[s]]
  BY DEF Trimmed, Kept
<1>3. Trimmed(map) \in MapsTo(E) /\ Kept(map) \in MapsTo(E)
  BY <1>1, <1>2 DEF MapsTo
<1> QED
  BY <1>1, <1>3

\* A slot is among the Interval highest of a map if it is among those of a map that holds the
\* slots above it as well.
LEMMA StillRecent ==
  ASSUME NEW map, NEW grown, NEW s \in Slots, grown[s] = map[s],
         \A t \in Slots : t > s /\ map[t] # Empty => grown[t] # Empty,
         Trimmed(grown)[s] # Empty
  PROVE  Trimmed(map)[s] # Empty
<1> DEFINE higher == {t \in Held(map) : t > s}
           more == {t \in Held(grown) : t > s}
<1>1. IsFiniteSet(Slots)
  BY SlotsAssumption, FS_Interval DEF Slots
<1>2. higher \subseteq more /\ more \subseteq Slots
  BY DEF Held
<1>3. IsFiniteSet(more)
  BY <1>1, <1>2, FS_Subset
<1>4. Cardinality(higher) <= Cardinality(more) /\ Cardinality(higher) \in Nat /\ Cardinality(more) \in Nat
  <2> HIDE DEF higher, more
  <2>1. IsFiniteSet(higher) /\ Cardinality(higher) <= Cardinality(more)
    BY <1>2, <1>3, FS_Subset
  <2> QED
    BY <1>3, <2>1, FS_CardinalityType
<1>5. Cardinality(more) < Interval /\ grown[s] # Empty
  BY DEF Trimmed
<1>6. Cardinality(higher) < Interval
  <2> HIDE DEF higher, more
  <2> QED
    BY <1>4, <1>5, SnapshotAssumption
<1> QED
  BY <1>5, <1>6 DEF Trimmed

\* What memory keeps after a checkpoint holds every slot above a slot it holds.
LEMMA KeptIsUpper ==
  ASSUME NEW E, NEW map \in MapsTo(E), NEW s \in Slots, Trimmed(Kept(map))[s] # Empty
  PROVE  Trimmed(map)[s] # Empty /\ Kept(map)[s] = map[s]
<1> DEFINE low == Max(Held(map)) - Interval * MaxSnapshots
<1>1. Kept(map) \in MapsTo(E)
  BY TrimmedIs
<1>2. Kept(map)[s] # Empty
  BY <1>1, TrimmedIs
<1>3. s > low /\ map[s] # Empty /\ Kept(map)[s] = map[s]
  BY <1>2 DEF Kept
<1>4. low \in Int
  <2>1. Held(map) \subseteq 0 .. MaxSlot /\ Held(map) # {} /\ MaxSlot \in Nat
    BY <1>3, SlotsAssumption DEF Held, Slots
  <2>2. Max(Held(map)) \in Held(map)
    BY <2>1, GreatestOf
  <2>3. Max(Held(map)) \in Int
    BY <2>1, <2>2
  <2> DEFINE m == Max(Held(map))
  <2> HIDE DEF m
  <2>4. m \in Int
    BY <2>3 DEF m
  <2>5. Interval \in Int /\ MaxSnapshots \in Int
    BY SnapshotAssumption
  <2>6. Interval * MaxSnapshots \in Int
    BY <2>5
  <2>7. m - Interval * MaxSnapshots \in Int
    BY <2>4, <2>6
  <2> QED
    BY <2>7 DEF m
<1>5. \A t \in Slots : Kept(map)[t] = IF t > low THEN map[t] ELSE Empty
  BY DEF Kept
<1>6. ASSUME NEW t \in Slots, t > s, map[t] # Empty PROVE Kept(map)[t] # Empty
  <2> HIDE DEF low
  <2>1. t \in Int /\ s \in Int
    BY DEF Slots
  <2>2. t > low
    BY <1>3, <1>4, <1>6, <2>1
  <2> QED
    BY <1>5, <1>6, <2>2
<1> QED
  BY <1>3, <1>6, StillRecent

\* What a changelog and snapshots give back for a slot: Recovered, as an operator of them.
RecordsOf(q, s) == {i \in DOMAIN q : q[i].slot = s}
EntriesOf(q, s) == {i \in DOMAIN q : q[i].entries[s] # Empty}
LastEntry(q, s) == IF EntriesOf(q, s) # {} THEN q[Max(EntriesOf(q, s))].entries[s] ELSE Empty
GivenBack(q, saved, s) == IF RecordsOf(q, s) # {} THEN q[Max(RecordsOf(q, s))].entry
                          ELSE LastEntry(Latest(saved, LoadSnapshots), s)

LEMMA RecoveredIs ==
  ASSUME NEW s \in Slots
  PROVE  /\ Recovered(s) = GivenBack(changelog, snapshots, s)
         /\ Recovered(s)' = GivenBack(changelog', snapshots', s)
BY DEF Recovered, GivenBack, InChangelog, RecordsOf, FromSnapshots, InSnapshots, Loaded, LastEntry, EntriesOf

\* The last record of a slot says what is given back (load_and_replay_state).
LEMMA LastRecordIs ==
  ASSUME NEW E, NEW q \in Seq(Records(E)), NEW saved, NEW s \in Slots, NEW i \in 1 .. Len(q),
         q[i].slot = s, \A j \in 1 .. Len(q) : q[j].slot = s => j <= i
  PROVE  GivenBack(q, saved, s) = q[i].entry
<1> DEFINE last == Max(RecordsOf(q, s))
<1>1. Len(q) \in Nat /\ RecordsOf(q, s) = {j \in 1 .. Len(q) : q[j].slot = s}
  BY DEF RecordsOf
<1>2. i \in RecordsOf(q, s) /\ RecordsOf(q, s) \subseteq 0 .. Len(q)
  BY <1>1
<1>3. last \in RecordsOf(q, s) /\ i <= last
  BY <1>1, <1>2, GreatestOf
<1>4. GivenBack(q, saved, s) = q[last].entry
  BY <1>2 DEF GivenBack
<1> HIDE DEF last
<1>5. last \in 1 .. Len(q) /\ last <= i
  BY <1>1, <1>3
<1>6. last = i
  BY <1>1, <1>3, <1>5
<1> QED
  BY <1>4, <1>6

\* A slot that has a record has a last one.
LEMMA LastRecord ==
  ASSUME NEW E, NEW q \in Seq(Records(E)), NEW s \in Slots, \E i \in 1 .. Len(q) : q[i].slot = s
  PROVE  \E i \in 1 .. Len(q) : q[i].slot = s /\ \A j \in 1 .. Len(q) : q[j].slot = s => j <= i
<1> DEFINE T == {i \in 1 .. Len(q) : q[i].slot = s}
<1>1. Len(q) \in Nat /\ T \subseteq 0 .. Len(q) /\ T # {}
  OBVIOUS
<1>2. Max(T) \in T /\ \A y \in T : y <= Max(T)
  <2> HIDE DEF T
  <2> QED
    BY <1>1, GreatestOf
<1> QED
  BY <1>2

\* Without a record it is the last loaded snapshot with an entry that says it.
LEMMA WithoutRecord ==
  ASSUME NEW E, NEW q \in Seq(Records(E)), NEW saved, NEW s \in Slots,
         \A j \in 1 .. Len(q) : q[j].slot # s
  PROVE  GivenBack(q, saved, s) = LastEntry(Latest(saved, LoadSnapshots), s)
<1>1. RecordsOf(q, s) = {}
  BY DEF RecordsOf
<1> QED
  BY <1>1 DEF GivenBack

\* The newest snapshot is always loaded, and what it says of a slot is the last word
\* of the snapshots.
LEMMA NewestLoaded ==
  ASSUME NEW E, NEW saved \in Seq(SnapshotsOf(E)), saved # <<>>, LoadSnapshots # 0, NEW s \in Slots,
         saved[Len(saved)].entries[s] # Empty
  PROVE  LastEntry(Latest(saved, LoadSnapshots), s) = saved[Len(saved)].entries[s]
<1> DEFINE loaded == Latest(saved, LoadSnapshots)
<1>1. loaded \in Seq(SnapshotsOf(E)) /\ loaded # <<>> /\ loaded[Len(loaded)] = saved[Len(saved)]
  BY LatestOf, SnapshotAssumption
<1> HIDE DEF loaded
<1> DEFINE last == Max(EntriesOf(loaded, s))
<1>2. Len(loaded) \in Nat \ {0}
  BY <1>1
<1>3. EntriesOf(loaded, s) \subseteq 0 .. Len(loaded) /\ Len(loaded) \in EntriesOf(loaded, s)
  BY <1>1, <1>2 DEF EntriesOf
<1>4. last \in EntriesOf(loaded, s) /\ Len(loaded) <= last
  BY <1>2, <1>3, GreatestOf
<1>5. LastEntry(loaded, s) = loaded[last].entries[s]
  BY <1>3 DEF LastEntry
<1> HIDE DEF last
<1>6. last = Len(loaded)
  <2>1. last \in 0 .. Len(loaded)
    BY <1>3, <1>4
  <2> QED
    BY <1>2, <1>4, <2>1
<1> QED
  BY <1>1, <1>5, <1>6 DEF loaded

\* Records at the end of a changelog: they win, the other slots are given back as before
\* (save_change, flush_changelog).
LEMMA AppendedGivesBack ==
  ASSUME NEW E, NEW q \in Seq(Records(E)), NEW new \in Seq(Records(E)), NEW saved, NEW s \in Slots
  PROVE  /\ (\E i \in 1 .. Len(new) : new[i].slot = s) =>
              \E i \in 1 .. Len(new) : new[i].slot = s /\ GivenBack(q \o new, saved, s) = new[i].entry
         /\ (\A i \in 1 .. Len(new) : new[i].slot # s) => GivenBack(q \o new, saved, s) = GivenBack(q, saved, s)
<1> DEFINE all == q \o new
<1>1. all \in Seq(Records(E)) /\ Len(q) \in Nat /\ Len(new) \in Nat /\ Len(all) = Len(q) + Len(new)
  OBVIOUS
<1>2. /\ \A i \in 1 .. Len(q) : all[i] = q[i]
      /\ \A i \in 1 .. Len(new) : all[Len(q) + i] = new[i]
  BY <1>1
<1> HIDE DEF all
<1>3. ASSUME NEW j \in 1 .. Len(all), ~(j <= Len(q))
      PROVE  j - Len(q) \in 1 .. Len(new) /\ all[j] = new[j - Len(q)]
  <2>1. j - Len(q) \in 1 .. Len(new) /\ Len(q) + (j - Len(q)) = j
    BY <1>1, <1>3
  <2> QED
    BY <1>2, <2>1
<1>4. ASSUME \E i \in 1 .. Len(new) : new[i].slot = s
      PROVE  \E i \in 1 .. Len(new) : new[i].slot = s /\ GivenBack(all, saved, s) = new[i].entry
  <2>1. PICK i \in 1 .. Len(new) : new[i].slot = s /\ \A j \in 1 .. Len(new) : new[j].slot = s => j <= i
    BY <1>4, LastRecord
  <2> DEFINE n == Len(q) + i
  <2>2. n \in 1 .. Len(all) /\ all[n] = new[i]
    BY <1>1, <1>2
  <2>3. ASSUME NEW j \in 1 .. Len(all), all[j].slot = s PROVE j <= n
    <3>1. CASE j <= Len(q)
      BY <1>1, <3>1
    <3>2. CASE ~(j <= Len(q))
      <4>1. j - Len(q) \in 1 .. Len(new) /\ j - Len(q) <= i
        BY <1>3, <2>1, <2>3, <3>2
      <4> QED
        BY <1>1, <4>1
    <3> QED
      BY <3>1, <3>2
  <2> HIDE DEF n
  <2>4. GivenBack(all, saved, s) = all[n].entry
    BY <1>1, <2>1, <2>2, <2>3, LastRecordIs
  <2> QED
    BY <2>1, <2>2, <2>4
<1>5. ASSUME \A i \in 1 .. Len(new) : new[i].slot # s
      PROVE  GivenBack(all, saved, s) = GivenBack(q, saved, s)
  <2>1. ASSUME NEW j \in 1 .. Len(all), all[j].slot = s PROVE j \in 1 .. Len(q)
    BY <1>1, <1>3, <1>5, <2>1
  <2>2. CASE \E i \in 1 .. Len(q) : q[i].slot = s
    <3>1. PICK i \in 1 .. Len(q) : q[i].slot = s /\ \A j \in 1 .. Len(q) : q[j].slot = s => j <= i
      BY <2>2, LastRecord
    <3>2. i \in 1 .. Len(all) /\ all[i] = q[i]
      <4>1. all[i] = q[i]
        BY <1>2, <3>1
      <4>2. i \in 1 .. Len(q) + Len(new)
        BY <1>1, <3>1
      <4> QED
        BY <1>1, <4>1, <4>2
    <3>3. ASSUME NEW j \in 1 .. Len(all), all[j].slot = s PROVE j <= i
      <4>1. j \in 1 .. Len(q)
        BY <2>1, <3>3
      <4>2. q[j].slot = s
        BY <1>2, <3>3, <4>1
      <4> QED
        BY <3>1, <4>1, <4>2
    <3>4. GivenBack(q, saved, s) = q[i].entry
      BY <3>1, LastRecordIs
    <3>5. GivenBack(all, saved, s) = all[i].entry
      BY <1>1, <3>1, <3>2, <3>3, LastRecordIs
    <3> QED
      BY <3>2, <3>4, <3>5
  <2>3. CASE \A i \in 1 .. Len(q) : q[i].slot # s
    <3>1. \A j \in 1 .. Len(all) : all[j].slot # s
      BY <1>2, <2>1, <2>3
    <3> QED
      BY <1>1, <2>3, <3>1, WithoutRecord
  <2> QED
    BY <2>2, <2>3
<1> QED
  BY <1>4, <1>5 DEF all

\* So the changelog gives back what a map says, if the new records say it and the changelog did
\* for the other slots.
LEMMA AppendedAgrees ==
  ASSUME NEW E, NEW q \in Seq(Records(E)), NEW new \in Seq(Records(E)), NEW saved, NEW s \in Slots, NEW map,
         \A i \in 1 .. Len(new) : map[new[i].slot] = new[i].entry,
         (\A i \in 1 .. Len(new) : new[i].slot # s) => GivenBack(q, saved, s) = map[s]
  PROVE  GivenBack(q \o new, saved, s) = map[s]
<1> DEFINE after == GivenBack(q \o new, saved, s)
<1>1. /\ (\E i \in 1 .. Len(new) : new[i].slot = s) =>
           \E i \in 1 .. Len(new) : new[i].slot = s /\ after = new[i].entry
      /\ (\A i \in 1 .. Len(new) : new[i].slot # s) => after = GivenBack(q, saved, s)
  BY AppendedGivesBack
<1> HIDE DEF after
<1>2. CASE \E i \in 1 .. Len(new) : new[i].slot = s
  <2>1. PICK i \in 1 .. Len(new) : new[i].slot = s /\ after = new[i].entry
    BY <1>1, <1>2
  <2> QED
    BY <2>1 DEF after
<1>3. CASE \A i \in 1 .. Len(new) : new[i].slot # s
  BY <1>1, <1>3 DEF after
<1> QED
  BY <1>2, <1>3

\* What is given back of a slot is an entry.
LEMMA GivenBackType ==
  ASSUME NEW E, NEW q \in Seq(Records(E)), NEW saved \in Seq(SnapshotsOf(E)), NEW s \in Slots
  PROVE  /\ GivenBack(q, saved, s) \in E \cup {Empty}
         /\ LastEntry(Latest(saved, LoadSnapshots), s) \in E \cup {Empty}
<1> DEFINE loaded == Latest(saved, LoadSnapshots)
<1>1. loaded \in Seq(SnapshotsOf(E)) /\ Len(loaded) \in Nat
  BY LatestOf, SnapshotAssumption
<1> HIDE DEF loaded
<1>2. LastEntry(loaded, s) \in E \cup {Empty}
  <2>1. CASE EntriesOf(loaded, s) = {}
    BY <2>1 DEF LastEntry
  <2>2. CASE EntriesOf(loaded, s) # {}
    <3> DEFINE last == Max(EntriesOf(loaded, s))
    <3>1. EntriesOf(loaded, s) \subseteq 0 .. Len(loaded) /\ EntriesOf(loaded, s) \subseteq 1 .. Len(loaded)
      BY <1>1 DEF EntriesOf
    <3>2. last \in EntriesOf(loaded, s)
      BY <1>1, <2>2, <3>1, GreatestOf
    <3>3. LastEntry(loaded, s) = loaded[last].entries[s]
      BY <2>2 DEF LastEntry
    <3> HIDE DEF last
    <3>4. loaded[last] \in SnapshotsOf(E)
      BY <1>1, <3>1, <3>2
    <3> QED
      BY <3>3, <3>4 DEF SnapshotsOf, MapsTo
  <2> QED
    BY <2>1, <2>2
<1>3. GivenBack(q, saved, s) \in E \cup {Empty}
  <2>1. CASE \A j \in 1 .. Len(q) : q[j].slot # s
    BY <1>2, <2>1, WithoutRecord DEF loaded
  <2>2. CASE \E j \in 1 .. Len(q) : q[j].slot = s
    <3>1. PICK i \in 1 .. Len(q) : q[i].slot = s /\ \A j \in 1 .. Len(q) : q[j].slot = s => j <= i
      BY <2>2, LastRecord
    <3>2. GivenBack(q, saved, s) = q[i].entry
      BY <3>1, LastRecordIs
    <3>3. q[i] \in Records(E)
      OBVIOUS
    <3> QED
      BY <3>2, <3>3 DEF Records
  <2> QED
    BY <2>1, <2>2
<1> QED
  BY <1>2, <1>3 DEF loaded

\* A process that has written nothing starts with an empty map.
LEMMA InitIsDurable ==
  ASSUME NEW E, NEW map, map = EmptyMap, StorageInit
  PROVE  Durable(map, E)
<1>1. buffer = <<>> /\ job = <<>> /\ changelog = <<>> /\ tail = "clean" /\ snapshots = <<>>
  BY DEF StorageInit
<1>2. map \in MapsTo(E) /\ \A s \in Slots : map[s] = Empty
  BY DEF EmptyMap, MapsTo
<1>3. StoredTypes(map, E)
  BY <1>1, <1>2 DEF StoredTypes, Jobs
<1>4. BufferNow(map) /\ MidCheckpoint(map)
  BY <1>1 DEF BufferNow, MidCheckpoint, SnapshotWork
<1>5. RecentKept(map)
  BY <1>2, TrimmedIs DEF RecentKept
<1> QED
  BY <1>3, <1>4, <1>5 DEF Durable

\* A handler begins to write the state or to flush, or nothing happens: memory and files are
\* as they were.
LEMMA BeginKeeps ==
  ASSUME NEW E, NEW map, Durable(map, E), UNCHANGED <<buffer, changelog, tail, snapshots>>,
         job' = job \/ (job = <<>> /\ job' \in {<<"write">>, <<"flush">>})
  PROVE  Durable(map, E)'
<1>1. buffer' = buffer /\ changelog' = changelog /\ tail' = tail /\ snapshots' = snapshots
  OBVIOUS
<1>2. StoredTypes(map, E)'
  BY <1>1 DEF Durable, StoredTypes, Jobs
<1>3. BufferNow(map)' /\ MidCheckpoint(map)'
  BY <1>1 DEF Durable, BufferNow, MidCheckpoint, Behind, SnapshotWork
<1>4. RecentKept(map)'
  <2>1. \A s \in Slots : (Waiting(s)' <=> Waiting(s)) /\ Recovered(s)' = Recovered(s)
    BY <1>1, RecoveredIs DEF Waiting
  <2> QED
    BY <1>1, <2>1 DEF Durable, RecentKept
<1> QED
  BY <1>2, <1>3, <1>4 DEF Durable

\* A new entry may have a flush to make, a checkpoint, or both.
NewJobs == {<<>>, <<"flush">>, <<"flush", "flush", "rename", "truncate", "prune">>, Checkpoint}

LEMMA JobOfEntry ==
  ASSUME NEW due \in {<<>>, <<"flush">>}, NEW rest \in {<<>>, Checkpoint}
  PROVE  due \o rest \in NewJobs
<1>1. <<>> \o Checkpoint = Checkpoint /\ <<>> \o <<>> = <<>> /\ <<"flush">> \o <<>> = <<"flush">>
  BY DEF Checkpoint
<1>2. <<"flush">> \o Checkpoint = <<"flush", "flush", "rename", "truncate", "prune">>
  <2> DEFINE S == {"flush", "rename", "truncate", "prune"}
             both == <<"flush">> \o Checkpoint
             five == <<"flush", "flush", "rename", "truncate", "prune">>
  <2>1. both \in Seq(S) /\ five \in Seq(S) /\ Len(both) = 5 /\ Len(five) = 5
    BY DEF Checkpoint
  <2>2. /\ both[1] = five[1] /\ both[2] = five[2] /\ both[3] = five[3]
        /\ both[4] = five[4] /\ both[5] = five[5]
    BY DEF Checkpoint
  <2> HIDE DEF both, five
  <2>3. \A i \in 1 .. Len(both) : both[i] = five[i]
    BY <2>1, <2>2
  <2>4. both = five
    BY <2>1, <2>3, SeqEqual
  <2> QED
    BY <2>4 DEF both, five
<1> QED
  BY <1>1, <1>2 DEF NewJobs

\* The record of a new entry keeps to it, whether or not the writer's buffer overflows
\* (save_change).
LEMMA StoreKeeps ==
  ASSUME NEW E, NEW map, NEW s \in Slots, NEW e \in E, NEW grown,
         Empty \notin E, Durable(map, E), job = <<>>, map[s] = Empty, grown = [map EXCEPT ![s] = e],
         SaveChange([slot |-> s, entry |-> e]), snapshots' = snapshots,
         job' \in NewJobs
  PROVE  Durable(grown, E)'
<1> DEFINE new == [slot |-> s, entry |-> e]
<1>1. /\ new \in Records(E) /\ new.slot = s /\ new.entry = e
      /\ grown \in MapsTo(E) /\ grown[s] = e /\ \A t \in Slots \ {s} : grown[t] = map[t]
  BY DEF Records, Durable, StoredTypes, MapsTo
<1>2. /\ buffer \in Seq(Records(E)) /\ changelog \in Seq(Records(E)) /\ Len(buffer) \in Nat
      /\ \A i \in 1 .. Len(buffer) : buffer[i] \in Records(E) /\ buffer[i].slot \in Slots
                                     /\ map[buffer[i].slot] = buffer[i].entry
  <2>1. buffer \in Seq(Records(E)) /\ changelog \in Seq(Records(E))
    BY DEF Durable, StoredTypes
  <2>2. Len(buffer) \in Nat /\ \A i \in 1 .. Len(buffer) : buffer[i] \in Records(E)
    BY <2>1
  <2>3. \A i \in 1 .. Len(buffer) : map[buffer[i].slot] = buffer[i].entry
    BY DEF Durable, BufferNow
  <2>4. \A r \in Records(E) : r.slot \in Slots
    BY DEF Records
  <2> QED
    BY <2>1, <2>2, <2>3, <2>4
<1>3. \/ buffer' = Append(buffer, new) /\ changelog' = changelog /\ tail' = tail
      \/ /\ changelog' = changelog \o buffer /\ buffer' = <<new>>
         /\ tail' \in IF tail = "garbage" THEN {"garbage"} ELSE {"clean", "half"}
  BY DEF SaveChange
<1> HIDE DEF new
<1>4. tail' \in {"clean", "half", "garbage"} /\ (tail' # "garbage" => tail # "garbage")
  BY <1>3 DEF Durable, StoredTypes
<1>5. ASSUME buffer' = Append(buffer, new)
      PROVE  /\ buffer' \in Seq(Records(E)) /\ Len(buffer') = Len(buffer) + 1 /\ buffer'[Len(buffer) + 1] = new
             /\ \A i \in 1 .. Len(buffer) : buffer'[i] = buffer[i]
  BY <1>1, <1>2, <1>5
<1>6. ASSUME buffer' = <<new>>
      PROVE  buffer' \in Seq(Records(E)) /\ Len(buffer') = 1 /\ buffer'[1] = new
  BY <1>1, <1>6
<1>7. StoredTypes(grown, E)'
  <2>1. changelog' \in Seq(Records(E))
    <3>1. changelog \o buffer \in Seq(Records(E))
      BY <1>2
    <3>2. changelog' = changelog \/ changelog' = changelog \o buffer
      BY <1>3
    <3> QED
      BY <1>2, <3>1, <3>2
  <2> QED
    BY <1>1, <1>3, <1>4, <1>5, <1>6, <2>1 DEF Durable, StoredTypes, Jobs, NewJobs
<1>8. \A t \in Slots \ {s} : grown[t] = map[t]
  BY <1>1
<1>9. BufferNow(grown)'
  <2> SUFFICES ASSUME NEW i \in 1 .. Len(buffer') PROVE grown[buffer'[i].slot] = buffer'[i].entry
    BY DEF BufferNow
  <2>1. ASSUME buffer' = Append(buffer, new) PROVE grown[buffer'[i].slot] = buffer'[i].entry
    <3>1. CASE i = Len(buffer) + 1
      BY <1>1, <1>5, <2>1, <3>1
    <3>2. CASE i # Len(buffer) + 1
      <4>1. i \in 1 .. Len(buffer) /\ buffer'[i] = buffer[i]
        BY <1>2, <1>5, <2>1, <3>2
      <4>2. buffer[i].entry \in E /\ buffer[i].slot # s
        BY <1>2, <4>1 DEF Records
      <4> QED
        BY <1>2, <1>8, <4>1, <4>2
    <3> QED
      BY <3>1, <3>2
  <2>2. ASSUME buffer' = <<new>> PROVE grown[buffer'[i].slot] = buffer'[i].entry
    BY <1>1, <1>6, <2>2
  <2> QED
    BY <1>3, <2>1, <2>2
<1>10. RecentKept(grown)'
  <2> SUFFICES ASSUME tail' # "garbage", NEW t \in Slots, Trimmed(grown)[t] # Empty, ~Waiting(t)'
               PROVE  Recovered(t)' = grown[t]
    BY DEF RecentKept
  <2>1. t # s
    <3>1. ASSUME t = s PROVE Waiting(t)'
      <4>1. CASE buffer' = Append(buffer, new)
        <5>1. Len(buffer) + 1 \in DOMAIN buffer'
          BY <1>2, <1>5, <4>1
        <5> QED
          BY <1>1, <1>5, <3>1, <4>1, <5>1 DEF Waiting
      <4>2. CASE buffer' = <<new>>
        <5>1. 1 \in DOMAIN buffer'
          BY <1>6, <4>2
        <5> QED
          BY <1>1, <1>6, <3>1, <4>2, <5>1 DEF Waiting
      <4> QED
        BY <1>3, <4>1, <4>2
    <3> QED
      BY <3>1
  <2>2. grown[t] = map[t] /\ Trimmed(map)[t] # Empty
    <3>1. \A u \in Slots : u > t /\ map[u] # Empty => grown[u] # Empty
      BY <1>1, <1>8
    <3> QED
      BY <1>8, <2>1, <3>1, StillRecent
  <2>3. ~Waiting(t) => Recovered(t) = map[t]
    BY <1>4, <2>2 DEF Durable, RecentKept
  <2>4. CASE buffer' = Append(buffer, new) /\ changelog' = changelog
    <3>1. ~Waiting(t)
      <4>1. \A i \in 1 .. Len(buffer) : i \in DOMAIN buffer' /\ buffer'[i] = buffer[i]
        BY <1>2, <1>5, <2>4
      <4> QED
        BY <1>2, <4>1 DEF Waiting
    <3>2. Recovered(t)' = Recovered(t)
      BY <2>4, RecoveredIs
    <3> QED
      BY <2>2, <2>3, <3>1, <3>2
  <2>5. CASE changelog' = changelog \o buffer
    <3>1. /\ Recovered(t)' = GivenBack(changelog \o buffer, snapshots, t)
          /\ Recovered(t) = GivenBack(changelog, snapshots, t)
      BY <2>5, RecoveredIs
    <3>2. buffer \in Seq(Records(E)) /\ changelog \in Seq(Records(E))
      BY <1>2
    <3>3. \A i \in 1 .. Len(buffer) : map[buffer[i].slot] = buffer[i].entry
      BY <1>2
    <3>4. ASSUME \A i \in 1 .. Len(buffer) : buffer[i].slot # t
          PROVE  GivenBack(changelog, snapshots, t) = map[t]
      <4>1. ~Waiting(t)
        BY <1>2, <3>4 DEF Waiting
      <4> QED
        BY <2>3, <3>1, <4>1
    <3>5. GivenBack(changelog \o buffer, snapshots, t) = map[t]
      BY <3>2, <3>3, <3>4, AppendedAgrees
    <3> QED
      BY <2>2, <3>1, <3>5
  <2> QED
    BY <1>3, <2>4, <2>5
<1>11. MidCheckpoint(grown)'
  BY DEF MidCheckpoint, SnapshotWork, Checkpoint, NewJobs
<1> QED
  BY <1>7, <1>9, <1>10, <1>11 DEF Durable

\* The operations of a job come one after the other.
LEMMA NextOperation ==
  ASSUME job \in Jobs, job # <<>>, job' = Tail(job)
  PROVE  \/ job = <<"write">> /\ job' = <<>>
         \/ job = <<"flush">> /\ job' = <<>>
         \/ Head(job) = "flush" /\ job' = Checkpoint
         \/ job = Checkpoint /\ Head(job) = "flush" /\ job' = SnapshotWork
         \/ job = SnapshotWork /\ Head(job) = "rename" /\ job' = <<"truncate", "prune">>
         \/ job = <<"truncate", "prune">> /\ Head(job) = "truncate" /\ job' = <<"prune">>
         \/ job = <<"prune">> /\ Head(job) = "prune" /\ job' = <<>>
<1> USE DEF Jobs, Checkpoint, SnapshotWork
<1>1. CASE job = <<"write">>
  BY <1>1
<1>2. CASE job = <<"flush">>
  BY <1>2
<1>3. CASE job = <<"flush", "flush", "rename", "truncate", "prune">>
  BY <1>3
<1>4. CASE job = Checkpoint
  BY <1>4
<1>5. CASE job = SnapshotWork
  BY <1>5
<1>6. CASE job = <<"truncate", "prune">>
  BY <1>6
<1>7. CASE job = <<"prune">>
  BY <1>7
<1> QED
  BY <1>1, <1>2, <1>3, <1>4, <1>5, <1>6, <1>7

\* A file operation of either role (flush_changelog, save_snapshot, truncate_changelog,
\* prune_snapshots) keeps to it: the snapshot is in place before the changelog goes.
LEMMA FileKeeps ==
  ASSUME NEW E, NEW map, NEW left, NEW state, NEW reached \in 0 .. MaxSlot,
         LoadSnapshots # 0, Durable(map, E),
         FileStep(state, [entries |-> Trimmed(map), adu |-> reached]),
         left = IF Head(job) = "prune" THEN Kept(map) ELSE map
  PROVE  Durable(left, E)'
<1> DEFINE snap == [entries |-> Trimmed(map), adu |-> reached]
<1>1. job # <<>> /\ job' = Tail(job) /\ job \in Jobs
  BY DEF FileStep, Durable, StoredTypes
<1>2. /\ Head(job) = "write" => UNCHANGED <<buffer, changelog, tail, snapshots>>
      /\ Head(job) = "flush" => /\ changelog' = changelog \o buffer /\ buffer' = <<>> /\ snapshots' = snapshots
                                /\ tail' = IF tail = "half" THEN "clean" ELSE tail
      /\ Head(job) = "rename" => snapshots' = Append(snapshots, snap) /\ UNCHANGED <<buffer, changelog, tail>>
      /\ Head(job) = "truncate" => changelog' = <<>> /\ tail' = "clean" /\ UNCHANGED <<buffer, snapshots>>
      /\ Head(job) = "prune" => snapshots' = Latest(snapshots, MaxSnapshots) /\ UNCHANGED <<buffer, changelog, tail>>
  BY DEF FileStep, WriteState, Flush, RenameSnapshot, TruncateChangelog, PruneSnapshots
<1>3. /\ buffer \in Seq(Records(E)) /\ changelog \in Seq(Records(E)) /\ snapshots \in Seq(SnapshotsOf(E))
      /\ Len(buffer) \in Nat /\ Len(snapshots) \in Nat
      /\ map \in MapsTo(E) /\ tail \in {"clean", "half", "garbage"}
  BY DEF Durable, StoredTypes
<1>4. /\ Trimmed(map) \in MapsTo(E) /\ Kept(map) \in MapsTo(E)
      /\ \A s \in Slots : Trimmed(map)[s] # Empty => Trimmed(map)[s] = map[s] /\ map[s] # Empty
  BY <1>3, TrimmedIs
<1>5. snap \in SnapshotsOf(E) /\ snap.entries = Trimmed(map)
  BY <1>4 DEF SnapshotsOf
<1>6. <<>> \in Seq(Records(E)) /\ Len(<<>>) = 0 /\ DOMAIN <<>> = {}
  OBVIOUS
<1> HIDE DEF snap
<1>7. buffer' = <<>> => BufferNow(left)' /\ \A s \in Slots : ~Waiting(s)'
  BY <1>6 DEF BufferNow, Waiting
\* What memory has at the end of a checkpoint, the newest snapshot gives back.
<1>8. ASSUME NEW saved \in Seq(SnapshotsOf(E)), saved # <<>>, saved[Len(saved)].entries = Trimmed(map),
             NEW s \in Slots, Trimmed(map)[s] # Empty
      PROVE  GivenBack(<<>>, saved, s) = map[s]
  <2>1. GivenBack(<<>>, saved, s) = LastEntry(Latest(saved, LoadSnapshots), s)
    <3>1. \A j \in 1 .. Len(<<>>) : <<>>[j].slot # s
      BY <1>6
    <3> QED
      BY <1>6, <3>1, WithoutRecord
  <2>2. LastEntry(Latest(saved, LoadSnapshots), s) = saved[Len(saved)].entries[s]
    BY <1>8, NewestLoaded
  <2> QED
    BY <1>4, <1>8, <2>1, <2>2
<1>9. CASE Head(job) = "write"
  <2>1. job' = <<>> /\ left = map /\ UNCHANGED <<buffer, changelog, tail, snapshots>>
    BY <1>1, <1>2, <1>9, NextOperation DEF Checkpoint, SnapshotWork
  <2>2. StoredTypes(left, E)'
    BY <1>3, <2>1 DEF StoredTypes, Jobs
  <2>3. BufferNow(left)' /\ MidCheckpoint(left)'
    BY <2>1 DEF Durable, BufferNow, MidCheckpoint, SnapshotWork
  <2>4. \A s \in Slots : (Waiting(s)' <=> Waiting(s)) /\ Recovered(s)' = Recovered(s)
    BY <2>1, RecoveredIs DEF Waiting
  <2>5. RecentKept(left)'
    BY <2>1, <2>4 DEF Durable, RecentKept
  <2> QED
    BY <2>2, <2>3, <2>5 DEF Durable
<1>10. CASE Head(job) = "flush"
  <2>1. /\ job' \in {<<>>, Checkpoint, SnapshotWork} /\ left = map /\ buffer' = <<>> /\ snapshots' = snapshots
        /\ changelog' = changelog \o buffer
        /\ tail' = IF tail = "half" THEN "clean" ELSE tail
    BY <1>1, <1>2, <1>10, NextOperation DEF Checkpoint, SnapshotWork
  <2>2. StoredTypes(left, E)'
    <3>1. changelog' \in Seq(Records(E)) /\ buffer' \in Seq(Records(E)) /\ snapshots' \in Seq(SnapshotsOf(E))
      BY <1>3, <1>6, <2>1
    <3>2. tail' \in {"clean", "half", "garbage"} /\ job' \in Jobs /\ left \in MapsTo(E)
      BY <1>3, <2>1 DEF Jobs
    <3> QED
      BY <3>1, <3>2 DEF StoredTypes
  <2>3. MidCheckpoint(left)'
    <3>1. job' \in {<<>>, Checkpoint, SnapshotWork} /\ buffer' = <<>>
      BY <2>1
    <3>2. CASE job' = <<>>
      BY <3>1, <3>2 DEF MidCheckpoint, SnapshotWork
    <3>3. CASE job' = Checkpoint
      BY <3>1, <3>3 DEF MidCheckpoint, SnapshotWork, Checkpoint
    <3>4. CASE job' = SnapshotWork
      BY <3>1, <3>4 DEF MidCheckpoint, SnapshotWork
    <3> QED
      BY <3>1, <3>2, <3>3, <3>4
  <2>4. RecentKept(left)'
    <3> SUFFICES ASSUME tail' # "garbage", NEW s \in Slots, Trimmed(map)[s] # Empty
                 PROVE  Recovered(s)' = map[s]
      BY <2>1 DEF RecentKept
    <3>1. /\ Recovered(s)' = GivenBack(changelog \o buffer, snapshots, s)
          /\ Recovered(s) = GivenBack(changelog, snapshots, s)
      BY <2>1, RecoveredIs
    <3>2. buffer \in Seq(Records(E)) /\ changelog \in Seq(Records(E))
      BY <1>3
    <3>3. \A i \in 1 .. Len(buffer) : map[buffer[i].slot] = buffer[i].entry
      BY DEF Durable, BufferNow
    <3>4. ASSUME \A i \in 1 .. Len(buffer) : buffer[i].slot # s
          PROVE  GivenBack(changelog, snapshots, s) = map[s]
      <4>1. ~Waiting(s)
        BY <1>3, <3>4 DEF Waiting
      <4>2. tail # "garbage"
        BY <2>1
      <4>3. Recovered(s) = map[s]
        BY <4>1, <4>2 DEF Durable, RecentKept
      <4> QED
        BY <3>1, <4>3
    <3>5. GivenBack(changelog \o buffer, snapshots, s) = map[s]
      BY <3>2, <3>3, <3>4, AppendedAgrees
    <3> QED
      BY <3>1, <3>5
  <2> QED
    BY <1>7, <2>1, <2>2, <2>3, <2>4 DEF Durable
<1>11. CASE Head(job) = "rename"
  <2>1. /\ job = SnapshotWork /\ job' = <<"truncate", "prune">> /\ left = map
        /\ snapshots' = Append(snapshots, snap) /\ buffer' = buffer /\ changelog' = changelog /\ tail' = tail
    BY <1>1, <1>2, <1>11, NextOperation DEF Checkpoint, SnapshotWork
  <2>2. buffer = <<>>
    BY <2>1 DEF Durable, MidCheckpoint
  <2>3. snapshots' \in Seq(SnapshotsOf(E)) /\ snapshots' # <<>> /\ snapshots'[Len(snapshots')].entries = Trimmed(map)
    <3>1. /\ Append(snapshots, snap) \in Seq(SnapshotsOf(E)) /\ Len(Append(snapshots, snap)) = Len(snapshots) + 1
          /\ Append(snapshots, snap)[Len(snapshots) + 1] = snap /\ Append(snapshots, snap) # <<>>
      BY <1>3, <1>5
    <3> QED
      BY <1>5, <2>1, <3>1
  <2>4. StoredTypes(left, E)'
    BY <1>3, <2>1, <2>3 DEF StoredTypes, Jobs
  <2>5. MidCheckpoint(left)'
    BY <2>1, <2>2, <2>3 DEF MidCheckpoint, Behind, SnapshotWork
  <2>6. RecentKept(left)'
    <3> SUFFICES ASSUME tail' # "garbage", NEW s \in Slots, Trimmed(map)[s] # Empty
                 PROVE  Recovered(s)' = map[s]
      BY <2>1 DEF RecentKept
    <3>1. /\ Recovered(s)' = GivenBack(changelog, snapshots', s)
          /\ Recovered(s) = GivenBack(changelog, snapshots, s)
      BY <2>1, RecoveredIs
    <3>2. CASE \E i \in 1 .. Len(changelog) : changelog[i].slot = s
      <4>1. PICK i \in 1 .. Len(changelog) :
              changelog[i].slot = s /\ \A j \in 1 .. Len(changelog) : changelog[j].slot = s => j <= i
        BY <1>3, <3>2, LastRecord
      <4>2. GivenBack(changelog, snapshots', s) = changelog[i].entry
        BY <1>3, <4>1, LastRecordIs
      <4>3. GivenBack(changelog, snapshots, s) = changelog[i].entry
        BY <1>3, <4>1, LastRecordIs
      <4>4. ~Waiting(s)
        BY <1>6, <2>2 DEF Waiting
      <4>5. Recovered(s) = map[s]
        BY <2>1, <4>4 DEF Durable, RecentKept
      <4> QED
        BY <3>1, <4>2, <4>3, <4>5
    <3>3. CASE \A i \in 1 .. Len(changelog) : changelog[i].slot # s
      <4>1. Recovered(s)' = LastEntry(Latest(snapshots', LoadSnapshots), s)
        BY <1>3, <3>1, <3>3, WithoutRecord
      <4>2. snapshots'[Len(snapshots')].entries[s] # Empty /\ snapshots'[Len(snapshots')].entries[s] = map[s]
        BY <1>4, <2>3
      <4>3. LastEntry(Latest(snapshots', LoadSnapshots), s) = snapshots'[Len(snapshots')].entries[s]
        BY <2>3, <4>2, NewestLoaded
      <4> QED
        BY <4>1, <4>2, <4>3
    <3> QED
      BY <3>2, <3>3
  <2>7. BufferNow(left)'
    BY <1>7, <2>1, <2>2
  <2> QED
    BY <2>4, <2>5, <2>6, <2>7 DEF Durable
<1>12. CASE Head(job) = "truncate"
  <2>1. /\ job = <<"truncate", "prune">> /\ job' = <<"prune">> /\ left = map
        /\ changelog' = <<>> /\ tail' = "clean" /\ buffer' = buffer /\ snapshots' = snapshots
    BY <1>1, <1>2, <1>12, NextOperation DEF Checkpoint, SnapshotWork
  <2>2. buffer = <<>> /\ snapshots # <<>> /\ snapshots[Len(snapshots)].entries = Trimmed(map)
    BY <2>1 DEF Durable, MidCheckpoint, Behind
  <2>3. StoredTypes(left, E)'
    BY <1>3, <1>6, <2>1 DEF StoredTypes, Jobs
  <2>4. MidCheckpoint(left)'
    BY <2>1, <2>2 DEF MidCheckpoint, Behind, SnapshotWork
  <2>5. RecentKept(left)'
    <3> SUFFICES ASSUME NEW s \in Slots, Trimmed(map)[s] # Empty PROVE Recovered(s)' = map[s]
      BY <2>1 DEF RecentKept
    <3>1. Recovered(s)' = GivenBack(<<>>, snapshots, s)
      BY <2>1, RecoveredIs
    <3> QED
      BY <1>3, <1>8, <2>2, <3>1
  <2> QED
    BY <1>7, <2>1, <2>2, <2>3, <2>4, <2>5 DEF Durable
<1>13. CASE Head(job) = "prune"
  <2>1. /\ job = <<"prune">> /\ job' = <<>> /\ left = Kept(map)
        /\ snapshots' = Latest(snapshots, MaxSnapshots) /\ buffer' = buffer /\ changelog' = changelog /\ tail' = tail
    BY <1>1, <1>2, <1>13, NextOperation DEF Checkpoint, SnapshotWork
  <2>2. /\ buffer = <<>> /\ changelog = <<>>
        /\ snapshots # <<>> /\ snapshots[Len(snapshots)].entries = Trimmed(map)
    BY <2>1 DEF Durable, MidCheckpoint, Behind
  <2>3. /\ snapshots' \in Seq(SnapshotsOf(E)) /\ snapshots' # <<>>
        /\ snapshots'[Len(snapshots')] = snapshots[Len(snapshots)]
    <3> DEFINE q == Latest(snapshots, MaxSnapshots)
    <3>1. q \in Seq(SnapshotsOf(E)) /\ q # <<>> /\ q[Len(q)] = snapshots[Len(snapshots)]
      BY <1>3, <2>2, LatestOf, SnapshotAssumption
    <3>2. snapshots' = q
      BY <2>1
    <3> HIDE DEF q
    <3> QED
      BY <3>1, <3>2
  <2>4. StoredTypes(left, E)'
    BY <1>3, <1>4, <2>1, <2>3 DEF StoredTypes, Jobs
  <2>5. MidCheckpoint(left)'
    BY <2>1 DEF MidCheckpoint, SnapshotWork
  <2>6. RecentKept(left)'
    <3> SUFFICES ASSUME NEW s \in Slots, Trimmed(Kept(map))[s] # Empty PROVE Recovered(s)' = Kept(map)[s]
      BY <2>1 DEF RecentKept
    <3>1. Recovered(s)' = GivenBack(<<>>, snapshots', s)
      BY <2>1, <2>2, RecoveredIs
    <3>2. Trimmed(map)[s] # Empty /\ Kept(map)[s] = map[s]
      BY <1>3, KeptIsUpper
    <3>3. snapshots'[Len(snapshots')].entries = Trimmed(map)
      BY <2>2, <2>3
    <3>4. GivenBack(<<>>, snapshots', s) = map[s]
      BY <1>8, <2>3, <3>2, <3>3
    <3> QED
      BY <3>1, <3>2, <3>4
  <2> QED
    BY <1>7, <2>1, <2>2, <2>4, <2>5, <2>6 DEF Durable
<1> QED
  BY <1>1, <1>9, <1>10, <1>11, <1>12, <1>13, NextOperation DEF Checkpoint, SnapshotWork

\* A crash keeps to it, whatever the fresh process takes from the files
\* (load_and_replay_state), or if it takes nothing.
LEMMA CrashKeeps ==
  ASSUME NEW E, NEW map, NEW found, Durable(map, E), CrashFiles, found \in RecoveredMaps \cup {EmptyMap}
  PROVE  Durable(found, E)'
<1>1. /\ buffer' = <<>> /\ job' = <<>> /\ changelog' = changelog /\ snapshots' = snapshots
      /\ tail' = IF tail = "half" THEN "garbage" ELSE tail
      /\ tail \in {"clean", "half", "garbage"}
      /\ changelog \in Seq(Records(E)) /\ snapshots \in Seq(SnapshotsOf(E))
  BY DEF CrashFiles, Durable, StoredTypes
<1>2. <<>> \in Seq(Records(E)) /\ Len(<<>>) = 0 /\ DOMAIN <<>> = {}
  OBVIOUS
<1>3. \A s \in Slots : FromSnapshots(s) = LastEntry(Latest(snapshots, LoadSnapshots), s)
  BY DEF FromSnapshots, LastEntry, InSnapshots, EntriesOf, Loaded
<1>4. \A s \in Slots : Recovered(s) \in E \cup {Empty} /\ FromSnapshots(s) \in E \cup {Empty}
  BY <1>1, <1>3, GivenBackType, RecoveredIs
<1>5. \/ found = EmptyMap
      \/ found = [s \in Slots |-> Recovered(s)]
      \/ tail # "clean" /\ found = [s \in Slots |-> FromSnapshots(s)]
  BY DEF RecoveredMaps
<1>6. found \in MapsTo(E)
  BY <1>4, <1>5 DEF MapsTo, EmptyMap
<1>7. StoredTypes(found, E)'
  BY <1>1, <1>2, <1>6 DEF StoredTypes, Jobs
<1>8. BufferNow(found)' /\ MidCheckpoint(found)'
  BY <1>1, <1>2 DEF BufferNow, MidCheckpoint, SnapshotWork
<1>9. RecentKept(found)'
  <2> SUFFICES ASSUME tail' # "garbage", NEW s \in Slots, Trimmed(found)[s] # Empty
               PROVE  Recovered(s)' = found[s]
    BY DEF RecentKept
  <2>1. tail = "clean" /\ Recovered(s)' = Recovered(s)
    BY <1>1, RecoveredIs
  <2>2. found # EmptyMap
    <3>1. found[s] # Empty
      BY <1>6, TrimmedIs
    <3> QED
      BY <3>1 DEF EmptyMap
  <2> QED
    BY <1>5, <2>1, <2>2
<1> QED
  BY <1>7, <1>8, <1>9 DEF Durable

----------------------------------------------------------------------------
(* The storage of an acceptor.                                             *)

\* The current-state file holds the promise, but while it is written.
PromiseKept ==
  /\ promised \in 0 .. MaxBallot /\ stateFile \in 0 .. MaxBallot \cup {Empty}
  /\ ~Saving /\ promised # 0 => stateFile = promised

LEMMA JobOfAccept ==
  ASSUME NEW s \in Slots, NEW pv \in PValue, Accept(s, pv)
  PROVE  job' \in NewJobs
<1>1. PICK due \in {<<>>, <<"flush">>} : job' = due \o IF SnapshotDue(s, lastAccepted) THEN Checkpoint ELSE <<>>
  BY DEF Accept
<1> QED
  BY <1>1, JobOfEntry

\* Each step of an acceptor keeps to it: prepare, accept, the tick, the file operations
\* and the restart of core/acceptor/src/acceptor.rs.
LEMMA PromiseKeeps ==
  ASSUME job \in Jobs, PromiseKept, AcceptorNext
  PROVE  job' \in Jobs /\ PromiseKept'
<1>1. ASSUME NEW b \in 1 .. MaxBallot, Prepare(b) PROVE job' \in Jobs /\ PromiseKept'
  <2>1. promised' = b /\ stateFile' = Empty /\ job' = <<"write">>
    BY <1>1 DEF Prepare, BeginSaveState
  <2>2. Saving' /\ b \in 0 .. MaxBallot
    BY <2>1, BallotsAssumption DEF Saving
  <2> QED
    BY <2>1, <2>2 DEF PromiseKept, Jobs
<1>2. ASSUME NEW s \in Slots, NEW pv \in PValue, Accept(s, pv) PROVE job' \in Jobs /\ PromiseKept'
  <2>1. job = <<>> /\ promised' = promised /\ stateFile' = stateFile
    BY <1>2 DEF Accept, Idle
  <2>2. ~Saving
    BY <2>1 DEF Saving
  <2>3. job' \in Jobs
    BY <1>2, JobOfAccept DEF Jobs, NewJobs
  <2> QED
    BY <2>1, <2>2, <2>3 DEF PromiseKept
<1>3. CASE AcceptorTick
  <2>1. job = <<>> /\ job' = <<"flush">> /\ promised' = promised /\ stateFile' = stateFile
    BY <1>3 DEF AcceptorTick, Idle, acceptorVars, disk
  <2>2. ~Saving
    BY <2>1 DEF Saving
  <2> QED
    BY <2>1, <2>2 DEF PromiseKept, Jobs
<1>4. CASE AcceptorFileStep
  <2>1. /\ job # <<>> /\ job' = Tail(job) /\ promised' = promised
        /\ Head(job) = "write" => stateFile' = promised
        /\ Head(job) \in {"flush", "rename", "truncate", "prune"} => stateFile' = stateFile
    BY <1>4 DEF AcceptorFileStep, FileStep, WriteState, Flush, RenameSnapshot, TruncateChangelog, PruneSnapshots
  <2>2. Head(job) \in {"write", "flush", "rename", "truncate", "prune"} /\ job' \in Jobs
    BY <2>1, NextOperation DEF Jobs
  <2>3. CASE Head(job) = "write"
    BY <2>1, <2>2, <2>3 DEF PromiseKept
  <2>4. CASE Head(job) # "write"
    <3>1. ~Saving /\ stateFile' = stateFile
      BY <2>1, <2>2, <2>4 DEF Saving
    <3> QED
      BY <2>1, <2>2, <3>1 DEF PromiseKept
  <2> QED
    BY <2>3, <2>4
<1>5. CASE RestartAcceptor
  <2>1. promised' = (IF stateFile = Empty THEN 0 ELSE stateFile) /\ stateFile' = stateFile /\ job' = <<>>
    BY <1>5 DEF RestartAcceptor, CrashFiles
  <2> QED
    BY <2>1, BallotsAssumption DEF PromiseKept, Jobs
<1> QED
  BY <1>1, <1>2, <1>3, <1>4, <1>5 DEF AcceptorNext

\* Once save_state is through, no crash makes the acceptor forget its promise
\* (acceptor.rs, save_state in on_prepare; load_and_replay_state).
THEOREM PromiseSurvivesHolds == AcceptorSpec => PromiseSurvives
<1> DEFINE Inv == job \in Jobs /\ PromiseKept
<1>1. AcceptorInit /\ StorageInit => Inv
  BY BallotsAssumption DEF AcceptorInit, StorageInit, PromiseKept, Jobs
<1>2. Inv /\ [AcceptorNext]_acceptorStorageVars => Inv'
  <2> SUFFICES ASSUME Inv, [AcceptorNext]_acceptorStorageVars PROVE Inv'
    OBVIOUS
  <2>1. CASE AcceptorNext
    BY <2>1, PromiseKeeps
  <2>2. CASE UNCHANGED acceptorStorageVars
    BY <2>2 DEF acceptorStorageVars, acceptorVars, storageVars, disk, PromiseKept, Saving
  <2> QED
    BY <2>1, <2>2
<1>3. ASSUME Inv, AcceptorNext, ~Saving PROVE promised' >= promised
  <2>1. promised \in 0 .. MaxBallot /\ MaxBallot \in Nat
    BY <1>3, BallotsAssumption DEF PromiseKept
  <2>2. CASE RestartAcceptor
    <3>1. promised' = IF stateFile = Empty THEN 0 ELSE stateFile
      BY <2>2 DEF RestartAcceptor
    <3>2. promised # 0 => stateFile = promised /\ stateFile # Empty
      BY <1>3, <2>1, NothingAssumption DEF PromiseKept
    <3>3. stateFile # Empty => stateFile \in 0 .. MaxBallot
      BY <1>3 DEF PromiseKept
    <3> QED
      BY <2>1, <3>1, <3>2, <3>3
  <2>3. ASSUME NEW b \in 1 .. MaxBallot, Prepare(b) PROVE promised' >= promised
    BY <2>1, <2>3 DEF Prepare
  <2>4. ASSUME \/ \E s \in Slots, pv \in PValue : Accept(s, pv)
               \/ AcceptorTick \/ AcceptorFileStep
        PROVE  promised' >= promised
    <3>1. promised' = promised
      BY <2>4 DEF Accept, AcceptorTick, AcceptorFileStep, acceptorVars
    <3> QED
      BY <2>1, <3>1
  <2> QED
    BY <1>3, <2>2, <2>3, <2>4 DEF AcceptorNext
<1>4. Inv /\ [AcceptorNext]_acceptorStorageVars => [~Saving => promised' >= promised]_acceptorStorageVars
  BY <1>3
<1> HIDE DEF Inv
<1> QED
  BY <1>1, <1>2, <1>4, PTL DEF AcceptorSpec, PromiseSurvives

\* What else its steps keep: the files give back the highest p-values.
LEMMA AcceptorKeeps ==
  ASSUME LoadSnapshots # 0, Durable(accepted, PValue), AcceptorNext
  PROVE  Durable(accepted, PValue)'
<1>1. PICK map : map = accepted
  OBVIOUS
<1>2. PICK after : after = accepted'
  OBVIOUS
<1>3. Durable(map, PValue)
  BY <1>1
<1>4. ASSUME Durable(after, PValue)' PROVE Durable(accepted, PValue)'
  BY <1>2, <1>4 DEF Durable, StoredTypes, BufferNow, MidCheckpoint, Behind, RecentKept
<1>5. ASSUME NEW b \in 1 .. MaxBallot, Prepare(b) PROVE Durable(after, PValue)'
  <2>1. /\ job = <<>> /\ job' = <<"write">> /\ accepted' = accepted
        /\ UNCHANGED <<buffer, changelog, tail, snapshots>>
    BY <1>5 DEF Prepare, Idle, BeginSaveState
  <2> QED
    BY <1>1, <1>2, <1>3, <2>1, BeginKeeps
<1>6. ASSUME NEW s \in Slots, NEW pv \in PValue, Accept(s, pv) PROVE Durable(after, PValue)'
  <2>1. /\ job = <<>> /\ accepted[s] = Empty /\ accepted' = [accepted EXCEPT ![s] = pv]
        /\ SaveChange([slot |-> s, entry |-> pv]) /\ snapshots' = snapshots
    BY <1>6 DEF Accept, Idle
  <2>2. map[s] = Empty /\ after = [map EXCEPT ![s] = pv] /\ Empty \notin PValue
    BY <1>1, <1>2, <2>1, NothingAssumption
  <2> QED
    BY <1>3, <1>6, <2>1, <2>2, JobOfAccept, StoreKeeps
<1>7. CASE AcceptorTick
  <2>1. /\ job = <<>> /\ job' = <<"flush">> /\ accepted' = accepted
        /\ UNCHANGED <<buffer, changelog, tail, snapshots>>
    BY <1>7 DEF AcceptorTick, Idle, acceptorVars, disk
  <2> QED
    BY <1>1, <1>2, <1>3, <1>4, <2>1, BeginKeeps
<1>8. CASE AcceptorFileStep
  <2>1. PICK p : p = promised
    OBVIOUS
  <2>2. /\ FileStep(p, [entries |-> Trimmed(map), adu |-> 0])
        /\ after = IF Head(job) = "prune" THEN Kept(map) ELSE map
    BY <1>1, <1>2, <1>8, <2>1 DEF AcceptorFileStep
  <2>3. 0 \in 0 .. MaxSlot
    BY SlotsAssumption
  <2>4. Durable(after, PValue)'
    BY <1>3, <2>2, <2>3, FileKeeps
  <2> QED
    BY <1>4, <2>4
<1>9. CASE RestartAcceptor
  <2>1. accepted' \in RecoveredMaps \cup {EmptyMap} /\ CrashFiles
    BY <1>9 DEF RestartAcceptor
  <2>2. Durable(after, PValue)'
    BY <1>2, <1>3, <2>1, CrashKeeps
  <2> QED
    BY <1>4, <2>2
<1> QED
  BY <1>4, <1>5, <1>6, <1>7, <1>8, <1>9 DEF AcceptorNext

\* The files of an acceptor give its highest p-values back, if a restart loads any snapshot at
\* all (storage-load-snapshots).
THEOREM AcceptorStorageInvariant ==
  ASSUME LoadSnapshots # 0
  PROVE  AcceptorSpec => []Durable(accepted, PValue)
<1>1. AcceptorInit /\ StorageInit => Durable(accepted, PValue)
  <2> SUFFICES ASSUME AcceptorInit, StorageInit PROVE Durable(accepted, PValue)
    OBVIOUS
  <2>1. accepted = EmptyMap
    BY DEF AcceptorInit
  <2>2. PICK map : map = EmptyMap
    OBVIOUS
  <2>3. Durable(map, PValue)
    BY <2>2, InitIsDurable
  <2> QED
    BY <2>1, <2>2, <2>3
<1>2. ASSUME Durable(accepted, PValue), [AcceptorNext]_acceptorStorageVars PROVE Durable(accepted, PValue)'
  <2>1. CASE AcceptorNext
    BY <1>2, <2>1, AcceptorKeeps
  <2>2. CASE UNCHANGED acceptorStorageVars
    <3>1. PICK map : map = accepted
      OBVIOUS
    <3>2. Durable(map, PValue) /\ accepted' = map /\ UNCHANGED <<buffer, job, changelog, tail, snapshots>>
      BY <1>2, <2>2, <3>1 DEF acceptorStorageVars, acceptorVars, storageVars, disk
    <3>3. Durable(map, PValue)'
      BY <3>2, BeginKeeps
    <3> QED
      BY <3>2, <3>3 DEF Durable, StoredTypes, BufferNow, MidCheckpoint, Behind, RecentKept
  <2> QED
    BY <1>2, <2>1, <2>2
<1> QED
  BY <1>1, <1>2, PTL DEF AcceptorSpec

\* The Interval highest accepted slots that have left the writer's buffer survive every crash
\* between two file operations, whatever the checkpoint under way has done (storage.rs, "Atomically
\* create/rotate a new snapshot and truncate changelog").
THEOREM RecentSurvivesHolds ==
  ASSUME LoadSnapshots # 0
  PROVE  AcceptorSpec => RecentSurvives
<1>1. ASSUME Durable(accepted, PValue), RestartAcceptor, Readable, NEW s \in Recent PROVE ~Forgets(s)
  <2>1. tail = "clean" /\ stateFile # Empty /\ s \in Slots /\ Trimmed(accepted)[s] # Empty
    BY <1>1 DEF Readable, Recent
  <2>2. accepted' = [t \in Slots |-> Recovered(t)]
    BY <1>1, <2>1 DEF RestartAcceptor, RecoveredMaps
  <2>3. ~Waiting(s) => Recovered(s) = accepted[s]
    BY <1>1, <2>1 DEF Durable, RecentKept
  <2> QED
    BY <2>1, <2>2, <2>3 DEF Forgets
<1>2. Durable(accepted, PValue) /\ [AcceptorNext]_acceptorStorageVars =>
        [RestartAcceptor /\ Readable => \A s \in Recent : ~Forgets(s)]_acceptorStorageVars
  BY <1>1
<1> QED
  BY <1>2, AcceptorStorageInvariant, PTL DEF AcceptorSpec, RecentSurvives

----------------------------------------------------------------------------
(* The storage of a learner.                                               *)

Maps == [Slots -> Slots \cup {Empty}]
ChangeRecords == [slot : Slots, entry : Slots]
LearnerSnapshots == [entries : Maps, adu : 0 .. MaxSlot]

LearnerStorageOK ==
  /\ learned \in Maps /\ adu \in 0 .. MaxSlot /\ lastExecuted \in 0 .. MaxSlot /\ ever \subseteq Slots
  /\ buffer \in Seq(ChangeRecords) /\ changelog \in Seq(ChangeRecords) /\ snapshots \in Seq(LearnerSnapshots)
  /\ job \in Seq({"flush", "rename", "truncate", "prune"})

\* Nothing speaks of a slot that was never learned: neither memory nor the records
\* nor the snapshots and what they say is executed.
EverLearned(map) == \A s \in Slots : map[s] # Empty => s \in ever
EverRecorded(q)  == \A i \in 1 .. Len(q) : q[i].slot \in ever
EverSaved == \A i \in 1 .. Len(snapshots) : EverLearned(snapshots[i].entries) /\ 1 .. snapshots[i].adu \subseteq ever

\* The last snapshot reaches as far as the last checkpoint, once it is in place.
LastSaved == lastExecuted # 0 /\ InPlace =>
               snapshots # <<>> /\ snapshots[Len(snapshots)].adu >= lastExecuted

LearnerStorageInv ==
  /\ LearnerStorageOK
  /\ EverLearned(learned) /\ EverRecorded(buffer) /\ EverRecorded(changelog) /\ EverSaved
  /\ AduIsLearned
  /\ lastExecuted <= adu /\ LastSaved

\* The contiguous slots (get_adu, the loop of load_and_replay_state) are slots of the map.
LEMMA ContiguousReach ==
  ASSUME NEW map \in Maps, NEW from \in 0 .. MaxSlot
  PROVE  /\ Contiguous(map, from) \in from .. MaxSlot
         /\ \A s \in from + 1 .. Contiguous(map, from) : map[s] # Empty
<1> DEFINE T == {n \in from .. MaxSlot : \A s \in from + 1 .. n : map[s] # Empty}
<1>1. MaxSlot \in Nat /\ from \in Nat /\ from <= MaxSlot
  BY SlotsAssumption
<1>2. T \subseteq 0 .. MaxSlot /\ from \in T
  BY <1>1
<1>3. Max(T) \in T
  <2> HIDE DEF T
  <2> QED
    BY <1>1, <1>2, GreatestOf
<1> QED
  BY <1>3 DEF Contiguous

\* Handling a learn (the helper's save_change and maybe_snapshot) keeps the invariant: what
\* becomes executable was learned.
LEMMA LearnSlotKeeps ==
  ASSUME LearnerStorageInv, NEW s \in Slots, LearnSlot(s)
  PROVE  LearnerStorageInv'
<1> USE DEF LearnerStorageInv
<1> DEFINE map == [learned EXCEPT ![s] = s]
           reached == Contiguous(map, adu)
           snapshot == reached > adu /\ SnapshotDue(reached, lastExecuted)
           record == [slot |-> s, entry |-> s]
<1>1. /\ learned' = map /\ ever' = ever \cup {s} /\ adu' = reached /\ SaveChange(record)
      /\ lastExecuted' = (IF snapshot THEN reached ELSE lastExecuted)
      /\ UNCHANGED snapshots /\ job = <<>>
  BY DEF LearnSlot, Idle
<1>2. PICK due \in {<<>>, <<"flush">>} : job' = due \o IF snapshot THEN Checkpoint ELSE <<>>
  BY DEF LearnSlot
<1>3. map \in Maps /\ \A t \in Slots : map[t] # Empty => t \in ever'
  BY <1>1 DEF LearnerStorageOK, Maps, EverLearned
<1>4. reached \in adu .. MaxSlot /\ \A t \in adu + 1 .. reached : map[t] # Empty
  BY <1>3, ContiguousReach DEF LearnerStorageOK
<1> HIDE DEF map, reached, snapshot
<1>5. MaxSlot \in Nat /\ adu \in Nat /\ reached \in Nat /\ adu <= reached
  BY <1>4, SlotsAssumption DEF LearnerStorageOK
<1>6. /\ buffer' \in Seq(ChangeRecords) /\ changelog' \in Seq(ChangeRecords)
      /\ EverRecorded(buffer)' /\ EverRecorded(changelog)'
  <2>1. record \in ChangeRecords /\ record.slot = s /\ s \in ever'
    BY <1>1 DEF ChangeRecords
  <2>2. \A i \in 1 .. Len(buffer) : buffer[i].slot \in ever'
    BY <1>1 DEF EverRecorded
  <2>3. \A i \in 1 .. Len(changelog) : changelog[i].slot \in ever'
    BY <1>1 DEF EverRecorded
  <2>4. buffer \in Seq(ChangeRecords) /\ changelog \in Seq(ChangeRecords)
    BY DEF LearnerStorageOK
  <2> HIDE DEF record
  <2>5. CASE buffer' = Append(buffer, record) /\ UNCHANGED <<changelog, tail>>
    <3>1. Append(buffer, record) \in Seq(ChangeRecords) /\ Len(Append(buffer, record)) = Len(buffer) + 1
          /\ \A i \in 1 .. Len(buffer) + 1 : Append(buffer, record)[i] = IF i = Len(buffer) + 1 THEN record ELSE buffer[i]
      BY <2>1, <2>4
    <3>2. \A i \in 1 .. Len(buffer') : buffer'[i].slot \in ever'
      BY <2>1, <2>2, <2>4, <2>5, <3>1
    <3> QED
      BY <2>3, <2>4, <2>5, <3>1, <3>2 DEF EverRecorded
  <2>6. CASE changelog' = changelog \o buffer /\ buffer' = <<record>>
    <3>1. changelog \o buffer \in Seq(ChangeRecords) /\ Len(changelog \o buffer) = Len(changelog) + Len(buffer)
          /\ \A i \in 1 .. Len(changelog) + Len(buffer) : (changelog \o buffer)[i] =
               IF i <= Len(changelog) THEN changelog[i] ELSE buffer[i - Len(changelog)]
      BY <2>4
    <3>2. \A i \in 1 .. Len(changelog') : changelog'[i].slot \in ever'
      <4> TAKE i \in 1 .. Len(changelog')
      <4>1. CASE i <= Len(changelog)
        BY <2>3, <2>4, <2>6, <3>1, <4>1
      <4>2. CASE ~(i <= Len(changelog))
        <5>1. i - Len(changelog) \in 1 .. Len(buffer)
          BY <2>4, <2>6, <3>1, <4>2
        <5> QED
          BY <2>2, <2>4, <2>6, <3>1, <4>2, <5>1
      <4> QED
        BY <4>1, <4>2
    <3>3. <<record>> \in Seq(ChangeRecords) /\ \A i \in 1 .. Len(<<record>>) : <<record>>[i].slot \in ever'
      BY <2>1
    <3> QED
      BY <2>6, <3>1, <3>2, <3>3 DEF EverRecorded
  <2> QED
    BY <1>1, <2>5, <2>6 DEF SaveChange
<1>7. job' \in Seq({"flush", "rename", "truncate", "prune"})
  <2> DEFINE J == {"flush", "rename", "truncate", "prune"}
  <2>1. Checkpoint \in Seq(J) /\ <<>> \in Seq(J) /\ <<"flush">> \in Seq(J)
    BY DEF Checkpoint
  <2> HIDE DEF J
  <2>2. due \o Checkpoint \in Seq(J) /\ due \o <<>> \in Seq(J)
    <3>1. due \in Seq(J)
      BY <2>1
    <3> HIDE DEF Checkpoint
    <3> QED
      BY <2>1, <3>1
  <2>3. CASE snapshot
    BY <1>2, <2>2, <2>3 DEF J
  <2>4. CASE ~snapshot
    BY <1>2, <2>2, <2>4 DEF J
  <2> QED
    BY <2>3, <2>4
<1>8. LearnerStorageOK'
  <2>1. lastExecuted' \in 0 .. MaxSlot /\ adu' \in 0 .. MaxSlot
    BY <1>1, <1>4, <1>5 DEF LearnerStorageOK
  <2> QED
    BY <1>1, <1>3, <1>6, <1>7, <2>1 DEF LearnerStorageOK
<1>9. EverSaved' /\ EverLearned(learned)'
  BY <1>1, <1>3 DEF EverSaved, EverLearned
<1>10. AduIsLearned'
  <2>1. ASSUME NEW t \in 1 .. reached PROVE t \in ever'
    <3>1. CASE t <= adu
      BY <1>1, <1>5, <3>1 DEF AduIsLearned
    <3>2. CASE ~(t <= adu)
      <4>1. t \in adu + 1 .. reached /\ t \in Slots
        BY <1>4, <1>5, <3>2 DEF Slots
      <4> QED
        BY <1>3, <1>4, <4>1
    <3> QED
      BY <3>1, <3>2
  <2> QED
    BY <1>1, <2>1 DEF AduIsLearned
<1>11. (lastExecuted <= adu)'
  BY <1>1, <1>5 DEF LearnerStorageOK
<1>12. LastSaved'
  <2>1. CASE snapshot
    <3>1. job' = <<>> \o Checkpoint \/ job' = <<"flush">> \o Checkpoint
      BY <1>2, <2>1
    <3>2. \E i \in DOMAIN job' : job'[i] = "rename"
      <4>1. CASE job' = <<>> \o Checkpoint
        <5>1. 2 \in DOMAIN job' /\ job'[2] = "rename"
          BY <4>1 DEF Checkpoint
        <5> QED
          BY <5>1
      <4>2. CASE job' = <<"flush">> \o Checkpoint
        <5>1. 3 \in DOMAIN job' /\ job'[3] = "rename"
          BY <4>2 DEF Checkpoint
        <5> QED
          BY <5>1
      <4> QED
        BY <3>1, <4>1, <4>2
    <3> QED
      BY <3>2 DEF LastSaved, InPlace
  <2>2. CASE ~snapshot
    <3>1. InPlace
      BY <1>1 DEF InPlace
    <3> QED
      BY <1>1, <2>2, <3>1 DEF LastSaved
  <2> QED
    BY <2>1, <2>2
<1> QED
  BY <1>6, <1>8, <1>9, <1>10, <1>11, <1>12

\* A flush that is due (the agent's tick) changes nothing yet.
LEMMA LearnerFlushKeeps ==
  ASSUME LearnerStorageInv, LearnerFlush
  PROVE  LearnerStorageInv'
<1> USE DEF LearnerStorageInv
<1>1. /\ job = <<>> /\ job' = <<"flush">> /\ UNCHANGED <<learnerVars, buffer, disk>>
      /\ learned' = learned /\ adu' = adu /\ lastExecuted' = lastExecuted /\ ever' = ever
      /\ buffer' = buffer /\ changelog' = changelog /\ snapshots' = snapshots
  BY DEF LearnerFlush, Idle, learnerVars, disk
<1>2. <<"flush">> \in Seq({"flush", "rename", "truncate", "prune"})
  OBVIOUS
<1>3. LearnerStorageOK'
  BY <1>1, <1>2 DEF LearnerStorageOK
<1>4. InPlace
  BY <1>1 DEF InPlace
<1> QED
  BY <1>1, <1>3, <1>4 DEF EverLearned, EverRecorded, EverSaved, AduIsLearned, LastSaved

\* Two sequences of recorded changes make one.
LEMMA RecordedTogether ==
  ASSUME NEW q \in Seq(ChangeRecords), NEW r \in Seq(ChangeRecords), EverRecorded(q), EverRecorded(r)
  PROVE  q \o r \in Seq(ChangeRecords) /\ EverRecorded(q \o r)
<1>1. q \o r \in Seq(ChangeRecords) /\ Len(q \o r) = Len(q) + Len(r)
      /\ \A i \in 1 .. Len(q) + Len(r) : (q \o r)[i] = IF i <= Len(q) THEN q[i] ELSE r[i - Len(q)]
  OBVIOUS
<1>2. ASSUME NEW i \in 1 .. Len(q \o r) PROVE (q \o r)[i].slot \in ever
  <2>1. CASE i <= Len(q)
    BY <1>1, <2>1 DEF EverRecorded
  <2>2. CASE ~(i <= Len(q))
    <3>1. i - Len(q) \in 1 .. Len(r)
      BY <1>1, <2>2
    <3> QED
      BY <1>1, <2>2, <3>1 DEF EverRecorded
  <2> QED
    BY <2>1, <2>2
<1> QED
  BY <1>1, <1>2 DEF EverRecorded

\* What is kept of the memory and of a snapshot was there (trim, prune of the helper).
LEMMA TrimmedWasThere ==
  ASSUME learned \in Maps, EverLearned(learned)
  PROVE  /\ Trimmed(learned) \in Maps /\ EverLearned(Trimmed(learned))
         /\ Kept(learned) \in Maps /\ EverLearned(Kept(learned))
<1>1. \A s \in Slots : /\ Trimmed(learned)[s] = learned[s] \/ Trimmed(learned)[s] = Empty
                       /\ Kept(learned)[s] = learned[s] \/ Kept(learned)[s] = Empty
  BY DEF Trimmed, Kept
<1>2. \A s \in Slots : learned[s] \in Slots \cup {Empty}
  BY DEF Maps
<1>3. /\ Trimmed(learned) = [s \in Slots |-> Trimmed(learned)[s]]
      /\ Kept(learned) = [s \in Slots |-> Kept(learned)[s]]
  BY DEF Trimmed, Kept
<1>4. Trimmed(learned) \in Maps /\ Kept(learned) \in Maps
  BY <1>1, <1>2, <1>3 DEF Maps
<1> QED
  BY <1>1, <1>4 DEF EverLearned

\* A file operation (flush, save_snapshot, truncate_changelog, prune_snapshots) keeps the
\* invariant, whichever operations follow.
LEMMA LearnerFileKeeps ==
  ASSUME LearnerStorageInv, LearnerFileStep
  PROVE  LearnerStorageInv'
<1> USE DEF LearnerStorageInv
<1> DEFINE J == {"flush", "rename", "truncate", "prune"}
           snap == [entries |-> Trimmed(learned), adu |-> adu]
<1>1. /\ job # <<>> /\ job' = Tail(job) /\ job \in Seq(J)
      /\ adu' = adu /\ lastExecuted' = lastExecuted /\ ever' = ever
      /\ learned' = IF Head(job) = "prune" THEN Kept(learned) ELSE learned
  BY DEF LearnerFileStep, FileStep, LearnerStorageOK
<1>2. Head(job) \in J /\ Tail(job) \in Seq(J) /\ Head(job) = job[1]
      /\ Len(job) \in Nat \ {0} /\ Len(Tail(job)) = Len(job) - 1
      /\ \A i \in 1 .. Len(Tail(job)) : Tail(job)[i] = job[i + 1]
  BY <1>1
<1>3. learned' \in Maps /\ EverLearned(learned)'
  <2>1. EverLearned(Kept(learned)) /\ Kept(learned) \in Maps
    BY TrimmedWasThere DEF LearnerStorageOK
  <2> QED
    BY <1>1, <2>1 DEF LearnerStorageOK, EverLearned
<1>4. AduIsLearned' /\ (lastExecuted <= adu)'
  BY <1>1 DEF AduIsLearned
<1>5. /\ Head(job) = "flush" => changelog' = changelog \o buffer /\ buffer' = <<>> /\ snapshots' = snapshots
      /\ Head(job) = "rename" => snapshots' = Append(snapshots, snap) /\ UNCHANGED <<buffer, changelog>>
      /\ Head(job) = "truncate" => changelog' = <<>> /\ UNCHANGED <<buffer, snapshots>>
      /\ Head(job) = "prune" => snapshots' = Latest(snapshots, MaxSnapshots) /\ UNCHANGED <<buffer, changelog>>
  BY DEF LearnerFileStep, FileStep, Flush, RenameSnapshot, TruncateChangelog, PruneSnapshots
<1>6. /\ buffer' \in Seq(ChangeRecords) /\ changelog' \in Seq(ChangeRecords)
      /\ EverRecorded(buffer)' /\ EverRecorded(changelog)'
  <2>1. /\ changelog \o buffer \in Seq(ChangeRecords) /\ EverRecorded(changelog \o buffer)
        /\ buffer \in Seq(ChangeRecords) /\ changelog \in Seq(ChangeRecords)
    BY RecordedTogether DEF LearnerStorageOK
  <2>2. <<>> \in Seq(ChangeRecords) /\ \A i \in 1 .. Len(<<>>) : <<>>[i].slot \in ever
    OBVIOUS
  <2>3. buffer' \in {buffer, <<>>} /\ changelog' \in {changelog, changelog \o buffer, <<>>}
    BY <1>2, <1>5
  <2> QED
    BY <1>1, <2>1, <2>2, <2>3 DEF EverRecorded
<1>7. snapshots \in Seq(LearnerSnapshots) /\ Len(snapshots) \in Nat
      /\ \A i \in 1 .. Len(snapshots) : EverLearned(snapshots[i].entries) /\ 1 .. snapshots[i].adu \subseteq ever
  BY DEF LearnerStorageOK, EverSaved
<1>8. /\ snap \in LearnerSnapshots /\ snap.adu = adu
      /\ EverLearned(snap.entries) /\ 1 .. snap.adu \subseteq ever
  BY TrimmedWasThere DEF LearnerStorageOK, LearnerSnapshots, AduIsLearned
<1> HIDE DEF snap
<1>9. /\ snapshots' \in Seq(LearnerSnapshots)
      /\ \A i \in 1 .. Len(snapshots') : EverLearned(snapshots'[i].entries) /\ 1 .. snapshots'[i].adu \subseteq ever
      /\ LastSaved'
  <2>1. CASE Head(job) = "rename"
    <3>1. /\ Append(snapshots, snap) \in Seq(LearnerSnapshots) /\ Len(Append(snapshots, snap)) = Len(snapshots) + 1
          /\ \A i \in 1 .. Len(snapshots) + 1 :
               Append(snapshots, snap)[i] = IF i = Len(snapshots) + 1 THEN snap ELSE snapshots[i]
      BY <1>7, <1>8
    <3>2. ASSUME NEW i \in 1 .. Len(snapshots')
          PROVE  EverLearned(snapshots'[i].entries) /\ 1 .. snapshots'[i].adu \subseteq ever
      <4>1. snapshots' = Append(snapshots, snap) /\ Len(snapshots') = Len(snapshots) + 1
        BY <1>5, <2>1, <3>1
      <4>2. CASE i = Len(snapshots) + 1
        BY <1>8, <3>1, <4>1, <4>2
      <4>3. CASE i # Len(snapshots) + 1
        <5>1. i \in 1 .. Len(snapshots)
          BY <1>7, <4>1, <4>3
        <5> QED
          BY <1>7, <3>1, <4>1, <4>3, <5>1
      <4> QED
        BY <4>2, <4>3
    <3>3. snapshots' # <<>> /\ snapshots'[Len(snapshots')].adu = adu
      <4>1. Len(snapshots) + 1 \in 1 .. Len(snapshots) + 1
        BY <1>7
      <4>2. snapshots' = Append(snapshots, snap) /\ Append(snapshots, snap)[Len(snapshots) + 1] = snap
        BY <1>5, <2>1, <3>1, <4>1
      <4>3. Len(<<>>) = 0
        OBVIOUS
      <4> QED
        BY <1>7, <1>8, <3>1, <4>2, <4>3
    <3>4. adu >= lastExecuted
      BY DEF LearnerStorageOK
    <3> QED
      BY <1>1, <1>5, <2>1, <3>1, <3>2, <3>3, <3>4 DEF LastSaved
  <2>2. CASE Head(job) # "rename"
    <3>1. InPlace' => InPlace
      <4> SUFFICES ASSUME InPlace', NEW i \in DOMAIN job PROVE job[i] # "rename"
        BY DEF InPlace
      <4>1. i \in 1 .. Len(job)
        BY <1>1
      <4>2. CASE i = 1
        BY <1>2, <2>2, <4>2
      <4>3. CASE i # 1
        <5>1. i - 1 \in 1 .. Len(Tail(job)) /\ i - 1 + 1 = i
          BY <1>2, <4>1, <4>3
        <5>2. i - 1 \in DOMAIN Tail(job) /\ Tail(job)[i - 1] = job[i]
          BY <1>2, <5>1
        <5> QED
          BY <1>1, <5>2 DEF InPlace
      <4> QED
        BY <4>2, <4>3
    <3>2. CASE snapshots' = snapshots
      BY <1>1, <1>7, <3>1, <3>2 DEF LastSaved
    <3>3. CASE snapshots' = Latest(snapshots, MaxSnapshots)
      <4>1. MaxSnapshots \in Nat /\ MaxSnapshots # 0
        BY SnapshotAssumption
      <4>2. /\ snapshots' \in Seq(LearnerSnapshots)
            /\ \A i \in 1 .. Len(snapshots') : \E j \in 1 .. Len(snapshots) : snapshots'[i] = snapshots[j]
            /\ snapshots # <<>> => snapshots' # <<>> /\ snapshots'[Len(snapshots')] = snapshots[Len(snapshots)]
        <5> DEFINE q == Latest(snapshots, MaxSnapshots)
        <5>1. /\ q \in Seq(LearnerSnapshots)
              /\ \A i \in 1 .. Len(q) : \E j \in 1 .. Len(snapshots) : q[i] = snapshots[j]
              /\ snapshots # <<>> => q # <<>> /\ q[Len(q)] = snapshots[Len(snapshots)]
          BY <1>7, <4>1, LatestOf
        <5>2. snapshots' = q
          BY <3>3
        <5> HIDE DEF q
        <5> QED
          BY <5>1, <5>2
      <4>3. ASSUME NEW i \in 1 .. Len(snapshots')
            PROVE  EverLearned(snapshots'[i].entries) /\ 1 .. snapshots'[i].adu \subseteq ever
        <5>1. PICK j \in 1 .. Len(snapshots) : snapshots'[i] = snapshots[j]
          BY <4>2
        <5> QED
          BY <1>7, <5>1
      <4> QED
        BY <1>1, <3>1, <4>2, <4>3 DEF LastSaved
    <3> QED
      BY <1>2, <1>5, <2>2, <3>2, <3>3
  <2> QED
    BY <2>1, <2>2
<1>10. EverSaved'
  BY <1>1, <1>9 DEF EverSaved, EverLearned
<1>11. LearnerStorageOK'
  BY <1>1, <1>2, <1>3, <1>6, <1>9 DEF LearnerStorageOK
<1> QED
  BY <1>3, <1>4, <1>6, <1>9, <1>10, <1>11

\* The snapshots that a restart loads (load_all_snapshots) are snapshots that were saved.
LEMMA LoadedWasSaved ==
  ASSUME LearnerStorageInv
  PROVE  /\ Loaded \in Seq(LearnerSnapshots) /\ Len(Loaded) \in Nat
         /\ \A i \in 1 .. Len(Loaded) : /\ Loaded[i].entries \in Maps /\ EverLearned(Loaded[i].entries)
                                        /\ Loaded[i].adu \in 0 .. MaxSlot /\ 1 .. Loaded[i].adu \subseteq ever
         /\ LoadSnapshots # 0 /\ snapshots # <<>> =>
              Loaded # <<>> /\ Loaded[Len(Loaded)] = snapshots[Len(snapshots)]
<1>1. snapshots \in Seq(LearnerSnapshots) /\ LoadSnapshots \in Nat
  BY SnapshotAssumption DEF LearnerStorageInv, LearnerStorageOK
<1>2. /\ Loaded \in Seq(LearnerSnapshots)
      /\ \A i \in 1 .. Len(Loaded) : \E j \in 1 .. Len(snapshots) : Loaded[i] = snapshots[j]
      /\ LoadSnapshots # 0 /\ snapshots # <<>> =>
           Loaded # <<>> /\ Loaded[Len(Loaded)] = snapshots[Len(snapshots)]
  BY <1>1, LatestOf DEF Loaded
<1>3. ASSUME NEW i \in 1 .. Len(Loaded)
      PROVE  /\ Loaded[i].entries \in Maps /\ EverLearned(Loaded[i].entries)
             /\ Loaded[i].adu \in 0 .. MaxSlot /\ 1 .. Loaded[i].adu \subseteq ever
  <2>1. PICK j \in 1 .. Len(snapshots) : Loaded[i] = snapshots[j]
    BY <1>2
  <2>2. snapshots[j] \in LearnerSnapshots
    BY <1>1
  <2> QED
    BY <2>1, <2>2 DEF LearnerSnapshots, LearnerStorageInv, EverSaved
<1> QED
  BY <1>2, <1>3

\* What a restart recovers (load_and_replay_state) was learned, in this life or an
\* earlier one.
LEMMA RecoveredWasLearned ==
  ASSUME LearnerStorageInv, NEW map \in RecoveredMaps
  PROVE  map \in Maps /\ EverLearned(map)
<1>1. ASSUME NEW s \in Slots
      PROVE  FromSnapshots(s) \in Slots \cup {Empty} /\ (FromSnapshots(s) # Empty => s \in ever)
  <2>1. CASE InSnapshots(s) = {}
    BY <2>1 DEF FromSnapshots
  <2>2. CASE InSnapshots(s) # {}
    <3> DEFINE last == Max(InSnapshots(s))
    <3>1. InSnapshots(s) \subseteq 0 .. Len(Loaded) /\ InSnapshots(s) \subseteq 1 .. Len(Loaded) /\ Len(Loaded) \in Nat
      BY LoadedWasSaved DEF InSnapshots
    <3>2. last \in InSnapshots(s)
      BY <2>2, <3>1, GreatestOf
    <3> HIDE DEF last
    <3>3. last \in 1 .. Len(Loaded) /\ Loaded[last].entries[s] # Empty
      BY <3>1, <3>2 DEF InSnapshots
    <3>4. Loaded[last].entries \in Maps /\ EverLearned(Loaded[last].entries)
      BY <3>3, LoadedWasSaved
    <3>5. FromSnapshots(s) = Loaded[last].entries[s]
      BY <2>2 DEF FromSnapshots, last
    <3> QED
      BY <3>3, <3>4, <3>5 DEF Maps, EverLearned
  <2> QED
    BY <2>1, <2>2
<1>2. ASSUME NEW s \in Slots
      PROVE  Recovered(s) \in Slots \cup {Empty} /\ (Recovered(s) # Empty => s \in ever)
  <2>1. CASE InChangelog(s) = {}
    BY <1>1, <2>1 DEF Recovered
  <2>2. CASE InChangelog(s) # {}
    <3> DEFINE last == Max(InChangelog(s))
    <3>1. changelog \in Seq(ChangeRecords) /\ Len(changelog) \in Nat
      BY DEF LearnerStorageInv, LearnerStorageOK
    <3>2. InChangelog(s) \subseteq 0 .. Len(changelog) /\ InChangelog(s) \subseteq 1 .. Len(changelog)
      BY <3>1 DEF InChangelog
    <3>3. last \in InChangelog(s)
      BY <2>2, <3>1, <3>2, GreatestOf
    <3> HIDE DEF last
    <3>4. last \in 1 .. Len(changelog) /\ changelog[last].slot = s
      BY <3>2, <3>3 DEF InChangelog
    <3>5. changelog[last] \in ChangeRecords /\ s \in ever
      BY <3>1, <3>4 DEF LearnerStorageInv, EverRecorded
    <3>6. Recovered(s) = changelog[last].entry
      BY <2>2 DEF Recovered, last
    <3> QED
      BY <3>5, <3>6 DEF ChangeRecords
  <2> QED
    BY <2>1, <2>2
<1>3. \/ map = [s \in Slots |-> Recovered(s)]
      \/ map = EmptyMap
      \/ map = [s \in Slots |-> FromSnapshots(s)]
  BY DEF RecoveredMaps
<1>4. CASE map = [s \in Slots |-> Recovered(s)]
  BY <1>2, <1>4 DEF Maps, EverLearned
<1>5. CASE map = EmptyMap
  BY <1>5 DEF EmptyMap, Maps, EverLearned
<1>6. CASE map = [s \in Slots |-> FromSnapshots(s)]
  BY <1>1, <1>6 DEF Maps, EverLearned
<1> QED
  BY <1>3, <1>4, <1>5, <1>6

\* The adu of the last snapshot loaded reaches over executed slots only, and as far as the last
\* checkpoint if that is in place.
LEMMA SnapshotAduReach ==
  ASSUME LearnerStorageInv
  PROVE  /\ SnapshotAdu \in 0 .. MaxSlot /\ 1 .. SnapshotAdu \subseteq ever
         /\ LoadSnapshots # 0 /\ InPlace => lastExecuted <= SnapshotAdu
<1>1. MaxSlot \in Nat /\ lastExecuted \in 0 .. MaxSlot
  BY SlotsAssumption DEF LearnerStorageInv, LearnerStorageOK
<1>2. CASE Loaded = <<>>
  <2>1. SnapshotAdu = 0
    BY <1>2 DEF SnapshotAdu
  <2>2. LoadSnapshots # 0 => snapshots = <<>>
    BY <1>2, LoadedWasSaved
  <2> QED
    BY <1>1, <2>1, <2>2 DEF LearnerStorageInv, LastSaved
<1>3. CASE Loaded # <<>>
  <2>1. SnapshotAdu = Loaded[Len(Loaded)].adu
    BY <1>3 DEF SnapshotAdu
  <2>2. Len(Loaded) \in 1 .. Len(Loaded)
    BY <1>3, LoadedWasSaved
  <2>3. SnapshotAdu \in 0 .. MaxSlot /\ 1 .. SnapshotAdu \subseteq ever
    BY <2>1, <2>2, LoadedWasSaved
  <2>4. ASSUME LoadSnapshots # 0, InPlace PROVE lastExecuted <= SnapshotAdu
    <3>1. CASE lastExecuted = 0
      BY <1>1, <2>3, <3>1
    <3>2. CASE lastExecuted # 0
      <4>1. snapshots # <<>> /\ snapshots[Len(snapshots)].adu >= lastExecuted
        BY <2>4, <3>2 DEF LearnerStorageInv, LastSaved
      <4>2. Loaded[Len(Loaded)] = snapshots[Len(snapshots)]
        BY <2>4, <4>1, LoadedWasSaved
      <4>3. SnapshotAdu >= lastExecuted
        BY <2>1, <4>1, <4>2
      <4> QED
        BY <1>1, <2>3, <4>3
    <3> QED
      BY <3>1, <3>2
  <2> QED
    BY <2>3, <2>4
<1> QED
  BY <1>2, <1>3

\* A restart (load_and_replay_state) keeps the invariant, whatever it finds.
LEMMA RestartLearnerKeeps ==
  ASSUME LearnerStorageInv, RestartLearner
  PROVE  LearnerStorageInv'
<1>1. PICK map \in RecoveredMaps :
        /\ learned' = map
        /\ adu' = IF tail = "clean" THEN Contiguous(map, SnapshotAdu)
                  ELSE IF map = EmptyMap THEN 0 ELSE SnapshotAdu
  BY DEF RestartLearner
<1>2. /\ lastExecuted' = 0 /\ ever' = ever /\ buffer' = <<>> /\ job' = <<>>
      /\ changelog' = changelog /\ snapshots' = snapshots
  BY DEF RestartLearner, CrashFiles
<1>3. map \in Maps /\ EverLearned(map)
  BY RecoveredWasLearned
<1>4. MaxSlot \in Nat /\ SnapshotAdu \in 0 .. MaxSlot /\ 1 .. SnapshotAdu \subseteq ever
  BY SnapshotAduReach, SlotsAssumption
<1>5. adu' \in 0 .. MaxSlot /\ 1 .. adu' \subseteq ever
  <2>1. CASE tail = "clean"
    <3> DEFINE reached == Contiguous(map, SnapshotAdu)
    <3>1. reached \in SnapshotAdu .. MaxSlot /\ \A s \in SnapshotAdu + 1 .. reached : map[s] # Empty
      BY <1>3, <1>4, ContiguousReach
    <3> HIDE DEF reached
    <3>2. ASSUME NEW s \in 1 .. reached PROVE s \in ever
      <4>1. CASE s <= SnapshotAdu
        BY <1>4, <4>1
      <4>2. CASE ~(s <= SnapshotAdu)
        <5>1. s \in SnapshotAdu + 1 .. reached /\ s \in Slots
          BY <1>4, <3>1, <4>2 DEF Slots
        <5> QED
          BY <1>3, <3>1, <5>1 DEF EverLearned
      <4> QED
        BY <4>1, <4>2
    <3>3. adu' = reached
      BY <1>1, <2>1 DEF reached
    <3> QED
      BY <1>4, <3>1, <3>2, <3>3
  <2>2. CASE tail # "clean"
    <3>1. adu' = 0 \/ adu' = SnapshotAdu
      BY <1>1, <2>2
    <3> QED
      BY <1>4, <3>1
  <2> QED
    BY <2>1, <2>2
<1>6. LearnerStorageOK'
  <2>1. 0 \in 0 .. MaxSlot
    BY <1>4
  <2>2. <<>> \in Seq(ChangeRecords) /\ <<>> \in Seq({"flush", "rename", "truncate", "prune"})
    OBVIOUS
  <2> QED
    BY <1>1, <1>2, <1>3, <1>5, <2>1, <2>2 DEF LearnerStorageInv, LearnerStorageOK
<1>7. EverLearned(learned)' /\ EverRecorded(buffer)' /\ EverRecorded(changelog)' /\ EverSaved'
  <2>1. EverLearned(learned)'
    BY <1>1, <1>2, <1>3 DEF EverLearned
  <2>2. EverRecorded(buffer)'
    BY <1>2 DEF EverRecorded
  <2>3. EverRecorded(changelog)' /\ EverSaved'
    BY <1>2 DEF LearnerStorageInv, EverRecorded, EverSaved, EverLearned
  <2> QED
    BY <2>1, <2>2, <2>3
<1>8. AduIsLearned' /\ (lastExecuted <= adu)' /\ LastSaved'
  BY <1>2, <1>5 DEF AduIsLearned, LastSaved
<1> QED
  BY <1>6, <1>7, <1>8 DEF LearnerStorageInv

\* Memory, records and snapshots of a learner speak only of slots it has learned, with crashes
\* between any two file operations (core/learner/src/learner.rs, storage.rs).
THEOREM LearnerStorageInvariant == LearnerSpec => []LearnerStorageInv
<1>1. LearnerInit /\ StorageInit => LearnerStorageInv
  <2> SUFFICES ASSUME LearnerInit, StorageInit PROVE LearnerStorageInv
    OBVIOUS
  <2>1. /\ learned = EmptyMap /\ adu = 0 /\ lastExecuted = 0 /\ ever = {}
        /\ buffer = <<>> /\ job = <<>> /\ changelog = <<>> /\ snapshots = <<>>
    BY DEF LearnerInit, StorageInit
  <2>2. EmptyMap \in Maps /\ \A s \in Slots : EmptyMap[s] = Empty
    BY DEF EmptyMap, Maps
  <2>3. 0 \in 0 .. MaxSlot
    BY SlotsAssumption
  <2>4. LearnerStorageOK
    BY <2>1, <2>2, <2>3 DEF LearnerStorageOK
  <2> QED
    BY <2>1, <2>2, <2>4 DEF LearnerStorageInv, EverLearned, EverRecorded, EverSaved, AduIsLearned, LastSaved
<1>2. ASSUME LearnerStorageInv, [LearnerNext]_learnerStorageVars PROVE LearnerStorageInv'
  <2>1. ASSUME NEW s \in Slots, LearnSlot(s) PROVE LearnerStorageInv'
    BY <1>2, <2>1, LearnSlotKeeps
  <2>2. CASE LearnerFlush
    BY <1>2, <2>2, LearnerFlushKeeps
  <2>3. CASE LearnerFileStep
    BY <1>2, <2>3, LearnerFileKeeps
  <2>4. CASE RestartLearner
    BY <1>2, <2>4, RestartLearnerKeeps
  <2>5. CASE UNCHANGED learnerStorageVars
    BY <1>2, <2>5 DEF learnerStorageVars, learnerVars, storageVars, disk, LearnerStorageInv, LearnerStorageOK,
                      EverLearned, EverRecorded, EverSaved, AduIsLearned, LastSaved, InPlace
  <2> QED
    BY <1>2, <2>1, <2>2, <2>3, <2>4, <2>5 DEF LearnerNext
<1> QED
  BY <1>1, <1>2, PTL DEF LearnerSpec

\* The slots that a learner takes for executed are slots it has learned, in this life or an
\* earlier one (load_and_replay_state).
THEOREM AduIsLearnedHolds == LearnerSpec => []AduIsLearned
<1>1. LearnerStorageInv => AduIsLearned
  BY DEF LearnerStorageInv
<1> QED
  BY <1>1, LearnerStorageInvariant, PTL

\* Once a checkpoint's snapshot is in place, no crash makes the learner start below it, if a
\* restart loads any snapshot at all (storage-load-snapshots).
THEOREM CheckpointSurvivesHolds ==
  ASSUME LoadSnapshots # 0
  PROVE  LearnerSpec => CheckpointSurvives
<1>1. ASSUME LearnerStorageInv, RestartLearner, tail = "clean", InPlace
      PROVE  adu' >= lastExecuted
  <2>1. PICK map \in RecoveredMaps : adu' = Contiguous(map, SnapshotAdu)
    BY <1>1 DEF RestartLearner
  <2>2. map \in Maps /\ SnapshotAdu \in 0 .. MaxSlot /\ lastExecuted <= SnapshotAdu
    BY <1>1, RecoveredWasLearned, SnapshotAduReach
  <2>3. Contiguous(map, SnapshotAdu) \in SnapshotAdu .. MaxSlot
    BY <2>2, ContiguousReach
  <2>4. lastExecuted \in 0 .. MaxSlot /\ MaxSlot \in Nat
    BY <1>1, SlotsAssumption DEF LearnerStorageInv, LearnerStorageOK
  <2> QED
    BY <2>1, <2>2, <2>3, <2>4
<1>2. LearnerStorageInv /\ [LearnerNext]_learnerStorageVars =>
        [RestartLearner /\ tail = "clean" /\ InPlace => adu' >= lastExecuted]_learnerStorageVars
  BY <1>1
<1> QED
  BY <1>2, LearnerStorageInvariant, PTL DEF LearnerSpec, CheckpointSurvives

\* The steps of a learner keep what an acceptor's do: the files give back the highest entries.
LEMMA LearnerKeeps ==
  ASSUME LoadSnapshots # 0, adu \in 0 .. MaxSlot, Durable(learned, Slots), LearnerNext
  PROVE  Durable(learned, Slots)'
<1>1. PICK map : map = learned
  OBVIOUS
<1>2. PICK after : after = learned'
  OBVIOUS
<1>3. Durable(map, Slots)
  BY <1>1
<1>4. ASSUME Durable(after, Slots)' PROVE Durable(learned, Slots)'
  BY <1>2, <1>4 DEF Durable, StoredTypes, BufferNow, MidCheckpoint, Behind, RecentKept
<1>5. ASSUME NEW s \in Slots, LearnSlot(s) PROVE Durable(after, Slots)'
  <2>1. /\ job = <<>> /\ learned[s] = Empty /\ learned' = [learned EXCEPT ![s] = s]
        /\ SaveChange([slot |-> s, entry |-> s]) /\ snapshots' = snapshots
    BY <1>5 DEF LearnSlot, Idle
  <2>2. map[s] = Empty /\ after = [map EXCEPT ![s] = s] /\ Empty \notin Slots
    BY <1>1, <1>2, <2>1, EmptyAssumption
  <2>3. \E due \in {<<>>, <<"flush">>}, rest \in {<<>>, Checkpoint} : job' = due \o rest
    BY <1>5 DEF LearnSlot
  <2>4. job' \in NewJobs
    BY <2>3, JobOfEntry
  <2> QED
    BY <1>3, <2>1, <2>2, <2>4, StoreKeeps
<1>6. CASE LearnerFlush
  <2>1. /\ job = <<>> /\ job' = <<"flush">> /\ learned' = learned
        /\ UNCHANGED <<buffer, changelog, tail, snapshots>>
    BY <1>6 DEF LearnerFlush, Idle, learnerVars, disk
  <2> QED
    BY <1>1, <1>2, <1>3, <1>4, <2>1, BeginKeeps
<1>7. CASE LearnerFileStep
  <2>1. PICK reached : reached = adu
    OBVIOUS
  <2>2. /\ FileStep(Empty, [entries |-> Trimmed(map), adu |-> reached]) /\ reached \in 0 .. MaxSlot
        /\ after = IF Head(job) = "prune" THEN Kept(map) ELSE map
    BY <1>1, <1>2, <1>7, <2>1 DEF LearnerFileStep
  <2>3. Durable(after, Slots)'
    BY <1>3, <2>2, FileKeeps
  <2> QED
    BY <1>4, <2>3
<1>8. CASE RestartLearner
  <2>1. learned' \in RecoveredMaps /\ CrashFiles
    BY <1>8 DEF RestartLearner
  <2>2. Durable(after, Slots)'
    BY <1>2, <1>3, <2>1, CrashKeeps
  <2> QED
    BY <1>4, <2>2
<1> QED
  BY <1>4, <1>5, <1>6, <1>7, <1>8 DEF LearnerNext

\* The Interval highest learned slots that have left the writer's buffer are found again after
\* every crash, also one between two operations of a checkpoint, if a restart loads any snapshot
\* at all (storage-load-snapshots).
THEOREM RecentLearnedSurvivesHolds ==
  ASSUME LoadSnapshots # 0
  PROVE  LearnerSpec => RecentLearnedSurvives
<1>1. LearnerInit /\ StorageInit => Durable(learned, Slots)
  <2> SUFFICES ASSUME LearnerInit, StorageInit PROVE Durable(learned, Slots)
    OBVIOUS
  <2>1. PICK map : map = EmptyMap
    OBVIOUS
  <2>2. Durable(map, Slots) /\ learned = map
    BY <2>1, InitIsDurable DEF LearnerInit
  <2> QED
    BY <2>2
<1>2. ASSUME LearnerStorageInv, Durable(learned, Slots), [LearnerNext]_learnerStorageVars
      PROVE  Durable(learned, Slots)'
  <2>1. CASE LearnerNext
    BY <1>2, <2>1, LearnerKeeps DEF LearnerStorageInv, LearnerStorageOK
  <2>2. CASE UNCHANGED learnerStorageVars
    <3>1. PICK map : map = learned
      OBVIOUS
    <3>2. Durable(map, Slots) /\ learned' = map /\ UNCHANGED <<buffer, job, changelog, tail, snapshots>>
      BY <1>2, <2>2, <3>1 DEF learnerStorageVars, learnerVars, storageVars, disk
    <3>3. Durable(map, Slots)'
      BY <3>2, BeginKeeps
    <3> QED
      BY <3>2, <3>3 DEF Durable, StoredTypes, BufferNow, MidCheckpoint, Behind, RecentKept
  <2> QED
    BY <1>2, <2>1, <2>2
<1>3. ASSUME Durable(learned, Slots), RestartLearner, tail = "clean", NEW s \in RecentLearned
      PROVE  learned'[s] # Empty
  <2>1. s \in Slots /\ Trimmed(learned)[s] # Empty /\ ~Waiting(s)
    BY DEF RecentLearned
  <2>2. learned' = [t \in Slots |-> Recovered(t)]
    BY <1>3 DEF RestartLearner, RecoveredMaps
  <2>3. Recovered(s) = learned[s]
    BY <1>3, <2>1 DEF Durable, RecentKept
  <2>4. learned[s] # Empty
    <3>1. PICK map : map = learned
      OBVIOUS
    <3>2. map \in MapsTo(Slots) /\ Trimmed(map)[s] # Empty
      BY <1>3, <2>1, <3>1 DEF Durable, StoredTypes
    <3> QED
      BY <2>1, <3>1, <3>2, TrimmedIs
  <2> QED
    BY <2>1, <2>2, <2>3, <2>4
<1>4. Durable(learned, Slots) /\ [LearnerNext]_learnerStorageVars =>
        [RestartLearner /\ tail = "clean" =>
           \A s \in RecentLearned : learned'[s] # Empty \/ s <= adu']_learnerStorageVars
  BY <1>3
<1> QED
  BY <1>1, <1>2, <1>4, LearnerStorageInvariant, PTL DEF LearnerSpec, RecentLearnedSurvives

----------------------------------------------------------------------------
(* The leader's clients.                                                   *)

Chan == [client : Clients, toServer : Seq(Requests), toClient : Seq(Requests),
         open : BOOLEAN, live : BOOLEAN, asked : SUBSET Requests]
Process == [up : BOOLEAN, leads : BOOLEAN, conns : SUBSET Nat, routes : [Requests -> Nat], work : Seq(Requests)]
Program == [at : {"send", "receive", "resend", "done"}, conn : Nat, next : 0 .. NumRequests,
            sent : SUBSET Nat, seen : SUBSET Seqs]

SessionsTypes == /\ chans \in Seq(Chan) /\ server \in Process /\ client \in [Clients -> Program]
                 /\ \A r \in Requests : server.routes[r] \in 0 .. Len(chans)
                 /\ \A c \in Clients : client[c].conn \in 0 .. Len(chans)
                 /\ \A c \in OneShot :
                      /\ client[c].at = "receive" => client[c].next < NumRequests /\ client[c].conn # NoChan
                      /\ client[c].at = "send" => client[c].conn = NoChan

\* A route leads to a connection on which the request was asked.
RoutesAsked == \A ch \in DOMAIN chans, r \in Requests :
  chans[ch].live /\ server.routes[r] = ch => r \in chans[ch].asked

\* A client's connection is its own and open; the server has no other one of a
\* persistent client before that client is done.
OwnChannel == \A c \in Clients : client[c].conn # NoChan =>
  chans[client[c].conn].client = c /\ chans[client[c].conn].open
OneChannel == \A ch \in DOMAIN chans : LET c == chans[ch].client IN
  chans[ch].live /\ c \in Persistent => client[c].conn = ch \/ client[c].at = "done"
DoneLeft == \A c \in Persistent : client[c].at = "done" => client[c].conn = NoChan

\* The requests of a connection are its client's, and of a persistent client they are
\* earlier ones than its next; one of them is in flight.
Earlier(c, r) == r.client = c /\ (c \in Persistent => r.seq = TopSeq \/ r.seq < client[c].next)
AskedBefore == \A ch \in DOMAIN chans, r \in Requests :
  r \in Range(chans[ch].toServer) \cup chans[ch].asked => Earlier(chans[ch].client, r)
OneInFlight == \A c \in Persistent : \A seq \in client[c].sent : seq + 1 = client[c].next

\* A leader is up and holds the connections it has read; nothing is live without a process.
Holds == /\ server.leads => server.up
         /\ ~server.up => \A ch \in DOMAIN chans : ~chans[ch].live
         /\ server.leads => \A ch \in DOMAIN chans : chans[ch].live /\ chans[ch].asked # {} => ch \in server.conns

SessionsInv == /\ SessionsTypes /\ RoutesAsked /\ OwnChannel /\ OneChannel /\ DoneLeft /\ AskedBefore
               /\ OneInFlight /\ Holds /\ AnswersWereAsked /\ AnswerOnItsWay

\* What a call of a client's does to a connection: it may write requests of a set, read
\* what came, and close.
After(a, b, written) == /\ b.client = a.client /\ (b.live => a.live /\ b.asked = a.asked)
                        /\ Range(b.toServer) \subseteq Range(a.toServer) \cup written
                        /\ b.asked \subseteq a.asked /\ Range(b.toClient) \subseteq Range(a.toClient)

LEMMA GoneIs ==
  ASSUME NEW c
  PROVE  Gone(c) = [client |-> c, toServer |-> <<>>, toClient |-> <<>>, open |-> FALSE, live |-> FALSE, asked |-> {}]
<1> DEFINE n == NewChan(c)
<1>1. /\ n \in [client : {c}, toServer : {<<>>}, toClient : {<<>>}, open : BOOLEAN, live : BOOLEAN, asked : {{}}]
      /\ Gone(c) = [n EXCEPT !.open = FALSE, !.live = FALSE]
  BY DEF Gone, NewChan
<1> HIDE DEF n
<1> QED
  BY <1>1

\* What is left of a connection (main.rs close).
LEMMA ClosedIs ==
  ASSUME SessionsTypes, NEW ch \in DOMAIN chans, NEW f \in Closed(ch)
  PROVE  /\ f \in Seq(Chan) /\ Len(f) = Len(chans)
         /\ \A d \in DOMAIN chans \ {ch} : f[d] = chans[d]
         /\ After(chans[ch], f[ch], {})
<1>1. chans \in Seq(Chan) /\ chans[ch] \in Chan
  BY DEF SessionsTypes
<1>2. ASSUME NEW b \in Chan, f = [chans EXCEPT ![ch] = b], After(chans[ch], b, {})
      PROVE  /\ f \in Seq(Chan) /\ Len(f) = Len(chans)
             /\ \A d \in DOMAIN chans \ {ch} : f[d] = chans[d]
             /\ After(chans[ch], f[ch], {})
  <2> HIDE DEF Chan
  <2>1. f[ch] = b
    BY <1>1, <1>2
  <2> QED
    BY <1>1, <1>2, <2>1
<1>3. <<>> \in Seq(Requests) /\ Range(<<>>) = {}
  BY DEF Range
<1>4. CASE ~chans[ch].live
  <2> DEFINE b == Gone(chans[ch].client)
  <2>1. b = [client |-> chans[ch].client, toServer |-> <<>>, toClient |-> <<>>, open |-> FALSE, live |-> FALSE, asked |-> {}]
    BY GoneIs
  <2>2. b \in Chan /\ After(chans[ch], b, {})
    BY <1>1, <1>3, <2>1 DEF Chan, After
  <2>3. f = [chans EXCEPT ![ch] = b]
    BY <1>4 DEF Closed
  <2> HIDE DEF b
  <2> QED
    BY <1>2, <2>2, <2>3
<1>5. CASE chans[ch].live
  <2>1. PICK unread \in {chans[ch].toServer} \cup (IF chans[ch].toClient = <<>> THEN {} ELSE {<<>>}) :
          f = [chans EXCEPT ![ch].open = FALSE, ![ch].toClient = <<>>, ![ch].toServer = unread]
    BY <1>5 DEF Closed
  <2> DEFINE b == [chans[ch] EXCEPT !.open = FALSE, !.toClient = <<>>, !.toServer = unread]
  <2>2. unread \in Seq(Requests) /\ Range(unread) \subseteq Range(chans[ch].toServer)
    BY <1>1, <1>3 DEF Chan
  <2>3. b \in Chan /\ After(chans[ch], b, {})
    BY <1>1, <1>3, <2>2 DEF Chan, After
  <2>4. f = [chans EXCEPT ![ch] = b]
    BY <1>1, <2>1 DEF Chan
  <2> HIDE DEF b
  <2> QED
    BY <1>2, <2>3, <2>4
<1> QED
  BY <1>4, <1>5

\* What a call leaves behind: the connections, the client's among them.  One that it
\* gives up of itself is dead.
CallOK(c, o, written) == LET ch == client[c].conn IN
  /\ o.chans \in Seq(Chan) /\ Len(o.chans) >= Len(chans) /\ o.conn \in 0 .. Len(o.chans)
  /\ \A d \in DOMAIN chans : d # ch => o.chans[d] = chans[d]
  /\ ch # NoChan => After(chans[ch], o.chans[ch], written)
  /\ \A d \in DOMAIN o.chans \ DOMAIN chans :
       /\ server.up /\ d = o.conn /\ ch = NoChan
       /\ o.chans[d].client = c /\ Range(o.chans[d].toServer) \subseteq written
       /\ o.chans[d].toClient = <<>> /\ o.chans[d].asked = {}
  /\ o.conn # NoChan => /\ o.chans[o.conn].client = c /\ o.chans[o.conn].open
                        /\ ch # NoChan => o.conn = ch
                        /\ ch = NoChan => o.conn \notin DOMAIN chans
GivesUpDead(c, o) == client[c].conn # NoChan /\ o.conn = NoChan => ~o.chans[client[c].conn].live

LEMMA NewChanIs ==
  ASSUME NEW c, NEW first
  PROVE  [NewChan(c) EXCEPT !.toServer = first]
         = [client |-> c, toServer |-> first, toClient |-> <<>>, open |-> TRUE, live |-> TRUE, asked |-> {}]
<1> DEFINE n == NewChan(c)
<1>1. /\ n \in [client : {c}, toServer : {<<>>}, toClient : {<<>>}, open : BOOLEAN, live : BOOLEAN, asked : {{}}]
      /\ n.open = TRUE /\ n.live = TRUE
  BY DEF NewChan
<1> HIDE DEF n
<1>2. [n EXCEPT !.toServer = first]
      = [client |-> n.client, toServer |-> first, toClient |-> n.toClient, open |-> n.open, live |-> n.live, asked |-> n.asked]
  BY <1>1
<1> QED
  BY <1>1, <1>2 DEF n

\* Connecting (main.rs ensure_connection), the first request perhaps written.
LEMMA ConnectedIs ==
  ASSUME SessionsTypes, NEW c \in Clients, client[c].conn = NoChan, NEW first \in Seq(Requests),
         NEW o \in Connected(c, first)
  PROVE  CallOK(c, o, Range(first)) /\ GivesUpDead(c, o)
<1> USE DEF NoChan
<1>1. chans \in Seq(Chan) /\ Len(chans) \in Nat
  BY DEF SessionsTypes
<1>2. CASE server.up
  <2> DEFINE b == [NewChan(c) EXCEPT !.toServer = first]
             f == Append(chans, b)
  <2>2. o = [chans |-> f, conn |-> Len(chans) + 1, ok |-> TRUE]
    BY <1>2 DEF Connected
  <2>3. b = [client |-> c, toServer |-> first, toClient |-> <<>>, open |-> TRUE, live |-> TRUE, asked |-> {}]
    BY NewChanIs
  <2> HIDE DEF b
  <2>4. b \in Chan
    BY <2>3 DEF Chan
  <2>5. /\ f \in Seq(Chan) /\ Len(f) = Len(chans) + 1 /\ f[Len(chans) + 1] = b
        /\ \A d \in 1 .. Len(chans) : f[d] = chans[d]
    <3> HIDE DEF Chan
    <3> QED
      BY <1>1, <2>4
  <2>6. DOMAIN f = 1 .. Len(chans) + 1 /\ DOMAIN chans = 1 .. Len(chans)
    BY <1>1, <2>5
  <2>7. DOMAIN f \ DOMAIN chans = {Len(chans) + 1} /\ Len(chans) + 1 \notin DOMAIN chans
    BY <1>1, <2>6
  <2> HIDE DEF f
  <2>8. o.chans = f /\ o.conn = Len(chans) + 1
    BY <2>2
  <2>9. o.conn \in 0 .. Len(o.chans) /\ Len(o.chans) >= Len(chans) /\ o.conn # 0
    BY <1>1, <2>5, <2>8
  <2>10. \A d \in DOMAIN o.chans \ DOMAIN chans :
           /\ d = o.conn /\ o.chans[d].client = c /\ Range(o.chans[d].toServer) \subseteq Range(first)
           /\ o.chans[d].toClient = <<>> /\ o.chans[d].asked = {}
    BY <2>3, <2>5, <2>7, <2>8
  <2>11. o.chans[o.conn].client = c /\ o.chans[o.conn].open /\ o.conn \notin DOMAIN chans
    BY <2>3, <2>5, <2>7, <2>8
  <2>12. o.chans \in Seq(Chan) /\ \A d \in DOMAIN chans : o.chans[d] = chans[d]
    BY <2>5, <2>6, <2>8
  <2> QED
    BY <1>2, <2>9, <2>10, <2>11, <2>12 DEF CallOK, GivesUpDead
<1>3. CASE ~server.up
  <2>1. o.chans = chans /\ o.conn = 0
    BY <1>3 DEF Connected
  <2>2. o.conn \in 0 .. Len(o.chans) /\ Len(o.chans) >= Len(chans)
    BY <1>1, <2>1
  <2> QED
    BY <1>1, <2>1, <2>2 DEF CallOK, GivesUpDead
<1> QED
  BY <1>2, <1>3

\* A call on a connection that is there, which changes it or gives it up.
LEMMA CallIs ==
  ASSUME SessionsTypes, OwnChannel, NEW c \in Clients, client[c].conn # NoChan, NEW written, NEW o,
         o.chans \in Seq(Chan), Len(o.chans) = Len(chans),
         \A d \in DOMAIN chans : d # client[c].conn => o.chans[d] = chans[d],
         After(chans[client[c].conn], o.chans[client[c].conn], written),
         \/ o.conn = NoChan
         \/ o.conn = client[c].conn /\ o.chans[client[c].conn].open
  PROVE  CallOK(c, o, written)
<1> DEFINE ch == client[c].conn
<1>1. chans \in Seq(Chan) /\ Len(chans) \in Nat /\ ch \in 1 .. Len(chans)
  BY DEF SessionsTypes, NoChan
<1>2. DOMAIN o.chans = DOMAIN chans /\ ch \in DOMAIN chans
  BY <1>1
<1>3. o.conn \in 0 .. Len(o.chans) /\ Len(o.chans) >= Len(chans)
  BY <1>1 DEF NoChan
<1>4. o.chans[ch].client = c
  BY DEF After, OwnChannel
<1> QED
  BY <1>2, <1>3, <1>4 DEF CallOK

LEMMA DroppedIs ==
  ASSUME SessionsTypes, OwnChannel, NEW c \in Clients, client[c].conn # NoChan,
         ~chans[client[c].conn].live, NEW o \in Dropped(client[c].conn)
  PROVE  CallOK(c, o, {}) /\ GivesUpDead(c, o)
<1> DEFINE ch == client[c].conn
<1>1. ch \in DOMAIN chans
  BY DEF SessionsTypes, NoChan
<1>2. PICK f \in Closed(ch) : o = [chans |-> f, conn |-> NoChan, ok |-> FALSE]
  BY DEF Dropped
<1>3. /\ f \in Seq(Chan) /\ Len(f) = Len(chans)
      /\ \A d \in DOMAIN chans \ {ch} : f[d] = chans[d]
      /\ After(chans[ch], f[ch], {})
  BY <1>1, ClosedIs
<1>4. ~f[ch].live
  BY <1>3 DEF After
<1>5. o.chans = f /\ o.conn = NoChan
  BY <1>2
<1> QED
  BY <1>3, <1>4, <1>5, CallIs DEF GivesUpDead

\* Sending a request (main.rs send_request): it is written on the connection there is or on
\* a new one, lost, or not sent; what has come for the client stays.
LEMMA SendRequestIs ==
  ASSUME SessionsTypes, OwnChannel, NEW c \in Clients, NEW seq \in Seqs, NEW o \in SendRequest(c, seq)
  PROVE  /\ CallOK(c, o, IF o.ok THEN {[client |-> c, seq |-> seq]} ELSE {}) /\ GivesUpDead(c, o)
         /\ client[c].conn # NoChan /\ o.chans[client[c].conn].live =>
              o.chans[client[c].conn].toClient = chans[client[c].conn].toClient
<1> DEFINE ch == client[c].conn
           request == [client |-> c, seq |-> seq]
<1>1. request \in Requests /\ <<request>> \in Seq(Requests) /\ Range(<<request>>) = {request}
  <2>1. request \in Requests
    BY DEF Requests
  <2> HIDE DEF request
  <2> QED
    BY <2>1 DEF Range
<1>2. CASE ch = NoChan
  <2>1. o \in Connected(c, <<request>>)
    BY <1>2 DEF SendRequest
  <2>2. CallOK(c, o, {request}) /\ GivesUpDead(c, o)
    BY <1>1, <1>2, <2>1, ConnectedIs
  <2>3. CASE o.ok
    BY <1>2, <2>2, <2>3
  <2>4. CASE ~o.ok
    <3>1. o = [chans |-> chans, conn |-> NoChan, ok |-> FALSE]
      BY <2>1, <2>4 DEF Connected
    <3>2. DOMAIN o.chans \ DOMAIN chans = {}
      BY <3>1
    <3> QED
      BY <1>2, <2>2, <2>4, <3>2 DEF CallOK
  <2> QED
    BY <2>3, <2>4
<1>3. CASE ch # NoChan /\ chans[ch].live
  <2> DEFINE q == Append(chans[ch].toServer, request)
             b == [chans[ch] EXCEPT !.toServer = q]
  <2>1. chans \in Seq(Chan) /\ ch \in DOMAIN chans /\ chans[ch] \in Chan
    BY <1>3 DEF SessionsTypes, NoChan
  <2>2. o = [chans |-> [chans EXCEPT ![ch].toServer = q], conn |-> ch, ok |-> TRUE]
    BY <1>3, <2>1 DEF SendRequest, Chan
  <2>3. q \in Seq(Requests) /\ Range(q) \subseteq Range(chans[ch].toServer) \cup {request}
    <3>1. chans[ch].toServer \in Seq(Requests)
      BY <2>1 DEF Chan
    <3> HIDE DEF request, ch
    <3> QED
      BY <1>1, <3>1 DEF Range
  <2> HIDE DEF q
  <2>4. [chans EXCEPT ![ch].toServer = q] = [chans EXCEPT ![ch] = b]
    BY <2>1 DEF Chan
  <2>5. b \in Chan /\ b.toClient = chans[ch].toClient /\ b.open = chans[ch].open /\ After(chans[ch], b, {request})
    <3> HIDE DEF ch, request
    <3> QED
      BY <2>1, <2>3 DEF Chan, After
  <2> HIDE DEF b, request
  <2>6. o.chans = [chans EXCEPT ![ch] = b] /\ o.conn = ch /\ o.ok
    BY <2>2, <2>4
  <2>7. /\ o.chans \in Seq(Chan) /\ Len(o.chans) = Len(chans) /\ o.chans[ch] = b
        /\ \A d \in DOMAIN chans : d # ch => o.chans[d] = chans[d]
    <3> HIDE DEF Chan, ch
    <3> QED
      BY <2>1, <2>5, <2>6
  <2>8. b.open
    BY <1>3, <2>5 DEF OwnChannel
  <2>9. CallOK(c, o, {request})
    BY <1>3, <2>5, <2>6, <2>7, <2>8, CallIs
  <2> QED
    BY <1>3, <2>5, <2>6, <2>7, <2>9 DEF GivesUpDead, request
<1>4. CASE ch # NoChan /\ ~chans[ch].live
  <2> HIDE DEF request
  <2>1. \/ o = [chans |-> chans, conn |-> ch, ok |-> TRUE]
        \/ o \in Dropped(ch)
    BY <1>4 DEF SendRequest
  <2>2. CASE o = [chans |-> chans, conn |-> ch, ok |-> TRUE]
    <3>1. o.chans = chans /\ o.conn = ch /\ o.ok
      BY <2>2
    <3>2. chans \in Seq(Chan) /\ After(chans[ch], chans[ch], {request}) /\ chans[ch].open
      BY <1>4 DEF SessionsTypes, After, OwnChannel
    <3>3. CallOK(c, o, {request})
      BY <1>4, <3>1, <3>2, CallIs
    <3> QED
      BY <1>4, <3>1, <3>3 DEF GivesUpDead, request
  <2>3. CASE o \in Dropped(ch)
    <3>1. CallOK(c, o, {}) /\ GivesUpDead(c, o)
      BY <1>4, <2>3, DroppedIs
    <3>2. o.ok = FALSE /\ o.conn = NoChan
      BY <2>3 DEF Dropped
    <3> QED
      BY <1>4, <3>1, <3>2 DEF GivesUpDead
  <2> QED
    BY <2>1, <2>2, <2>3
<1> QED
  BY <1>2, <1>3, <1>4

\* Reading what has come (main.rs try_receive).
LEMMA TryReceiveIs ==
  ASSUME SessionsTypes, OwnChannel, NEW c \in Clients, NEW o \in TryReceive(c)
  PROVE  CallOK(c, o, {}) /\ GivesUpDead(c, o)
<1> DEFINE ch == client[c].conn
<1>1. <<>> \in Seq(Requests) /\ Range(<<>>) = {}
  BY DEF Range
<1>2. CASE ch = NoChan
  BY <1>1, <1>2, ConnectedIs DEF TryReceive
<1>3. CASE ch # NoChan /\ (chans[ch].toClient # <<>> \/ chans[ch].live)
  <2> DEFINE b == [chans[ch] EXCEPT !.toClient = <<>>]
  <2>1. chans \in Seq(Chan) /\ ch \in DOMAIN chans /\ chans[ch] \in Chan
    BY <1>3 DEF SessionsTypes, NoChan
  <2>2. b \in Chan /\ b.open = chans[ch].open /\ After(chans[ch], b, {})
    <3> HIDE DEF ch
    <3> QED
      BY <1>1, <2>1 DEF Chan, After
  <2>3. [chans EXCEPT ![ch].toClient = <<>>] = [chans EXCEPT ![ch] = b]
    BY <2>1 DEF Chan
  <2>4. o = [chans |-> [chans EXCEPT ![ch].toClient = <<>>], conn |-> ch, ok |-> TRUE]
    BY <1>3 DEF TryReceive
  <2> HIDE DEF b
  <2>5. o.chans = [chans EXCEPT ![ch] = b] /\ o.conn = ch
    BY <2>3, <2>4
  <2>6. /\ o.chans \in Seq(Chan) /\ Len(o.chans) = Len(chans) /\ o.chans[ch] = b
        /\ \A d \in DOMAIN chans : d # ch => o.chans[d] = chans[d]
    <3> HIDE DEF Chan, ch
    <3> QED
      BY <2>1, <2>2, <2>5
  <2>7. b.open
    BY <1>3, <2>2 DEF OwnChannel
  <2>8. CallOK(c, o, {})
    BY <1>3, <2>2, <2>5, <2>6, <2>7, CallIs
  <2> QED
    BY <1>3, <2>5, <2>8 DEF GivesUpDead
<1>4. CASE ch # NoChan /\ chans[ch].toClient = <<>> /\ ~chans[ch].live
  <2>1. o \in Dropped(ch)
    BY <1>4 DEF TryReceive
  <2> QED
    BY <1>4, <2>1, DroppedIs
<1> QED
  BY <1>2, <1>3, <1>4

\* Leaving a connection (main.rs at the end of a run and of a request).
LEMMA LeftIs ==
  ASSUME SessionsTypes, OwnChannel, NEW c \in Clients, client[c].conn # NoChan,
         NEW f \in Closed(client[c].conn), NEW ok
  PROVE  CallOK(c, [chans |-> f, conn |-> NoChan, ok |-> ok], {})
<1> DEFINE ch == client[c].conn
           o == [chans |-> f, conn |-> NoChan, ok |-> ok]
<1>1. ch \in DOMAIN chans
  BY DEF SessionsTypes, NoChan
<1>2. /\ f \in Seq(Chan) /\ Len(f) = Len(chans)
      /\ \A d \in DOMAIN chans \ {ch} : f[d] = chans[d]
      /\ After(chans[ch], f[ch], {})
  BY <1>1, ClosedIs
<1>3. o.chans = f /\ o.conn = NoChan
  OBVIOUS
<1> HIDE DEF o
<1>4. CallOK(c, o, {})
  BY <1>2, <1>3, CallIs
<1> QED
  BY <1>4 DEF o

\* A call of a client's keeps the invariant if the program asks in order and waits for what
\* it asked last (main.rs run_logical_client, perform_request).
Goes(c, p, o, written) ==
  /\ p.next >= client[c].next /\ \A r \in written : r \in Requests /\ r.client = c
  /\ c \in Persistent =>
       /\ \A r \in written : r.seq = TopSeq \/ r.seq < p.next
       /\ client[c].at # "done" /\ (GivesUpDead(c, o) \/ p.at = "done") /\ (p.at = "done" => p.conn = NoChan)
       /\ \A seq \in p.sent : seq + 1 = p.next
       /\ client[c].conn # NoChan /\ p.conn = client[c].conn /\ o.chans[client[c].conn].live =>
            \A r \in chans[client[c].conn].asked : r.seq \in p.sent =>
              /\ r.seq \in client[c].sent
              /\ r \in Range(chans[client[c].conn].toClient) => r \in Range(o.chans[client[c].conn].toClient)
  /\ c \in OneShot => /\ p.at = "receive" => p.next < NumRequests /\ p.conn # NoChan
                      /\ p.at = "send" => p.conn = NoChan

LEMMA ClientKeeps ==
  ASSUME SessionsInv, NEW c \in Clients, NEW o, NEW written, NEW p \in Program, p.conn = o.conn,
         CallOK(c, o, written), Goes(c, p, o, written),
         chans' = o.chans, client' = [client EXCEPT ![c] = p], server' = server
  PROVE  SessionsInv'
<1> DEFINE ch == client[c].conn
           f == o.chans
<1>1. /\ chans \in Seq(Chan) /\ server \in Process /\ client \in [Clients -> Program] /\ Len(chans) \in Nat
      /\ ch \in 0 .. Len(chans)
  BY DEF SessionsInv, SessionsTypes
<1>2. client'[c] = p /\ \A d \in Clients \ {c} : client'[d] = client[d]
  BY <1>1
<1>3. f \in Seq(Chan) /\ Len(f) \in Nat /\ Len(f) >= Len(chans) /\ p.conn \in 0 .. Len(f)
  BY DEF CallOK
<1>4. DOMAIN chans = 1 .. Len(chans) /\ DOMAIN f = 1 .. Len(f)
  BY <1>1, <1>3
<1>5. DOMAIN chans \subseteq DOMAIN f
  BY <1>1, <1>3, <1>4
<1>6. ASSUME NEW d \in DOMAIN chans
      PROVE  /\ f[d].client = chans[d].client /\ f[d].asked \subseteq chans[d].asked
             /\ f[d].live => chans[d].live /\ f[d].asked = chans[d].asked
             /\ Range(f[d].toServer) \subseteq Range(chans[d].toServer) \cup (IF d = ch THEN written ELSE {})
             /\ Range(f[d].toClient) \subseteq Range(chans[d].toClient)
             /\ d # ch => f[d] = chans[d]
  <2>1. d # NoChan
    BY <1>4 DEF NoChan
  <2> QED
    BY <2>1 DEF CallOK, After
<1>7. ASSUME NEW d \in DOMAIN f \ DOMAIN chans
      PROVE  /\ server.up /\ d = p.conn /\ ch = NoChan
             /\ f[d].client = c /\ Range(f[d].toServer) \subseteq written
             /\ f[d].toClient = <<>> /\ f[d].asked = {}
  BY DEF CallOK
<1>8. p.conn # NoChan => /\ f[p.conn].client = c /\ f[p.conn].open
                         /\ ch # NoChan => p.conn = ch
                         /\ ch = NoChan => p.conn \notin DOMAIN chans
  BY DEF CallOK
<1>9. chans' = f
  OBVIOUS
<1>10. ch # NoChan => ch \in DOMAIN chans
  BY <1>1, <1>4 DEF NoChan
<1>11. client' = [client EXCEPT ![c] = p] /\ server' = server
  OBVIOUS
<1>12. Range(<<>>) = {}
  BY DEF Range
<1>13. \A d \in DOMAIN f : f[d] \in Chan
  BY <1>3
<1> HIDE DEF f, ch
<1>20. SessionsTypes'
  <2>1. client' \in [Clients -> Program]
    BY <1>1, <1>11
  <2>2. \A r \in Requests : server'.routes[r] \in 0 .. Len(f)
    <3> TAKE r \in Requests
    <3>1. server.routes[r] \in 0 .. Len(chans)
      BY DEF SessionsInv, SessionsTypes
    <3> QED
      BY <1>1, <1>3, <1>11, <3>1
  <2>3. \A d \in Clients : client'[d].conn \in 0 .. Len(f)
    <3> TAKE d \in Clients
    <3>1. client[d].conn \in 0 .. Len(chans)
      BY DEF SessionsInv, SessionsTypes
    <3> QED
      BY <1>1, <1>2, <1>3, <3>1
  <2>4. \A d \in OneShot :
          /\ client'[d].at = "receive" => client'[d].next < NumRequests /\ client'[d].conn # NoChan
          /\ client'[d].at = "send" => client'[d].conn = NoChan
    BY <1>2 DEF SessionsInv, SessionsTypes, Goes, OneShot
  <2> QED
    BY <1>1, <1>3, <1>9, <1>11, <2>1, <2>2, <2>3, <2>4 DEF SessionsTypes
<1>21. RoutesAsked'
  <2> SUFFICES ASSUME NEW d \in DOMAIN f, NEW r \in Requests, f[d].live, server.routes[r] = d
               PROVE  r \in f[d].asked
    BY <1>9, <1>11 DEF RoutesAsked
  <2>1. server.routes[r] \in 0 .. Len(chans)
    BY DEF SessionsInv, SessionsTypes
  <2>2. d \in DOMAIN chans
    BY <1>1, <1>3, <1>4, <2>1
  <2> QED
    BY <1>6, <2>2 DEF SessionsInv, RoutesAsked
<1>22. OwnChannel'
  <2> SUFFICES ASSUME NEW d \in Clients, client'[d].conn # NoChan
               PROVE  f[client'[d].conn].client = d /\ f[client'[d].conn].open
    BY <1>9 DEF OwnChannel
  <2>1. CASE d = c
    BY <1>2, <1>8, <2>1
  <2>2. CASE d # c
    <3>1. client[d].conn \in DOMAIN chans /\ chans[client[d].conn].client = d /\ chans[client[d].conn].open
      <4>1. client[d].conn \in 0 .. Len(chans)
        BY DEF SessionsInv, SessionsTypes
      <4> QED
        BY <1>1, <1>2, <1>4, <2>2, <4>1 DEF SessionsInv, OwnChannel, NoChan
    <3>2. client[d].conn # ch
      <4>1. ch # NoChan => chans[ch].client = c
        BY DEF SessionsInv, OwnChannel, ch
      <4> QED
        BY <1>2, <2>2, <3>1, <4>1
    <3> QED
      BY <1>2, <1>6, <2>2, <3>1, <3>2
  <2> QED
    BY <2>1, <2>2
<1>23. OneChannel'
  <2> SUFFICES ASSUME NEW d \in DOMAIN f, f[d].live, f[d].client \in Persistent
               PROVE  client'[f[d].client].conn = d \/ client'[f[d].client].at = "done"
    BY <1>9 DEF OneChannel
  <2>1. CASE d \notin DOMAIN chans
    BY <1>2, <1>7, <2>1
  <2>2. CASE d \in DOMAIN chans
    <3>1. chans[d].client = f[d].client /\ chans[d].live
      BY <1>6, <2>2
    <3>2. client[f[d].client].conn = d \/ client[f[d].client].at = "done"
      BY <2>2, <3>1 DEF SessionsInv, OneChannel
    <3>3. CASE f[d].client # c
      BY <1>2, <3>2, <3>3, ClientsAssumption
    <3>4. CASE f[d].client = c
      <4>1. client[c].at # "done" /\ (GivesUpDead(c, o) \/ p.at = "done")
        BY <3>4 DEF Goes
      <4>2. ch = d
        BY <3>2, <3>4, <4>1 DEF ch
      <4>3. CASE p.at = "done"
        BY <1>2, <3>4, <4>3
      <4>4. CASE p.at # "done"
        <5>1. d # NoChan
          BY <1>4, <2>2 DEF NoChan
        <5>2. p.conn # NoChan
          BY <4>1, <4>2, <4>4, <5>1 DEF GivesUpDead, f, ch
        <5> QED
          BY <1>2, <1>8, <3>4, <4>2, <5>1, <5>2
      <4> QED
        BY <4>3, <4>4
    <3> QED
      BY <3>3, <3>4
  <2> QED
    BY <2>1, <2>2
<1>24. DoneLeft'
  BY <1>2, ClientsAssumption DEF SessionsInv, DoneLeft, Goes
<1>25. ASSUME NEW d \in DOMAIN f, NEW r \in Requests, r \in Range(f[d].toServer) \cup f[d].asked
       PROVE  Earlier(f[d].client, r)'
  <2>1. CASE r \in written /\ f[d].client = c
    BY <1>2, <2>1, ClientsAssumption DEF Goes, Earlier
  <2>2. CASE ~(r \in written /\ f[d].client = c)
    <3>1. d \in DOMAIN chans
      BY <1>7, <1>25, <2>2
    <3>2. d = ch => f[d].client = c
      <4>1. d # NoChan
        BY <1>4, <3>1 DEF NoChan
      <4> QED
        BY <1>6, <3>1, <4>1 DEF SessionsInv, OwnChannel, ch
    <3>3. r \in Range(chans[d].toServer) \cup chans[d].asked
      BY <1>6, <1>25, <2>2, <3>1, <3>2
    <3>4. Earlier(f[d].client, r)
      BY <1>6, <3>1, <3>3 DEF SessionsInv, AskedBefore
    <3>5. r.client \in Clients /\ r.seq \in Int
      BY SeqsAssumption DEF Requests
    <3>6. client'[f[d].client].next >= client[f[d].client].next
      <4>1. f[d].client \in Clients
        BY <1>13 DEF Chan
      <4>2. client[f[d].client].next \in Int
        BY <1>1, <4>1 DEF Program
      <4> QED
        BY <1>2, <4>1, <4>2 DEF Goes
    <3>7. client[f[d].client].next \in Int /\ client'[f[d].client].next \in Int
      <4>1. f[d].client \in Clients
        BY <1>13 DEF Chan
      <4> QED
        BY <1>1, <1>2, <4>1 DEF Program
    <3> QED
      BY <3>4, <3>5, <3>6, <3>7 DEF Earlier
  <2> QED
    BY <2>1, <2>2
<1>26. AskedBefore'
  BY <1>9, <1>25 DEF AskedBefore
<1>27. OneInFlight'
  BY <1>2, ClientsAssumption DEF SessionsInv, OneInFlight, Goes
<1>28. Holds'
  <2>1. ~server.up => \A d \in DOMAIN f : ~f[d].live
    BY <1>6, <1>7 DEF SessionsInv, Holds
  <2>2. server.leads => \A d \in DOMAIN f : f[d].live /\ f[d].asked # {} => d \in server.conns
    BY <1>6, <1>7 DEF SessionsInv, Holds
  <2> QED
    BY <1>9, <1>11, <2>1, <2>2 DEF SessionsInv, Holds
<1>29. AnswersWereAsked'
  <2> SUFFICES ASSUME NEW d \in DOMAIN f, f[d].live PROVE Range(f[d].toClient) \subseteq f[d].asked
    BY <1>9 DEF AnswersWereAsked
  <2>1. CASE d \notin DOMAIN chans
    BY <1>7, <1>12, <2>1
  <2>2. CASE d \in DOMAIN chans
    BY <1>6, <2>2 DEF SessionsInv, AnswersWereAsked
  <2> QED
    BY <2>1, <2>2
<1>30. AnswerOnItsWay'
  <2> SUFFICES ASSUME NEW e \in Persistent, server.leads, client'[e].conn # NoChan,
                      NEW r \in f[client'[e].conn].asked, f[client'[e].conn].live, r.seq \in client'[e].sent
               PROVE  \/ r \in Range(server.work) /\ server.routes[r] = client'[e].conn
                      \/ r \in Range(f[client'[e].conn].toClient)
    BY <1>9, <1>11 DEF AnswerOnItsWay
  <2>1. e \in Clients
    BY ClientsAssumption
  <2>2. CASE e # c
    <3>1. client'[e] = client[e] /\ client[e].conn # NoChan
      BY <1>2, <2>1, <2>2
    <3>2. client[e].conn \in DOMAIN chans
      <4>1. client[e].conn \in 0 .. Len(chans)
        BY <2>1 DEF SessionsInv, SessionsTypes
      <4> QED
        BY <1>4, <3>1, <4>1 DEF NoChan
    <3>3. client[e].conn # ch
      <4>1. ch # NoChan => chans[ch].client = c
        BY DEF SessionsInv, OwnChannel, ch
      <4>2. chans[client[e].conn].client = e
        BY <2>1, <3>1 DEF SessionsInv, OwnChannel
      <4> QED
        BY <2>2, <3>1, <4>1, <4>2
    <3>4. f[client[e].conn] = chans[client[e].conn]
      BY <1>6, <3>2, <3>3
    <3> QED
      BY <3>1, <3>4 DEF SessionsInv, AnswerOnItsWay
  <2>3. CASE e = c
    <3>1. client'[e] = p
      BY <1>2, <2>3
    <3>2. CASE ch = NoChan
      <4>1. p.conn \in DOMAIN f \ DOMAIN chans
        BY <1>3, <1>4, <1>8, <3>1, <3>2 DEF NoChan
      <4> QED
        BY <1>7, <3>1, <4>1
    <3>3. CASE ch # NoChan
      <4>1. p.conn = ch /\ ch \in DOMAIN chans
        BY <1>8, <1>10, <3>1, <3>3
      <4>2. chans[ch].live /\ r \in chans[ch].asked
        BY <1>6, <3>1, <4>1
      <4>3. r.seq \in client[c].sent /\ (r \in Range(chans[ch].toClient) => r \in Range(f[ch].toClient))
        BY <2>3, <3>1, <3>3, <4>1, <4>2 DEF Goes, f, ch
      <4>4. \/ r \in Range(server.work) /\ server.routes[r] = ch
            \/ r \in Range(chans[ch].toClient)
        BY <2>3, <3>3, <4>2, <4>3 DEF SessionsInv, AnswerOnItsWay, ch
      <4> QED
        BY <3>1, <4>1, <4>3, <4>4
    <3> QED
      BY <3>2, <3>3
  <2> QED
    BY <2>2, <2>3
<1> QED
  BY <1>20, <1>21, <1>22, <1>23, <1>24, <1>26, <1>27, <1>28, <1>29, <1>30 DEF SessionsInv

LEMMA LastIs ==
  ASSUME NEW n \in 0 .. NumRequests
  PROVE  Last(n) \in Seqs /\ (Last(n) = TopSeq \/ Last(n) < n)
<1>1. NumRequests \in Nat /\ TopSeq \in Nat /\ TopSeq > NumRequests /\ Seqs = (0 .. NumRequests - 1) \cup {TopSeq}
  BY SeqsAssumption
<1>2. CASE n = 0
  <2>1. (0 - 1) % (TopSeq + 1) = TopSeq
    BY <1>1
  <2> QED
    BY <1>1, <1>2, <2>1 DEF Last
<1>3. CASE n # 0
  <2>1. n - 1 \in 0 .. NumRequests - 1 /\ n - 1 < TopSeq + 1 /\ n - 1 >= 0
    BY <1>1, <1>3
  <2>2. (n - 1) % (TopSeq + 1) = n - 1
    BY <1>1, <2>1
  <2> QED
    BY <1>1, <2>1, <2>2 DEF Last
<1> QED
  BY <1>2, <1>3

LEMMA SentKeeps ==
  ASSUME SessionsInv, NEW c \in Persistent, SendNext(c), server' = server
  PROVE  SessionsInv'
<1>1. c \in Clients /\ c \notin OneShot /\ client[c] \in Program /\ client \in [Clients -> Program]
  BY ClientsAssumption DEF OneShot, SessionsInv, SessionsTypes
<1>2. client[c].at = "send" /\ client[c].next < NumRequests /\ client[c].sent = {}
  BY DEF SendNext, MaySend
<1>3. client[c].next \in Seqs /\ client[c].next # TopSeq /\ client[c].next + 1 \in 0 .. NumRequests /\ client[c].next \in Nat
  BY <1>1, <1>2, SeqsAssumption DEF Program
<1>4. PICK o \in SendRequest(c, client[c].next) :
        /\ chans' = o.chans
        /\ client' = [client EXCEPT ![c] =
             [client[c] EXCEPT !.at = "receive", !.conn = o.conn, !.next = @ + (IF o.ok THEN 1 ELSE 0),
                !.sent = IF o.ok THEN {client[c].next} ELSE @]]
  BY DEF SendNext
<1> DEFINE written == IF o.ok THEN {[client |-> c, seq |-> client[c].next]} ELSE {}
           q == [client[c] EXCEPT !.at = "receive", !.conn = o.conn, !.next = @ + (IF o.ok THEN 1 ELSE 0),
                   !.sent = IF o.ok THEN {client[c].next} ELSE @]
<1>5. SessionsTypes /\ OwnChannel
  BY DEF SessionsInv
<1>6. /\ CallOK(c, o, written) /\ GivesUpDead(c, o)
      /\ client[c].conn # NoChan /\ o.chans[client[c].conn].live =>
           o.chans[client[c].conn].toClient = chans[client[c].conn].toClient
  BY <1>1, <1>3, <1>5, SendRequestIs
<1>7. o.conn \in Nat
  BY <1>6 DEF CallOK
<1>8. /\ q \in Program /\ q.at = "receive" /\ q.conn = o.conn
      /\ q.next = IF o.ok THEN client[c].next + 1 ELSE client[c].next
      /\ q.sent = IF o.ok THEN {client[c].next} ELSE {}
  <2>1. CASE o.ok
    <3>1. q = [client[c] EXCEPT !.at = "receive", !.conn = o.conn, !.next = client[c].next + 1, !.sent = {client[c].next}]
      BY <2>1
    <3> HIDE DEF q
    <3> QED
      BY <1>1, <1>3, <1>7, <2>1, <3>1 DEF Program
  <2>2. CASE ~o.ok
    <3>0. /\ client[c].next + (IF o.ok THEN 1 ELSE 0) = client[c].next
          /\ (IF o.ok THEN {client[c].next} ELSE client[c].sent) = client[c].sent
      BY <1>3, <2>2
    <3>1. q = [client[c] EXCEPT !.at = "receive", !.conn = o.conn, !.next = client[c].next, !.sent = client[c].sent]
      BY <3>0
    <3> HIDE DEF q
    <3> QED
      BY <1>1, <1>2, <1>7, <2>2, <3>1 DEF Program
  <2> QED
    BY <2>1, <2>2
<1>9. PICK p \in Program : p = q
  BY <1>8
<1>10. \A r \in written : r \in Requests /\ r.client = c /\ r.seq < p.next
  BY <1>1, <1>3, <1>8, <1>9 DEF Requests
<1>11. ASSUME client[c].conn # NoChan, NEW r \in chans[client[c].conn].asked
       PROVE  r.seq # client[c].next
  <2>1. client[c].conn \in DOMAIN chans
    BY <1>1, <1>5, <1>11 DEF SessionsTypes, NoChan
  <2>2. r \in Requests /\ chans[client[c].conn].client = c
    <3>1. chans[client[c].conn] \in Chan
      BY <1>5, <2>1 DEF SessionsTypes
    <3> QED
      BY <1>1, <1>5, <1>11, <3>1 DEF OwnChannel, Chan
  <2>3. Earlier(c, r)
    BY <1>11, <2>1, <2>2 DEF SessionsInv, AskedBefore
  <2> QED
    BY <1>3, <2>3 DEF Earlier
<1>12. Goes(c, p, o, written)
  <2>1. p.next >= client[c].next
    BY <1>3, <1>8, <1>9
  <2>2. \A seq \in p.sent : seq + 1 = p.next
    BY <1>3, <1>8, <1>9
  <2>3. p.at # "done" /\ client[c].at # "done"
    BY <1>2, <1>8, <1>9
  <2>4. client[c].conn # NoChan => \A r \in chans[client[c].conn].asked : r.seq \notin p.sent
    BY <1>8, <1>9, <1>11
  <2> HIDE DEF written
  <2> QED
    BY <1>1, <1>6, <1>10, <2>1, <2>2, <2>3, <2>4 DEF Goes
<1>13. p.conn = o.conn /\ client' = [client EXCEPT ![c] = p] /\ chans' = o.chans
  BY <1>4, <1>8, <1>9
<1>14. PICK w : w = written
  OBVIOUS
<1> HIDE DEF written, q
<1>15. CallOK(c, o, w) /\ Goes(c, p, o, w)
  BY <1>6, <1>12, <1>14
<1> QED
  BY <1>1, <1>13, <1>15, ClientKeeps

LEMMA ResentKeeps ==
  ASSUME SessionsInv, NEW c \in Persistent, Resend(c), server' = server
  PROVE  SessionsInv'
<1>1. c \in Clients /\ c \notin OneShot /\ client[c] \in Program /\ client \in [Clients -> Program]
  BY ClientsAssumption DEF OneShot, SessionsInv, SessionsTypes
<1>2. client[c].at = "resend"
  BY DEF Resend
<1>3. client[c].next \in 0 .. NumRequests /\ client[c].next \in Int
  BY <1>1, SeqsAssumption DEF Program
<1>4. Last(client[c].next) \in Seqs /\ (Last(client[c].next) = TopSeq \/ Last(client[c].next) < client[c].next)
  BY <1>3, LastIs
<1>5. PICK o \in SendRequest(c, Last(client[c].next)) :
        /\ chans' = o.chans
        /\ client' = [client EXCEPT ![c].at = "send", ![c].conn = o.conn]
  BY DEF Resend
<1> DEFINE written == IF o.ok THEN {[client |-> c, seq |-> Last(client[c].next)]} ELSE {}
           q == [client[c] EXCEPT !.at = "send", !.conn = o.conn]
<1>6. SessionsTypes /\ OwnChannel
  BY DEF SessionsInv
<1>7. /\ CallOK(c, o, written) /\ GivesUpDead(c, o)
      /\ client[c].conn # NoChan /\ o.chans[client[c].conn].live =>
           o.chans[client[c].conn].toClient = chans[client[c].conn].toClient
  BY <1>1, <1>4, <1>6, SendRequestIs
<1>8. o.conn \in Nat
  BY <1>7 DEF CallOK
<1>9. q \in Program /\ q.at = "send" /\ q.conn = o.conn /\ q.next = client[c].next /\ q.sent = client[c].sent
  BY <1>1, <1>8 DEF Program
<1>10. PICK p \in Program : p = q
  BY <1>9
<1>11. \A r \in written : r \in Requests /\ r.client = c /\ (r.seq = TopSeq \/ r.seq < p.next)
  BY <1>1, <1>4, <1>9, <1>10 DEF Requests
<1>12. Goes(c, p, o, written)
  <2>1. p.next >= client[c].next
    BY <1>3, <1>9, <1>10
  <2>2. \A seq \in p.sent : seq + 1 = p.next
    BY <1>9, <1>10 DEF SessionsInv, OneInFlight
  <2>3. p.at # "done" /\ client[c].at # "done"
    BY <1>2, <1>9, <1>10
  <2> HIDE DEF written
  <2> QED
    BY <1>1, <1>7, <1>9, <1>10, <1>11, <2>1, <2>2, <2>3 DEF Goes
<1>13. p.conn = o.conn /\ client' = [client EXCEPT ![c] = p] /\ chans' = o.chans
  BY <1>1, <1>5, <1>9, <1>10
<1>14. PICK w : w = written
  OBVIOUS
<1> HIDE DEF written, q
<1>15. CallOK(c, o, w) /\ Goes(c, p, o, w)
  BY <1>7, <1>12, <1>14
<1> QED
  BY <1>1, <1>13, <1>15, ClientKeeps

\* The numbers of the answers that have come.
LEMMA RepliesAre ==
  ASSUME SessionsTypes, NEW c \in Clients
  PROVE  /\ Replies(c) \subseteq Seqs
         /\ client[c].conn # NoChan => \A r \in Range(chans[client[c].conn].toClient) : r.seq \in Replies(c)
<1>1. CASE client[c].conn = NoChan
  BY <1>1 DEF Replies
<1>2. CASE client[c].conn # NoChan
  <2> DEFINE ch == client[c].conn
             q == chans[ch].toClient
  <2>1. chans \in Seq(Chan) /\ ch \in 0 .. Len(chans)
    BY DEF SessionsTypes
  <2>2. chans[ch] \in Chan
    <3> HIDE DEF Chan, ch
    <3> QED
      BY <1>2, <2>1 DEF NoChan, ch
  <2>3. q \in Seq(Requests)
    BY <2>2 DEF Chan
  <2>4. Replies(c) = {q[i].seq : i \in DOMAIN q}
    BY <1>2 DEF Replies
  <2>5. \A r \in Requests : r.seq \in Seqs
    BY DEF Requests
  <2> HIDE DEF q
  <2>6. \A i \in DOMAIN q : q[i] \in Requests
    BY <2>3
  <2> QED
    BY <2>4, <2>5, <2>6 DEF Range, q
<1> QED
  BY <1>1, <1>2

LEMMA ReceivedKeeps ==
  ASSUME SessionsInv, NEW c \in Persistent, NEW late \in BOOLEAN, Receive(c, late), server' = server
  PROVE  SessionsInv'
<1> DEFINE ch == client[c].conn
           R == Replies(c) \cup (IF late THEN {Last(client[c].next)} ELSE {})
           q(o) == [Settle(client[c], R) EXCEPT !.conn = o.conn, !.at = IF o.ok THEN "send" ELSE "resend"]
<1>1. c \in Clients /\ c \notin OneShot /\ client[c] \in Program /\ client \in [Clients -> Program]
  BY ClientsAssumption DEF OneShot, SessionsInv, SessionsTypes
<1>2. client[c].at = "receive"
  BY DEF Receive
<1>3. SessionsTypes /\ OwnChannel
  BY DEF SessionsInv
<1>4. PICK o \in TryReceive(c) : chans' = o.chans /\ client' = [client EXCEPT ![c] = q(o)]
  BY DEF Receive
<1>5. CallOK(c, o, {}) /\ GivesUpDead(c, o)
  BY <1>1, <1>3, TryReceiveIs
<1>7. R \subseteq Seqs /\ (ch # NoChan => \A r \in Range(chans[ch].toClient) : r.seq \in R)
  <2>1. Last(client[c].next) \in Seqs
    BY <1>1, LastIs DEF Program
  <2> QED
    BY <1>1, <1>3, <2>1, RepliesAre
<1>8. o.conn \in Nat
  BY <1>5 DEF CallOK
<1> HIDE DEF R
<1>9. /\ q(o) \in Program /\ q(o).at # "done" /\ q(o).conn = o.conn
      /\ q(o).next = client[c].next /\ q(o).sent = client[c].sent \ R
  <2> DEFINE s == Settle(client[c], R)
  <2>1. s = [client[c] EXCEPT !.seen = client[c].seen \cup R, !.sent = client[c].sent \ R]
    BY DEF Settle
  <2> HIDE DEF s
  <2>2. s \in Program /\ s.next = client[c].next /\ s.sent = client[c].sent \ R
    BY <1>1, <1>7, <2>1 DEF Program
  <2>3. q(o) = [s EXCEPT !.conn = o.conn, !.at = IF o.ok THEN "send" ELSE "resend"]
    BY DEF s
  <2> HIDE DEF q
  <2> QED
    BY <1>8, <2>2, <2>3 DEF Program
<1>10. PICK p \in Program : p = q(o)
  BY <1>9
<1> HIDE DEF q
<1>11. Goes(c, p, o, {})
  <2>1. p.next >= client[c].next
    BY <1>1, <1>9, <1>10, SeqsAssumption DEF Program
  <2>2. \A seq \in p.sent : seq + 1 = p.next
    BY <1>9, <1>10 DEF SessionsInv, OneInFlight
  <2>3. p.at # "done" /\ client[c].at # "done"
    BY <1>2, <1>9, <1>10
  <2>4. ch # NoChan => \A r \in Range(chans[ch].toClient) : r.seq \notin p.sent
    BY <1>7, <1>9, <1>10
  <2>5. p.sent \subseteq client[c].sent
    BY <1>9, <1>10
  <2> QED
    BY <1>1, <1>5, <2>1, <2>2, <2>3, <2>4, <2>5 DEF Goes
<1>12. p.conn = o.conn /\ client' = [client EXCEPT ![c] = p] /\ chans' = o.chans
  BY <1>4, <1>9, <1>10
<1> QED
  BY <1>1, <1>5, <1>11, <1>12, ClientKeeps

\* A program that leaves the connections alone.
LEMMA StaysIs ==
  ASSUME SessionsInv, NEW c \in Clients, NEW o, o.chans = chans, o.conn = client[c].conn
  PROVE  CallOK(c, o, {}) /\ GivesUpDead(c, o)
<1>1. SessionsTypes /\ OwnChannel
  BY DEF SessionsInv
<1>2. CASE client[c].conn # NoChan
  <2>1. After(chans[client[c].conn], chans[client[c].conn], {}) /\ chans[client[c].conn].open
    BY <1>1, <1>2 DEF After, OwnChannel
  <2> QED
    BY <1>1, <1>2, <2>1, CallIs DEF GivesUpDead, SessionsTypes
<1>3. CASE client[c].conn = NoChan
  <2>1. chans \in Seq(Chan) /\ client[c].conn \in 0 .. Len(chans) /\ Len(chans) \in Nat
    BY <1>1 DEF SessionsTypes
  <2>2. DOMAIN o.chans \ DOMAIN chans = {} /\ Len(o.chans) >= Len(chans)
    BY <2>1
  <2> QED
    BY <1>3, <2>1, <2>2 DEF CallOK, GivesUpDead
<1> QED
  BY <1>2, <1>3

LEMMA WaitedKeeps ==
  ASSUME SessionsInv, NEW c \in Persistent, Wait(c), server' = server
  PROVE  SessionsInv'
<1>1. c \in Clients /\ c \notin OneShot /\ client[c] \in Program /\ client \in [Clients -> Program]
  BY ClientsAssumption DEF OneShot, SessionsInv, SessionsTypes
<1>2. client[c].at = "send" /\ client' = [client EXCEPT ![c].at = "receive"] /\ chans' = chans
  BY DEF Wait
<1>3. PICK p : p = [client[c] EXCEPT !.at = "receive"]
  OBVIOUS
<1>4. /\ p \in Program /\ p.at = "receive" /\ p.conn = client[c].conn
      /\ p.next = client[c].next /\ p.sent = client[c].sent
  BY <1>1, <1>3 DEF Program
<1>5. PICK o : o = [chans |-> chans, conn |-> client[c].conn]
  OBVIOUS
<1>6. o.chans = chans /\ o.conn = client[c].conn
  BY <1>5
<1>7. CallOK(c, o, {}) /\ GivesUpDead(c, o)
  BY <1>1, <1>6, StaysIs
<1>8. Goes(c, p, o, {})
  <2>1. p.next >= client[c].next
    BY <1>1, <1>4, SeqsAssumption DEF Program
  <2>2. \A seq \in p.sent : seq + 1 = p.next
    BY <1>4 DEF SessionsInv, OneInFlight
  <2> QED
    BY <1>1, <1>2, <1>4, <1>6, <1>7, <2>1, <2>2 DEF Goes
<1>9. client' = [client EXCEPT ![c] = p] /\ chans' = o.chans
  BY <1>1, <1>2, <1>3, <1>6
<1> QED
  BY <1>1, <1>4, <1>6, <1>7, <1>8, <1>9, ClientKeeps

LEMMA FinishedKeeps ==
  ASSUME SessionsInv, NEW c \in Persistent, NEW timeUp \in BOOLEAN, Finish(c, timeUp), server' = server
  PROVE  SessionsInv'
<1>1. c \in Clients /\ c \notin OneShot /\ client[c] \in Program /\ client \in [Clients -> Program]
  BY ClientsAssumption DEF OneShot, SessionsInv, SessionsTypes
<1>2. /\ client[c].at = "send" /\ client' = [client EXCEPT ![c].at = "done", ![c].conn = NoChan]
      /\ IF client[c].conn = NoChan THEN chans' = chans ELSE chans' \in Closed(client[c].conn)
  BY DEF Finish
<1>3. PICK p : p = [client[c] EXCEPT !.at = "done", !.conn = NoChan]
  OBVIOUS
<1>4. /\ p \in Program /\ p.at = "done" /\ p.conn = NoChan
      /\ p.next = client[c].next /\ p.sent = client[c].sent
  BY <1>1, <1>3 DEF Program, NoChan
<1>5. PICK o : o = [chans |-> chans', conn |-> NoChan, ok |-> TRUE]
  OBVIOUS
<1>6. chans' = o.chans /\ o.conn = NoChan
  BY <1>5
<1>7. CallOK(c, o, {})
  <2>1. CASE client[c].conn = NoChan
    BY <1>1, <1>2, <1>6, <2>1, StaysIs
  <2>2. CASE client[c].conn # NoChan
    <3>1. PICK f \in Closed(client[c].conn) : f = chans'
      BY <1>2, <2>2
    <3>2. o = [chans |-> f, conn |-> NoChan, ok |-> TRUE]
      BY <1>5, <3>1
    <3> QED
      BY <1>1, <2>2, <3>2, LeftIs DEF SessionsInv
  <2> QED
    BY <2>1, <2>2
<1>8. Goes(c, p, o, {})
  <2>1. p.next >= client[c].next
    BY <1>1, <1>4, SeqsAssumption DEF Program
  <2>2. \A seq \in p.sent : seq + 1 = p.next
    BY <1>4 DEF SessionsInv, OneInFlight
  <2> QED
    BY <1>1, <1>2, <1>4, <1>6, <1>7, <2>1, <2>2 DEF Goes
<1>9. client' = [client EXCEPT ![c] = p]
  BY <1>1, <1>2, <1>3
<1> QED
  BY <1>1, <1>4, <1>6, <1>7, <1>8, <1>9, ClientKeeps

LEMMA AskedKeeps ==
  ASSUME SessionsInv, NEW c \in OneShot, Ask(c), server' = server
  PROVE  SessionsInv'
<1>1. c \in Clients /\ c \notin Persistent /\ client[c] \in Program /\ client \in [Clients -> Program]
  BY DEF OneShot, SessionsInv, SessionsTypes
<1>2. client[c].at = "send" /\ client[c].next < NumRequests
  BY DEF Ask
<1>3. client[c].conn = NoChan /\ SessionsTypes
  BY <1>2 DEF SessionsInv, SessionsTypes
<1>4. client[c].next \in Seqs /\ client[c].next + 1 \in 0 .. NumRequests /\ client[c].next \in Nat
  BY <1>1, <1>2, SeqsAssumption DEF Program
<1>5. PICK r : r = [client |-> c, seq |-> client[c].next]
  OBVIOUS
<1>6. r \in Requests /\ r.client = c
  BY <1>1, <1>4, <1>5 DEF Requests
<1>7. <<r>> \in Seq(Requests) /\ Range(<<r>>) = {r}
  BY <1>6 DEF Range
<1>8. PICK o \in Connected(c, <<r>>) :
        /\ chans' = o.chans
        /\ client' = [client EXCEPT ![c] =
             IF o.ok THEN [client[c] EXCEPT !.at = "receive", !.conn = o.conn]
             ELSE [client[c] EXCEPT !.next = @ + 1]]
  BY <1>5 DEF Ask
<1>9. CallOK(c, o, {r})
  BY <1>1, <1>3, <1>7, ConnectedIs
<1>10. PICK p : p = IF o.ok THEN [client[c] EXCEPT !.at = "receive", !.conn = o.conn]
                    ELSE [client[c] EXCEPT !.next = @ + 1]
  OBVIOUS
<1>11. o.conn \in Nat /\ (o.ok => o.conn # NoChan) /\ (~o.ok => o.conn = NoChan)
  <2>1. Len(chans) \in Nat
    BY <1>3 DEF SessionsTypes
  <2> QED
    BY <2>1 DEF Connected, NoChan
<1>12. /\ p \in Program /\ p.conn = o.conn /\ p.next >= client[c].next
       /\ p.at = "receive" => p.next < NumRequests /\ p.conn # NoChan
       /\ p.at = "send" => p.conn = NoChan
  <2>1. CASE o.ok
    <3>1. p = [client[c] EXCEPT !.at = "receive", !.conn = o.conn]
      BY <1>10, <2>1
    <3>2. p \in Program /\ p.conn = o.conn /\ p.next = client[c].next /\ p.at = "receive"
      BY <1>1, <1>11, <3>1 DEF Program
    <3> QED
      BY <1>2, <1>4, <1>11, <2>1, <3>2
  <2>2. CASE ~o.ok
    <3>1. p = [client[c] EXCEPT !.next = client[c].next + 1]
      BY <1>10, <2>2
    <3>2. p \in Program /\ p.conn = NoChan /\ p.next = client[c].next + 1 /\ p.at = "send"
      BY <1>1, <1>2, <1>3, <1>4, <3>1 DEF Program
    <3> QED
      BY <1>4, <1>11, <2>2, <3>2
  <2> QED
    BY <2>1, <2>2
<1>13. Goes(c, p, o, {r})
  BY <1>1, <1>6, <1>12 DEF Goes
<1>14. client' = [client EXCEPT ![c] = p] /\ chans' = o.chans
  BY <1>8, <1>10
<1> QED
  BY <1>1, <1>9, <1>12, <1>13, <1>14, ClientKeeps

LEMMA AnsweredKeeps ==
  ASSUME SessionsInv, NEW c \in OneShot, Answered(c), server' = server
  PROVE  SessionsInv'
<1> DEFINE ch == client[c].conn
<1>1. c \in Clients /\ c \notin Persistent /\ client[c] \in Program /\ client \in [Clients -> Program]
  BY DEF OneShot, SessionsInv, SessionsTypes
<1>2. PICK f \in Closed(ch) : chans' = f
  BY DEF Answered
<1>3. /\ client[c].at = "receive"
      /\ client' = [client EXCEPT ![c] =
           [client[c] EXCEPT !.at = "send", !.conn = NoChan, !.next = @ + 1, !.seen = @ \cup Replies(c)]]
  BY DEF Answered
<1>4. client[c].next < NumRequests /\ ch # NoChan /\ SessionsTypes
  BY <1>3 DEF SessionsInv, SessionsTypes
<1>5. client[c].next + 1 \in 0 .. NumRequests /\ client[c].next \in Nat
  BY <1>1, <1>4, SeqsAssumption DEF Program
<1>6. Replies(c) \subseteq Seqs
  BY <1>1, <1>4, RepliesAre
<1>7. PICK p : p = [client[c] EXCEPT !.at = "send", !.conn = NoChan, !.next = client[c].next + 1,
                                     !.seen = client[c].seen \cup Replies(c)]
  OBVIOUS
<1>8. p \in Program /\ p.at = "send" /\ p.conn = NoChan /\ p.next >= client[c].next
  <2>1. client[c].seen \cup Replies(c) \subseteq Seqs
    BY <1>1, <1>6 DEF Program
  <2>2. NoChan \in Nat
    BY DEF NoChan
  <2>3. p \in Program /\ p.at = "send" /\ p.conn = NoChan
    BY <1>1, <1>5, <1>7, <2>1, <2>2 DEF Program
  <2>4. p.next = client[c].next + 1
    BY <1>1, <1>7 DEF Program
  <2> QED
    BY <1>5, <2>3, <2>4
<1>9. PICK o : o = [chans |-> f, conn |-> NoChan, ok |-> TRUE]
  OBVIOUS
<1>10. CallOK(c, o, {})
  BY <1>1, <1>4, <1>9, LeftIs DEF SessionsInv
<1>11. Goes(c, p, o, {})
  BY <1>1, <1>8 DEF Goes
<1>12. p.conn = o.conn /\ client' = [client EXCEPT ![c] = p] /\ chans' = o.chans
  BY <1>2, <1>3, <1>7, <1>8, <1>9
<1> QED
  BY <1>1, <1>8, <1>10, <1>11, <1>12, ClientKeeps

LEMMA LastAskedKeeps ==
  ASSUME SessionsInv, NEW c \in OneShot, LastAsked(c), server' = server
  PROVE  SessionsInv'
<1>1. c \in Clients /\ c \notin Persistent /\ client[c] \in Program /\ client \in [Clients -> Program]
  BY DEF OneShot, SessionsInv, SessionsTypes
<1>2. client' = [client EXCEPT ![c].at = "done"] /\ chans' = chans
  BY DEF LastAsked
<1>3. PICK p : p = [client[c] EXCEPT !.at = "done"]
  OBVIOUS
<1>4. p \in Program /\ p.at = "done" /\ p.conn = client[c].conn /\ p.next = client[c].next
  BY <1>1, <1>3 DEF Program
<1>5. PICK o : o = [chans |-> chans, conn |-> client[c].conn]
  OBVIOUS
<1>6. CallOK(c, o, {})
  BY <1>1, <1>5, StaysIs
<1>7. p.next >= client[c].next
  BY <1>1, <1>4, SeqsAssumption DEF Program
<1>8. Goes(c, p, o, {})
  BY <1>1, <1>4, <1>7 DEF Goes
<1>9. p.conn = o.conn /\ client' = [client EXCEPT ![c] = p] /\ chans' = o.chans
  BY <1>1, <1>2, <1>3, <1>4, <1>5
<1> QED
  BY <1>1, <1>4, <1>6, <1>8, <1>9, ClientKeeps

LEMMA ClientStepKeeps ==
  ASSUME SessionsInv, NEW c \in Clients, ClientStep(c)
  PROVE  SessionsInv'
<1>1. server' = server
  BY DEF ClientStep
<1>2. CASE c \in Persistent /\ (PersistentStep(c) \/ Receive(c, TRUE) \/ Finish(c, TRUE))
  BY <1>1, <1>2, SentKeeps, ResentKeeps, ReceivedKeeps, WaitedKeeps, FinishedKeeps DEF PersistentStep
<1>3. CASE c \in OneShot /\ OneShotStep(c)
  BY <1>1, <1>3, AskedKeeps, AnsweredKeeps, LastAskedKeeps DEF OneShotStep
<1> QED
  BY <1>2, <1>3 DEF ClientStep

\* A poll that has looked at some connections (client_server_tcp.rs get_requests): those it
\* found gone are closed by their clients, and the requests of those it read are out and
\* routed to one of them by which they came.
PollState == [out : Seq(Requests), routes : [Requests -> 0 .. Len(chans)],
              read : SUBSET Accepted, gone : SUBSET Accepted]
CameBy(so, r) == so.routes[r] \in so.read /\ r \in Range(chans[so.routes[r]].toServer)
PollOK(so) == /\ \A ch \in so.gone : ~chans[ch].open
              /\ \A r \in Requests : so.routes[r] = server.routes[r] \/ CameBy(so, r)
              /\ \A ch \in so.read : \A r \in Range(chans[ch].toServer) : r \in Range(so.out) /\ CameBy(so, r)
Polls == {so \in PollState : PollOK(so)}

PollStep(so, ch) ==
  IF Len(so.out) >= MaxRequests THEN so
  ELSE IF chans[ch].toServer # <<>>
  THEN [so EXCEPT !.out = @ \o chans[ch].toServer, !.read = @ \cup {ch},
          !.routes = [r \in Requests |-> IF \E q \in Range(chans[ch].toServer) : Key(q) = r THEN ch ELSE @[r]]]
  ELSE IF ~chans[ch].open THEN [so EXCEPT !.gone = @ \cup {ch}] ELSE so

LEMMA ConcatRange ==
  ASSUME NEW X, NEW s \in Seq(X), NEW t \in Seq(X)
  PROVE  s \o t \in Seq(X) /\ Range(s \o t) = Range(s) \cup Range(t)
<1>1. s \o t \in Seq(X) /\ Len(s \o t) = Len(s) + Len(t) /\ Len(s) \in Nat /\ Len(t) \in Nat
  OBVIOUS
<1>2. ASSUME NEW i \in 1 .. Len(s) + Len(t) PROVE (s \o t)[i] \in Range(s) \cup Range(t)
  <2>1. CASE i <= Len(s)
    <3>1. (s \o t)[i] = s[i] /\ i \in DOMAIN s
      BY <1>1, <2>1
    <3> QED
      BY <3>1 DEF Range
  <2>2. CASE i > Len(s)
    <3>1. (s \o t)[i] = t[i - Len(s)] /\ i - Len(s) \in DOMAIN t
      BY <1>1, <2>2
    <3> QED
      BY <3>1 DEF Range
  <2> QED
    BY <1>1, <2>1, <2>2
<1>3. ASSUME NEW i \in 1 .. Len(s) PROVE s[i] \in Range(s \o t)
  <2>1. (s \o t)[i] = s[i] /\ i \in 1 .. Len(s \o t)
    BY <1>1
  <2>2. i \in DOMAIN (s \o t)
    BY <1>1, <2>1
  <2> QED
    BY <2>1, <2>2 DEF Range
<1>4. ASSUME NEW i \in 1 .. Len(t) PROVE t[i] \in Range(s \o t)
  <2>1. (s \o t)[Len(s) + i] = t[i] /\ Len(s) + i \in 1 .. Len(s \o t)
    BY <1>1
  <2>2. Len(s) + i \in DOMAIN (s \o t)
    BY <1>1, <2>1
  <2> QED
    BY <2>1, <2>2 DEF Range
<1>5. DOMAIN s = 1 .. Len(s) /\ DOMAIN t = 1 .. Len(t) /\ DOMAIN (s \o t) = 1 .. Len(s) + Len(t)
  BY <1>1
<1>6. Range(s \o t) \subseteq Range(s) \cup Range(t)
  BY <1>2, <1>5 DEF Range
<1>7. Range(s) \subseteq Range(s \o t)
  <2> SUFFICES ASSUME NEW i \in DOMAIN s PROVE s[i] \in Range(s \o t)
    BY DEF Range
  <2> QED
    BY <1>3, <1>5
<1>8. Range(t) \subseteq Range(s \o t)
  <2> SUFFICES ASSUME NEW i \in DOMAIN t PROVE t[i] \in Range(s \o t)
    BY DEF Range
  <2> QED
    BY <1>4, <1>5
<1> QED
  BY <1>1, <1>6, <1>7, <1>8

LEMMA PollStepKeeps ==
  ASSUME SessionsTypes, NEW so \in Polls, NEW ch \in Accepted
  PROVE  PollStep(so, ch) \in Polls
<1> DEFINE t == chans[ch].toServer
<1>1. so \in PollState /\ PollOK(so)
  BY DEF Polls
<1>2. ch \in DOMAIN chans /\ chans \in Seq(Chan) /\ Len(chans) \in Nat
  BY DEF Accepted, SessionsTypes
<1>3. chans[ch] \in Chan /\ ch \in 0 .. Len(chans)
  <2> HIDE DEF Chan
  <2> QED
    BY <1>2
<1>4. t \in Seq(Requests)
  BY <1>3 DEF Chan
<1>5. CASE Len(so.out) >= MaxRequests \/ (t = <<>> /\ chans[ch].open)
  BY <1>5 DEF PollStep
<1>6. CASE ~(Len(so.out) >= MaxRequests) /\ t = <<>> /\ ~chans[ch].open
  <2> DEFINE n == [so EXCEPT !.gone = so.gone \cup {ch}]
  <2>1. PollStep(so, ch) = n
    BY <1>6 DEF PollStep
  <2>2. n \in PollState /\ n.gone = so.gone \cup {ch} /\ n.out = so.out /\ n.routes = so.routes /\ n.read = so.read
    BY <1>1 DEF PollState
  <2> HIDE DEF n
  <2>3. PollOK(n)
    BY <1>1, <1>6, <2>2 DEF PollOK, CameBy
  <2> QED
    BY <2>1, <2>2, <2>3 DEF Polls
<1>7. CASE ~(Len(so.out) >= MaxRequests) /\ t # <<>>
  <2> DEFINE routes == [r \in Requests |-> IF r \in Range(t) THEN ch ELSE so.routes[r]]
             n == [so EXCEPT !.out = so.out \o t, !.read = so.read \cup {ch}, !.routes = routes]
  <2>1. PollStep(so, ch) = n
    <3>1. [r \in Requests |-> IF \E q \in Range(t) : Key(q) = r THEN ch ELSE so.routes[r]] = routes
      BY DEF Key
    <3> HIDE DEF routes
    <3> QED
      BY <1>7, <3>1 DEF PollStep
  <2>2. so.out \o t \in Seq(Requests) /\ Range(so.out \o t) = Range(so.out) \cup Range(t)
    BY <1>1, <1>4, ConcatRange DEF PollState
  <2>3. routes \in [Requests -> 0 .. Len(chans)]
    BY <1>1, <1>3 DEF PollState
  <2>4. \A r \in Requests : routes[r] = IF r \in Range(t) THEN ch ELSE so.routes[r]
    OBVIOUS
  <2> HIDE DEF routes, t
  <2>5. /\ n \in PollState /\ n.gone = so.gone /\ n.out = so.out \o t /\ n.routes = routes
        /\ n.read = so.read \cup {ch}
    BY <1>1, <2>2, <2>3 DEF PollState
  <2> HIDE DEF n
  <2>6. ASSUME NEW r \in Requests PROVE CameBy(so, r) \/ r \in Range(t) => CameBy(n, r)
    BY <2>4, <2>5 DEF CameBy, t
  <2>7. \A r \in Requests : n.routes[r] = server.routes[r] \/ CameBy(n, r)
    <3> TAKE r \in Requests
    <3>1. so.routes[r] = server.routes[r] \/ CameBy(so, r)
      BY <1>1 DEF PollOK
    <3> QED
      BY <2>4, <2>5, <2>6, <3>1
  <2>8. ASSUME NEW d \in n.read, NEW r \in Range(chans[d].toServer)
        PROVE  r \in Range(n.out) /\ CameBy(n, r)
    <3>1. CASE d \in so.read
      <4>1. r \in Range(so.out) /\ CameBy(so, r)
        BY <1>1, <3>1 DEF PollOK
      <4>2. r \in Requests
        BY <1>1, <4>1 DEF PollState, Range
      <4> QED
        BY <2>2, <2>5, <2>6, <4>1, <4>2
    <3>2. CASE d = ch
      <4>1. r \in Range(t)
        BY <3>2 DEF t
      <4>2. r \in Requests
        BY <1>4, <4>1 DEF Range
      <4> QED
        BY <2>2, <2>5, <2>6, <4>1, <4>2
    <3> QED
      BY <2>5, <3>1, <3>2
  <2>9. \A d \in n.gone : ~chans[d].open
    BY <1>1, <2>5 DEF PollOK
  <2> QED
    BY <2>1, <2>5, <2>7, <2>8, <2>9 DEF Polls, PollOK
<1> QED
  BY <1>5, <1>6, <1>7

\* The whole poll, in whichever order it looks at the connections and wherever it stops.
LEMMA PolledIs ==
  ASSUME SessionsTypes, NEW m \in Nat, NEW order \in [1 .. m -> Accepted]
  PROVE  Polled(order) \in Polls
<1> DEFINE n == Len(order)
           first == [out |-> <<>>, routes |-> server.routes, read |-> {}, gone |-> {}]
           poll[i \in 0 .. n] == IF i = 0 THEN first ELSE PollStep(poll[i - 1], order[i])
           step == [i \in 1 .. n |-> [s \in Polls |-> PollStep(s, order[i])]]
           Is(f) == f = [i \in 0 .. n |-> IF i = 0 THEN first ELSE PollStep(f[i - 1], order[i])]
<1>1. n \in Nat /\ n = m /\ \A i \in 1 .. n : order[i] \in Accepted
  <2>1. order \in Seq(Accepted) /\ Len(order) = m
    OBVIOUS
  <2> QED
    BY <2>1
<1>2. first \in Polls
  <2>1. <<>> \in Seq(Requests)
    OBVIOUS
  <2>2. server.routes \in [Requests -> 0 .. Len(chans)]
    BY DEF SessionsTypes, Process
  <2>3. first \in PollState /\ first.gone = {} /\ first.read = {} /\ first.routes = server.routes
    BY <2>1, <2>2 DEF PollState
  <2> HIDE DEF first
  <2> QED
    BY <2>3 DEF Polls, PollOK
<1>3. Polled(order) = poll[n]
  BY DEF Polled, PollStep
<1>4. \A i \in 1 .. n, s \in Polls : PollStep(s, order[i]) \in Polls
  BY <1>1, PollStepKeeps
<1> HIDE DEF first, n
<1>5. step \in [1 .. n -> [Polls -> Polls]]
  BY <1>4
<1>6. \E f : Is(f)
  <2>1. \A i \in 1 .. n, s \in Polls : step[i][s] = PollStep(s, order[i])
    OBVIOUS
  <2> HIDE DEF step
  <2>2. n \in Nat /\ KeepsTo(Polls, n, step)
    BY <1>1, <1>5 DEF KeepsTo
  <2>3. PICK f : IsRun(f, Polls, first, n, step)
    BY <1>2, <2>2, LoopRuns
  <2>4. ASSUME NEW i \in 1 .. n
        PROVE  f[i] = PollStep(f[i - 1], order[i])
    <3>1. i - 1 \in 0 .. n /\ f[i - 1] \in Polls
      BY <1>1, <2>3 DEF IsRun
    <3>2. step[i][f[i - 1]] = PollStep(f[i - 1], order[i])
      BY <2>1, <3>1
    <3> QED
      BY <2>3, <3>2 DEF IsRun
  <2>5. \A i \in 0 .. n : f[i] = IF i = 0 THEN first ELSE PollStep(f[i - 1], order[i])
    BY <1>1, <2>3, <2>4 DEF IsRun
  <2> QED
    BY <2>3, <2>5 DEF IsRun
<1>7. poll = CHOOSE f : Is(f)
  OBVIOUS
<1> HIDE DEF poll
<1>8. Is(poll)
  <2> HIDE DEF Is
  <2> QED
    BY <1>6, <1>7
<1> DEFINE T == {i \in 0 .. n : poll[i] \in Polls}
<1>9. 0 \in T
  BY <1>1, <1>2, <1>8
<1>10. ASSUME NEW i \in 1 .. n, i - 1 \in T PROVE i \in T
  BY <1>1, <1>4, <1>8, <1>10
<1>11. n \in T
  <2> HIDE DEF T
  <2> QED
    BY <1>1, <1>9, <1>10, Induction
<1> QED
  BY <1>3, <1>11

\* A step of the server (client_server_tcp.rs) keeps what is the clients', if it opens and
\* closes no connection of theirs and reads no other requests than theirs.
Serves(g) == /\ g \in Seq(Chan) /\ Len(g) = Len(chans)
             /\ \A d \in DOMAIN chans :
                  /\ g[d].client = chans[d].client
                  /\ g[d].live => chans[d].live
                  /\ chans[d].open => g[d].open
                  /\ Range(g[d].toServer) \subseteq Range(chans[d].toServer)
                  /\ g[d].asked \subseteq chans[d].asked \cup Range(chans[d].toServer)

LEMMA ServerKeeps ==
  ASSUME SessionsInv, NEW g, NEW s \in Process, Serves(g), \A r \in Requests : s.routes[r] \in 0 .. Len(chans),
         chans' = g, server' = s, client' = client,
         RoutesAsked', Holds', AnswersWereAsked', AnswerOnItsWay'
  PROVE  SessionsInv'
<1>1. chans \in Seq(Chan) /\ client \in [Clients -> Program] /\ Len(chans) \in Nat
  BY DEF SessionsInv, SessionsTypes
<1>2. g \in Seq(Chan) /\ Len(g) = Len(chans) /\ DOMAIN g = DOMAIN chans /\ DOMAIN chans = 1 .. Len(chans)
  BY <1>1 DEF Serves
<1>3. SessionsTypes'
  BY <1>2 DEF SessionsInv, SessionsTypes
<1>4. OwnChannel'
  <2> SUFFICES ASSUME NEW c \in Clients, client[c].conn # NoChan
               PROVE  g[client[c].conn].client = c /\ g[client[c].conn].open
    BY DEF OwnChannel
  <2>1. client[c].conn \in DOMAIN chans
    <3>1. client[c].conn \in 0 .. Len(chans)
      BY DEF SessionsInv, SessionsTypes
    <3> QED
      BY <1>2, <3>1 DEF NoChan
  <2> QED
    BY <2>1 DEF SessionsInv, OwnChannel, Serves
<1>5. OneChannel'
  BY <1>2 DEF SessionsInv, OneChannel, Serves
<1>6. AskedBefore'
  <2> SUFFICES ASSUME NEW d \in DOMAIN chans, NEW r \in Requests, r \in Range(g[d].toServer) \cup g[d].asked
               PROVE  Earlier(g[d].client, r)'
    BY <1>2 DEF AskedBefore
  <2>1. r \in Range(chans[d].toServer) \cup chans[d].asked
    BY DEF Serves
  <2>2. Earlier(chans[d].client, r)
    BY <2>1 DEF SessionsInv, AskedBefore
  <2> QED
    BY <2>2 DEF Serves, Earlier
<1>7. DoneLeft' /\ OneInFlight'
  BY DEF SessionsInv, DoneLeft, OneInFlight
<1> QED
  BY <1>3, <1>4, <1>5, <1>6, <1>7 DEF SessionsInv

\* The connection of a persistent client is the only one its requests come by.
LEMMA OnlyOne ==
  ASSUME SessionsInv, NEW c \in Persistent, client[c].conn # NoChan, NEW d \in DOMAIN chans, chans[d].live,
         NEW r \in Requests, r.client = c, r \in Range(chans[d].toServer)
  PROVE  d = client[c].conn
<1>1. Earlier(chans[d].client, r)
  BY DEF SessionsInv, AskedBefore
<1>2. chans[d].client = c
  BY <1>1 DEF Earlier
<1>3. client[c].at # "done"
  BY DEF SessionsInv, DoneLeft
<1> QED
  BY <1>2, <1>3 DEF SessionsInv, OneChannel

LEMMA GetRequestsKeeps ==
  ASSUME SessionsInv, GetRequests, client' = client
  PROVE  SessionsInv'
<1>1. SessionsTypes /\ chans \in Seq(Chan) /\ server \in Process /\ Len(chans) \in Nat
  BY DEF SessionsInv, SessionsTypes
<1>2. DOMAIN chans = 1 .. Len(chans) /\ \A d \in DOMAIN chans : chans[d] \in Chan
  <2> HIDE DEF Chan
  <2> QED
    BY <1>1
<1>3. Cardinality(Accepted) \in Nat
  <2>1. IsFiniteSet(1 .. Len(chans))
    BY <1>1, FS_Interval
  <2>2. Accepted \subseteq 1 .. Len(chans)
    BY <1>2 DEF Accepted
  <2> QED
    BY <2>1, <2>2, FS_Subset, FS_CardinalityType
<1>4. PICK order \in [1 .. Cardinality(Accepted) -> Accepted] :
        LET poll == Polled(order) IN
        /\ server' = [server EXCEPT !.conns = Accepted \ poll.gone,
                        !.routes = Retained(poll.routes, poll.gone), !.work = @ \o poll.out]
        /\ chans' = [ch \in DOMAIN chans |->
             IF ch \in poll.gone THEN Gone(chans[ch].client)
             ELSE IF ch \in poll.read
             THEN [chans[ch] EXCEPT !.toServer = <<>>, !.asked = @ \cup Range(chans[ch].toServer)]
             ELSE chans[ch]]
  BY DEF GetRequests
<1>5. PICK poll : poll = Polled(order)
  OBVIOUS
<1>6. poll \in Polls
  BY <1>1, <1>3, <1>5, PolledIs
<1>7. poll \in PollState /\ PollOK(poll)
  BY <1>6 DEF Polls
<1>8. PICK g : g = [ch \in DOMAIN chans |->
                     IF ch \in poll.gone THEN Gone(chans[ch].client)
                     ELSE IF ch \in poll.read
                     THEN [chans[ch] EXCEPT !.toServer = <<>>, !.asked = @ \cup Range(chans[ch].toServer)]
                     ELSE chans[ch]]
  OBVIOUS
<1>9. PICK s : s = [server EXCEPT !.conns = Accepted \ poll.gone,
                      !.routes = Retained(poll.routes, poll.gone), !.work = server.work \o poll.out]
  OBVIOUS
<1>10. chans' = g /\ server' = s
  BY <1>4, <1>5, <1>8, <1>9
<1>11. poll.gone \subseteq Accepted /\ poll.read \subseteq Accepted /\ poll.out \in Seq(Requests)
       /\ poll.routes \in [Requests -> 0 .. Len(chans)]
  BY <1>7 DEF PollState
<1>12. /\ s \in Process /\ s.up = server.up /\ s.leads = server.leads /\ s.conns = Accepted \ poll.gone
       /\ \A r \in Requests : s.routes[r] = IF poll.routes[r] \in poll.gone THEN NoChan ELSE poll.routes[r]
       /\ \A r \in Requests : s.routes[r] \in 0 .. Len(chans)
       /\ Range(s.work) = Range(server.work) \cup Range(poll.out)
  <2> DEFINE routes == Retained(poll.routes, poll.gone)
             work == server.work \o poll.out
             conns == Accepted \ poll.gone
  <2>1. \A r \in Requests : routes[r] = IF poll.routes[r] \in poll.gone THEN NoChan ELSE poll.routes[r]
    BY DEF Retained
  <2>2. \A r \in Requests : routes[r] \in 0 .. Len(chans)
    BY <1>1, <1>11, <2>1 DEF NoChan
  <2>3. routes \in [Requests -> Nat]
    <3>1. routes = [r \in Requests |-> routes[r]]
      BY DEF Retained
    <3>2. \A r \in Requests : routes[r] \in Nat
      BY <1>1, <2>2
    <3> HIDE DEF routes
    <3> QED
      BY <3>1, <3>2
  <2>4. work \in Seq(Requests) /\ Range(work) = Range(server.work) \cup Range(poll.out)
    BY <1>1, <1>11, ConcatRange DEF Process
  <2>5. conns \subseteq Nat
    BY <1>2 DEF Accepted
  <2>6. s = [server EXCEPT !.conns = conns, !.routes = routes, !.work = work]
    BY <1>9
  <2> HIDE DEF routes, work, conns
  <2>7. s \in Process /\ s.up = server.up /\ s.leads = server.leads /\ s.conns = conns /\ s.routes = routes /\ s.work = work
    BY <1>1, <2>3, <2>4, <2>5, <2>6 DEF Process
  <2> QED
    BY <2>1, <2>2, <2>4, <2>7 DEF conns
<1>13. ASSUME NEW d \in DOMAIN chans
       PROVE  /\ g[d] \in Chan /\ g[d].client = chans[d].client
              /\ g[d].live => chans[d].live /\ d \notin poll.gone
              /\ chans[d].open => g[d].open /\ d \notin poll.gone
              /\ Range(g[d].toServer) \subseteq Range(chans[d].toServer)
              /\ d \notin poll.gone => /\ g[d].toClient = chans[d].toClient
                                       /\ g[d].asked = chans[d].asked \cup (IF d \in poll.read THEN Range(chans[d].toServer) ELSE {})
              /\ d \in poll.gone => g[d].asked = {}
  <2>1. <<>> \in Seq(Requests) /\ Range(<<>>) = {}
    BY DEF Range
  <2>2. d \in poll.gone => ~chans[d].open
    BY <1>7 DEF PollOK
  <2>3. CASE d \in poll.gone
    <3>1. g[d] = Gone(chans[d].client)
      BY <1>8, <2>3
    <3>2. g[d] = [client |-> chans[d].client, toServer |-> <<>>, toClient |-> <<>>, open |-> FALSE, live |-> FALSE, asked |-> {}]
      BY <3>1, GoneIs
    <3> QED
      BY <1>2, <2>1, <2>2, <2>3, <3>2 DEF Chan
  <2>4. CASE d \notin poll.gone /\ d \in poll.read
    <3>1. g[d] = [chans[d] EXCEPT !.toServer = <<>>, !.asked = chans[d].asked \cup Range(chans[d].toServer)]
      BY <1>8, <2>4
    <3>2. chans[d].asked \cup Range(chans[d].toServer) \subseteq Requests
      BY <1>2 DEF Chan, Range
    <3>3. PICK a : a = chans[d].asked \cup Range(chans[d].toServer)
      OBVIOUS
    <3>4. chans[d] \in Chan /\ g[d] = [chans[d] EXCEPT !.toServer = <<>>, !.asked = a] /\ a \in SUBSET Requests
      BY <1>2, <3>1, <3>2, <3>3
    <3>5. /\ g[d] \in Chan /\ g[d].client = chans[d].client /\ g[d].live = chans[d].live /\ g[d].open = chans[d].open
          /\ g[d].toServer = <<>> /\ g[d].toClient = chans[d].toClient /\ g[d].asked = a
      BY <2>1, <3>4 DEF Chan
    <3> QED
      BY <2>1, <2>4, <3>3, <3>5
  <2>5. CASE d \notin poll.gone /\ d \notin poll.read
    <3>1. g[d] = chans[d]
      BY <1>8, <2>5
    <3> QED
      BY <1>2, <2>5, <3>1
  <2> QED
    BY <2>3, <2>4, <2>5
<1>14. g \in Seq(Chan) /\ Len(g) = Len(chans) /\ DOMAIN g = DOMAIN chans
  <2>1. g = [d \in 1 .. Len(chans) |-> g[d]]
    BY <1>2, <1>8
  <2>2. \A d \in 1 .. Len(chans) : g[d] \in Chan
    BY <1>2, <1>13
  <2> HIDE DEF Chan
  <2> QED
    BY <1>1, <1>2, <2>1, <2>2
<1>15. Serves(g)
  BY <1>13, <1>14 DEF Serves
<1>16. RoutesAsked'
  <2> SUFFICES ASSUME NEW d \in DOMAIN chans, NEW r \in Requests, g[d].live, s.routes[r] = d
               PROVE  r \in g[d].asked
    BY <1>10, <1>14 DEF RoutesAsked
  <2>1. d # NoChan
    BY <1>2 DEF NoChan
  <2>2. poll.routes[r] = d
    BY <1>12, <2>1
  <2>3. poll.routes[r] = server.routes[r] \/ CameBy(poll, r)
    BY <1>7 DEF PollOK
  <2>4. chans[d].live /\ g[d].asked = chans[d].asked \cup (IF d \in poll.read THEN Range(chans[d].toServer) ELSE {})
    BY <1>13
  <2>5. CASE poll.routes[r] = server.routes[r]
    BY <2>2, <2>4, <2>5 DEF SessionsInv, RoutesAsked
  <2>6. CASE CameBy(poll, r)
    BY <2>2, <2>4, <2>6 DEF CameBy
  <2> QED
    BY <2>3, <2>5, <2>6
<1>17. Holds'
  <2>1. \A d \in DOMAIN chans : g[d].live => d \in s.conns
    BY <1>12, <1>13 DEF Accepted
  <2>2. s.up
    BY <1>12 DEF GetRequests
  <2> QED
    BY <1>10, <1>14, <2>1, <2>2 DEF Holds
<1>18. AnswersWereAsked'
  <2> SUFFICES ASSUME NEW d \in DOMAIN chans, g[d].live PROVE Range(g[d].toClient) \subseteq g[d].asked
    BY <1>10, <1>14 DEF AnswersWereAsked
  <2> QED
    BY <1>13 DEF SessionsInv, AnswersWereAsked
<1>19. AnswerOnItsWay'
  <2> SUFFICES ASSUME NEW c \in Persistent, s.leads, client[c].conn # NoChan,
                      NEW r \in g[client[c].conn].asked, g[client[c].conn].live, r.seq \in client[c].sent
               PROVE  \/ r \in Range(s.work) /\ s.routes[r] = client[c].conn
                      \/ r \in Range(g[client[c].conn].toClient)
    BY <1>10 DEF AnswerOnItsWay
  <2> DEFINE ch == client[c].conn
  <2>1. c \in Clients /\ ch \in DOMAIN chans
    <3>1. c \in Clients /\ client[c].conn \in 0 .. Len(chans)
      BY <1>1, ClientsAssumption DEF SessionsTypes
    <3> QED
      BY <1>2, <3>1 DEF NoChan
  <2>2. /\ chans[ch].live /\ ch \notin poll.gone /\ g[ch].toClient = chans[ch].toClient
        /\ g[ch].asked = chans[ch].asked \cup (IF ch \in poll.read THEN Range(chans[ch].toServer) ELSE {})
    BY <1>13, <2>1
  <2>3. r \in Requests /\ r.client = c
    <3>1. g[ch] \in Chan
      BY <1>13, <2>1
    <3>2. r \in Requests
      BY <3>1 DEF Chan
    <3>3. Earlier(chans[ch].client, r)
      BY <2>1, <2>2, <3>2 DEF SessionsInv, AskedBefore
    <3>4. chans[ch].client = c
      BY <2>1 DEF SessionsInv, OwnChannel
    <3> QED
      BY <3>2, <3>3, <3>4 DEF Earlier
  <2>4. CameBy(poll, r) => poll.routes[r] = ch
    <3> SUFFICES ASSUME CameBy(poll, r) PROVE poll.routes[r] = ch
      OBVIOUS
    <3>1. poll.routes[r] \in Accepted /\ r \in Range(chans[poll.routes[r]].toServer)
      BY <1>11 DEF CameBy
    <3> QED
      BY <2>3, <3>1, OnlyOne DEF Accepted
  <2>5. CASE r \in chans[ch].asked /\ r \in Range(chans[ch].toClient)
    BY <2>2, <2>5
  <2>6. CASE r \in chans[ch].asked /\ r \notin Range(chans[ch].toClient)
    <3>1. r \in Range(server.work) /\ server.routes[r] = ch
      BY <1>12, <2>2, <2>6 DEF SessionsInv, AnswerOnItsWay
    <3>2. poll.routes[r] = ch
      BY <1>7, <2>3, <2>4, <3>1 DEF PollOK
    <3> QED
      BY <1>12, <2>2, <2>3, <3>1, <3>2
  <2>7. CASE r \notin chans[ch].asked
    <3>1. ch \in poll.read /\ r \in Range(chans[ch].toServer)
      BY <2>2, <2>7
    <3>2. r \in Range(poll.out) /\ CameBy(poll, r)
      BY <1>7, <3>1 DEF PollOK
    <3> QED
      BY <1>12, <2>2, <2>3, <2>4, <3>2
  <2> QED
    BY <2>5, <2>6, <2>7
<1> QED
  BY <1>10, <1>12, <1>15, <1>16, <1>17, <1>18, <1>19, ServerKeeps

\* The connections after some answers were written (client_server_tcp.rs send_responses):
\* only what is on its way to the clients grows, by answers that are routed there.
Written == {g \in Seq(Chan) :
  /\ Len(g) = Len(chans)
  /\ \A d \in DOMAIN chans :
       /\ g[d].client = chans[d].client /\ g[d].open = chans[d].open /\ g[d].live = chans[d].live
       /\ g[d].toServer = chans[d].toServer /\ g[d].asked = chans[d].asked
       /\ Range(chans[d].toClient) \subseteq Range(g[d].toClient)
       /\ \A r \in Range(g[d].toClient) \ Range(chans[d].toClient) : server.routes[r] = d}

HasOutlet(r) == Outlet(r) # NoChan /\ chans[Outlet(r)].open
WriteStep(g, r) == IF HasOutlet(r) THEN [g EXCEPT ![Outlet(r)].toClient = Append(@, r)] ELSE g

LEMMA WriteStepKeeps ==
  ASSUME SessionsTypes, NEW g \in Written, NEW r \in Requests
  PROVE  /\ WriteStep(g, r) \in Written
         /\ \A d \in DOMAIN chans : Range(g[d].toClient) \subseteq Range(WriteStep(g, r)[d].toClient)
         /\ HasOutlet(r) => r \in Range(WriteStep(g, r)[Outlet(r)].toClient)
<1>1. CASE ~HasOutlet(r)
  BY <1>1 DEF WriteStep
<1>2. CASE HasOutlet(r)
  <2>1. PICK ch : ch = Outlet(r)
    OBVIOUS
  <2>2. ch # NoChan /\ chans[ch].open /\ server.routes[r] = ch
    BY <1>2, <2>1 DEF HasOutlet, Outlet, Key
  <2>3. chans \in Seq(Chan) /\ Len(chans) \in Nat /\ server.routes[r] \in 0 .. Len(chans)
    BY DEF SessionsTypes
  <2>4. ch \in DOMAIN chans /\ ch \in 1 .. Len(chans) /\ DOMAIN chans = 1 .. Len(chans)
    BY <2>2, <2>3 DEF NoChan
  <2>5. g \in Seq(Chan) /\ Len(g) = Len(chans) /\ g[ch] \in Chan
    <3>1. g \in Seq(Chan) /\ Len(g) = Len(chans)
      BY DEF Written
    <3> HIDE DEF Chan
    <3> QED
      BY <2>3, <2>4, <3>1
  <2>6. PICK q : q = Append(g[ch].toClient, r)
    OBVIOUS
  <2>7. q \in Seq(Requests) /\ Range(q) = Range(g[ch].toClient) \cup {r}
    <3>1. g[ch].toClient \in Seq(Requests)
      BY <2>5 DEF Chan
    <3>2. PICK t : t = g[ch].toClient
      OBVIOUS
    <3>3. t \in Seq(Requests) /\ q = Append(t, r)
      BY <2>6, <3>1, <3>2
    <3>4. q \in Seq(Requests) /\ Len(q) = Len(t) + 1 /\ q[Len(t) + 1] = r /\ Len(t) \in Nat
      BY <3>3
    <3>5. \A i \in 1 .. Len(t) : q[i] = t[i]
      BY <3>3
    <3>6. DOMAIN q = 1 .. Len(t) + 1 /\ DOMAIN t = 1 .. Len(t)
      BY <3>3, <3>4
    <3>7. \A i \in 1 .. Len(t) + 1 : i \in 1 .. Len(t) \/ i = Len(t) + 1
      BY <3>4
    <3>8. 1 .. Len(t) \subseteq 1 .. Len(t) + 1 /\ Len(t) + 1 \in 1 .. Len(t) + 1
      BY <3>4
    <3>9. Range(q) \subseteq Range(t) \cup {r}
      BY <3>4, <3>5, <3>6, <3>7 DEF Range
    <3>10. Range(t) \subseteq Range(q) /\ r \in Range(q)
      BY <3>4, <3>5, <3>6, <3>8 DEF Range
    <3> QED
      BY <3>2, <3>4, <3>9, <3>10
  <2>8. PICK b : b = [g[ch] EXCEPT !.toClient = q]
    OBVIOUS
  <2>9. /\ b \in Chan /\ b.client = g[ch].client /\ b.open = g[ch].open /\ b.live = g[ch].live
        /\ b.toServer = g[ch].toServer /\ b.asked = g[ch].asked /\ b.toClient = q
    BY <2>5, <2>7, <2>8 DEF Chan
  <2>10. PICK h : h = WriteStep(g, r)
    OBVIOUS
  <2>11. h = [g EXCEPT ![ch] = b]
    <3>1. h = [g EXCEPT ![ch].toClient = Append(@, r)]
      BY <1>2, <2>1, <2>10 DEF WriteStep
    <3> QED
      BY <2>5, <2>6, <2>8, <3>1 DEF Chan
  <2>12. /\ h \in Seq(Chan) /\ Len(h) = Len(chans) /\ h[ch] = b
         /\ \A d \in DOMAIN chans : d # ch => h[d] = g[d]
    <3> HIDE DEF Chan
    <3> QED
      BY <2>3, <2>4, <2>5, <2>9, <2>11
  <2>13. ASSUME NEW d \in DOMAIN chans
         PROVE  /\ h[d].client = chans[d].client /\ h[d].open = chans[d].open /\ h[d].live = chans[d].live
                /\ h[d].toServer = chans[d].toServer /\ h[d].asked = chans[d].asked
                /\ Range(chans[d].toClient) \subseteq Range(h[d].toClient)
                /\ \A x \in Range(h[d].toClient) \ Range(chans[d].toClient) : server.routes[x] = d
                /\ Range(g[d].toClient) \subseteq Range(h[d].toClient)
    <3>1. /\ g[d].client = chans[d].client /\ g[d].open = chans[d].open /\ g[d].live = chans[d].live
          /\ g[d].toServer = chans[d].toServer /\ g[d].asked = chans[d].asked
          /\ Range(chans[d].toClient) \subseteq Range(g[d].toClient)
          /\ \A x \in Range(g[d].toClient) \ Range(chans[d].toClient) : server.routes[x] = d
      BY DEF Written
    <3>2. CASE d = ch
      BY <2>2, <2>7, <2>9, <2>12, <3>1, <3>2
    <3>3. CASE d # ch
      BY <2>12, <3>1, <3>3
    <3> QED
      BY <3>2, <3>3
  <2>14. h \in Written
    BY <2>12, <2>13 DEF Written
  <2>15. r \in Range(h[ch].toClient)
    BY <2>7, <2>9, <2>12
  <2> QED
    BY <2>1, <2>10, <2>13, <2>14, <2>15
<1> QED
  BY <1>1, <1>2

LEMMA DeliveredIs ==
  ASSUME SessionsTypes, NEW answers \in Seq(Requests)
  PROVE  /\ Delivered(chans, answers) \in Written
         /\ \A j \in 1 .. Len(answers) : HasOutlet(answers[j]) =>
              answers[j] \in Range(Delivered(chans, answers)[Outlet(answers[j])].toClient)
<1> DEFINE n == Len(answers)
           write[i \in 0 .. n] == IF i = 0 THEN chans ELSE WriteStep(write[i - 1], answers[i])
           step == [i \in 1 .. n |-> [s \in Written |-> WriteStep(s, answers[i])]]
           Is(f) == f = [i \in 0 .. n |-> IF i = 0 THEN chans ELSE WriteStep(f[i - 1], answers[i])]
           Arrived(i) == \A j \in 1 .. i : HasOutlet(answers[j]) =>
                           answers[j] \in Range(write[i][Outlet(answers[j])].toClient)
<1>1. n \in Nat /\ \A i \in 1 .. n : answers[i] \in Requests
  OBVIOUS
<1>2. chans \in Written
  BY DEF SessionsTypes, Written
<1>3. Delivered(chans, answers) = write[n]
  BY DEF Delivered, WriteStep, HasOutlet
<1>4. \A i \in 1 .. n, s \in Written : WriteStep(s, answers[i]) \in Written
  BY <1>1, WriteStepKeeps
<1> HIDE DEF n
<1>5. step \in [1 .. n -> [Written -> Written]]
  BY <1>4
<1>6. \E f : Is(f)
  <2>1. \A i \in 1 .. n, s \in Written : step[i][s] = WriteStep(s, answers[i])
    OBVIOUS
  <2> HIDE DEF step
  <2>2. n \in Nat /\ KeepsTo(Written, n, step)
    BY <1>1, <1>5 DEF KeepsTo
  <2>3. PICK f : IsRun(f, Written, chans, n, step)
    BY <1>2, <2>2, LoopRuns
  <2>4. ASSUME NEW i \in 1 .. n
        PROVE  f[i] = WriteStep(f[i - 1], answers[i])
    <3>1. i - 1 \in 0 .. n /\ f[i - 1] \in Written
      BY <1>1, <2>3 DEF IsRun
    <3>2. step[i][f[i - 1]] = WriteStep(f[i - 1], answers[i])
      BY <2>1, <3>1
    <3> QED
      BY <2>3, <3>2 DEF IsRun
  <2>5. \A i \in 0 .. n : f[i] = IF i = 0 THEN chans ELSE WriteStep(f[i - 1], answers[i])
    BY <1>1, <2>3, <2>4 DEF IsRun
  <2> QED
    BY <2>3, <2>5 DEF IsRun
<1>7. write = CHOOSE f : Is(f)
  OBVIOUS
<1> HIDE DEF write
<1>8. Is(write)
  <2> HIDE DEF Is
  <2> QED
    BY <1>6, <1>7
<1> DEFINE T == {i \in 0 .. n : write[i] \in Written /\ Arrived(i)}
<1>9. 0 \in T
  BY <1>1, <1>2, <1>8
<1>10. ASSUME NEW i \in 1 .. n, i - 1 \in T PROVE i \in T
  <2>1. i - 1 \in 0 .. n /\ i \in 0 .. n /\ i # 0 /\ write[i - 1] \in Written /\ answers[i] \in Requests
    BY <1>1, <1>10
  <2>2. write[i] = WriteStep(write[i - 1], answers[i])
    BY <1>8, <2>1
  <2>3. /\ write[i] \in Written
        /\ \A d \in DOMAIN chans : Range(write[i - 1][d].toClient) \subseteq Range(write[i][d].toClient)
        /\ HasOutlet(answers[i]) => answers[i] \in Range(write[i][Outlet(answers[i])].toClient)
    BY <2>1, <2>2, WriteStepKeeps
  <2>4. ASSUME NEW j \in 1 .. i, HasOutlet(answers[j])
        PROVE  answers[j] \in Range(write[i][Outlet(answers[j])].toClient)
    <3>1. CASE j = i
      BY <2>3, <2>4, <3>1
    <3>2. CASE j # i
      <4>1. j \in 1 .. i - 1 /\ answers[j] \in Requests
        BY <1>1, <3>2
      <4>2. answers[j] \in Range(write[i - 1][Outlet(answers[j])].toClient)
        BY <1>10, <2>4, <4>1
      <4>3. Outlet(answers[j]) \in DOMAIN chans
        <5>1. Outlet(answers[j]) \in 0 .. Len(chans) /\ Len(chans) \in Nat
          BY <4>1 DEF SessionsTypes, Outlet, Key, NoChan
        <5>2. DOMAIN chans = 1 .. Len(chans)
          BY DEF SessionsTypes
        <5> QED
          BY <2>4, <5>1, <5>2 DEF HasOutlet, NoChan
      <4> QED
        BY <2>3, <4>2, <4>3
    <3> QED
      BY <3>1, <3>2
  <2> QED
    BY <2>1, <2>3, <2>4
<1>11. n \in T
  <2> HIDE DEF T
  <2>1. \A i \in 1 .. n : i - 1 \in T => i \in T
    BY <1>10
  <2>2. \A i \in 0 .. n : i \in T
    BY <1>1, <1>9, <2>1, Induction
  <2> QED
    BY <1>1, <2>2
<1> QED
  BY <1>3, <1>11 DEF n

LEMMA ServersAre ==
  /\ NewServer \in Process /\ NewServer.up /\ \A r \in Requests : NewServer.routes[r] = NoChan
  /\ Down \in Process /\ ~Down.up /\ ~Down.leads /\ \A r \in Requests : Down.routes[r] = NoChan
<1>1. PICK routes : routes = [r \in Requests |-> NoChan]
  OBVIOUS
<1>2. routes \in [Requests -> Nat] /\ \A r \in Requests : routes[r] = NoChan
  BY <1>1 DEF NoChan
<1>3. PICK n : n = NewServer
  OBVIOUS
<1>4. n = [up |-> TRUE, leads |-> TRUE, conns |-> {}, routes |-> routes, work |-> <<>>]
  BY <1>1, <1>3 DEF NewServer
<1>5. n \in Process /\ n.up /\ n.routes = routes
  BY <1>2, <1>4 DEF Process
<1>6. Down = [n EXCEPT !.up = FALSE, !.leads = FALSE]
  BY <1>3 DEF Down
<1>7. PICK d : d = Down
  OBVIOUS
<1>8. d \in Process /\ ~d.up /\ ~d.leads /\ d.routes = routes
  BY <1>5, <1>6, <1>7 DEF Process
<1> QED
  BY <1>2, <1>3, <1>5, <1>7, <1>8

\* Where answers were written, the clients' connections are as before.
LEMMA WrittenServes ==
  ASSUME SessionsTypes, NEW f \in Written
  PROVE  Serves(f)
BY DEF Written, Serves

\* The process is gone, in the middle of its answers or at any other time.
LEMMA SeveredKeeps ==
  ASSUME SessionsInv, NEW f \in Written, chans' \in Severed(f), server' = Down, client' = client
  PROVE  SessionsInv'
<1>1. chans \in Seq(Chan) /\ Len(chans) \in Nat /\ SessionsTypes
  BY DEF SessionsInv, SessionsTypes
<1>2. PICK lost \in SUBSET {ch \in DOMAIN f : f[ch].toClient # <<>>} :
        chans' = [ch \in DOMAIN f |->
          IF ~f[ch].open THEN Gone(f[ch].client)
          ELSE [f[ch] EXCEPT !.live = FALSE, !.toServer = <<>>, !.asked = {},
                             !.toClient = IF ch \in lost THEN <<>> ELSE @]]
  BY DEF Severed
<1>3. PICK g : g = [ch \in DOMAIN f |->
          IF ~f[ch].open THEN Gone(f[ch].client)
          ELSE [f[ch] EXCEPT !.live = FALSE, !.toServer = <<>>, !.asked = {},
                             !.toClient = IF ch \in lost THEN <<>> ELSE @]]
  OBVIOUS
<1>4. f \in Seq(Chan) /\ Len(f) = Len(chans) /\ Serves(f)
  BY <1>1, WrittenServes DEF Written
<1>5. DOMAIN f = DOMAIN chans /\ DOMAIN chans = 1 .. Len(chans)
  BY <1>1, <1>4
<1>6. ASSUME NEW d \in DOMAIN chans
      PROVE  /\ g[d] \in Chan /\ g[d].client = chans[d].client /\ (chans[d].open => g[d].open)
             /\ g[d].live = FALSE /\ Range(g[d].toServer) = {} /\ g[d].asked = {}
  <2>1. <<>> \in Seq(Requests) /\ Range(<<>>) = {}
    BY DEF Range
  <2>2. f[d] \in Chan
    <3> HIDE DEF Chan
    <3> QED
      BY <1>1, <1>4, <1>5
  <2>3. f[d].client = chans[d].client /\ f[d].open = chans[d].open
    BY DEF Written
  <2>4. CASE ~f[d].open
    <3>1. g[d] = [client |-> f[d].client, toServer |-> <<>>, toClient |-> <<>>, open |-> FALSE, live |-> FALSE, asked |-> {}]
      BY <1>3, <1>5, <2>4, GoneIs
    <3> QED
      BY <2>1, <2>2, <2>3, <2>4, <3>1 DEF Chan
  <2>5. CASE f[d].open
    <3>1. PICK q : q = IF d \in lost THEN <<>> ELSE f[d].toClient
      OBVIOUS
    <3>2. q \in Seq(Requests)
      BY <2>1, <2>2, <3>1 DEF Chan
    <3>3. g[d] = [f[d] EXCEPT !.live = FALSE, !.toServer = <<>>, !.asked = {}, !.toClient = q]
      BY <1>3, <1>5, <2>5, <3>1
    <3> QED
      BY <2>1, <2>2, <2>3, <2>5, <3>2, <3>3 DEF Chan
  <2> QED
    BY <2>4, <2>5
<1>7. g \in Seq(Chan) /\ Len(g) = Len(chans) /\ DOMAIN g = DOMAIN chans
  <2>1. g = [d \in 1 .. Len(chans) |-> g[d]]
    BY <1>3, <1>5
  <2>2. \A d \in 1 .. Len(chans) : g[d] \in Chan
    BY <1>5, <1>6
  <2> HIDE DEF Chan
  <2> QED
    BY <1>1, <1>5, <2>1, <2>2
<1>8. Serves(g)
  BY <1>6, <1>7 DEF Serves
<1>9. PICK s \in Process : s = Down
  BY ServersAre
<1>10. ~s.up /\ ~s.leads /\ \A r \in Requests : s.routes[r] = NoChan
  BY <1>9, ServersAre
<1>11. chans' = g /\ server' = s
  BY <1>2, <1>3, <1>9
<1>12. RoutesAsked' /\ AnswersWereAsked' /\ Holds'
  BY <1>6, <1>7, <1>10, <1>11 DEF RoutesAsked, AnswersWereAsked, Holds
<1>13. AnswerOnItsWay'
  BY <1>10, <1>11 DEF AnswerOnItsWay
<1>14. \A r \in Requests : s.routes[r] \in 0 .. Len(chans)
  BY <1>1, <1>10 DEF NoChan
<1> QED
  BY <1>8, <1>11, <1>12, <1>13, <1>14, ServerKeeps

\* What a queue has left after its first n members.
LEMMA RestIs ==
  ASSUME NEW S, NEW q \in Seq(S), NEW n \in 1 .. Len(q), NEW rest, rest = SubSeq(q, n + 1, Len(q))
  PROVE  /\ rest \in Seq(S) /\ Len(rest) = Len(q) - n
         /\ \A i \in 1 .. Len(q) - n : rest[i] = q[i + n]
<1>1. Len(q) \in Nat /\ n \in Nat /\ n <= Len(q) /\ \A i \in 1 .. Len(q) : q[i] \in S
  OBVIOUS
<1>2. rest \in Seq(S) /\ Len(rest) = Len(q) - n
  BY <1>1
<1>3. ASSUME NEW i \in 1 .. Len(q) - n PROVE rest[i] = q[i + n]
  BY <1>1, <1>3
<1> QED
  BY <1>2, <1>3

LEMMA AnswersKeep ==
  ASSUME SessionsInv, NEW n \in Nat, SendResponses(n), client' = client
  PROVE  SessionsInv'
<1>1. /\ chans \in Seq(Chan) /\ Len(chans) \in Nat /\ SessionsTypes /\ server \in Process
      /\ server.work \in Seq(Requests) /\ Len(server.work) \in Nat /\ DOMAIN chans = 1 .. Len(chans)
  BY DEF SessionsInv, SessionsTypes, Process
<1>2. n \in 1 .. Len(server.work) /\ server.up
  BY DEF SendResponses
<1>3. PICK answers : answers = SubSeq(server.work, 1, n)
  OBVIOUS
<1>4. PICK left : left = SubSeq(server.work, n + 1, Len(server.work))
  OBVIOUS
<1>5. answers \in Seq(Requests) /\ Len(answers) = n /\ \A i \in 1 .. n : answers[i] = server.work[i]
  BY <1>1, <1>2, <1>3
<1>6. /\ left \in Seq(Requests) /\ Len(left) = Len(server.work) - n
      /\ \A i \in 1 .. Len(server.work) - n : left[i] = server.work[i + n]
  BY <1>1, <1>2, <1>4, RestIs
<1>7. \A r \in Range(server.work) : (\E i \in 1 .. n : answers[i] = r) \/ r \in Range(left)
  <2> SUFFICES ASSUME NEW j \in 1 .. Len(server.work), \A i \in 1 .. n : answers[i] # server.work[j]
               PROVE  server.work[j] \in Range(left)
    BY <1>1 DEF Range
  <2>1. ~(j <= n)
    BY <1>2, <1>5
  <2>2. j - n \in 1 .. Len(server.work) - n /\ (j - n) + n = j
    BY <1>1, <1>2, <2>1
  <2>3. left[j - n] = server.work[j] /\ j - n \in DOMAIN left
    BY <1>1, <1>2, <1>6, <2>2
  <2> QED
    BY <2>3 DEF Range
<1>8. PICK written : written = Delivered(chans, answers)
  OBVIOUS
<1>9. /\ written \in Written
      /\ \A j \in 1 .. n : HasOutlet(answers[j]) => answers[j] \in Range(written[Outlet(answers[j])].toClient)
  BY <1>1, <1>5, <1>8, DeliveredIs
<1>10. \/ ~server.leads /\ server' = [server EXCEPT !.work = left] /\ chans' = chans
       \/ /\ server.leads
          /\ server' = [[server EXCEPT !.work = left] EXCEPT !.routes =
               [r \in Requests |-> IF \E i \in 1 .. n : Key(answers[i]) = r THEN NoChan ELSE @[r]]]
          /\ chans' = written
       \/ server' = Down /\ chans' \in Severed(written)
  BY <1>3, <1>4, <1>8 DEF SendResponses
<1>11. CASE ~server.leads /\ server' = [server EXCEPT !.work = left] /\ chans' = chans
  <2>1. PICK s : s = [server EXCEPT !.work = left]
    OBVIOUS
  <2>2. s \in Process /\ s.up = server.up /\ s.leads = server.leads /\ s.conns = server.conns /\ s.routes = server.routes
    BY <1>1, <1>6, <2>1 DEF Process
  <2>3. server' = s /\ chans' = chans
    BY <1>11, <2>1
  <2>4. Serves(chans)
    BY <1>1 DEF Serves
  <2>5. RoutesAsked' /\ AnswersWereAsked' /\ Holds' /\ AnswerOnItsWay'
    BY <1>11, <2>2, <2>3 DEF SessionsInv, RoutesAsked, AnswersWereAsked, Holds, AnswerOnItsWay
  <2>6. \A r \in Requests : s.routes[r] \in 0 .. Len(chans)
    BY <1>1, <2>2 DEF SessionsTypes
  <2>7. PICK g : g = chans
    OBVIOUS
  <2>8. Serves(g) /\ chans' = g
    BY <2>3, <2>4, <2>7
  <2> QED
    BY <2>2, <2>3, <2>5, <2>6, <2>8, ServerKeeps
<1>12. CASE server' = Down /\ chans' \in Severed(written)
  BY <1>9, <1>12, SeveredKeeps
<1>13. CASE /\ server.leads
            /\ server' = [[server EXCEPT !.work = left] EXCEPT !.routes =
                 [r \in Requests |-> IF \E i \in 1 .. n : Key(answers[i]) = r THEN NoChan ELSE @[r]]]
            /\ chans' = written
  <2>1. PICK routes : routes = [r \in Requests |-> IF \E i \in 1 .. n : answers[i] = r THEN NoChan ELSE server.routes[r]]
    OBVIOUS
  <2>2. routes \in [Requests -> Nat] /\ \A r \in Requests : routes[r] = NoChan \/ routes[r] = server.routes[r]
    BY <1>1, <2>1 DEF Process, NoChan
  <2>3. PICK s : s = [server EXCEPT !.work = left, !.routes = routes]
    OBVIOUS
  <2>4. /\ s \in Process /\ s.up = server.up /\ s.leads = server.leads /\ s.conns = server.conns
        /\ s.routes = routes /\ s.work = left
    BY <1>1, <1>6, <2>2, <2>3 DEF Process
  <2>5. server' = s /\ chans' = written
    <3>1. PICK m : m = [server EXCEPT !.work = left]
      OBVIOUS
    <3>2. m \in Process /\ m.routes = server.routes /\ s = [m EXCEPT !.routes = routes]
      BY <1>1, <1>6, <2>3, <3>1 DEF Process
    <3>3. [r \in Requests |-> IF \E i \in 1 .. n : Key(answers[i]) = r THEN NoChan ELSE m.routes[r]] = routes
      BY <2>1, <3>2 DEF Key
    <3>4. server' = [m EXCEPT !.routes =
               [r \in Requests |-> IF \E i \in 1 .. n : Key(answers[i]) = r THEN NoChan ELSE m.routes[r]]]
      BY <1>13, <3>1
    <3> QED
      BY <1>13, <3>2, <3>3, <3>4
  <2>6. Serves(written) /\ DOMAIN written = DOMAIN chans
    <3>1. written \in Seq(Chan) /\ Len(written) = Len(chans)
      BY <1>9 DEF Written
    <3> QED
      BY <1>1, <1>9, <3>1, WrittenServes
  <2>7. \A r \in Requests : s.routes[r] \in 0 .. Len(chans)
    BY <1>1, <2>2, <2>4 DEF SessionsTypes, NoChan
  <2>8. \A d \in DOMAIN chans : written[d].live = chans[d].live /\ written[d].asked = chans[d].asked
    BY <1>9 DEF Written
  <2>9. RoutesAsked'
    <3> SUFFICES ASSUME NEW d \in DOMAIN chans, NEW r \in Requests, written[d].live, s.routes[r] = d
                 PROVE  r \in written[d].asked
      BY <2>5, <2>6 DEF RoutesAsked
    <3>1. d # NoChan
      BY <1>1 DEF NoChan
    <3>2. server.routes[r] = d
      BY <2>2, <2>4, <3>1
    <3> QED
      BY <2>8, <3>2 DEF SessionsInv, RoutesAsked
  <2>10. Holds'
    BY <2>4, <2>5, <2>6, <2>8 DEF SessionsInv, Holds
  <2>11. AnswersWereAsked'
    <3> SUFFICES ASSUME NEW d \in DOMAIN chans, written[d].live, NEW r \in Range(written[d].toClient)
                 PROVE  r \in written[d].asked
      BY <2>5, <2>6 DEF AnswersWereAsked
    <3>1. CASE r \in Range(chans[d].toClient)
      BY <2>8, <3>1 DEF SessionsInv, AnswersWereAsked
    <3>2. CASE r \notin Range(chans[d].toClient)
      <4>1. server.routes[r] = d
        BY <1>9, <3>2 DEF Written
      <4>2. r \in Requests
        <5>1. written \in Seq(Chan)
          BY <1>9 DEF Written
        <5>2. written[d] \in Chan
          <6> HIDE DEF Chan
          <6> QED
            BY <2>6, <5>1
        <5> QED
          BY <5>2 DEF Chan, Range
      <4> QED
        BY <2>8, <4>1, <4>2 DEF SessionsInv, RoutesAsked
    <3> QED
      BY <3>1, <3>2
  <2>12. AnswerOnItsWay'
    <3> SUFFICES ASSUME NEW c \in Persistent, client[c].conn # NoChan,
                        NEW r \in written[client[c].conn].asked, written[client[c].conn].live, r.seq \in client[c].sent
                 PROVE  \/ r \in Range(left) /\ routes[r] = client[c].conn
                        \/ r \in Range(written[client[c].conn].toClient)
      BY <2>4, <2>5 DEF AnswerOnItsWay
    <3> DEFINE ch == client[c].conn
    <3>1. ch \in DOMAIN chans /\ chans[ch].client = c /\ chans[ch].open
      <4>1. c \in Clients /\ client[c].conn \in 0 .. Len(chans)
        BY <1>1, ClientsAssumption DEF SessionsTypes
      <4> QED
        BY <1>1, <4>1 DEF NoChan, SessionsInv, OwnChannel
    <3>2. chans[ch].live /\ r \in chans[ch].asked
      BY <2>8, <3>1
    <3>3. r \in Requests
      <4>1. chans[ch] \in Chan
        <5> HIDE DEF Chan, ch
        <5> QED
          BY <1>1, <3>1
      <4> QED
        BY <3>2, <4>1 DEF Chan
    <3>4. CASE r \in Range(chans[ch].toClient)
      BY <1>9, <3>1, <3>4 DEF Written
    <3>5. CASE r \notin Range(chans[ch].toClient)
      <4>1. r \in Range(server.work) /\ server.routes[r] = ch
        BY <1>13, <3>2, <3>5 DEF SessionsInv, AnswerOnItsWay
      <4>2. CASE \E i \in 1 .. n : answers[i] = r
        <5>1. ch \in server.conns
          BY <1>13, <3>1, <3>2 DEF SessionsInv, Holds
        <5>2. Outlet(r) = ch
          BY <4>1, <5>1 DEF Outlet, Key
        <5>3. HasOutlet(r)
          BY <3>1, <5>2 DEF HasOutlet
        <5> QED
          BY <1>9, <4>2, <5>2, <5>3
      <4>3. CASE ~\E i \in 1 .. n : answers[i] = r
        BY <1>7, <2>1, <3>3, <4>1, <4>3
      <4> QED
        BY <4>2, <4>3
    <3> QED
      BY <3>4, <3>5
  <2> QED
    BY <2>4, <2>5, <2>6, <2>7, <2>9, <2>10, <2>11, <2>12, ServerKeeps
<1> QED
  BY <1>10, <1>11, <1>12, <1>13

\* The process ends, is started again, or loses its lead (main.rs, host failures).
LEMMA ProcessKeeps ==
  ASSUME SessionsInv, ServerCrash \/ ServerRestart \/ Resign \/ LeadAgain, client' = client
  PROVE  SessionsInv'
<1>1. /\ chans \in Seq(Chan) /\ Len(chans) \in Nat /\ SessionsTypes /\ server \in Process
  BY DEF SessionsInv, SessionsTypes
<1>2. chans \in Written /\ Serves(chans)
  BY <1>1 DEF Written, Serves
<1>3. PICK f : f = chans
  OBVIOUS
<1>4. CASE ServerCrash \/ LeadAgain
  <2>1. f \in Written /\ chans' \in Severed(f) /\ server' = Down
    BY <1>2, <1>3, <1>4 DEF ServerCrash, LeadAgain
  <2> QED
    BY <2>1, SeveredKeeps
<1>5. CASE ServerRestart
  <2>1. PICK s \in Process : s = NewServer
    BY ServersAre
  <2>2. s.up /\ \A r \in Requests : s.routes[r] = NoChan
    BY <2>1, ServersAre
  <2>3. chans' = f /\ server' = s /\ Serves(f)
    BY <1>2, <1>3, <1>5, <2>1 DEF ServerRestart
  <2>4. \A d \in DOMAIN chans : ~chans[d].live
    BY <1>5 DEF ServerRestart, SessionsInv, Holds
  <2>5. RoutesAsked' /\ AnswersWereAsked' /\ Holds'
    BY <1>3, <2>2, <2>3, <2>4 DEF RoutesAsked, AnswersWereAsked, Holds
  <2>6. AnswerOnItsWay'
    <3>1. \A c \in Persistent : client[c].conn # NoChan => client[c].conn \in DOMAIN chans
      <4> TAKE c \in Persistent
      <4>1. c \in Clients /\ client[c].conn \in 0 .. Len(chans) /\ DOMAIN chans = 1 .. Len(chans)
        BY <1>1, ClientsAssumption DEF SessionsTypes
      <4> QED
        BY <1>1, <4>1 DEF NoChan
    <3> QED
      BY <1>3, <2>3, <2>4, <3>1 DEF AnswerOnItsWay
  <2>7. \A r \in Requests : s.routes[r] \in 0 .. Len(chans)
    BY <1>1, <2>2 DEF NoChan
  <2> QED
    BY <2>3, <2>5, <2>6, <2>7, ServerKeeps
<1>6. CASE Resign
  <2>1. PICK s : s = [server EXCEPT !.leads = FALSE]
    OBVIOUS
  <2>2. s \in Process /\ s.up = server.up /\ ~s.leads /\ s.routes = server.routes
    BY <1>1, <2>1 DEF Process
  <2>3. chans' = f /\ server' = s /\ Serves(f)
    BY <1>2, <1>3, <1>6, <2>1 DEF Resign
  <2>4. RoutesAsked' /\ AnswersWereAsked' /\ Holds' /\ AnswerOnItsWay'
    BY <1>3, <2>2, <2>3 DEF SessionsInv, RoutesAsked, AnswersWereAsked, Holds, AnswerOnItsWay
  <2>5. \A r \in Requests : s.routes[r] \in 0 .. Len(chans)
    BY <1>1, <2>2 DEF SessionsTypes
  <2> QED
    BY <2>2, <2>3, <2>4, <2>5, ServerKeeps
<1> QED
  BY <1>4, <1>5, <1>6

\* What the clients and the leader keep between them.
THEOREM SessionsInvariant == SessionsSpec => []SessionsInv
<1>1. SessionsInit => SessionsInv
  <2> SUFFICES ASSUME SessionsInit PROVE SessionsInv
    OBVIOUS
  <2>1. chans = <<>> /\ server = NewServer /\ client = [c \in Clients |-> NewClient]
    BY DEF SessionsInit, ServerInit, ClientsInit
  <2>2. chans \in Seq(Chan) /\ Len(chans) = 0 /\ DOMAIN chans = {}
    BY <2>1
  <2>3. /\ NewClient \in Program /\ NewClient.at = "send" /\ NewClient.conn = NoChan /\ NewClient.sent = {}
    BY SeqsAssumption DEF NewClient, Program, NoChan
  <2>4. client \in [Clients -> Program] /\ \A c \in Clients : client[c] = NewClient
    BY <2>1, <2>3
  <2>5. NoChan \in 0 .. 0
    BY DEF NoChan
  <2>6. SessionsTypes
    BY <2>1, <2>2, <2>3, <2>4, <2>5, ServersAre DEF SessionsTypes, OneShot
  <2>7. OwnChannel /\ DoneLeft /\ OneInFlight /\ AnswerOnItsWay
    BY <2>3, <2>4, ClientsAssumption DEF OwnChannel, DoneLeft, OneInFlight, AnswerOnItsWay
  <2>8. RoutesAsked /\ OneChannel /\ AskedBefore /\ AnswersWereAsked
    BY <2>2 DEF RoutesAsked, OneChannel, AskedBefore, AnswersWereAsked
  <2>9. Holds
    BY <2>1, <2>2, ServersAre DEF Holds
  <2> QED
    BY <2>6, <2>7, <2>8, <2>9 DEF SessionsInv
<1>2. ASSUME SessionsInv, [SessionsNext]_sessionVars PROVE SessionsInv'
  <2>1. CASE SessionsNext
    <3>1. ASSUME NEW c \in Clients, ClientStep(c) PROVE SessionsInv'
      BY <1>2, <3>1, ClientStepKeeps
    <3>2. CASE ServerNext /\ client' = client
      <4>1. ASSUME NEW n \in 1 .. Len(server.work), SendResponses(n) PROVE SessionsInv'
        <5>1. n \in Nat
          BY <1>2 DEF SessionsInv, SessionsTypes, Process
        <5> QED
          BY <1>2, <3>2, <4>1, <5>1, AnswersKeep
      <4> QED
        BY <1>2, <3>2, <4>1, GetRequestsKeeps, ProcessKeeps DEF ServerNext
    <3> QED
      BY <2>1, <3>1, <3>2 DEF SessionsNext
  <2>2. CASE UNCHANGED sessionVars
    <3>1. chans' = chans /\ server' = server /\ client' = client
      BY <2>2 DEF sessionVars, serverVars
    <3>2. SessionsTypes' /\ RoutesAsked' /\ OwnChannel' /\ OneChannel' /\ DoneLeft'
      BY <1>2, <3>1 DEF SessionsInv, SessionsTypes, RoutesAsked, OwnChannel, OneChannel, DoneLeft
    <3>3. AskedBefore' /\ OneInFlight' /\ Holds' /\ AnswersWereAsked' /\ AnswerOnItsWay'
      BY <1>2, <3>1 DEF SessionsInv, AskedBefore, Earlier, OneInFlight, Holds, AnswersWereAsked, AnswerOnItsWay
    <3> QED
      BY <3>2, <3>3 DEF SessionsInv
  <2> QED
    BY <1>2, <2>1, <2>2
<1> QED
  BY <1>1, <1>2, PTL DEF SessionsSpec

\* An answer reaches the client whose request it answers (client_server_tcp.rs req2chan).
THEOREM AnswersWereAskedHolds == SessionsSpec => []AnswersWereAsked
<1>1. SessionsInv => AnswersWereAsked
  BY DEF SessionsInv
<1> QED
  BY <1>1, SessionsInvariant, PTL

\* A request that was read off the connection its client still has gets its answer while
\* the leader leads (client_server_tcp.rs get_requests, send_responses).
THEOREM AnswerOnItsWayHolds == SessionsSpec => []AnswerOnItsWay
<1>1. SessionsInv => AnswerOnItsWay
  BY DEF SessionsInv
<1> QED
  BY <1>1, SessionsInvariant, PTL
=============================================================================
