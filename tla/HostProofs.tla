----------------------------- MODULE HostProofs ----------------------------
(***************************************************************************)
(* What the host program keeps about the instances of a node, for any      *)
(* number of them, and about the files they share, with its crashes.       *)
(***************************************************************************)
EXTENDS HostNode, SequenceTheorems, TLAPS

InstanceStates == {"built", "starting", "running", "wedged", "exited", "failed", "cancelled"}
ControlState   == [pinged : BOOLEAN, silent : Nat, shutdown : BOOLEAN]

SupervisorTypeOK ==
  /\ built \in Nat /\ ready \in Nat /\ current \in Nat
  /\ stage \in {"recv", "running", "grace", "gave up", "ended"}
  /\ state \in [Instances -> InstanceStates]
  /\ monitor \in [Instances -> {"first", "watch", "fired", "off"}]
  /\ control \in [Instances -> ControlState]

\* What the channel holds is the instance after the current one.
OneReady == /\ built \in Instances \cup {0}
            /\ \/ ready = 0 /\ current = built
               \/ ready = built /\ built = current + 1

\* Instances are started one after the other.
NotStarted == \A i \in Instances : i > current => state[i] = "built" /\ monitor[i] = "off"

Lives(i) == state[i] \in {"starting", "running", "wedged"}

\* One that has been left behind is told to stop, and the current one before
\* the main loop waits for the next.
LeftBehind == /\ \A i \in Instances : i < current /\ Lives(i) => i \in aborted
              /\ stage = "recv" => \A i \in Instances : i = current /\ Lives(i) => i \in aborted

\* Only a monitor that has fired requests a shutdown, of its own instance.
Requested == \A i \in Instances :
  control[i].shutdown \/ state[i] = "exited" => monitor[i] = "fired"

HostInv == SupervisorTypeOK /\ OneReady /\ NotStarted /\ LeftBehind /\ Requested

\* The invariant holds when the host starts.
LEMMA InitHostInv == SupervisorInit => HostInv
<1> SUFFICES ASSUME SupervisorInit PROVE HostInv
  OBVIOUS
<1>1. SupervisorTypeOK
  BY DEF SupervisorInit, SupervisorTypeOK, InstanceStates, ControlState
<1>2. OneReady /\ NotStarted /\ LeftBehind /\ Requested
  <2>1. OneReady
    BY DEF SupervisorInit, OneReady
  <2>2. NotStarted
    BY DEF SupervisorInit, NotStarted
  <2>3. LeftBehind
    BY DEF SupervisorInit, LeftBehind, Lives
  <2>4. Requested
    BY DEF SupervisorInit, Requested
  <2> QED
    BY <2>1, <2>2, <2>3, <2>4
<1> QED
  BY <1>1, <1>2 DEF HostInv

\* The builder and the main loop (run.rs, run_cluster).
LEMMA MainLoopKeeps ==
  ASSUME HostInv, MainLoop
  PROVE  HostInv'
<1>1. CASE BuildInstance
  <2>0. /\ ready = 0 /\ current' = current /\ built + 1 \in Instances /\ built \in Nat /\ current \in Nat
        /\ stage' = stage /\ state' = state /\ monitor' = monitor /\ control' = control
        /\ \/ built' = built + 1 /\ ready' = built + 1
           \/ built' = built /\ ready' = 0
    BY <1>1 DEF BuildInstance, HostInv, SupervisorTypeOK
  <2>4. built' \in Nat /\ ready' \in Nat
    BY <2>0
  <2>1. SupervisorTypeOK'
    BY <2>0, <2>4 DEF HostInv, SupervisorTypeOK
  <2>2. OneReady'
    <3>1. CASE built' = built + 1 /\ ready' = built + 1
      BY <2>0, <3>1 DEF HostInv, OneReady
    <3>2. CASE built' = built /\ ready' = 0
      BY <2>0, <3>2 DEF HostInv, OneReady
    <3> QED
      BY <2>0, <3>1, <3>2
  <2>3. NotStarted' /\ LeftBehind' /\ Requested'
    BY <1>1 DEF BuildInstance, HostInv, NotStarted, LeftBehind, Lives, Requested
  <2> QED
    BY <2>1, <2>2, <2>3 DEF HostInv
<1>2. CASE StartInstance
  <2>1. /\ ready \in Instances /\ ready = current + 1 /\ built = ready /\ current \in Nat
    BY <1>2 DEF StartInstance, HostInv, OneReady, SupervisorTypeOK, Instances
  <2>2. SupervisorTypeOK'
    BY <1>2, <2>1 DEF StartInstance, HostInv, SupervisorTypeOK, InstanceStates
  <2>3. OneReady'
    BY <1>2, <2>1 DEF StartInstance, HostInv, OneReady
  <2>4. NotStarted'
    BY <1>2, <2>1 DEF StartInstance, HostInv, SupervisorTypeOK, NotStarted, Instances
  <2>5. LeftBehind'
    BY <1>2, <2>1 DEF StartInstance, HostInv, SupervisorTypeOK, LeftBehind, Lives, Instances
  <2>6. Requested'
    BY <1>2, <2>1 DEF StartInstance, HostInv, SupervisorTypeOK, Requested, NotStarted
  <2> QED
    BY <2>2, <2>3, <2>4, <2>5, <2>6 DEF HostInv
<1>3. CASE EndLoop \/ MonitorFinished
  BY <1>3 DEF EndLoop, MonitorFinished, HostInv, SupervisorTypeOK, OneReady, NotStarted, LeftBehind, Lives, Requested
<1>4. CASE RunFinished
  <2>1. ~Lives(current)
    BY <1>4 DEF RunFinished, Finished, Lives
  <2> QED
    BY <1>4, <2>1 DEF RunFinished, Stopped, HostInv, SupervisorTypeOK, OneReady, NotStarted, LeftBehind, Lives, Requested
<1>5. CASE GraceOver
  <2>1. current \in Instances => (Lives(current) => ~Finished(current))
    BY DEF Lives, Finished
  <2>2. \A i \in Instances : i = current /\ Lives(i) => i \in aborted'
    BY <1>5, <2>1 DEF GraceOver
  <2> QED
    BY <1>5, <2>2 DEF GraceOver, Stopped, HostInv, SupervisorTypeOK, OneReady, NotStarted, LeftBehind, Lives, Requested
<1> QED
  BY <1>1, <1>2, <1>3, <1>4, <1>5 DEF MainLoop

\* The monitors and the instances (host_control.rs, runner.rs handle_host_control).
LEMMA InstanceKeeps ==
  ASSUME HostInv, NEW i \in Instances, Watch(i) \/ Ping(i) \/ Constructed(i) \/ Fail(i) \/ Cancel(i)
  PROVE  HostInv'
<1> USE DEF Handle
<1>1. /\ UNCHANGED <<built, ready, current, stage, aborted>>
      /\ SupervisorTypeOK
  BY DEF Watch, SeePing, Silence, Fire, Ping, Constructed, Fail, Cancel, mainVars, HostInv
<1>2. OneReady'
  BY <1>1 DEF HostInv, OneReady
<1>3. CASE SeePing(i)
  BY <1>1, <1>2, <1>3 DEF SeePing, HostInv, SupervisorTypeOK, NotStarted, LeftBehind, Lives, Requested
<1>4. CASE Silence(i)
  <2>1. control' = [control EXCEPT ![i].silent = @ + 1] /\ UNCHANGED <<state, monitor>>
    BY <1>4 DEF Silence
  <2> DEFINE new == [control[i] EXCEPT !.silent = @ + 1]
  <2>3. control[i] \in ControlState
    BY <1>1 DEF SupervisorTypeOK
  <2>4. new \in ControlState /\ new.shutdown = control[i].shutdown
    BY <2>3 DEF ControlState
  <2>5. control' = [control EXCEPT ![i] = new]
    BY <2>1
  <2> HIDE DEF new
  <2>2. /\ control' \in [Instances -> ControlState]
        /\ \A j \in Instances : control'[j].shutdown = control[j].shutdown
    BY <1>1, <2>4, <2>5 DEF SupervisorTypeOK
  <2> QED
    BY <1>1, <1>2, <2>1, <2>2 DEF HostInv, SupervisorTypeOK, NotStarted, LeftBehind, Lives, Requested
<1>5. CASE Fire(i)
  <2>1. /\ control' = [control EXCEPT ![i].shutdown = TRUE]
        /\ monitor[i] = "watch" /\ monitor' = [monitor EXCEPT ![i] = "fired"] /\ state' = state
    BY <1>5 DEF Fire
  <2>2. /\ control' \in [Instances -> ControlState]
        /\ \A j \in Instances \ {i} : control'[j] = control[j]
    BY <1>1, <2>1 DEF SupervisorTypeOK, ControlState
  <2> QED
    BY <1>1, <1>2, <2>1, <2>2 DEF HostInv, SupervisorTypeOK, NotStarted, LeftBehind, Lives, Requested
<1>6. CASE Ping(i)
  <2>1. /\ control' = [control EXCEPT ![i] = Recorded] /\ monitor' = monitor
        /\ state' = [state EXCEPT ![i] = IF control[i].shutdown THEN "exited" ELSE @]
        /\ state[i] = "running"
    BY <1>6 DEF Ping
  <2>2. /\ control' \in [Instances -> ControlState] /\ ~control'[i].shutdown
        /\ \A j \in Instances \ {i} : control'[j] = control[j]
    BY <1>1, <2>1 DEF SupervisorTypeOK, ControlState, Recorded
  <2>3. state' \in [Instances -> InstanceStates]
    BY <1>1, <2>1 DEF SupervisorTypeOK, InstanceStates
  <2> QED
    BY <1>1, <1>2, <2>1, <2>2, <2>3 DEF HostInv, SupervisorTypeOK, NotStarted, LeftBehind, Lives, Requested
<1>7. CASE Constructed(i) \/ Fail(i) \/ Cancel(i)
  <2>1. PICK s \in {"running", "failed", "wedged", "cancelled"} :
          state' = [state EXCEPT ![i] = s] /\ Lives(i) /\ UNCHANGED <<monitor, control>>
    BY <1>7 DEF Constructed, Fail, Cancel, Executing, Lives
  <2>2. state' \in [Instances -> InstanceStates]
    BY <1>1, <2>1 DEF SupervisorTypeOK, InstanceStates
  <2> QED
    BY <1>1, <1>2, <2>1, <2>2 DEF HostInv, SupervisorTypeOK, NotStarted, LeftBehind, Lives, Requested
<1> QED
  BY <1>3, <1>4, <1>5, <1>6, <1>7 DEF Watch

\* A crash of the host leaves nothing that was there before it.
LEMMA CrashKeeps ==
  ASSUME HostCrash
  PROVE  HostInv'
<1>1. SupervisorTypeOK'
  BY DEF HostCrash, SupervisorTypeOK, InstanceStates, ControlState
<1>2. OneReady'
  BY DEF HostCrash, OneReady
<1>3. NotStarted' /\ LeftBehind' /\ Requested'
  BY DEF HostCrash, NotStarted, LeftBehind, Lives, Requested
<1> QED
  BY <1>1, <1>2, <1>3 DEF HostInv

\* The inductive invariant: that one instance runs needs to know which one waits
\* in the channel and where the main loop is; the shutdowns need the monitors.
THEOREM HostInvariant == HostSpec => []HostInv
<1>1. HostInit => HostInv
  BY InitHostInv DEF HostInit
<1>2. HostInv /\ [HostNext]_hostVars => HostInv'
  <2> SUFFICES ASSUME HostInv, [HostNext]_hostVars PROVE HostInv'
    OBVIOUS
  <2>1. CASE UNCHANGED supervisorVars
    BY <2>1 DEF supervisorVars, HostInv, SupervisorTypeOK, OneReady, NotStarted, LeftBehind, Lives, Requested
  <2>2. CASE MainLoop
    BY <2>2, MainLoopKeeps
  <2>3. CASE \E i \in Instances : Watch(i) \/ Ping(i) \/ Constructed(i) \/ Fail(i) \/ Cancel(i)
    BY <2>3, InstanceKeeps
  <2>4. CASE HostCrash
    BY <2>4, CrashKeeps
  <2> QED
    BY <2>1, <2>2, <2>3, <2>4 DEF HostNext, hostVars
<1> QED
  BY <1>1, <1>2, PTL DEF HostSpec

\* At most one instance of a node runs, but for those that were told to stop
\* (run.rs, run_cluster: the grace period, abort, and the next recv).
THEOREM OneInstanceHolds == HostSpec => []OneInstance
<1>1. HostInv => OneInstance
  <2> SUFFICES ASSUME HostInv, NEW i \in Instances, NEW j \in Instances,
                      i < j, Lives(i), state[j] # "built"
               PROVE  i \in aborted
    BY DEF OneInstance, Lives
  <2>0. /\ i \in Int /\ j \in Int
        /\ current \in Int
    <3>1. MaxTroubles + 2 \in Int
      BY SupervisorAssumption
    <3>2. Instances \subseteq Int
      BY <3>1 DEF Instances
    <3>3. SupervisorTypeOK
      BY DEF HostInv
    <3>4. current \in Nat
      BY <3>3 DEF SupervisorTypeOK
    <3> QED
      BY <3>2, <3>4
  <2>1. ~(j > current)
    BY DEF HostInv, NotStarted
  <2> QED
    BY <2>0, <2>1 DEF HostInv, LeftBehind
<1> QED
  BY <1>1, HostInvariant, PTL

\* No instance stops because of a shutdown that was meant for another one
\* (run.rs monitor, host_control.rs get_command).
THEOREM OwnShutdownHolds == HostSpec => []OwnShutdown
<1>1. HostInv => OwnShutdown
  BY DEF HostInv, Requested, OwnShutdown
<1> QED
  BY <1>1, HostInvariant, PTL

----------------------------------------------------------------------------
(* The storage, while no two instances have used the files at a time and no *)
(* crash has hit a write.                                                   *)

Contents == [state : Nat, changes : SUBSET Nat]
Request  == [call : {"state", "change"}, data : Nat] \cup [call : {"checkpoint"}, data : SUBSET Nat]
Stages   == {ToLoad, <<"snapshots", "changes">>, <<"changes">>, <<>>}

StorageTypes ==
  /\ known \in [Writers -> Contents]
  /\ loading \in [Writers -> Stages]
  /\ queue \in [Writers -> Seq(Request)]
  /\ done \in [Writers -> 0 .. 2]
  /\ stateFile \in Nat \cup {Nothing}
  /\ changelog \in Seq(Nat)
  /\ pending \in SUBSET Nat
  /\ snapshots \in Seq(SUBSET Nat)
  /\ saves \in Nat
  /\ written \in Contents

\* The last instance that has begun to load is the one the files belong to.
Begun(w)  == loading[w] # ToLoad
Newest(w) == Begun(w) /\ \A v \in Writers : v > w => ~Begun(v)

\* Only its writer is at work, and it has loaded everything.
WorksAlone == \A w \in Writers : AtWork(w) => loading[w] = <<>> /\ Newest(w)

\* How far a writer has come with its first request.
Handling(w, call, n) == AtWork(w) /\ Head(queue[w]).call = call /\ done[w] = n
\* The changelog ends with a record, or with the length of the one whose data is
\* under way.
Landing == /\ \A d \in pending : tail = <<d>>
           /\ pending = {} => tail = <<>>
Midway ==
  /\ \A w \in Writers : ~AtWork(w) => done[w] = 0
  /\ \A w \in Writers : AtWork(w) => done[w] < Len(Operations(Head(queue[w])))
  /\ \A w \in Writers : Handling(w, "change", 1) => pending = {} /\ tail = <<Data(w)>>
  /\ (\A w \in Writers : ~Handling(w, "change", 1)) => Landing
  /\ \A w \in Writers : Handling(w, "checkpoint", 1) \/ Handling(w, "checkpoint", 2) =>
       snapshots # <<>> /\ snapshots[Len(snapshots)] = Data(w)

\* The instance knows what was handled, and what it has put into its queue.
Snapshotted == UNION Range(Latest(snapshots, LoadSnapshots))
Knows == \A w \in Writers :
  /\ ~Begun(w) => known[w] = Fresh
  /\ Newest(w) /\ loading[w] = <<"changes">> => Snapshotted \subseteq known[w].changes
  /\ Newest(w) /\ loading[w] = <<>> =>
       /\ written.changes \subseteq known[w].changes
       /\ \A i \in 1 .. Len(queue[w]) : queue[w][i].call = "change" => queue[w][i].data \in known[w].changes

\* So a checkpoint holds what was handled, and every change before it in the queue.
Covers == \A w \in Writers : \A i \in 1 .. Len(queue[w]) : queue[w][i].call = "checkpoint" =>
  /\ written.changes \subseteq queue[w][i].data
  /\ \A j \in 1 .. i - 1 : queue[w][j].call = "change" => queue[w][j].data \in queue[w][i].data

Handled == /\ written.changes \subseteq Snapshotted \cup Range(changelog) \cup pending
           /\ stateFile = Nothing \/ stateFile = written.state

InOrder    == StorageTypes /\ WorksAlone /\ Midway /\ Knows /\ Covers /\ Handled
StorageInv == spoilt \/ InOrder
\* What is loaded of the snapshots ends with the last of them.
LEMMA LatestIs ==
  ASSUME NEW S, NEW s \in Seq(S), s # <<>>, NEW n \in Nat \ {0}
  PROVE  /\ Latest(s, n) \in Seq(S) /\ Latest(s, n) # <<>>
         /\ Latest(s, n)[Len(Latest(s, n))] = s[Len(s)]
<1> DEFINE k == IF n < Len(s) THEN n ELSE Len(s)
           m == Len(s) - k + 1
<1>1. Len(s) \in Nat \ {0} /\ \A i \in 1 .. Len(s) : s[i] \in S
  OBVIOUS
<1>2. k \in 1 .. Len(s) /\ m \in 1 .. Len(s) /\ Len(s) - m + 1 = k
  BY <1>1
<1> HIDE DEF k
<1>3. /\ SubSeq(s, m, Len(s)) \in Seq(S) /\ Len(SubSeq(s, m, Len(s))) = k
      /\ SubSeq(s, m, Len(s))[k] = s[Len(s)]
  <2>1. /\ SubSeq(s, m, Len(s)) \in Seq(S)
        /\ Len(SubSeq(s, m, Len(s))) = IF m <= Len(s) THEN Len(s) - m + 1 ELSE 0
        /\ \A i \in 1 .. Len(s) - m + 1 : SubSeq(s, m, Len(s))[i] = s[m + i - 1]
    <3> HIDE DEF m
    <3> QED
      BY <1>1, <1>2, SubSeqProperties
  <2>2. k \in 1 .. Len(s) - m + 1 /\ m + k - 1 = Len(s)
    BY <1>1, <1>2
  <2> QED
    BY <1>1, <1>2, <2>1, <2>2
<1>4. Latest(s, n) = SubSeq(s, m, Len(s))
  BY DEF Latest, k
<1>5. PICK t : t = SubSeq(s, m, Len(s))
  OBVIOUS
<1>6. t \in Seq(S) /\ Len(t) = k /\ t[k] = s[Len(s)] /\ Latest(s, n) = t
  BY <1>3, <1>4, <1>5
<1>7. t # <<>>
  BY <1>2, <1>6
<1> QED
  BY <1>6, <1>7

\* Of no snapshots the latest are none.
LEMMA LatestOfNone ==
  ASSUME NEW S, NEW s \in Seq(S), NEW n \in Nat \ {0}
  PROVE  Latest(s, n) \in Seq(S)
<1>1. CASE s = <<>>
  <2>1. Latest(s, n) = SubSeq(s, 1, 0)
    BY <1>1 DEF Latest
  <2>2. SubSeq(s, 1, 0) = <<>>
    BY SubSeqEmpty
  <2> QED
    BY <2>1, <2>2
<1>2. CASE s # <<>>
  BY <1>2, LatestIs
<1> QED
  BY <1>1, <1>2

\* What the last snapshot holds is among what is loaded of them.
LEMMA LastCounts ==
  ASSUME NEW s \in Seq(SUBSET Nat), s # <<>>, NEW n \in Nat \ {0}
  PROVE  s[Len(s)] \subseteq UNION Range(Latest(s, n))
<1>1. PICK t : t = Latest(s, n)
  OBVIOUS
<1>2. t \in Seq(SUBSET Nat) /\ t # <<>> /\ t[Len(t)] = s[Len(s)]
  BY <1>1, LatestIs
<1>3. Len(t) \in DOMAIN t
  BY <1>2
<1>4. s[Len(s)] \in Range(t)
  BY <1>2, <1>3 DEF Range
<1> QED
  BY <1>1, <1>4

\* The file operations of a request (host_storage.rs, handle_request).
LEMMA OperationsAre ==
  ASSUME written \in Contents, NEW r \in Request, NEW ops, ops = Operations(r), NEW new, new = Record(r)
  PROVE  \/ /\ r.call = "state" /\ r.data \in Nat /\ new \in Contents /\ new.state = r.data /\ new.changes = written.changes
            /\ Len(ops) = 2 /\ ops[1] = "empty" /\ ops[2] = "state"
         \/ /\ r.call = "change" /\ r.data \in Nat /\ new \in Contents /\ new.state = written.state /\ new.changes = written.changes \cup {r.data}
            /\ Len(ops) = 2 /\ ops[1] = "length" /\ ops[2] = "change"
         \/ /\ r.call = "checkpoint" /\ r.data \in SUBSET Nat /\ new \in Contents /\ new.state = written.state /\ new.changes = written.changes
            /\ Len(ops) = 3 /\ ops[1] = "rename" /\ ops[2] = "truncate" /\ ops[3] = "prune"
<1>1. CASE r \in [call : {"state", "change"}, data : Nat]
  <2>1. CASE r.call = "state"
    BY <1>1, <2>1 DEF Operations, Record, Contents
  <2>2. CASE r.call = "change"
    BY <1>1, <2>2 DEF Operations, Record, Contents
  <2> QED
    BY <1>1, <2>1, <2>2
<1>2. CASE r \in [call : {"checkpoint"}, data : SUBSET Nat]
  BY <1>2 DEF Operations, Record, Contents
<1> QED
  BY <1>1, <1>2 DEF Request

\* The length is written: what comes next is the data.
LEMMA HandsOver ==
  ASSUME StorageTypes, NEW w \in Writers, Handling(w, "change", 1)
  PROVE  AtWork(w) /\ Step(w) = "change"
<1>1. Head(queue[w]) \in Request /\ AtWork(w) /\ done[w] = 1 /\ Head(queue[w]).call = "change"
  BY DEF Handling, AtWork, StorageTypes
<1>2. PICK r \in Request : r = Head(queue[w])
  BY <1>1
<1>3. PICK ops : ops = Operations(r)
  OBVIOUS
<1>4. written \in Contents
  BY DEF StorageTypes
<1>5. ops[2] = "change"
  BY <1>1, <1>2, <1>3, <1>4, OperationsAre
<1> QED
  BY <1>1, <1>2, <1>3, <1>5 DEF Step

\* The order in which a constructor loads.
LEMMA StagesAre ==
  /\ Tail(ToLoad) = <<"snapshots", "changes">> /\ Tail(<<"snapshots", "changes">>) = <<"changes">>
  /\ Head(ToLoad) = "state" /\ Head(<<"snapshots", "changes">>) = "snapshots" /\ Head(<<"changes">>) = "changes"
  /\ ToLoad # <<>> /\ <<"snapshots", "changes">> # <<>> /\ <<"changes">> # <<>>
  /\ ToLoad # <<"changes">> /\ ToLoad # <<"snapshots", "changes">> /\ <<"snapshots", "changes">> # <<"changes">>
BY DEF ToLoad

\* Two instances are not the newest at a time.
LEMMA OneNewest ==
  ASSUME NEW v \in Writers, NEW w \in Writers, Newest(v), Newest(w)
  PROVE  v = w
<1>1. v \in Nat /\ w \in Nat
  BY StorageAssumption
<1>2. ~(v > w) /\ ~(w > v)
  BY DEF Newest
<1> QED
  BY <1>1, <1>2

\* What a writer's step makes of its queue.
Goes(w, n)   == done' = [done EXCEPT ![w] = n] /\ queue' = queue /\ written' = written
Ends(w, old, new) == /\ done' = [done EXCEPT ![w] = 0] /\ queue' = [queue EXCEPT ![w] = Tail(@)]
                     /\ written' \in Contents /\ written'.state = old /\ written'.changes = new

\* A writer's step is one operation of its first request; no length is written and
\* nothing emptied while data is under way.
WriterStep(w, r) ==
  \/ /\ r.call = "state" /\ r.data \in Nat
     /\ \/ done[w] = 0 /\ EmptyState(w) /\ Goes(w, 1)
        \/ done[w] = 1 /\ WriteState(w) /\ Ends(w, r.data, written.changes)
  \/ /\ r.call = "change" /\ r.data \in Nat
     /\ \/ done[w] = 0 /\ WriteLength(w) /\ pending = {} /\ Goes(w, 1)
        \/ done[w] = 1 /\ HandOver(w) /\ Ends(w, written.state, written.changes \cup {r.data})
  \/ /\ r.call = "checkpoint" /\ r.data \in SUBSET Nat
     /\ \/ done[w] = 0 /\ RenameSnapshot(w) /\ Goes(w, 1)
        \/ done[w] = 1 /\ Truncate(w) /\ pending = {} /\ Goes(w, 2)
        \/ done[w] = 2 /\ Prune(w) /\ Ends(w, written.state, written.changes)

LEMMA WriterDoes ==
  ASSUME StorageTypes, Midway, NEW w \in Writers, Writer(w), ~spoilt'
  PROVE  \E r \in Request : /\ queue[w] \in Seq(Request) /\ queue[w] # <<>> /\ r = Head(queue[w])
                            /\ UNCHANGED <<known, loading, saves>>
                            /\ WriterStep(w, r)
<1> USE DEF EmptyState, WriteState, WriteLength, HandOver, RenameSnapshot, Truncate, Prune, Goes, Ends
<1>1. PICK r : r = Head(queue[w])
  OBVIOUS
<1>2. queue[w] \in Seq(Request) /\ queue[w] # <<>> /\ r \in Request /\ UNCHANGED <<known, loading, saves>>
  <2>1. queue[w] # <<>> /\ UNCHANGED <<known, loading, saves>>
    BY DEF Writer
  <2>2. queue[w] \in Seq(Request)
    BY DEF StorageTypes
  <2>3. PICK q \in Seq(Request) : q = queue[w]
    BY <2>2
  <2>4. r \in Request
    BY <1>1, <2>1, <2>3
  <2> QED
    BY <2>1, <2>2, <2>4
<1>3. PICK ops : ops = Operations(r)
  OBVIOUS
<1>4. PICK n : n = done[w]
  OBVIOUS
<1>5. PICK len : len = Len(ops)
  OBVIOUS
<1>6. PICK new : new = Record(r)
  OBVIOUS
<1>7. written \in Contents
  BY DEF StorageTypes
<1>8. n \in Nat /\ n < len
  <2>1. done[w] \in 0 .. 2
    BY DEF StorageTypes
  <2>2. done[w] < Len(Operations(Head(queue[w])))
    BY <1>2 DEF Midway, AtWork
  <2> QED
    BY <1>1, <1>3, <1>4, <1>5, <2>1, <2>2
<1>9. PICK step : step = ops[n + 1]
  OBVIOUS
<1>10. step = Step(w)
  BY <1>1, <1>3, <1>4, <1>9 DEF Step
<1>11. /\ step = "empty" => EmptyState(w)
       /\ step = "state" => WriteState(w)
       /\ step = "length" => WriteLength(w)
       /\ step = "change" => HandOver(w)
       /\ step = "rename" => RenameSnapshot(w)
       /\ step = "truncate" => Truncate(w)
       /\ step = "prune" => Prune(w)
  BY <1>10 DEF Writer
<1>12. /\ n + 1 = len => done' = [done EXCEPT ![w] = 0] /\ queue' = [queue EXCEPT ![w] = Tail(@)] /\ written' = new
       /\ n + 1 # len => done' = [done EXCEPT ![w] = n + 1] /\ queue' = queue /\ written' = written
  BY <1>1, <1>3, <1>4, <1>6, <1>5 DEF Writer
<1>16. step \in {"length", "truncate"} => pending = {}
  BY <1>10 DEF Writer
<1> SUFFICES WriterStep(w, r)
  BY <1>1, <1>2
<1>13. CASE r.call = "state"
  <2>1. r.data \in Nat /\ new \in Contents /\ new.state = r.data /\ new.changes = written.changes
    BY <1>2, <1>3, <1>13, <1>6, <1>7, <1>5, OperationsAre
  <2>2. len = 2 /\ ops[1] = "empty" /\ ops[2] = "state"
    BY <1>2, <1>3, <1>13, <1>6, <1>7, <1>5, OperationsAre
  <2>3. CASE n = 0
    <3>1. n + 1 = 1 /\ ops[n + 1] = "empty" /\ n + 1 # len
      BY <1>8, <2>2, <2>3
    <3>2. EmptyState(w) /\ Goes(w, 1)
      BY <1>9, <1>11, <1>12, <3>1 DEF Goes
    <3> QED
      BY <1>2, <1>1, <1>4, <1>13, <2>1, <2>3, <3>2 DEF WriterStep
  <2>4. CASE n = 1
    <3>1. n + 1 = 2 /\ ops[n + 1] = "state" /\ n + 1 = len
      BY <1>8, <2>2, <2>4
    <3>2. WriteState(w)
      BY <1>9, <1>11, <1>12, <3>1
    <3>3. Ends(w, r.data, written.changes)
      BY <1>12, <2>1, <3>1 DEF Ends
    <3> QED
      BY <1>2, <1>1, <1>4, <1>13, <2>1, <2>4, <3>2, <3>3 DEF WriterStep
  <2> QED
    BY <1>8, <2>2, <2>3, <2>4
<1>14. CASE r.call = "change"
  <2>1. r.data \in Nat /\ new \in Contents /\ new.state = written.state /\ new.changes = written.changes \cup {r.data}
    BY <1>2, <1>3, <1>14, <1>6, <1>7, <1>5, OperationsAre
  <2>2. len = 2 /\ ops[1] = "length" /\ ops[2] = "change"
    BY <1>2, <1>3, <1>14, <1>6, <1>7, <1>5, OperationsAre
  <2>3. CASE n = 0
    <3>1. n + 1 = 1 /\ ops[n + 1] = "length" /\ n + 1 # len
      BY <1>8, <2>2, <2>3
    <3>2. WriteLength(w) /\ pending = {} /\ Goes(w, 1)
      BY <1>9, <1>11, <1>12, <1>16, <3>1 DEF Goes
    <3> QED
      BY <1>2, <1>1, <1>4, <1>14, <2>1, <2>3, <3>2 DEF WriterStep
  <2>4. CASE n = 1
    <3>1. n + 1 = 2 /\ ops[n + 1] = "change" /\ n + 1 = len
      BY <1>8, <2>2, <2>4
    <3>2. HandOver(w)
      BY <1>9, <1>11, <1>12, <3>1
    <3>3. Ends(w, written.state, written.changes \cup {r.data})
      BY <1>12, <2>1, <3>1 DEF Ends
    <3> QED
      BY <1>2, <1>1, <1>4, <1>14, <2>1, <2>4, <3>2, <3>3 DEF WriterStep
  <2> QED
    BY <1>8, <2>2, <2>3, <2>4
<1>15. CASE r.call = "checkpoint"
  <2>1. r.data \in SUBSET Nat /\ new \in Contents /\ new.state = written.state /\ new.changes = written.changes
    BY <1>2, <1>3, <1>15, <1>6, <1>7, <1>5, OperationsAre
  <2>2. len = 3 /\ ops[1] = "rename" /\ ops[2] = "truncate" /\ ops[3] = "prune"
    BY <1>2, <1>3, <1>15, <1>6, <1>7, <1>5, OperationsAre
  <2>3. CASE n = 0
    <3>1. n + 1 = 1 /\ ops[n + 1] = "rename" /\ n + 1 # len
      BY <1>8, <2>2, <2>3
    <3>2. RenameSnapshot(w) /\ Goes(w, 1)
      BY <1>9, <1>11, <1>12, <3>1 DEF Goes
    <3> QED
      BY <1>2, <1>1, <1>4, <1>15, <2>1, <2>3, <3>2 DEF WriterStep
  <2>4. CASE n = 1
    <3>1. n + 1 = 2 /\ ops[n + 1] = "truncate" /\ n + 1 # len
      BY <1>8, <2>2, <2>4
    <3>2. Truncate(w) /\ pending = {} /\ Goes(w, 2)
      BY <1>9, <1>11, <1>12, <1>16, <3>1 DEF Goes
    <3> QED
      BY <1>2, <1>1, <1>4, <1>15, <2>1, <2>4, <3>2 DEF WriterStep
  <2>5. CASE n = 2
    <3>1. n + 1 = 3 /\ ops[n + 1] = "prune" /\ n + 1 = len
      BY <1>8, <2>2, <2>5
    <3>2. Prune(w)
      BY <1>9, <1>11, <1>12, <3>1
    <3>3. Ends(w, written.state, written.changes)
      BY <1>12, <2>1, <3>1 DEF Ends
    <3> QED
      BY <1>2, <1>1, <1>4, <1>15, <2>1, <2>5, <3>2, <3>3 DEF WriterStep
  <2> QED
    BY <1>8, <2>2, <2>3, <2>4, <2>5
<1> QED
  BY <1>2, <1>3, <1>13, <1>14, <1>15, <1>6, <1>7, <1>5, OperationsAre

\* What a queue is with one more request.
LEMMA AppendIs ==
  ASSUME NEW S, NEW q \in Seq(S), NEW r \in S, NEW p, p = Append(q, r)
  PROVE  /\ p \in Seq(S) /\ p # <<>> /\ Len(p) = Len(q) + 1 /\ Len(q) \in Nat
         /\ \A i \in 1 .. Len(q) : p[i] = q[i]
         /\ p[Len(q) + 1] = r
         /\ Head(p) = IF q = <<>> THEN r ELSE Head(q)
<1>1. p \in Seq(S) /\ p # <<>> /\ Len(p) = Len(q) + 1 /\ Len(q) \in Nat
  OBVIOUS
<1>2. (\A i \in 1 .. Len(q) : p[i] = q[i]) /\ p[Len(q) + 1] = r
  OBVIOUS
<1>3. Head(p) = p[1]
  BY <1>1
<1>4. CASE q = <<>>
  BY <1>1, <1>2, <1>3, <1>4
<1>5. CASE q # <<>>
  <2>1. 1 \in 1 .. Len(q) /\ Head(q) = q[1]
    BY <1>5
  <2> QED
    BY <1>1, <1>2, <1>3, <1>5, <2>1
<1> QED
  BY <1>1, <1>2, <1>4, <1>5

\* A call to save, of an instance that is alone with the files.
LEMMA EnqueueKeeps ==
  ASSUME InOrder, NEW w \in Writers, NEW request \in Request, NEW k \in Contents,
         Enqueue(w, request), ~spoilt', known' = [known EXCEPT ![w] = k],
         known[w].changes \subseteq k.changes,
         request.call = "change" => request.data \in k.changes,
         request.call = "checkpoint" => request.data = known[w].changes
  PROVE  InOrder'
<1>1. StorageTypes /\ WorksAlone /\ Midway /\ Knows /\ Covers /\ Handled
  BY DEF InOrder
<1>2. /\ loading[w] = <<>> /\ loading' = loading /\ done' = done /\ written' = written
      /\ stateFile' = stateFile /\ changelog' = changelog /\ tail' = tail /\ snapshots' = snapshots /\ pending' = pending
      /\ saves' = saves + 1 /\ queue' = [queue EXCEPT ![w] = Append(@, request)] /\ ~Races(w)
  BY DEF Enqueue, files
<1>3. \A v \in Writers \ {w} : queue[v] = <<>> /\ (v > w => ~Begun(v))
  BY <1>2 DEF Races, AtWork, Begun
<1>4. Begun(w) /\ Newest(w)
  <2>1. Begun(w)
    BY <1>2, StagesAre DEF Begun
  <2> QED
    BY <1>3, <2>1, StorageAssumption DEF Newest
<1>5. PICK q \in Seq(Request) : q = queue[w]
  BY <1>1 DEF StorageTypes
<1>6. PICK p : p = Append(q, request)
  OBVIOUS
<1>7. /\ p \in Seq(Request) /\ p # <<>> /\ Len(p) = Len(q) + 1 /\ Len(q) \in Nat
      /\ \A i \in 1 .. Len(q) : p[i] = q[i]
      /\ p[Len(q) + 1] = request
      /\ Head(p) = IF q = <<>> THEN request ELSE Head(q)
  BY <1>6, AppendIs
<1>8. queue' = [queue EXCEPT ![w] = p]
  BY <1>2, <1>5, <1>6
<1>9. queue'[w] = p /\ \A v \in Writers \ {w} : queue'[v] = <<>>
  BY <1>1, <1>3, <1>8 DEF StorageTypes
<1>10. known'[w] = k /\ \A v \in Writers \ {w} : known'[v] = known[v]
  BY <1>1 DEF StorageTypes
<1>11. \A v \in Writers : (Begun(v)' <=> Begun(v)) /\ (Newest(v)' <=> Newest(v))
  BY <1>2 DEF Begun, Newest
<1>12. StorageTypes'
  <2>1. queue' \in [Writers -> Seq(Request)] /\ known' \in [Writers -> Contents] /\ saves' \in Nat
    BY <1>1, <1>2, <1>7, <1>8 DEF StorageTypes
  <2> QED
    BY <1>1, <1>2, <2>1 DEF StorageTypes
<1>13. WorksAlone'
  BY <1>2, <1>4, <1>9, <1>11 DEF WorksAlone, AtWork
<1>14. \A v \in Writers : /\ Handling(v, "change", 1)' <=> Handling(v, "change", 1)
                          /\ Handling(v, "checkpoint", 1)' <=> Handling(v, "checkpoint", 1)
                          /\ Handling(v, "checkpoint", 2)' <=> Handling(v, "checkpoint", 2)
  <2>1. q = <<>> => done[w] = 0
    BY <1>1, <1>5 DEF Midway, AtWork
  <2>2. /\ Handling(w, "change", 1)' <=> Handling(w, "change", 1)
        /\ Handling(w, "checkpoint", 1)' <=> Handling(w, "checkpoint", 1)
        /\ Handling(w, "checkpoint", 2)' <=> Handling(w, "checkpoint", 2)
    BY <1>2, <1>5, <1>7, <1>9, <2>1 DEF Handling, AtWork
  <2>3. \A v \in Writers \ {w} : queue[v] = <<>> /\ queue'[v] = <<>>
    BY <1>3, <1>9
  <2> QED
    BY <2>2, <2>3 DEF Handling, AtWork
<1>15. Midway'
  <2>1. \A v \in Writers : ~AtWork(v)' => done'[v] = 0
    BY <1>1, <1>2, <1>3, <1>7, <1>9 DEF Midway, AtWork
  <2>2. \A v \in Writers : AtWork(v)' => done'[v] < Len(Operations(Head(queue'[v])))
    <3>1. CASE q = <<>>
      <4>1. Head(p) = request /\ done[w] = 0
        BY <1>1, <1>5, <1>7, <3>1 DEF Midway, AtWork
      <4>2. 0 < Len(Operations(request))
        BY OperationsAre, <1>1 DEF StorageTypes
      <4> QED
        BY <1>2, <1>9, <4>1, <4>2 DEF AtWork
    <3>2. CASE q # <<>>
      <4>1. Head(p) = Head(q) /\ done[w] < Len(Operations(Head(q)))
        BY <1>1, <1>5, <1>7, <3>2 DEF Midway, AtWork
      <4> QED
        BY <1>2, <1>9, <4>1 DEF AtWork
    <3> QED
      BY <3>1, <3>2
  <2>3. \A v \in Writers : Handling(v, "change", 1) \/ Handling(v, "checkpoint", 1) \/ Handling(v, "checkpoint", 2) =>
          Data(v)' = Data(v)
    BY <1>3, <1>5, <1>7, <1>9 DEF Handling, AtWork, Data
  <2>4. /\ \A v \in Writers : Handling(v, "change", 1)' => pending' = {} /\ tail' = <<Data(v)'>>
        /\ (\A v \in Writers : ~Handling(v, "change", 1)') => Landing'
    <3>1. \A v \in Writers : Handling(v, "change", 1)' => pending = {} /\ tail = <<Data(v)>> /\ Data(v)' = Data(v)
      BY <1>1, <1>14, <2>3 DEF Midway
    <3>2. (\A v \in Writers : ~Handling(v, "change", 1)') => Landing
      BY <1>1, <1>14 DEF Midway
    <3>3. Landing' <=> Landing
      BY <1>2 DEF Landing
    <3> QED
      BY <1>2, <3>1, <3>2, <3>3
  <2>5. \A v \in Writers : Handling(v, "checkpoint", 1)' \/ Handling(v, "checkpoint", 2)' =>
          snapshots' # <<>> /\ snapshots'[Len(snapshots')] = Data(v)'
    <3>1. \A v \in Writers : Handling(v, "checkpoint", 1)' \/ Handling(v, "checkpoint", 2)' =>
            Handling(v, "checkpoint", 1) \/ Handling(v, "checkpoint", 2)
      BY <1>14
    <3> QED
      BY <1>1, <1>2, <2>3, <3>1 DEF Midway
  <2> QED
    BY <2>1, <2>2, <2>4, <2>5 DEF Midway
<1>16. Knows'
  <2>1. ASSUME NEW v \in Writers, ~Begun(v)' PROVE known'[v] = Fresh
    BY <1>1, <1>4, <1>10, <1>11, <2>1 DEF Knows
  <2>2. ASSUME NEW v \in Writers, Newest(v)' PROVE v = w
    BY <1>4, <1>11, <2>2, OneNewest
  <2>3. written.changes \subseteq known[w].changes /\ \A i \in 1 .. Len(q) : q[i].call = "change" => q[i].data \in known[w].changes
    BY <1>1, <1>2, <1>4, <1>5 DEF Knows
  <2>4. \A i \in 1 .. Len(p) : p[i].call = "change" => p[i].data \in k.changes
    BY <1>7, <2>3
  <2>5. loading'[w] # <<"changes">>
    <3>1. loading'[w] = <<>>
      BY <1>2
    <3> QED
      BY <3>1, StagesAre
  <2> QED
    BY <1>2, <1>9, <1>10, <2>1, <2>2, <2>3, <2>4, <2>5 DEF Knows
<1>17. Covers'
  <2>1. \A i \in 1 .. Len(q) : q[i].call = "checkpoint" =>
          /\ written.changes \subseteq q[i].data
          /\ \A j \in 1 .. i - 1 : q[j].call = "change" => q[j].data \in q[i].data
    BY <1>1, <1>5 DEF Covers
  <2>2. written.changes \subseteq known[w].changes /\ \A i \in 1 .. Len(q) : q[i].call = "change" => q[i].data \in known[w].changes
    BY <1>1, <1>2, <1>4, <1>5 DEF Knows
  <2>3. \A i \in 1 .. Len(p) : p[i].call = "checkpoint" =>
          /\ written.changes \subseteq p[i].data
          /\ \A j \in 1 .. i - 1 : p[j].call = "change" => p[j].data \in p[i].data
    <3> SUFFICES ASSUME NEW i \in 1 .. Len(p), p[i].call = "checkpoint"
                 PROVE  /\ written.changes \subseteq p[i].data
                        /\ \A j \in 1 .. i - 1 : p[j].call = "change" => p[j].data \in p[i].data
      OBVIOUS
    <3>1. \A j \in 1 .. i - 1 : j \in 1 .. Len(q) /\ p[j] = q[j]
      BY <1>7
    <3>2. CASE i \in 1 .. Len(q)
      BY <1>7, <2>1, <3>1, <3>2
    <3>3. CASE i = Len(q) + 1
      BY <1>7, <2>2, <3>1, <3>3
    <3> QED
      BY <1>7, <3>2, <3>3
  <2> SUFFICES ASSUME NEW v \in Writers, NEW i \in 1 .. Len(queue'[v]), queue'[v][i].call = "checkpoint"
               PROVE  /\ written'.changes \subseteq queue'[v][i].data
                      /\ \A j \in 1 .. i - 1 : queue'[v][j].call = "change" => queue'[v][j].data \in queue'[v][i].data
    BY DEF Covers
  <2>4. v = w
    <3>1. \A u \in Writers \ {w} : 1 .. Len(queue'[u]) = {}
      BY <1>9
    <3> QED
      BY <3>1
  <2> QED
    BY <1>2, <1>9, <2>3, <2>4
<1>18. Handled'
  BY <1>1, <1>2 DEF Handled, Snapshotted
<1> QED
  BY <1>12, <1>13, <1>15, <1>16, <1>17, <1>18 DEF InOrder

\* A step of a constructor, of an instance that is alone with the files.
LEMMA LoadKeeps ==
  ASSUME InOrder, NEW w \in Writers, Load(w), ~spoilt'
  PROVE  InOrder'
<1>1. StorageTypes /\ WorksAlone /\ Midway /\ Knows /\ Covers /\ Handled
  BY DEF InOrder
<1>2. /\ loading[w] # <<>> /\ queue' = queue /\ done' = done /\ written' = written /\ saves' = saves
      /\ ~Races(w) /\ pending = {} /\ ~(written.changes # {} /\ stateFile = Nothing)
  BY DEF Load
<1>3. stateFile' = stateFile /\ changelog' = changelog /\ tail' = tail /\ snapshots' = snapshots /\ pending' = pending
  BY DEF Load, files
<1>4. \A v \in Writers : queue[v] = <<>>
  BY <1>1, <1>2 DEF Races, AtWork, WorksAlone
<1>5. \A v \in Writers : v > w => ~Begun(v)
  BY <1>2, StorageAssumption DEF Races, Begun
<1>6. tail = <<>>
  <2>1. \A v \in Writers : ~Handling(v, "change", 1)
    BY <1>4 DEF Handling, AtWork
  <2> QED
    BY <1>1, <1>2, <2>1 DEF Midway, Landing
<1>7. written.changes \subseteq Snapshotted \cup Range(changelog)
  BY <1>1, <1>2 DEF Handled
<1>8. \E l \in Stages, k \in Contents :
        /\ loading' = [loading EXCEPT ![w] = l] /\ known' = [known EXCEPT ![w] = k]
        /\ l # ToLoad
        /\ l = <<"changes">> => Snapshotted \subseteq k.changes
        /\ l = <<>> => written.changes \subseteq k.changes
  <2>1. known[w] \in Contents /\ loading[w] \in Stages \ {<<>>} /\ known = [known EXCEPT ![w] = known[w]]
    BY <1>1, <1>2 DEF StorageTypes
  <2>2. CASE loading[w] = ToLoad
    <3>1. LoadState(w)
      BY <2>2, StagesAre DEF Load
    <3>2. known[w].changes = {}
      BY <1>1, <2>2 DEF Knows, Begun, Fresh
    <3>3. CASE stateFile = Nothing
      <4>1. loading' = [loading EXCEPT ![w] = <<>>] /\ known' = known
        BY <3>1, <3>3 DEF LoadState
      <4>2. <<>> \in Stages /\ <<>> # ToLoad /\ <<>> # <<"changes">>
        BY StagesAre DEF Stages
      <4>3. written.changes \subseteq known[w].changes
        BY <1>2, <3>3
      <4> QED
        BY <2>1, <4>1, <4>2, <4>3
    <3>4. CASE stateFile # Nothing
      <4>1. loading' = [loading EXCEPT ![w] = <<"snapshots", "changes">>]
        BY <2>2, <3>1, <3>4, StagesAre DEF LoadState
      <4>2. PICK k \in Contents : k = [known[w] EXCEPT !.state = stateFile]
        BY <1>1, <2>1, <3>4 DEF StorageTypes, Contents
      <4>3. known' = [known EXCEPT ![w] = k]
        BY <3>1, <3>4, <4>2 DEF LoadState
      <4>4. /\ <<"snapshots", "changes">> \in Stages /\ <<"snapshots", "changes">> # ToLoad
            /\ <<"snapshots", "changes">> # <<"changes">> /\ <<"snapshots", "changes">> # <<>>
        BY StagesAre DEF Stages
      <4> QED
        BY <4>1, <4>3, <4>4
    <3> QED
      BY <3>3, <3>4
  <2>3. CASE loading[w] = <<"snapshots", "changes">>
    <3>1. LoadSnapshotFiles(w)
      BY <2>3, StagesAre DEF Load
    <3>2. loading' = [loading EXCEPT ![w] = <<"changes">>]
      BY <2>3, <3>1, StagesAre DEF LoadSnapshotFiles
    <3>3. Snapshotted \in SUBSET Nat
      <4>1. Latest(snapshots, LoadSnapshots) \in Seq(SUBSET Nat)
        BY <1>1, LatestOfNone, StorageAssumption DEF StorageTypes
      <4> QED
        BY <4>1 DEF Snapshotted, Range
    <3>4. PICK k \in Contents : k = [known[w] EXCEPT !.changes = Snapshotted]
      BY <2>1, <3>3 DEF Contents
    <3>5. known' = [known EXCEPT ![w] = k]
      BY <3>1, <3>4 DEF LoadSnapshotFiles, Snapshotted
    <3>6. k.changes = Snapshotted
      BY <2>1, <3>4 DEF Contents
    <3>7. <<"changes">> \in Stages /\ <<"changes">> # ToLoad /\ <<"changes">> # <<>>
      BY StagesAre DEF Stages
    <3> QED
      BY <3>2, <3>5, <3>6, <3>7
  <2>4. CASE loading[w] = <<"changes">>
    <3>1. LoadChanges(w)
      BY <2>4, StagesAre DEF Load
    <3>2. loading' = [loading EXCEPT ![w] = <<>>]
      BY <3>1 DEF LoadChanges
    <3>3. Range(changelog) \in SUBSET Nat
      BY <1>1 DEF StorageTypes, Range
    <3>4. PICK k \in Contents : k = [known[w] EXCEPT !.changes = @ \cup Range(changelog)]
      BY <2>1, <3>3 DEF Contents
    <3>5. known' = [known EXCEPT ![w] = k]
      BY <1>6, <3>1, <3>4 DEF LoadChanges
    <3>6. k.changes = known[w].changes \cup Range(changelog)
      BY <2>1, <3>4 DEF Contents
    <3>7. Newest(w)
      BY <1>5, <2>4, StagesAre DEF Newest, Begun
    <3>8. Snapshotted \subseteq known[w].changes
      BY <1>1, <2>4, <3>7 DEF Knows
    <3>9. <<>> \in Stages /\ <<>> # ToLoad /\ <<>> # <<"changes">>
      BY StagesAre DEF Stages
    <3>10. written.changes \subseteq k.changes
      BY <1>7, <3>6, <3>8
    <3> QED
      BY <3>2, <3>5, <3>9, <3>10
  <2> QED
    BY <2>1, <2>2, <2>3, <2>4 DEF Stages
<1>9. PICK l \in Stages, k \in Contents :
        /\ loading' = [loading EXCEPT ![w] = l] /\ known' = [known EXCEPT ![w] = k]
        /\ l # ToLoad
        /\ l = <<"changes">> => Snapshotted \subseteq k.changes
        /\ l = <<>> => written.changes \subseteq k.changes
  BY <1>8
<1>10. loading'[w] = l /\ known'[w] = k /\ \A v \in Writers \ {w} : loading'[v] = loading[v] /\ known'[v] = known[v]
  BY <1>1, <1>9 DEF StorageTypes
<1>11. Begun(w)' /\ \A v \in Writers \ {w} : Begun(v)' <=> Begun(v)
  BY <1>9, <1>10 DEF Begun
<1>12. ASSUME NEW v \in Writers, Newest(v)' PROVE v = w
  <2>1. ~(v > w)
    BY <1>5, <1>11, <1>12 DEF Newest
  <2>2. ~(w > v)
    BY <1>11, <1>12 DEF Newest
  <2> QED
    BY <2>1, <2>2, StorageAssumption
<1>13. StorageTypes'
  BY <1>1, <1>2, <1>3, <1>9 DEF StorageTypes
<1>14. WorksAlone' /\ Covers' /\ Handled' /\ Midway'
  <2>1. WorksAlone'
    BY <1>2, <1>4 DEF WorksAlone, AtWork
  <2>2. Covers'
    BY <1>1, <1>2 DEF Covers
  <2>3. Handled'
    BY <1>1, <1>2, <1>3 DEF Handled, Snapshotted
  <2>4. Midway'
    BY <1>1, <1>2, <1>3 DEF Midway, Landing, Handling, AtWork, Data
  <2> QED
    BY <2>1, <2>2, <2>3, <2>4
<1>15. Knows'
  <2>1. ASSUME NEW v \in Writers, ~Begun(v)' PROVE known'[v] = Fresh
    BY <1>1, <1>10, <1>11, <2>1 DEF Knows
  <2>2. \A i \in 1 .. Len(queue'[w]) : FALSE
    BY <1>2, <1>4
  <2>3. Snapshotted' = Snapshotted
    BY <1>3 DEF Snapshotted
  <2> QED
    BY <1>2, <1>9, <1>10, <1>12, <2>1, <2>2, <2>3 DEF Knows
<1> QED
  BY <1>13, <1>14, <1>15 DEF InOrder

\* What is left of a queue without its first request.
LEMMA TailIs ==
  ASSUME NEW S, NEW q \in Seq(S), q # <<>>, NEW p, p = Tail(q)
  PROVE  /\ p \in Seq(S) /\ Len(p) = Len(q) - 1 /\ Len(q) \in Nat \ {0} /\ q[1] = Head(q)
         /\ \A i \in 1 .. Len(p) : p[i] = q[i + 1]
         /\ p # <<>> => Head(p) \in S
<1>1. p \in Seq(S) /\ Len(p) = Len(q) - 1 /\ Len(q) \in Nat \ {0} /\ q[1] = Head(q)
  BY HeadTailProperties
<1>2. \A i \in 1 .. Len(p) : p[i] = q[i + 1]
  BY HeadTailProperties
<1>3. p # <<>> => Head(p) \in S
  BY <1>1
<1> QED
  BY <1>1, <1>2, <1>3

\* Alone w is at work.
LEMMA Alone ==
  ASSUME InOrder, NEW w \in Writers, AtWork(w)
  PROVE  /\ loading[w] = <<>> /\ Newest(w)
         /\ \A v \in Writers \ {w} : queue[v] = <<>> /\ done[v] = 0
<1>1. WorksAlone /\ Midway
  BY DEF InOrder
<1>2. loading[w] = <<>> /\ Newest(w)
  BY <1>1 DEF WorksAlone
<1>3. \A v \in Writers \ {w} : ~AtWork(v)
  BY <1>1, <1>2, OneNewest DEF WorksAlone
<1> QED
  BY <1>1, <1>2, <1>3 DEF Midway, AtWork

\* What a writer's step does to everything but the files: nothing, or the first
\* request has been handled.
LEMMA QueueMoves ==
  ASSUME InOrder, NEW w \in Writers, AtWork(w), known' = known, loading' = loading,
         NEW r \in Request, r = Head(queue[w]),
         \/ queue' = queue /\ written' = written
         \/ /\ queue' = [queue EXCEPT ![w] = Tail(@)] /\ written' \in Contents
            /\ \A c \in written'.changes : c \in written.changes \/ (r.call = "change" /\ c = r.data)
  PROVE  /\ WorksAlone' /\ Knows' /\ Covers'
         /\ queue' \in [Writers -> Seq(Request)] /\ written' \in Contents
         /\ \A v \in Writers \ {w} : queue'[v] = <<>>
<1>1. StorageTypes /\ WorksAlone /\ Knows /\ Covers
  BY DEF InOrder
<1>2. loading[w] = <<>> /\ Newest(w) /\ \A v \in Writers \ {w} : queue[v] = <<>>
  BY Alone
<1>3. \A v \in Writers : (Begun(v)' <=> Begun(v)) /\ (Newest(v)' <=> Newest(v))
  BY DEF Begun, Newest
<1>4. PICK q \in Seq(Request) : q = queue[w]
  BY <1>1 DEF StorageTypes
<1>5. q # <<>> /\ r = Head(q)
  BY <1>4 DEF AtWork
<1>6. \A i \in 1 .. Len(q) : q[i].call = "change" => q[i].data \in known[w].changes
  BY <1>1, <1>2, <1>4 DEF Knows
<1>7. \A i \in 1 .. Len(q) : q[i].call = "checkpoint" =>
        /\ written.changes \subseteq q[i].data
        /\ \A j \in 1 .. i - 1 : q[j].call = "change" => q[j].data \in q[i].data
  BY <1>1, <1>4 DEF Covers
<1>8. written.changes \subseteq known[w].changes
  BY <1>1, <1>2 DEF Knows
<1>9. ASSUME NEW p, queue'[w] = p, \A v \in Writers \ {w} : queue'[v] = <<>>,
             written'.changes \subseteq known[w].changes,
             \A i \in 1 .. Len(p) : p[i].call = "change" => p[i].data \in known[w].changes,
             \A i \in 1 .. Len(p) : p[i].call = "checkpoint" =>
               /\ written'.changes \subseteq p[i].data
               /\ \A j \in 1 .. i - 1 : p[j].call = "change" => p[j].data \in p[i].data
      PROVE  WorksAlone' /\ Knows' /\ Covers'
  <2>1. WorksAlone'
    BY <1>2, <1>3, <1>9 DEF WorksAlone, AtWork
  <2>2. Knows'
    <3>1. ASSUME NEW v \in Writers, Newest(v)' PROVE v = w
      BY <1>2, <1>3, <3>1, OneNewest
    <3>2. loading'[w] = <<>> /\ loading'[w] # <<"changes">>
      BY <1>2, StagesAre
    <3>3. \A v \in Writers : ~Begun(v)' => known'[v] = Fresh
      BY <1>1, <1>3 DEF Knows
    <3> QED
      BY <1>9, <3>1, <3>2, <3>3 DEF Knows
  <2>3. Covers'
    <3> SUFFICES ASSUME NEW v \in Writers, NEW i \in 1 .. Len(queue'[v]), queue'[v][i].call = "checkpoint"
                 PROVE  /\ written'.changes \subseteq queue'[v][i].data
                        /\ \A j \in 1 .. i - 1 : queue'[v][j].call = "change" => queue'[v][j].data \in queue'[v][i].data
      BY DEF Covers
    <3>1. v = w
      <4>1. \A u \in Writers \ {w} : 1 .. Len(queue'[u]) = {}
        BY <1>9
      <4> QED
        BY <4>1
    <3> QED
      BY <1>9, <3>1
  <2> QED
    BY <2>1, <2>2, <2>3
<1>10. CASE queue' = queue /\ written' = written
  <2>1. WorksAlone' /\ Knows' /\ Covers'
    BY <1>2, <1>4, <1>6, <1>7, <1>8, <1>9, <1>10
  <2> QED
    BY <1>1, <1>2, <1>10, <2>1 DEF StorageTypes
<1>11. CASE /\ queue' = [queue EXCEPT ![w] = Tail(@)] /\ written' \in Contents
            /\ \A c \in written'.changes : c \in written.changes \/ (r.call = "change" /\ c = r.data)
  <2>1. PICK p : p = Tail(q)
    OBVIOUS
  <2>2. /\ p \in Seq(Request) /\ Len(p) = Len(q) - 1 /\ Len(q) \in Nat \ {0} /\ q[1] = r
        /\ \A i \in 1 .. Len(p) : p[i] = q[i + 1]
    BY <1>5, <2>1, TailIs
  <2>3. queue' = [queue EXCEPT ![w] = p]
    BY <1>4, <1>11, <2>1
  <2>4. queue'[w] = p /\ (\A v \in Writers \ {w} : queue'[v] = <<>>) /\ queue' \in [Writers -> Seq(Request)]
    BY <1>1, <1>2, <2>2, <2>3 DEF StorageTypes
  <2>5. written'.changes \subseteq known[w].changes
    BY <1>6, <1>8, <1>11, <2>2
  <2>6. \A i \in 1 .. Len(p) : p[i].call = "change" => p[i].data \in known[w].changes
    <3>1. \A i \in 1 .. Len(p) : i + 1 \in 1 .. Len(q)
      BY <2>2
    <3> QED
      BY <1>6, <2>2, <3>1
  <2>7. \A i \in 1 .. Len(p) : p[i].call = "checkpoint" =>
          /\ written'.changes \subseteq p[i].data
          /\ \A j \in 1 .. i - 1 : p[j].call = "change" => p[j].data \in p[i].data
    <3> SUFFICES ASSUME NEW i \in 1 .. Len(p), p[i].call = "checkpoint"
                 PROVE  /\ written'.changes \subseteq p[i].data
                        /\ \A j \in 1 .. i - 1 : p[j].call = "change" => p[j].data \in p[i].data
      OBVIOUS
    <3>1. i + 1 \in 1 .. Len(q) /\ (i + 1) - 1 = i /\ p[i] = q[i + 1]
      BY <2>2
    <3>2. /\ written.changes \subseteq p[i].data
          /\ \A j \in 1 .. i : q[j].call = "change" => q[j].data \in p[i].data
      BY <1>7, <3>1
    <3>3. written'.changes \subseteq p[i].data
      <4>1. 1 \in 1 .. i
        BY <2>2
      <4> QED
        BY <1>11, <2>2, <3>2, <4>1
    <3>4. \A j \in 1 .. i - 1 : j \in 1 .. Len(p) /\ j + 1 \in 1 .. i /\ p[j] = q[j + 1]
      BY <2>2
    <3> QED
      BY <3>2, <3>3, <3>4
  <2>8. WorksAlone' /\ Knows' /\ Covers'
    BY <1>9, <2>4, <2>5, <2>6, <2>7
  <2> QED
    BY <1>11, <2>4, <2>8
<1> QED
  BY <1>10, <1>11

\* How far the only writer at work has come, after a step.
LEMMA MidwayGoes ==
  ASSUME InOrder, NEW w \in Writers, AtWork(w), NEW n \in {1, 2}, Goes(w, n),
         NEW r \in Request, r = Head(queue[w]), n < Len(Operations(r)),
         IF r.call = "change" /\ n = 1 THEN pending' = {} /\ tail' = <<r.data>> ELSE Landing',
         r.call = "checkpoint" => snapshots' # <<>> /\ snapshots'[Len(snapshots')] = r.data
  PROVE  Midway' /\ done' \in [Writers -> 0 .. 2]
<1>1. /\ \A v \in Writers \ {w} : queue[v] = <<>> /\ done[v] = 0
      /\ StorageTypes
  BY Alone DEF InOrder
<1>2. queue' = queue /\ done' = [done EXCEPT ![w] = n]
  BY DEF Goes
<1>3. done'[w] = n /\ (\A v \in Writers \ {w} : done'[v] = 0) /\ done' \in [Writers -> 0 .. 2]
  BY <1>1, <1>2 DEF StorageTypes
<1>4. AtWork(w)' /\ \A v \in Writers \ {w} : ~AtWork(v)'
  BY <1>1, <1>2 DEF AtWork
<1>5. Head(queue'[w]) = r /\ Data(w)' = r.data
  BY <1>2 DEF Data
<1>6. \A v \in Writers : Handling(v, "change", 1)' <=> v = w /\ r.call = "change" /\ n = 1
  BY <1>3, <1>4, <1>5 DEF Handling
<1>7. /\ \A v \in Writers : Handling(v, "change", 1)' => pending' = {} /\ tail' = <<Data(v)'>>
      /\ (\A v \in Writers : ~Handling(v, "change", 1)') => Landing'
  BY <1>5, <1>6
<1>8. \A v \in Writers : Handling(v, "checkpoint", 1)' \/ Handling(v, "checkpoint", 2)' => v = w /\ r.call = "checkpoint"
  BY <1>4, <1>5 DEF Handling
<1> QED
  BY <1>2, <1>3, <1>4, <1>5, <1>7, <1>8 DEF Midway

LEMMA MidwayEnds ==
  ASSUME InOrder, NEW w \in Writers, AtWork(w), done' = [done EXCEPT ![w] = 0], Landing',
         queue' \in [Writers -> Seq(Request)], \A v \in Writers \ {w} : queue'[v] = <<>>
  PROVE  Midway' /\ done' \in [Writers -> 0 .. 2]
<1>1. StorageTypes /\ \A v \in Writers \ {w} : done[v] = 0
  BY Alone DEF InOrder
<1>2. (\A v \in Writers : done'[v] = 0) /\ done' \in [Writers -> 0 .. 2]
  BY <1>1 DEF StorageTypes
<1>3. \A v \in Writers : ~Handling(v, "change", 1)' /\ ~Handling(v, "checkpoint", 1)' /\ ~Handling(v, "checkpoint", 2)'
  BY <1>2 DEF Handling
<1>4. ASSUME NEW v \in Writers, AtWork(v)' PROVE 0 < Len(Operations(Head(queue'[v])))
  <2>1. PICK q \in Seq(Request) : q = queue'[v]
    OBVIOUS
  <2>2. Head(q) \in Request
    BY <1>4, <2>1 DEF AtWork
  <2>3. PICK r \in Request : r = Head(q)
    BY <2>2
  <2>4. written \in Contents
    BY <1>1 DEF StorageTypes
  <2>5. 0 < Len(Operations(r))
    BY <2>4, OperationsAre
  <2> QED
    BY <2>1, <2>3, <2>5
<1> QED
  BY <1>2, <1>3, <1>4 DEF Midway

\* A file operation, while only one writer is at work: before the changelog is
\* emptied, the snapshot that is in place holds all that was handled.
LEMMA WriterKeeps ==
  ASSUME InOrder, NEW w \in Writers, Writer(w), ~spoilt'
  PROVE  InOrder'
<1>1. StorageTypes /\ Midway /\ Covers /\ Handled /\ AtWork(w)
  BY DEF InOrder, Writer, AtWork
<1>2. PICK r \in Request : /\ queue[w] \in Seq(Request) /\ queue[w] # <<>> /\ r = Head(queue[w])
                           /\ UNCHANGED <<known, loading, saves>>
                           /\ WriterStep(w, r)
  BY <1>1, WriterDoes
<1>3. \A v \in Writers \ {w} : queue[v] = <<>>
  BY <1>1, Alone
<1>4. IF r.call = "change" /\ done[w] = 1 THEN pending = {} /\ tail = <<r.data>> ELSE Landing
  <2>1. \A v \in Writers : Handling(v, "change", 1) <=> v = w /\ r.call = "change" /\ done[w] = 1
    BY <1>1, <1>2, <1>3 DEF Handling, AtWork
  <2>2. Data(w) = r.data
    BY <1>2 DEF Data
  <2> QED
    BY <1>1, <2>1, <2>2 DEF Midway
<1>5. r.call = "checkpoint" /\ done[w] \in {1, 2} => snapshots # <<>> /\ snapshots[Len(snapshots)] = r.data
  BY <1>1, <1>2 DEF Midway, Handling, Data
<1>6. r.call = "checkpoint" => written.changes \subseteq r.data
  <2>1. PICK q \in Seq(Request) : q = queue[w]
    BY <1>2
  <2>2. 1 \in 1 .. Len(q) /\ q[1] = r
    BY <1>2, <2>1
  <2> QED
    BY <1>1, <2>1, <2>2 DEF Covers
<1>7. Data(w) = r.data
  BY <1>2 DEF Data
<1>8. /\ written \in Contents /\ snapshots \in Seq(SUBSET Nat) /\ changelog \in Seq(Nat) /\ stateFile \in Nat \cup {Nothing}
      /\ LoadSnapshots \in Nat \ {0} /\ MaxSnapshots \in Nat \ {0}
      /\ written.changes \subseteq Snapshotted \cup Range(changelog) \cup pending /\ pending \in SUBSET Nat
      /\ stateFile = Nothing \/ stateFile = written.state
  BY <1>1, StorageAssumption DEF StorageTypes, Handled
<1>9. ASSUME NEW n \in {1, 2}, Goes(w, n), n < Len(Operations(r)),
             IF r.call = "change" /\ n = 1 THEN pending' = {} /\ tail' = <<r.data>> ELSE Landing',
             r.call = "checkpoint" => snapshots' # <<>> /\ snapshots'[Len(snapshots')] = r.data,
             snapshots' \in Seq(SUBSET Nat), changelog' \in Seq(Nat), pending' \in SUBSET Nat,
             stateFile' \in Nat \cup {Nothing},
             written.changes \subseteq Snapshotted' \cup Range(changelog') \cup pending',
             stateFile' = Nothing \/ stateFile' = written.state
      PROVE  InOrder'
  <2>1. queue' = queue /\ written' = written
    BY <1>9 DEF Goes
  <2>2. Midway' /\ done' \in [Writers -> 0 .. 2]
    BY <1>1, <1>2, <1>9, MidwayGoes
  <2>3. WorksAlone' /\ Knows' /\ Covers' /\ queue' \in [Writers -> Seq(Request)]
    BY <1>1, <1>2, <2>1, QueueMoves
  <2>4. Handled'
    BY <1>9, <2>1 DEF Handled
  <2>6. StorageTypes'
    BY <1>1, <1>2, <1>9, <2>1, <2>2, <2>3 DEF StorageTypes
  <2> QED
    BY <2>2, <2>3, <2>4, <2>6 DEF InOrder
<1>10. ASSUME NEW old, NEW new, Ends(w, old, new), Landing',
              \A c \in new : c \in written.changes \/ (r.call = "change" /\ c = r.data),
              snapshots' \in Seq(SUBSET Nat), changelog' \in Seq(Nat), pending' \in SUBSET Nat,
              stateFile' \in Nat \cup {Nothing},
              new \subseteq Snapshotted' \cup Range(changelog') \cup pending',
              stateFile' = Nothing \/ stateFile' = old
       PROVE  InOrder'
  <2>1. /\ queue' = [queue EXCEPT ![w] = Tail(@)] /\ done' = [done EXCEPT ![w] = 0]
        /\ written' \in Contents /\ written'.state = old /\ written'.changes = new
    BY <1>10 DEF Ends
  <2>2. /\ WorksAlone' /\ Knows' /\ Covers' /\ queue' \in [Writers -> Seq(Request)]
        /\ \A v \in Writers \ {w} : queue'[v] = <<>>
    BY <1>1, <1>2, <1>10, <2>1, QueueMoves
  <2>3. Midway' /\ done' \in [Writers -> 0 .. 2]
    BY <1>1, <1>10, <2>1, <2>2, MidwayEnds
  <2>4. Handled'
    BY <1>10, <2>1 DEF Handled
  <2>5. StorageTypes'
    BY <1>1, <1>2, <1>10, <2>1, <2>2, <2>3 DEF StorageTypes
  <2> QED
    BY <2>2, <2>3, <2>4, <2>5 DEF InOrder
<1>11. 1 < Len(Operations(r)) /\ (r.call = "checkpoint" => 2 < Len(Operations(r)))
  BY <1>8, OperationsAre
<1>12. CASE r.call = "state" /\ r.data \in Nat
  <2>1. CASE done[w] = 0 /\ EmptyState(w) /\ Goes(w, 1)
    <3>1. stateFile' = Nothing /\ changelog' = changelog /\ tail' = tail /\ pending' = pending /\ snapshots' = snapshots
      BY <2>1 DEF EmptyState
    <3>2. Snapshotted' = Snapshotted /\ Landing'
      BY <1>4, <1>12, <3>1 DEF Snapshotted, Landing
    <3> QED
      BY <1>4, <1>8, <1>9, <1>11, <1>12, <2>1, <3>1, <3>2
  <2>2. CASE done[w] = 1 /\ WriteState(w) /\ Ends(w, r.data, written.changes)
    <3>1. stateFile' = r.data /\ changelog' = changelog /\ tail' = tail /\ pending' = pending /\ snapshots' = snapshots
      BY <1>7, <2>2 DEF WriteState
    <3>2. Snapshotted' = Snapshotted /\ Landing'
      BY <1>4, <1>12, <3>1 DEF Snapshotted, Landing
    <3> QED
      BY <1>4, <1>8, <1>10, <1>12, <2>2, <3>1, <3>2
  <2> QED
    BY <1>2, <1>12, <2>1, <2>2 DEF WriterStep
<1>13. CASE r.call = "change" /\ r.data \in Nat
  <2>1. CASE done[w] = 0 /\ WriteLength(w) /\ pending = {} /\ Goes(w, 1)
    <3>1. stateFile' = stateFile /\ changelog' = changelog /\ pending' = {} /\ pending = {} /\ snapshots' = snapshots
      BY <2>1 DEF WriteLength
    <3>2. tail' = <<r.data>>
      <4>1. tail = <<>> /\ tail' = Append(tail, r.data)
        BY <1>4, <1>7, <2>1 DEF Landing, WriteLength
      <4> QED
        BY <4>1
    <3>3. Snapshotted' = Snapshotted
      BY <3>1 DEF Snapshotted
    <3> QED
      BY <1>8, <1>9, <1>11, <1>13, <2>1, <3>1, <3>2, <3>3
  <2>2. CASE done[w] = 1 /\ HandOver(w) /\ Ends(w, written.state, written.changes \cup {r.data})
    <3>1. stateFile' = stateFile /\ changelog' = changelog /\ tail' = <<r.data>> /\ pending' = {r.data} /\ snapshots' = snapshots
      BY <1>4, <1>7, <1>13, <2>2 DEF HandOver, files
    <3>2. Snapshotted' = Snapshotted /\ Landing'
      BY <3>1 DEF Snapshotted, Landing
    <3>3. pending = {}
      BY <1>4, <1>13, <2>2
    <3>4. written.changes \cup {r.data} \subseteq Snapshotted' \cup Range(changelog') \cup pending'
      BY <1>8, <3>1, <3>2, <3>3
    <3> QED
      BY <1>8, <1>10, <1>13, <2>2, <3>1, <3>2, <3>4
  <2> QED
    BY <1>2, <1>13, <2>1, <2>2 DEF WriterStep
<1>14. CASE r.call = "checkpoint" /\ r.data \in SUBSET Nat
  <2>1. CASE done[w] = 0 /\ RenameSnapshot(w) /\ Goes(w, 1)
    <3>1. /\ stateFile' = stateFile /\ changelog' = changelog /\ pending' = pending /\ Landing'
          /\ snapshots' = Append(snapshots, r.data)
      BY <1>4, <1>7, <1>14, <2>1 DEF RenameSnapshot, Landing
    <3>2. PICK s : s = snapshots'
      OBVIOUS
    <3>3. s \in Seq(SUBSET Nat) /\ s # <<>> /\ s[Len(s)] = r.data
      BY <1>8, <1>14, <3>1, <3>2, AppendIs
    <3>4. r.data \subseteq Snapshotted'
      BY <1>8, <3>2, <3>3, LastCounts DEF Snapshotted
    <3>5. written.changes \subseteq Snapshotted' \cup Range(changelog') \cup pending'
      BY <1>6, <1>14, <3>4
    <3> QED
      BY <1>8, <1>9, <1>11, <1>14, <2>1, <3>1, <3>2, <3>3, <3>5
  <2>2. CASE done[w] = 1 /\ Truncate(w) /\ pending = {} /\ Goes(w, 2)
    <3>1. stateFile' = stateFile /\ changelog' = <<>> /\ pending' = {} /\ Landing' /\ snapshots' = snapshots
      BY <2>2 DEF Truncate, Landing
    <3>2. snapshots # <<>> /\ snapshots[Len(snapshots)] = r.data
      BY <1>5, <1>14, <2>2
    <3>3. r.data \subseteq Snapshotted'
      BY <1>8, <3>1, <3>2, LastCounts DEF Snapshotted
    <3>4. written.changes \subseteq Snapshotted' \cup Range(changelog') \cup pending'
      BY <1>6, <1>14, <3>3
    <3>5. changelog' \in Seq(Nat)
      BY <3>1
    <3> QED
      BY <1>8, <1>9, <1>11, <1>14, <2>2, <3>1, <3>2, <3>4, <3>5
  <2>3. CASE done[w] = 2 /\ Prune(w) /\ Ends(w, written.state, written.changes)
    <3>1. /\ stateFile' = stateFile /\ changelog' = changelog /\ pending' = pending /\ Landing'
          /\ snapshots' = Latest(snapshots, MaxSnapshots)
      BY <1>4, <1>14, <2>3 DEF Prune, Landing
    <3>2. snapshots # <<>> /\ snapshots[Len(snapshots)] = r.data
      BY <1>5, <1>14, <2>3
    <3>3. PICK s : s = snapshots'
      OBVIOUS
    <3>4. s \in Seq(SUBSET Nat) /\ s # <<>> /\ s[Len(s)] = r.data
      BY <1>8, <3>1, <3>2, <3>3, LatestIs
    <3>5. r.data \subseteq Snapshotted'
      BY <1>8, <3>3, <3>4, LastCounts DEF Snapshotted
    <3>6. written.changes \subseteq Snapshotted' \cup Range(changelog') \cup pending'
      BY <1>6, <1>14, <3>5
    <3> QED
      BY <1>8, <1>10, <1>14, <2>3, <3>1, <3>3, <3>4, <3>6
  <2> QED
    BY <1>2, <1>14, <2>1, <2>2, <2>3 DEF WriterStep
<1> QED
  BY <1>2, <1>12, <1>13, <1>14 DEF WriterStep

\* The calls to save (paxos_wasm.rs, host_storage.rs).
LEMMA SaveKeeps ==
  ASSUME InOrder, NEW w \in Writers, SaveState(w) \/ SaveChange(w) \/ Checkpoint(w), ~spoilt'
  PROVE  InOrder'
<1>1. StorageTypes /\ known[w] \in Contents /\ saves \in Nat /\ saves + 1 \in Nat
  BY DEF InOrder, StorageTypes
<1>2. CASE SaveState(w)
  <2>1. known[w].state + 1 \in Nat
    BY <1>1 DEF Contents
  <2>2. PICK request : request = [call |-> "state", data |-> known[w].state + 1]
    OBVIOUS
  <2>3. request \in Request /\ request.call = "state"
    BY <2>1, <2>2 DEF Request
  <2>4. PICK k \in Contents : k = [known[w] EXCEPT !.state = known[w].state + 1]
    BY <1>1, <2>1 DEF Contents
  <2>5. known[w].changes \subseteq k.changes
    BY <1>1, <2>4 DEF Contents
  <2>6. Enqueue(w, request) /\ known' = [known EXCEPT ![w] = k]
    BY <1>2, <2>2, <2>4 DEF SaveState
  <2> QED
    BY <2>3, <2>5, <2>6, EnqueueKeeps
<1>3. CASE SaveChange(w)
  <2>1. PICK request : request = [call |-> "change", data |-> saves + 1]
    OBVIOUS
  <2>2. request \in Request /\ request.call = "change" /\ request.data = saves + 1
    BY <1>1, <2>1 DEF Request
  <2>3. PICK k \in Contents : k = [known[w] EXCEPT !.changes = @ \cup {saves + 1}]
    BY <1>1 DEF Contents
  <2>4. known[w].changes \subseteq k.changes /\ saves + 1 \in k.changes
    BY <1>1, <2>3 DEF Contents
  <2>5. Enqueue(w, request) /\ known' = [known EXCEPT ![w] = k]
    BY <1>3, <2>1, <2>3 DEF SaveChange
  <2> QED
    BY <2>2, <2>4, <2>5, EnqueueKeeps
<1>4. CASE Checkpoint(w)
  <2>1. PICK request : request = [call |-> "checkpoint", data |-> known[w].changes]
    OBVIOUS
  <2>2. request \in Request /\ request.call = "checkpoint" /\ request.data = known[w].changes
    BY <1>1, <2>1 DEF Request, Contents
  <2>3. PICK k \in Contents : k = known[w]
    BY <1>1
  <2>4. known' = [known EXCEPT ![w] = k]
    BY <1>1, <1>4, <2>3 DEF Checkpoint, StorageTypes
  <2>5. Enqueue(w, request)
    BY <1>4, <2>1 DEF Checkpoint
  <2> QED
    BY <2>2, <2>3, <2>4, <2>5, EnqueueKeeps
<1> QED
  BY <1>2, <1>3, <1>4

\* Where the storage stays as it is.
LEMMA StorageUnchanged ==
  ASSUME InOrder, UNCHANGED storageVars
  PROVE  InOrder'
<1>1. /\ known' = known /\ loading' = loading /\ queue' = queue /\ done' = done /\ stateFile' = stateFile
      /\ changelog' = changelog /\ tail' = tail /\ pending' = pending /\ snapshots' = snapshots
      /\ saves' = saves /\ written' = written
  BY DEF storageVars, files
<1>2. StorageTypes' /\ WorksAlone' /\ Covers'
  BY <1>1 DEF InOrder, StorageTypes, WorksAlone, Covers, AtWork, Newest, Begun
<1>3. Midway'
  BY <1>1 DEF InOrder, Midway, Landing, Handling, AtWork, Data
<1>4. Knows' /\ Handled'
  BY <1>1 DEF InOrder, Knows, Handled, Snapshotted, Newest, Begun
<1> QED
  BY <1>2, <1>3, <1>4 DEF InOrder

\* Data that was under way is a record of the changelog.
LEMMA LandKeeps ==
  ASSUME InOrder, NEW d \in pending, Land(d)
  PROVE  InOrder'
<1>1. StorageTypes /\ WorksAlone /\ Midway /\ Knows /\ Covers /\ Handled
  BY DEF InOrder
<1>2. \A v \in Writers : ~Handling(v, "change", 1)
  BY <1>1 DEF Midway
<1>3. pending = {d} /\ tail = <<d>> /\ d \in Nat
  <2>1. \A c \in pending : tail = <<c>>
    BY <1>1, <1>2 DEF Midway, Landing
  <2>2. tail = <<d>> /\ d \in Nat
    BY <1>1, <2>1 DEF StorageTypes
  <2>3. ASSUME NEW c \in pending PROVE c = d
    <3>1. <<c>> = <<d>>
      BY <2>1, <2>2
    <3>2. <<c>>[1] = <<d>>[1]
      BY <3>1
    <3> QED
      BY <3>2
  <2> QED
    BY <2>2, <2>3
<1>4. /\ pending' = {} /\ changelog' = Append(changelog, d) /\ tail' = <<>>
      /\ known' = known /\ loading' = loading /\ queue' = queue /\ done' = done /\ stateFile' = stateFile
      /\ snapshots' = snapshots /\ saves' = saves /\ written' = written
  BY <1>3 DEF Land
<1>5. PICK log : log = changelog'
  OBVIOUS
<1>6. log \in Seq(Nat) /\ \A c \in Range(changelog) \cup {d} : c \in Range(log)
  <2>1. /\ log \in Seq(Nat) /\ Len(log) = Len(changelog) + 1 /\ Len(changelog) \in Nat
        /\ \A i \in 1 .. Len(changelog) : log[i] = changelog[i]
        /\ log[Len(changelog) + 1] = d
    BY <1>1, <1>3, <1>4, <1>5, AppendIs DEF StorageTypes
  <2>2. DOMAIN log = 1 .. Len(changelog) + 1 /\ DOMAIN changelog = 1 .. Len(changelog)
    BY <1>1, <2>1 DEF StorageTypes
  <2>3. \A i \in 1 .. Len(changelog) : changelog[i] \in Range(log)
    BY <2>1, <2>2 DEF Range
  <2>4. d \in Range(log)
    BY <2>1, <2>2 DEF Range
  <2> QED
    BY <2>1, <2>2, <2>3, <2>4 DEF Range
<1>7. StorageTypes'
  BY <1>1, <1>4, <1>5, <1>6 DEF StorageTypes
<1>8. WorksAlone' /\ Covers' /\ Knows'
  BY <1>1, <1>4 DEF WorksAlone, Covers, Knows, Snapshotted, AtWork, Newest, Begun
<1>9. Midway'
  <2>1. Landing'
    BY <1>4 DEF Landing
  <2>2. \A v \in Writers : ~Handling(v, "change", 1)'
    BY <1>2, <1>4 DEF Handling, AtWork
  <2> QED
    BY <1>1, <1>4, <2>1, <2>2 DEF Midway, Handling, AtWork, Data
<1>10. Handled'
  BY <1>1, <1>3, <1>4, <1>5, <1>6 DEF Handled, Snapshotted
<1> QED
  BY <1>7, <1>8, <1>9, <1>10 DEF InOrder

\* A crash that hits no write leaves the files as they are.
LEMMA CrashKeepsStorage ==
  ASSUME InOrder, CrashStorage, ~spoilt'
  PROVE  InOrder'
<1>1. StorageTypes /\ Midway /\ Handled
  BY DEF InOrder
<1>2. /\ \A v \in Writers : known'[v] = Fresh /\ loading'[v] = ToLoad /\ queue'[v] = <<>> /\ done'[v] = 0
      /\ stateFile' = stateFile /\ changelog' = changelog /\ snapshots' = snapshots /\ saves' = saves /\ written' = written
      /\ tail' = tail /\ pending' = {} /\ pending = {}
      /\ ~\E w \in Writers : Writing(w)
  BY DEF CrashStorage, files
<1>3. tail = <<>>
  <2>1. ASSUME NEW v \in Writers, Handling(v, "change", 1) PROVE FALSE
    <3>1. AtWork(v) /\ Step(v) = "change"
      BY <1>1, <2>1, HandsOver
    <3> QED
      BY <1>2, <3>1 DEF Writing, AtWork
  <2> QED
    BY <1>1, <1>2, <2>1 DEF Midway, Landing
<1>4. Fresh \in Contents /\ ToLoad \in Stages /\ <<>> \in Seq(Request)
  BY DEF Fresh, Contents, Stages
<1>5. StorageTypes'
  <2>1. /\ known' = [w \in Writers |-> Fresh] /\ loading' = [w \in Writers |-> ToLoad]
        /\ queue' = [w \in Writers |-> <<>>] /\ done' = [w \in Writers |-> 0]
    BY DEF CrashStorage
  <2> QED
    BY <1>1, <1>2, <1>3, <1>4, <2>1 DEF StorageTypes
<1>6. \A v \in Writers : ~Begun(v)' /\ ~Newest(v)' /\ ~AtWork(v)'
  BY <1>2 DEF Begun, Newest, AtWork
<1>7. WorksAlone' /\ Knows' /\ Midway' /\ Handled'
  <2>1. WorksAlone'
    BY <1>6 DEF WorksAlone
  <2>2. Knows'
    BY <1>2, <1>6 DEF Knows
  <2>3. \A v \in Writers : ~Handling(v, "change", 1)' /\ ~Handling(v, "checkpoint", 1)' /\ ~Handling(v, "checkpoint", 2)'
    BY <1>6 DEF Handling
  <2>4. Landing'
    BY <1>2, <1>3 DEF Landing
  <2>5. Midway'
    BY <1>2, <1>6, <2>3, <2>4 DEF Midway
  <2>6. Handled'
    BY <1>1, <1>2 DEF Handled, Snapshotted
  <2> QED
    BY <2>1, <2>2, <2>5, <2>6
<1>8. Covers'
  <2>1. \A v \in Writers : 1 .. Len(queue'[v]) = {}
    BY <1>2
  <2> QED
    BY <2>1 DEF Covers
<1> QED
  BY <1>5, <1>7, <1>8 DEF InOrder

\* The storage that the host starts with.
LEMMA InitStorage ==
  ASSUME StorageInit
  PROVE  InOrder
<1>1. /\ \A v \in Writers : known[v] = Fresh /\ loading[v] = ToLoad /\ queue[v] = <<>> /\ done[v] = 0
      /\ changelog = <<>> /\ tail = <<>> /\ pending = {} /\ saves = 0
  BY DEF StorageInit
<1>2. Fresh \in Contents /\ Fresh.changes = {} /\ Fresh.state = 0 /\ ToLoad \in Stages /\ <<>> \in Seq(Request)
  BY DEF Fresh, Contents, Stages
<1>3. /\ written \in Contents /\ written.changes = {} /\ snapshots \in Seq(SUBSET Nat)
      /\ stateFile \in Nat \cup {Nothing} /\ (stateFile = Nothing \/ stateFile = written.state)
  <2>1. CASE stateFile = Nothing /\ snapshots = <<>> /\ written = Fresh
    BY <1>2, <2>1
  <2>2. CASE stateFile = 1 /\ snapshots = <<{}>> /\ written = [Fresh EXCEPT !.state = 1]
    <3>1. PICK f \in Contents : f = Fresh
      BY <1>2
    <3>2. written \in Contents /\ written.changes = f.changes /\ written.state = 1
      BY <2>2, <3>1 DEF Contents
    <3>3. <<{}>> \in Seq(SUBSET Nat)
      OBVIOUS
    <3> QED
      BY <1>2, <2>2, <3>1, <3>2, <3>3
  <2> QED
    BY <2>1, <2>2 DEF StorageInit
<1>4. StorageTypes
  <2>1. /\ known = [w \in Writers |-> Fresh] /\ loading = [w \in Writers |-> ToLoad]
        /\ queue = [w \in Writers |-> <<>>] /\ done = [w \in Writers |-> 0]
    BY DEF StorageInit
  <2> QED
    BY <1>1, <1>2, <1>3, <2>1 DEF StorageTypes
<1>5. \A v \in Writers : ~Begun(v) /\ ~Newest(v) /\ ~AtWork(v)
  BY <1>1 DEF Begun, Newest, AtWork
<1>6. WorksAlone /\ Knows
  BY <1>1, <1>5 DEF WorksAlone, Knows
<1>7. Midway
  BY <1>1, <1>5 DEF Midway, Landing, Handling
<1>8. Covers
  <2>1. \A v \in Writers : 1 .. Len(queue[v]) = {}
    BY <1>1
  <2> QED
    BY <2>1 DEF Covers
<1> QED
  BY <1>3, <1>4, <1>6, <1>7, <1>8 DEF InOrder, Handled

\* The inductive invariant of the storage: nothing is said once it is spoilt; until
\* then, the writer at work is the newest instance's, which has loaded all that
\* was handled, so that its checkpoints hold it.
THEOREM StorageInvariant == HostSpec => []StorageInv
<1>1. HostInit => StorageInv
  BY InitStorage DEF HostInit, StorageInv
<1>2. StorageInv /\ [HostNext]_hostVars => StorageInv'
  <2> SUFFICES ASSUME StorageInv, [HostNext]_hostVars, ~spoilt' PROVE InOrder'
    BY DEF StorageInv
  <2>1. CASE UNCHANGED storageVars
    <3>1. spoilt' = spoilt
      BY <2>1 DEF storageVars
    <3>2. InOrder
      BY <3>1 DEF StorageInv
    <3> QED
      BY <2>1, <3>2, StorageUnchanged
  <2>4. CASE \E d \in pending : Land(d)
    <3>1. PICK d \in pending : Land(d)
      BY <2>4
    <3>2. spoilt' = spoilt
      BY <3>1 DEF Land
    <3>3. InOrder
      BY <3>2 DEF StorageInv
    <3> QED
      BY <3>1, <3>3, LandKeeps
  <2>2. CASE \E i \in Instances : Call(i) \/ Writer(i)
    <3>1. PICK i \in Writers : Call(i) \/ Writer(i)
      BY <2>2, WritersAssumption
    <3>2. ~spoilt
      BY <3>1 DEF Call, Load, SaveState, SaveChange, Checkpoint, Enqueue, Writer
    <3>3. InOrder
      BY <3>2 DEF StorageInv
    <3>4. CASE Writer(i)
      BY <3>3, <3>4, WriterKeeps
    <3>5. CASE Load(i)
      BY <3>3, <3>5, LoadKeeps
    <3>6. CASE SaveState(i) \/ SaveChange(i) \/ Checkpoint(i)
      BY <3>3, <3>6, SaveKeeps
    <3> QED
      BY <3>1, <3>4, <3>5, <3>6 DEF Call
  <2>3. CASE CrashStorage
    <3>1. ~spoilt
      BY <2>3 DEF CrashStorage
    <3>2. InOrder
      BY <3>1 DEF StorageInv
    <3> QED
      BY <2>3, <3>2, CrashKeepsStorage
  <2> QED
    BY <2>1, <2>2, <2>3, <2>4 DEF HostNext, HostCrash, hostVars
<1> QED
  BY <1>1, <1>2, PTL DEF HostSpec

\* Whatever was handled can be loaded, or is under way to the end of the changelog:
\* no crash between the steps of a checkpoint loses it, and neither does pruning
\* (host_storage.rs handle_request).
THEOREM HandledIsOnDiskHolds == HostSpec => []HandledIsOnDisk
<1>1. StorageInv => HandledIsOnDisk
  <2> SUFFICES ASSUME InOrder
               PROVE  /\ written.changes \subseteq OnDisk.changes \cup pending
                      /\ tail = <<>> \/ \E d \in Awaited : tail = <<d>>
                      /\ stateFile = Nothing \/ stateFile >= written.state
    BY DEF StorageInv, HandledIsOnDisk
  <2>1. StorageTypes /\ Handled /\ Midway
    BY DEF InOrder
  <2>2. OnDisk.changes = Snapshotted \cup Range(changelog)
    <3>1. PICK s : s = Snapshotted
      OBVIOUS
    <3>2. PICK log : log = Range(changelog)
      OBVIOUS
    <3>3. OnDisk = [state |-> stateFile, changes |-> s \cup log]
      BY <3>1, <3>2 DEF OnDisk, Snapshotted
    <3>4. OnDisk.changes = s \cup log
      BY <3>3
    <3> QED
      BY <3>1, <3>2, <3>4
  <2>3. tail = <<>> \/ \E d \in Awaited : tail = <<d>>
    <3>1. CASE \E w \in Writers : Handling(w, "change", 1)
      <4>1. PICK w \in Writers : Handling(w, "change", 1)
        BY <3>1
      <4>2. tail = <<Data(w)>>
        BY <2>1, <4>1 DEF Midway
      <4>3. AtWork(w) /\ Step(w) = "change"
        BY <2>1, <4>1, HandsOver
      <4>4. Data(w) \in Awaited
        BY <4>3 DEF Awaited
      <4> QED
        BY <4>2, <4>4
    <3>2. CASE \A w \in Writers : ~Handling(w, "change", 1)
      <4>1. Landing
        BY <2>1, <3>2 DEF Midway
      <4> QED
        BY <4>1 DEF Landing, Awaited
    <3> QED
      BY <3>1, <3>2
  <2>4. written.state \in Nat
    BY <2>1 DEF StorageTypes, Contents
  <2> QED
    BY <2>1, <2>2, <2>3, <2>4 DEF Handled
<1> QED
  BY <1>1, StorageInvariant, PTL
=============================================================================
