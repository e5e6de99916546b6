----------------------------- MODULE HostStorage ----------------------------
(***************************************************************************)
(* The storage that the host offers to its instances                       *)
(* (runner-ws/src/host_storage.rs, and the storage calls of                *)
(* paxos_wasm.rs).  Every call to save is answered at once and put into    *)
(* the queue of that instance's writer, a task that outlives the instance; *)
(* loads read the files and wait for no queue.  The host may crash between *)
(* any two file operations; the file operations themselves do not fail.    *)
(* The last write to the changelog is only handed over: tokio's File gives *)
(* the bytes to a thread, and the writer drops the File and goes on to the *)
(* next request without a flush.                                           *)
(*                                                                         *)
(* The contents are the instance's own affair.  Here a state is a number   *)
(* that grows, a change is the next number, and a checkpoint holds all the *)
(* changes its instance knows.                                             *)
(***************************************************************************)
EXTENDS Integers, Sequences, FiniteSets, Functions

CONSTANTS
  Writers,       \* the instances, numbered as they were started
  Nothing,       \* the contents of an empty file
  MaxSnapshots,  \* storage-max-snapshots
  LoadSnapshots, \* storage-load-snapshots
  MaxSaves       \* bound: calls to save, all together

ASSUME StorageAssumption == Writers \subseteq Nat /\ MaxSnapshots \in Nat \ {0} /\ LoadSnapshots \in Nat \ {0} /\ MaxSaves \in Nat

VARIABLES
  known,      \* known[w]: the state and the changes that instance w has in memory
  loading,    \* loading[w]: what its constructor has still to load
  queue,      \* queue[w]: the requests its writer has not handled
  done,       \* done[w]: the file operations made for the first of them
  stateFile,  \* the current state
  changelog,  \* the changes
  tail,       \* what follows the last record that can be read: lengths and data out of
              \* place, each by its change
  pending,    \* changes whose length is in the file and whose data is under way
  snapshots,  \* the snapshots, oldest first
  saves,      \* calls so far
  written,    \* the state and the changes of the requests that were handled to the end
  spoilt      \* have two instances used the files at a time, was the changelog read,
              \* written or emptied while data was under way, has a crash hit a write,
              \* or were there changes but no state to load?

files == <<stateFile, changelog, tail, snapshots>>
storageVars == <<known, loading, queue, done, files, pending, saves, written, spoilt>>

ToLoad == <<"state", "snapshots", "changes">>
Fresh == [state |-> 0, changes |-> {}]
\* The node's first start, or one after an earlier life.
StorageInit ==
  /\ known = [w \in Writers |-> Fresh]
  /\ loading = [w \in Writers |-> ToLoad]
  /\ queue = [w \in Writers |-> <<>>] /\ done = [w \in Writers |-> 0]
  /\ \/ stateFile = Nothing /\ snapshots = <<>> /\ written = Fresh
     \/ stateFile = 1 /\ snapshots = <<{}>> /\ written = [Fresh EXCEPT !.state = 1]
  /\ changelog = <<>> /\ tail = <<>> /\ pending = {}
  /\ saves = 0 /\ spoilt = FALSE

\* Two instances use the files: another one's writer is at work, or a later
\* instance has begun to load.
AtWork(w) == queue[w] # <<>>
Races(w)  == \E v \in Writers \ {w} : AtWork(v) \/ (v > w /\ loading[v] # ToLoad)

----------------------------------------------------------------------------
(* The calls.  They return before anything is written. *)

Enqueue(w, request) ==
  /\ loading[w] = <<>>
  /\ saves < MaxSaves /\ saves' = saves + 1
  /\ ~spoilt   \* bound: nothing is said of what is saved later
  /\ queue' = [queue EXCEPT ![w] = Append(@, request)]
  /\ spoilt' = (spoilt \/ Races(w))
  /\ UNCHANGED <<loading, done, files, pending, written>>

SaveState(w) ==
  LET next == known[w].state + 1
  IN /\ Enqueue(w, [call |-> "state", data |-> next])
     /\ known' = [known EXCEPT ![w].state = next]
SaveChange(w) ==
  /\ Enqueue(w, [call |-> "change", data |-> saves + 1])
  /\ known' = [known EXCEPT ![w].changes = @ \cup {saves + 1}]
Checkpoint(w) ==
  /\ Enqueue(w, [call |-> "checkpoint", data |-> known[w].changes])
  /\ UNCHANGED known

\* The constructor loads the state, then the snapshots, then the changelog.  A
\* state that is empty, and a changelog that does not end with a record, fail the
\* load, and the instance starts with what it has so far, or with nothing.
Latest(seq, n) == SubSeq(seq, Len(seq) - (IF n < Len(seq) THEN n ELSE Len(seq)) + 1, Len(seq))
LoadState(w) ==
  IF stateFile = Nothing
    THEN loading' = [loading EXCEPT ![w] = <<>>] /\ UNCHANGED known
    ELSE /\ loading' = [loading EXCEPT ![w] = Tail(@)]
         /\ known' = [known EXCEPT ![w].state = stateFile]
LoadSnapshotFiles(w) ==
  /\ loading' = [loading EXCEPT ![w] = Tail(@)]
  /\ known' = [known EXCEPT ![w].changes = UNION Range(Latest(snapshots, LoadSnapshots))]
LoadChanges(w) ==
  /\ loading' = [loading EXCEPT ![w] = <<>>]
  /\ known' = [known EXCEPT ![w].changes = IF tail # <<>> THEN {} ELSE @ \cup Range(changelog)]

Load(w) ==
  /\ loading[w] # <<>>
  /\ \/ Head(loading[w]) = "state"     /\ LoadState(w)
     \/ Head(loading[w]) = "snapshots" /\ LoadSnapshotFiles(w)
     \/ Head(loading[w]) = "changes"   /\ LoadChanges(w)
  /\ spoilt' = (spoilt \/ Races(w) \/ pending # {} \/ (written.changes # {} /\ stateFile = Nothing))
  /\ UNCHANGED <<queue, done, files, pending, saves, written>>

----------------------------------------------------------------------------
(* The writers (handle_request). *)

\* Variant: a checkpoint empties the changelog before the snapshot is in place.
OperationsTruncateFirst(request) ==
  CASE request.call = "state"      -> <<"empty", "state">>
    [] request.call = "change"     -> <<"length", "change">>
    [] request.call = "checkpoint" -> <<"truncate", "rename", "prune">>
\* fs::write empties the file first; a change's length is in the file when its
\* bytes are handed over; a snapshot is renamed when it is complete, and then the
\* changelog is emptied.
Operations(request) ==
  CASE request.call = "state"      -> <<"empty", "state">>
    [] request.call = "change"     -> <<"length", "change">>
    [] request.call = "checkpoint" -> <<"rename", "truncate", "prune">>

Step(w) == Operations(Head(queue[w]))[done[w] + 1]
Data(w) == Head(queue[w]).data
EmptyState(w) == stateFile' = Nothing /\ UNCHANGED <<changelog, tail, pending, snapshots>>
WriteState(w) == stateFile' = Data(w) /\ UNCHANGED <<changelog, tail, pending, snapshots>>
WriteLength(w) == tail' = Append(tail, Data(w)) /\ UNCHANGED <<stateFile, changelog, pending, snapshots>>
HandOver(w) == pending' = pending \cup {Data(w)} /\ UNCHANGED files
RenameSnapshot(w) == snapshots' = Append(snapshots, Data(w)) /\ UNCHANGED <<stateFile, changelog, tail, pending>>
Truncate(w) == changelog' = <<>> /\ tail' = <<>> /\ UNCHANGED <<stateFile, pending, snapshots>>
Prune(w) == snapshots' = Latest(snapshots, MaxSnapshots) /\ UNCHANGED <<stateFile, changelog, tail, pending>>

Record(request) ==
  CASE request.call = "state"  -> [written EXCEPT !.state = request.data]
    [] request.call = "change" -> [written EXCEPT !.changes = @ \cup {request.data}]
    [] request.call = "checkpoint" -> written

Writer(w) ==
  /\ queue[w] # <<>>
  /\ ~spoilt   \* bound: nothing is said of what is written later
  /\ \/ Step(w) = "empty"    /\ EmptyState(w)
     \/ Step(w) = "state"    /\ WriteState(w)
     \/ Step(w) = "length"   /\ WriteLength(w)
     \/ Step(w) = "change"   /\ HandOver(w)
     \/ Step(w) = "rename"   /\ RenameSnapshot(w)
     \/ Step(w) = "truncate" /\ Truncate(w)
     \/ Step(w) = "prune"    /\ Prune(w)
  /\ IF done[w] + 1 = Len(Operations(Head(queue[w])))
       THEN /\ done' = [done EXCEPT ![w] = 0]
            /\ queue' = [queue EXCEPT ![w] = Tail(@)]
            /\ written' = Record(Head(queue[w]))
       ELSE /\ done' = [done EXCEPT ![w] = @ + 1]
            /\ UNCHANGED <<queue, written>>
  /\ spoilt' = (spoilt \/ (Step(w) \in {"length", "truncate"} /\ pending # {}))
  /\ UNCHANGED <<known, loading, saves>>

\* The data reaches the end of the file, whatever has been done to it meanwhile.
Land(d) ==
  /\ d \in pending /\ pending' = pending \ {d}
  /\ IF tail = <<d>> THEN changelog' = Append(changelog, d) /\ tail' = <<>>
                    ELSE tail' = Append(tail, d) /\ UNCHANGED changelog
  /\ UNCHANGED <<known, loading, queue, done, stateFile, snapshots, saves, written, spoilt>>

----------------------------------------------------------------------------

\* The host crashes: instances, queues and what was under way are gone, the files stay.
Writing(w) == queue[w] # <<>> /\ Step(w) \in {"state", "change"}
CrashStorage ==
  /\ known' = [w \in Writers |-> Fresh]
  /\ loading' = [w \in Writers |-> ToLoad]
  /\ queue' = [w \in Writers |-> <<>>] /\ done' = [w \in Writers |-> 0]
  /\ pending' = {}
  /\ spoilt' = (spoilt \/ pending # {} \/ \E w \in Writers : Writing(w))
  /\ UNCHANGED <<files, saves, written>>

----------------------------------------------------------------------------
OnDisk == [state |-> stateFile, changes |-> (UNION Range(Latest(snapshots, LoadSnapshots))) \cup Range(changelog)]

\* The data that a half-written record waits for.
Awaited == pending \cup {Data(w) : w \in {v \in Writers : AtWork(v) /\ Step(v) = "change"}}

\* Whatever was handled can be loaded, or is under way to the end of the changelog:
\* no crash between the steps of a checkpoint loses it, and neither does pruning
\* (host_storage.rs handle_request).  Nothing is said once two writers were at work
\* together, or data under way was overtaken by the next request or lost in a crash.
HandledIsOnDisk == spoilt \/
  /\ written.changes \subseteq OnDisk.changes \cup pending
  /\ tail = <<>> \/ \E d \in Awaited : tail = <<d>>
  /\ stateFile = Nothing \/ stateFile >= written.state
=============================================================================
