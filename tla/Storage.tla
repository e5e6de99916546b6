------------------------------ MODULE Storage -------------------------------
(***************************************************************************)
(* The storage component (core/storage/src/storage.rs) as one process uses *)
(* it: a current-state file, a changelog behind a buffered writer, and     *)
(* snapshots that replace the changelog.  The process may crash between    *)
(* any two file operations.  The machine itself does not fail, so that     *)
(* fsync is left out, and neither do the file operations.                  *)
(***************************************************************************)
EXTENDS Integers, FiniteSets, FiniteSetsExt, Sequences, Functions

CONSTANTS
  Empty,          \* no entry, an empty file
  MaxSlot,        \* bound: the slots are 1..MaxSlot
  Interval,       \* run-config storage-snapshot-slot-interval
  Offset,         \* the slots that call for a snapshot, modulo Interval (a hash of the node's key)
  MaxSnapshots,   \* run-config storage-max-snapshots
  LoadSnapshots,  \* run-config storage-load-snapshots
  MaxRecords,     \* bound: no new record while the changelog and the buffer hold that many
  MaxFiles        \* bound: no snapshot is begun while that many are on disk (crashes before a prune leave them)

ASSUME SlotsAssumption == MaxSlot \in Nat \ {0}
ASSUME SnapshotAssumption == /\ Interval \in Nat \ {0} /\ Offset \in 0 .. Interval - 1
                             /\ MaxSnapshots \in Nat \ {0} /\ LoadSnapshots \in Nat
ASSUME DiskAssumption == MaxRecords \in Nat /\ MaxFiles \in Nat

VARIABLES
  buffer,        \* memory: the records the changelog writer holds
  job,           \* the file operations the handler under way has still to make
  stateFile,     \* disk: the current state, Empty before it is written
  changelog,     \* disk: the records written
  tail,          \* disk: is the changelog's end "clean", "half" a record, or "garbage"?
  snapshots      \* disk: the snapshots, oldest first

disk == <<stateFile, changelog, tail, snapshots>>
storageVars == <<buffer, job, disk>>

Slots == 1 .. MaxSlot
ASSUME EmptyAssumption == Empty \notin Slots
\* What a role keeps is a map from slots to entries.
EmptyMap == [s \in Slots |-> Empty]
Held(map) == {s \in Slots : map[s] # Empty}

StorageInit ==
  /\ buffer = <<>> /\ job = <<>>
  /\ stateFile = Empty /\ changelog = <<>> /\ tail = "clean" /\ snapshots = <<>>

\* A handler starts when the one before is through.
Idle == job = <<>>
RoomFor(records) == Len(changelog \o buffer) + records <= MaxRecords
RoomForSnapshot  == Len(snapshots) < MaxFiles

\* save_change: the record goes to the writer's buffer.  An overflowing buffer
\* first goes to the changelog, and if it overflows between the record's length and
\* its bytes, the length goes with it.
SaveChange(record) ==
  \/ buffer' = Append(buffer, record) /\ UNCHANGED <<changelog, tail>>
  \/ /\ changelog' = changelog \o buffer
     /\ buffer' = <<record>>
     /\ tail' \in IF tail = "garbage" THEN {"garbage"} ELSE {"clean", "half"}

\* save_state truncates the file, then writes it.
BeginSaveState == stateFile' = Empty /\ job' = <<"write">>

\* Variant: the changelog is truncated before the snapshot is in place.
TruncateFirst == <<"flush", "truncate", "rename", "prune">>
Checkpoint == <<"flush", "rename", "truncate", "prune">>

\* Does slot s call for a snapshot?
SnapshotDue(s, last) == s % Interval = Offset /\ s > last

----------------------------------------------------------------------------
(* The file operations. *)

\* The writer's buffer reaches the file; half a record becomes a whole one.
Flush ==
  /\ changelog' = changelog \o buffer
  /\ buffer' = <<>>
  /\ tail' = IF tail = "half" THEN "clean" ELSE tail
  /\ UNCHANGED <<stateFile, snapshots>>

WriteState(state) == stateFile' = state /\ UNCHANGED <<buffer, changelog, tail, snapshots>>
RenameSnapshot(snapshot) == /\ snapshots' = Append(snapshots, snapshot)
                            /\ UNCHANGED <<buffer, stateFile, changelog, tail>>
TruncateChangelog == /\ changelog' = <<>> /\ tail' = "clean"
                     /\ UNCHANGED <<buffer, stateFile, snapshots>>

Latest(q, n) == SubSeq(q, Len(q) - (IF n < Len(q) THEN n ELSE Len(q)) + 1, Len(q))

\* Variant: the list is sorted the other way.
PruneNewest == /\ snapshots' = SubSeq(snapshots, 1, Min({Len(snapshots), MaxSnapshots}))
               /\ UNCHANGED <<buffer, stateFile, changelog, tail>>
PruneSnapshots == /\ snapshots' = Latest(snapshots, MaxSnapshots)
                  /\ UNCHANGED <<buffer, stateFile, changelog, tail>>

\* The next operation of the job, for a process with that state and snapshot.
FileStep(state, snapshot) ==
  /\ job # <<>>
  /\ job' = Tail(job)
  /\ CASE Head(job) = "write"    -> WriteState(state)
       [] Head(job) = "flush"    -> Flush
       [] Head(job) = "rename"   -> RenameSnapshot(snapshot)
       [] Head(job) = "truncate" -> TruncateChangelog
       [] Head(job) = "prune"    -> PruneSnapshots

\* A snapshot holds the Interval highest slots of a map.  What its role keeps in
\* memory then is what the retained snapshots can span.
Trimmed(map) == [s \in Slots |->
  IF Cardinality({t \in Held(map) : t > s}) < Interval THEN map[s] ELSE Empty]
Kept(map) == [s \in Slots |->
  IF s > Max(Held(map)) - Interval * MaxSnapshots THEN map[s] ELSE Empty]

----------------------------------------------------------------------------
(* A crash, and what a fresh process finds. *)

CrashFiles ==
  /\ buffer' = <<>> /\ job' = <<>>
  /\ tail' = IF tail = "half" THEN "garbage" ELSE tail
  /\ UNCHANGED <<stateFile, changelog, snapshots>>

\* For every slot its last record, or else the entry of the last loaded snapshot.
Loaded == Latest(snapshots, LoadSnapshots)
InChangelog(s) == {i \in DOMAIN changelog : changelog[i].slot = s}
InSnapshots(s) == {i \in DOMAIN Loaded : Loaded[i].entries[s] # Empty}
FromSnapshots(s) == IF InSnapshots(s) # {} THEN Loaded[Max(InSnapshots(s))].entries[s] ELSE Empty
Recovered(s) == IF InChangelog(s) # {} THEN changelog[Max(InChangelog(s))].entry ELSE FromSnapshots(s)

\* A changelog with a broken end fails to load before anything is taken over, or,
\* when records were written behind it, once the snapshots are.  (That its bytes
\* happen to decode to a wrong record is left out.)
RecoveredMaps == IF tail = "clean" THEN {[s \in Slots |-> Recovered(s)]}
                 ELSE {EmptyMap, [s \in Slots |-> FromSnapshots(s)]}

\* Does slot s wait in the writer's buffer?
Waiting(s) == \E i \in DOMAIN buffer : buffer[i].slot = s
=============================================================================
