--------------------------- MODULE AcceptorStorage -------------------------
(***************************************************************************)
(* One acceptor with persistent storage: the storage helper of             *)
(* core/acceptor/src/acceptor.rs.  Promises go to the current-state file,  *)
(* accepted p-values to the changelog, and every Interval slots a snapshot *)
(* replaces the changelog.  Bytes that do not decode make the load fail.   *)
(***************************************************************************)
EXTENDS Storage

CONSTANTS
  Values,         \* the commands
  MaxBallot       \* bound: the ballots are 1..MaxBallot

ASSUME BallotsAssumption == MaxBallot \in Nat \ {0}

VARIABLES
  promised,      \* the highest promised ballot
  accepted,      \* accepted[s], a p-value or Empty
  lastAccepted   \* last_snapshot_slot: the slot that called for the last snapshot

acceptorVars == <<promised, accepted, lastAccepted>>

PValue == [ballot : 1 .. MaxBallot, value : Values]

\* Neither an empty slot nor an empty file is taken for something else.
ASSUME NothingAssumption == Empty \notin PValue /\ Empty \notin 0 .. MaxBallot

AcceptorInit == promised = 0 /\ accepted = EmptyMap /\ lastAccepted = 0

\* Variant: the promise is not saved.
PrepareUnsaved(b) ==
  /\ Idle /\ b > promised
  /\ promised' = b
  /\ UNCHANGED <<accepted, lastAccepted, storageVars>>

\* A prepare with a higher ballot.
Prepare(b) ==
  /\ Idle /\ b > promised
  /\ promised' = b
  /\ BeginSaveState
  /\ UNCHANGED <<accepted, lastAccepted, buffer, changelog, tail, snapshots>>

\* The first accept for slot s, into memory and into the buffer.  A flush may be
\* due, by count or by time, before the snapshot.  (The slot of the snapshot is
\* noted when the snapshot is through; nobody looks at it before.)
Accept(s, pv) ==
  /\ Idle
  /\ pv.ballot >= promised
  /\ accepted[s] = Empty
  /\ RoomFor(1)
  /\ SnapshotDue(s, lastAccepted) => RoomForSnapshot
  /\ accepted' = [accepted EXCEPT ![s] = pv]
  /\ SaveChange([slot |-> s, entry |-> pv])
  /\ \E due \in {<<>>, <<"flush">>} :
       job' = due \o IF SnapshotDue(s, lastAccepted) THEN Checkpoint ELSE <<>>
  /\ lastAccepted' = IF SnapshotDue(s, lastAccepted) THEN s ELSE lastAccepted
  /\ UNCHANGED <<promised, stateFile, snapshots>>

\* A tick flushes what has waited for too long.
AcceptorTick ==
  /\ Idle /\ buffer # <<>>
  /\ job' = <<"flush">>
  /\ UNCHANGED <<acceptorVars, buffer, disk>>

AcceptorFileStep ==
  /\ FileStep(promised, [entries |-> Trimmed(accepted), adu |-> 0])
  /\ accepted' = IF Head(job) = "prune" THEN Kept(accepted) ELSE accepted
  /\ UNCHANGED <<promised, lastAccepted>>

\* What a fresh process makes of the files: nothing at all when the current
\* state does not decode.
RestartAcceptor ==
  /\ promised' = IF stateFile = Empty THEN 0 ELSE stateFile
  /\ accepted' \in IF stateFile = Empty THEN {EmptyMap} ELSE RecoveredMaps
  /\ lastAccepted' = 0
  /\ CrashFiles

AcceptorNext == \/ \E b \in 1 .. MaxBallot : Prepare(b)
                \/ \E s \in Slots, pv \in PValue : Accept(s, pv)
                \/ AcceptorTick
                \/ AcceptorFileStep
                \/ RestartAcceptor

acceptorStorageVars == <<acceptorVars, storageVars>>

AcceptorSpec == AcceptorInit /\ StorageInit /\ [][AcceptorNext]_acceptorStorageVars

----------------------------------------------------------------------------
\* Do the files decode?  The current state does unless it was never written or a
\* crash hits save_state half-way, the changelog unless the writer's buffer
\* overflowed in the middle of a record.
Readable == stateFile # Empty /\ tail = "clean"

\* Once save_state is through, and the answer may go out, no crash makes the
\* acceptor forget its promise.  (A crash within save_state may: the file is
\* empty then, and the promises answered before are gone as well.)
Saving == job # <<>> /\ Head(job) = "write"
PromiseSurvives == [][~Saving => promised' >= promised]_acceptorStorageVars

\* What a restart forgets: p-values that are in memory and no longer wait in
\* the writer's buffer.
Forgets(s) == accepted[s] # Empty /\ ~Waiting(s) /\ accepted'[s] # accepted[s]

\* The Interval highest accepted slots survive every crash, also one in the
\* middle of a checkpoint (storage.rs, "Atomically create/rotate a new snapshot
\* and truncate changelog").
Recent == {s \in Slots : Trimmed(accepted)[s] # Empty}
RecentSurvives == [][RestartAcceptor /\ Readable => \A s \in Recent : ~Forgets(s)]_acceptorStorageVars
=============================================================================
