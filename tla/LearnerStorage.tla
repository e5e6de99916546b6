--------------------------- MODULE LearnerStorage ---------------------------
(***************************************************************************)
(* One learner with persistent storage: the storage helper of              *)
(* core/learner/src/learner.rs below the agent's handling of a learn.      *)
(* Learned entries go to the changelog; when the executed prefix grows to  *)
(* a slot that calls for one, a snapshot of the highest entries and of the *)
(* adu replaces it.  A slot has one command, which the slot stands for.    *)
(***************************************************************************)
EXTENDS Storage

VARIABLES
  learned,       \* learned[s], a command or Empty
  adu,           \* the slots up to here are executed
  lastExecuted,  \* last_snapshot_slot: the adu of the last snapshot
  ever           \* the slots learned in any life of the process

learnerVars == <<learned, adu, lastExecuted, ever>>
learnerStorageVars == <<learnerVars, storageVars>>

LearnerInit == learned = EmptyMap /\ adu = 0 /\ lastExecuted = 0 /\ ever = {}

\* Variant: the cursor goes to the highest slot, over the gaps.
OverGaps(map, from) == Max({from} \cup Held(map))

\* How far the entries of a map reach behind slot from.
Contiguous(map, from) == Max({n \in from .. MaxSlot : \A s \in from + 1 .. n : map[s] # Empty})

\* A new learn goes to memory and to the writer's buffer; what it makes
\* executable is executed, and a snapshot taken if the last executed slot calls
\* for one.  A flush may be due before that.
LearnSlot(s) ==
  /\ Idle /\ learned[s] = Empty /\ RoomFor(1)
  /\ LET map      == [learned EXCEPT ![s] = s]
         executed == Contiguous(map, adu)
         snapshot == executed > adu /\ SnapshotDue(executed, lastExecuted)
     IN /\ snapshot => RoomForSnapshot
        /\ learned' = map
        /\ ever' = ever \cup {s}
        /\ adu' = executed
        /\ SaveChange([slot |-> s, entry |-> s])
        /\ \E due \in {<<>>, <<"flush">>} : job' = due \o IF snapshot THEN Checkpoint ELSE <<>>
        /\ lastExecuted' = IF snapshot THEN executed ELSE lastExecuted
        /\ UNCHANGED <<stateFile, snapshots>>

\* A tick flushes what has waited for too long.
LearnerFlush ==
  /\ Idle /\ buffer # <<>>
  /\ job' = <<"flush">>
  /\ UNCHANGED <<learnerVars, buffer, disk>>

LearnerFileStep ==
  /\ FileStep(Empty, [entries |-> Trimmed(learned), adu |-> adu])
  /\ learned' = IF Head(job) = "prune" THEN Kept(learned) ELSE learned
  /\ UNCHANGED <<adu, lastExecuted, ever>>

\* A fresh process takes the adu of the last snapshot and goes on over the
\* entries that follow it.
SnapshotAdu == IF Loaded = <<>> THEN 0 ELSE Loaded[Len(Loaded)].adu
RestartLearner ==
  /\ \E map \in RecoveredMaps :
       /\ learned' = map
       /\ adu' = IF tail = "clean" THEN Contiguous(map, SnapshotAdu)
                 ELSE IF map = EmptyMap THEN 0 ELSE SnapshotAdu
  /\ lastExecuted' = 0
  /\ UNCHANGED ever
  /\ CrashFiles

LearnerNext == \/ \E s \in Slots : LearnSlot(s)
               \/ LearnerFlush
               \/ LearnerFileStep
               \/ RestartLearner

LearnerSpec == LearnerInit /\ StorageInit /\ [][LearnerNext]_learnerStorageVars

----------------------------------------------------------------------------
\* Whatever snapshot and whatever records a restart finds, the slots a learner
\* takes for executed are slots it has learned, in this life or an earlier one
\* (learner.rs load_and_replay_state, "Advance ADU over any contiguous tail").
AduIsLearned == 1 .. adu \subseteq ever

\* Once a checkpoint's snapshot is in place, no later crash makes the learner
\* start below it, whichever snapshots were pruned and wherever in the
\* checkpoint the crash comes.
InPlace == \A i \in DOMAIN job : job[i] # "rename"
CheckpointSurvives ==
  [][RestartLearner /\ tail = "clean" /\ InPlace => adu' >= lastExecuted]_learnerStorageVars

\* The Interval highest learned slots that have left the writer's buffer are
\* found again, or lie below the adu that is.
RecentLearned == {s \in Slots : Trimmed(learned)[s] # Empty /\ ~Waiting(s)}
RecentLearnedSurvives ==
  [][RestartLearner /\ tail = "clean" => \A s \in RecentLearned : learned'[s] # Empty \/ s <= adu']_learnerStorageVars
=============================================================================
