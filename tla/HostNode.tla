------------------------------ MODULE HostNode ------------------------------
(***************************************************************************)
(* One node of the host program: its supervisor, and the storage its       *)
(* instances use.  An instance loads its state in its constructor and then *)
(* saves as it runs.  The host itself may crash and is started again.      *)
(***************************************************************************)
EXTENDS HostSupervisor, HostStorage

CONSTANT MaxCrashes   \* bound: crashes of the host

VARIABLE crashes

ASSUME WritersAssumption == Writers = Instances /\ MaxCrashes \in Nat

hostVars == <<supervisorVars, storageVars, crashes>>

HostInit == SupervisorInit /\ StorageInit /\ crashes = 0

\* The storage calls of an instance (constructor, then run loop).
Call(i) == \/ state[i] = "starting" /\ Load(i)
           \/ state[i] = "running" /\ (SaveState(i) \/ SaveChange(i) \/ Checkpoint(i))

\* Everything in memory is lost, the main loops start from nothing.  (Bound: a host
\* with a troubled instance does not crash, and a crashed one has no troubles.)
HostCrash ==
  /\ crashes < MaxCrashes /\ troubles = 0
  /\ crashes' = crashes + 1
  /\ built' = 0 /\ ready' = 0 /\ builder' = 0
  /\ stage' = "recv" /\ current' = 0 /\ retries' = 0 /\ crashSlots' = 1
  /\ state' = [i \in Instances |-> "built"]
  /\ aborted' = {}
  /\ monitor' = [i \in Instances |-> "off"]
  /\ control' = [i \in Instances |-> [pinged |-> FALSE, silent |-> 0, shutdown |-> FALSE]]
  /\ troubles' = MaxTroubles
  /\ CrashStorage

HostNext ==
  \/ /\ UNCHANGED <<storageVars, crashes>>
     /\ \/ MainLoop
        \/ \E i \in Instances : Watch(i) \/ Ping(i) \/ Fail(i) \/ Cancel(i)
                                \/ (loading[i] = <<>> /\ Constructed(i))
  \/ /\ UNCHANGED <<supervisorVars, crashes>>
     /\ (\E i \in Instances : Call(i) \/ Writer(i)) \/ (\E d \in pending : Land(d))
  \/ HostCrash

HostSpec == HostInit /\ [][HostNext]_hostVars /\ SupervisorFairness
=============================================================================
