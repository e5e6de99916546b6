--------------------------- MODULE HostSupervisor ---------------------------
(***************************************************************************)
(* One node of the host program (runner-ws/src/run.rs run_cluster,         *)
(* host_control.rs): a builder keeps one instance of the component ready,  *)
(* the main loop runs it and replaces it when it fails or when its monitor *)
(* misses its pings.  Instances are numbered as they are built.            *)
(*                                                                         *)
(* An instance that is wedged is stuck in a call that never returns, and   *)
(* an abort does not reach it either.                                      *)
(***************************************************************************)
EXTENDS Integers, FiniteSets

CONSTANTS
  MaxRetries,     \* MAX_RETRIES
  ShutdownAfter,  \* SHUTDOWN_TIMEOUT_INTERVALS
  MaxTroubles     \* bound: instances that trap, get wedged or are too slow

ASSUME SupervisorAssumption == MaxRetries \in Nat \ {0} /\ ShutdownAfter \in Nat /\ MaxTroubles \in Nat

\* Bound: every trouble costs one instance, one runs and one is ready.
Instances == 1 .. MaxTroubles + 2

VARIABLES
  built,      \* the instances built so far
  ready,      \* the channel of one: the instance that is ready, or 0
  builder,    \* failed attempts in a row; MaxRetries when the builder has left
  stage,      \* the main loop: "recv", "running", "grace", "gave up", "ended"
  current,    \* the instance it runs or ran last, 0 before the first
  retries,    \* main_retries
  crashSlots, \* how many crash slots run_config still has for the node
  state,      \* state[i]: "built", "starting", "running", "wedged" or how i ended
  aborted,    \* the instances whose task was aborted
  monitor,    \* monitor[i]: "first" (waits for a ping), "watch", "fired", "off"
  control,    \* control[h]: a control handle: pinged yet, heartbeats since, pending command
  troubles    \* troubles so far

supervisorVars == <<built, ready, builder, stage, current, retries, crashSlots,
                    state, aborted, monitor, control, troubles>>
mainVars == <<built, ready, builder, stage, current, retries, crashSlots>>

\* Variant: the handlers share one control handle.
SharedHandle(i) == 1
\* Every instance is built with a control handle of its own.
Handle(i) == i

SupervisorInit ==
  /\ built = 0 /\ ready = 0 /\ builder = 0
  /\ stage = "recv" /\ current = 0 /\ retries = 0 /\ crashSlots = 1
  /\ state = [i \in Instances |-> "built"]
  /\ aborted = {}
  /\ monitor = [i \in Instances |-> "off"]
  /\ control = [i \in Instances |-> [pinged |-> FALSE, silent |-> 0, shutdown |-> FALSE]]
  /\ troubles = 0

Executing(i) == state[i] \in {"starting", "running"}
Finished(i)  == state[i] \in {"exited", "failed", "cancelled"}

----------------------------------------------------------------------------
(* The builder task. *)

BuildInstance ==
  /\ builder < MaxRetries /\ ready = 0 /\ built + 1 \in Instances
  /\ \/ built' = built + 1 /\ ready' = built + 1 /\ builder' = 0
     \/ builder' = builder + 1 /\ UNCHANGED <<built, ready>>
  /\ UNCHANGED <<stage, current, retries, crashSlots, state, aborted, monitor, control, troubles>>

----------------------------------------------------------------------------
(* The main loop. *)

\* An instance is taken from the channel and started, and its monitor with it.
StartInstance ==
  /\ stage = "recv" /\ ready # 0
  /\ ready' = 0 /\ current' = ready /\ stage' = "running"
  /\ state' = [state EXCEPT ![ready] = "starting"]
  /\ monitor' = [monitor EXCEPT ![ready] = "first"]
  /\ UNCHANGED <<built, builder, retries, crashSlots, aborted, control, troubles>>

\* The builder has left and the channel is empty.
EndLoop ==
  /\ stage = "recv" /\ ready = 0 /\ builder = MaxRetries
  /\ stage' = "ended"
  /\ UNCHANGED <<built, ready, builder, current, retries, crashSlots, state, aborted, monitor, control, troubles>>

\* A monitor is stopped unless it has finished.
Stopped(m) == IF m = "fired" THEN m ELSE "off"

\* select: the run ended first.  A clean exit leads to the next instance at once.
RunFinished ==
  /\ stage = "running" /\ Finished(current)
  /\ stage' = IF state[current] = "exited" THEN "recv" ELSE "grace"
  /\ monitor' = [monitor EXCEPT ![current] = Stopped(@)]
  /\ UNCHANGED <<built, ready, builder, current, retries, crashSlots, state, aborted, control, troubles>>

\* select: the monitor fired first.
MonitorFinished ==
  /\ stage = "running" /\ monitor[current] = "fired"
  /\ stage' = "grace"
  /\ UNCHANGED <<built, ready, builder, current, retries, crashSlots, state, aborted, monitor, control, troubles>>

\* Variant: what does not stop by itself is left alone.
GraceOverNoAbort ==
  /\ stage = "grace"
  /\ monitor' = [monitor EXCEPT ![current] = Stopped(@)]
  /\ retries' = retries + 1
  /\ stage' = IF retries' >= MaxRetries THEN "gave up" ELSE "recv"
  /\ crashSlots' = IF retries' < MaxRetries /\ crashSlots > 0 THEN crashSlots - 1 ELSE crashSlots
  /\ UNCHANGED <<built, ready, builder, current, state, aborted, control, troubles>>

\* After the grace period: abort what still runs (without waiting for its end),
\* count the retry, forget a crash slot, and go on or give up for good.
GraceOver ==
  /\ stage = "grace"
  /\ aborted' = IF Finished(current) THEN aborted ELSE aborted \cup {current}
  /\ monitor' = [monitor EXCEPT ![current] = Stopped(@)]
  /\ retries' = retries + 1
  /\ stage' = IF retries' >= MaxRetries THEN "gave up" ELSE "recv"
  /\ crashSlots' = IF retries' < MaxRetries /\ crashSlots > 0 THEN crashSlots - 1 ELSE crashSlots
  /\ UNCHANGED <<built, ready, builder, current, state, control, troubles>>

----------------------------------------------------------------------------
(* The monitor. *)

SeePing(i) ==
  /\ monitor[i] = "first" /\ control[Handle(i)].pinged
  /\ monitor' = [monitor EXCEPT ![i] = "watch"]
  /\ UNCHANGED <<mainVars, state, aborted, control, troubles>>

\* A heartbeat interval without a ping: of an instance that is wedged, has ended
\* or is too slow.
Silence(i) ==
  /\ monitor[i] = "watch" /\ control[Handle(i)].silent <= ShutdownAfter
  /\ control' = [control EXCEPT ![Handle(i)].silent = @ + 1]
  /\ troubles' = IF Executing(i) /\ control[Handle(i)].silent = ShutdownAfter THEN troubles + 1 ELSE troubles
  /\ troubles' <= MaxTroubles
  /\ UNCHANGED <<mainVars, state, aborted, monitor>>

\* Variant: the monitor requests the shutdown and goes on watching.
FireAndWatch(i) ==
  /\ monitor[i] = "watch" /\ control[Handle(i)].silent > ShutdownAfter
  /\ control' = [control EXCEPT ![Handle(i)].shutdown = TRUE]
  /\ UNCHANGED <<mainVars, state, aborted, monitor, troubles>>

\* Too long without a ping: shutdown is requested and the monitor ends.
Fire(i) ==
  /\ monitor[i] = "watch" /\ control[Handle(i)].silent > ShutdownAfter
  /\ monitor' = [monitor EXCEPT ![i] = "fired"]
  /\ control' = [control EXCEPT ![Handle(i)].shutdown = TRUE]
  /\ UNCHANGED <<mainVars, state, aborted, troubles>>

----------------------------------------------------------------------------
(* The instance, as far as the host sees it. *)

\* record_ping and get_command: nothing is pending any more.
Recorded == [pinged |-> TRUE, silent |-> 0, shutdown |-> FALSE]

\* The top of the runner's loop: ping, and take the command that is pending.  A
\* shutdown ends the run after this round of the loop.
Ping(i) ==
  /\ state[i] = "running"
  /\ control' = [control EXCEPT ![Handle(i)] = Recorded]
  /\ state' = [state EXCEPT ![i] = IF control[Handle(i)].shutdown THEN "exited" ELSE @]
  /\ UNCHANGED <<mainVars, aborted, monitor, troubles>>

\* The constructor is through.
Constructed(i) ==
  /\ state[i] = "starting"
  /\ state' = [state EXCEPT ![i] = "running"]
  /\ UNCHANGED <<mainVars, aborted, monitor, control, troubles>>

\* A trap or a crash slot; or a call that never returns.
Fail(i) ==
  /\ Executing(i) /\ troubles < MaxTroubles
  /\ troubles' = troubles + 1
  /\ \E s \in {"failed", "wedged"} : state' = [state EXCEPT ![i] = s]
  /\ UNCHANGED <<mainVars, aborted, monitor, control>>

\* An abort reaches the instance the next time it waits.
Cancel(i) ==
  /\ i \in aborted /\ Executing(i)
  /\ state' = [state EXCEPT ![i] = "cancelled"]
  /\ UNCHANGED <<mainVars, aborted, monitor, control, troubles>>

MainLoop == BuildInstance \/ StartInstance \/ EndLoop \/ RunFinished \/ MonitorFinished \/ GraceOver
Watch(i) == SeePing(i) \/ Silence(i) \/ Fire(i)
SupervisorNext == MainLoop \/ \E i \in Instances : Watch(i) \/ Ping(i) \/ Constructed(i) \/ Fail(i) \/ Cancel(i)

\* The host's tasks are scheduled; an instance need not make progress.
SupervisorFairness == WF_supervisorVars(BuildInstance) /\ WF_supervisorVars(StartInstance)
  /\ WF_supervisorVars(EndLoop) /\ WF_supervisorVars(RunFinished)
  /\ WF_supervisorVars(MonitorFinished) /\ WF_supervisorVars(GraceOver)
  /\ \A i \in Instances : WF_supervisorVars(Watch(i))

----------------------------------------------------------------------------
\* At most one instance of a node runs, but for those whose abort is on its way
\* or cannot reach them (run.rs, "Ensure monitor is stopped", "Runner terminated").
OneInstance == \A i, j \in Instances :
  i < j /\ state[i] \in {"starting", "running", "wedged"} /\ state[j] # "built" => i \in aborted

\* No instance stops because of a shutdown that was meant for another one: its own
\* monitor has missed it (run.rs request_shutdown, runner.rs handle_host_control).
OwnShutdown == \A i \in Instances : state[i] = "exited" => monitor[i] = "fired"

\* An instance that has pinged and stops pinging for good, or fails, is replaced,
\* unless the main loop gives up or has nothing left to run.
Lost(i) == current = i /\ (state[i] = "failed" \/ (state[i] = "wedged" /\ control[Handle(i)].pinged))
Replaced == \A i \in Instances : Lost(i) ~> (current # i \/ stage \in {"gave up", "ended"})
=============================================================================
