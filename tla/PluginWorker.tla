---------------------------- MODULE PluginWorker ----------------------------
(***************************************************************************)
(* The worker of one plugin: server/src/services/plugin-worker-manager.ts, *)
(* driven by plugin-lifecycle.ts and plugin-loader.ts.                     *)
(*                                                                         *)
(* A flow is an invocation of startInternal or stopInternal that awaits    *)
(* something: "op" for the operation of an operator, "auto" for the        *)
(* restart after a crash.  The "exit" event of a process reaches the       *)
(* server some time after the process has died.  Operations on the plugin  *)
(* are taken one at a time, and a process that was sent SIGKILL is gone    *)
(* within the 2 s stopInternal waits for it.                               *)
(***************************************************************************)
EXTENDS Naturals

CONSTANTS
  Calls,    \* RPC calls of the host: jobs, webhooks, getData
  MaxConsecutiveCrashes,
  MaxProcs  \* bound: processes ever spawned

ASSUME BoundsAssumption == MaxConsecutiveCrashes \in Nat /\ MaxProcs \in Nat

VARIABLES
  plugin,     \* plugins.status
  registered, \* the manager's map has a handle
  status,     \* WorkerStatus of the handle
  child,      \* childProcess; 0: null
  intentional,\* intentionalStop
  crashes,    \* consecutiveCrashes
  timer,      \* backoffTimer is armed
  flow,       \* what startInternal and stopInternal are waiting for
  spawned,    \* processes spawned so far
  proc,       \* the processes: none, alive, dying (no exit event yet), gone
  call        \* RPC calls

handle == <<registered, status, child, intentional, crashes, timer>>
vars   == <<plugin, handle, flow, spawned, proc, call>>

Procs == 1..MaxProcs
Flows == {"op", "auto"}
Idle  == [pc |-> "idle", goal |-> "none"]

Channel == INSTANCE RpcChannel WITH up <- child

At(f, pc) == flow[f].pc = pc
Become(f, pc) == flow' = [flow EXCEPT ![f].pc = pc]
Starting == {f \in Flows : At(f, "init")}
Running == registered /\ status = "running"

\* A failed activation marks the plugin; a failed restart does not.
FailedPlugin(f) == IF flow[f].goal = "enable" THEN "error" ELSE plugin

Kill(p) == proc' = [proc EXCEPT ![p] = IF @ = "alive" THEN "dying" ELSE @]

-----------------------------------------------------------------------------
(* startInternal *)

Spawn(f, goal) ==
  /\ spawned < MaxProcs
  /\ spawned' = spawned + 1
  /\ proc' = [proc EXCEPT ![spawned'] = "alive"]
  /\ child' = spawned'
  /\ status' = "starting" /\ intentional' = FALSE
  /\ flow' = [flow EXCEPT ![f] = [pc |-> "init", goal |-> goal]]

MayStart == status \notin {"running", "starting"}

\* initialize is answered, even by a worker that is being stopped meanwhile.
InitOk(f) ==
  /\ At(f, "init") /\ proc[child] = "alive"
  /\ crashes' = 0 /\ status' = "running"
  /\ flow' = [flow EXCEPT ![f] = Idle]
  /\ UNCHANGED <<plugin, registered, child, intentional, timer, spawned, proc, call>>

\* It is answered with an error, or not in time: the process is killed.
InitFails(f) ==
  /\ At(f, "init")
  /\ intentional' = TRUE
  /\ Kill(child)
  /\ Become(f, "slain")
  /\ UNCHANGED <<plugin, registered, status, child, crashes, timer, spawned, call>>

\* The exit has come, or killProcess no longer waits for it.
SlainEnds(f) ==
  /\ At(f, "slain")
  /\ status' = "crashed"
  /\ plugin' = FailedPlugin(f)
  /\ flow' = [flow EXCEPT ![f] = Idle]
  /\ UNCHANGED <<registered, child, intentional, crashes, timer, spawned, proc, call>>

-----------------------------------------------------------------------------
(* The end of a process *)

\* On its own accord, or as it is told to.
Dies(p) ==
  /\ proc[p] = "alive"
  /\ intentional \/ spawned < MaxProcs
  /\ Kill(p)
  /\ UNCHANGED <<plugin, handle, flow, spawned, call>>

\* Mistake: calls are left to their timeouts when the stop was intended.
RejectUnlessIntended ==
  call' = [c \in Calls |-> IF Channel!InFlight(c) /\ ~intentional
                           THEN [call[c] EXCEPT !.st = "failed"] ELSE call[c]]
RejectAllPending ==
  call' = [c \in Calls |-> IF Channel!InFlight(c)
                           THEN [call[c] EXCEPT !.st = "failed"] ELSE call[c]]

WillRestart(count) == ~intentional /\ count <= MaxConsecutiveCrashes

\* handleProcessExit, and the catch block of a startInternal whose initialize it
\* rejects.  The counter restarts when the last crash is long ago.
ExitEvent(p, longAgo) ==
  LET count == IF longAgo THEN 1 ELSE crashes + 1
      again == WillRestart(count)
  IN
  /\ proc[p] = "dying"
  /\ proc' = [proc EXCEPT ![p] = "gone"]
  /\ child' = 0
  /\ RejectAllPending
  /\ crashes' = IF intentional THEN crashes ELSE count
  /\ timer' = (timer \/ again)
  /\ status' = IF Starting # {} THEN "crashed"
               ELSE IF intentional THEN "stopped"
               ELSE IF again THEN "backoff" ELSE "crashed"
  /\ flow' = [f \in Flows |-> IF f \in Starting THEN Idle ELSE flow[f]]
  /\ plugin' = IF "op" \in Starting THEN FailedPlugin("op") ELSE plugin
  /\ UNCHANGED <<registered, intentional, spawned>>

\* The timer of scheduleRestart
Restarts ==
  /\ timer
  /\ timer' = FALSE
  /\ IF MayStart THEN Spawn("auto", "none")
     ELSE UNCHANGED <<status, child, intentional, flow, spawned, proc>>
  /\ UNCHANGED <<plugin, registered, crashes, call>>

-----------------------------------------------------------------------------
(* stopInternal, for what the operation wants next *)

\* startWorker for a plugin that is ready: a new handle, unless one is left.
StartWorker ==
  IF registered /\ status # "stopped"
  THEN /\ plugin' = "error"
       /\ flow' = [flow EXCEPT !["op"] = Idle]
       /\ UNCHANGED <<handle, spawned, proc>>
  ELSE /\ Spawn("op", "enable")
       /\ plugin' = "ready"
       /\ registered' = TRUE /\ crashes' = 0 /\ timer' = FALSE

\* Without a process to wait for
Stopped(goal) ==
  CASE goal = "restart" ->
         /\ Spawn("op", goal)
         /\ UNCHANGED <<plugin, registered, crashes>>
    [] goal = "upgrade" ->
         /\ Spawn("op", "enable")
         /\ registered' = TRUE /\ crashes' = 0
         /\ UNCHANGED plugin
    [] OTHER ->
         /\ status' = "stopped"
         /\ registered' = FALSE
         /\ plugin' = goal
         /\ flow' = [flow EXCEPT !["op"] = Idle]
         /\ UNCHANGED <<child, intentional, crashes, spawned, proc>>

\* Mistake: the restart that waits for its backoff is not cancelled.
KeepsTimer == timer' = timer
CancelPendingRestart == timer' = FALSE

StopInternal(goal) ==
  /\ CancelPendingRestart
  /\ IF child = 0 \/ status \in {"stopped", "stopping"}
     THEN Stopped(goal)
     ELSE /\ intentional' = TRUE /\ status' = "stopping"
          /\ flow' = [flow EXCEPT !["op"] = [pc |-> "drain", goal |-> goal]]
          /\ UNCHANGED <<plugin, registered, child, crashes, spawned, proc>>

\* The shutdown RPC is answered, or 10 s are over: SIGTERM.
DrainEnds ==
  /\ At("op", "drain") /\ child # 0
  /\ Become("op", "term")
  /\ UNCHANGED <<plugin, handle, spawned, proc, call>>

\* Mistake: after SIGTERM the stop waits for the process without a limit.
TermIsLast == At("op", "term") /\ child # 0 /\ UNCHANGED vars

\* 5 s are over: SIGKILL.
TermEnds ==
  /\ At("op", "term") /\ child # 0
  /\ Become("op", "kill")
  /\ Kill(child)
  /\ UNCHANGED <<plugin, handle, spawned, call>>

\* The process it waits for is gone.
StopEnds ==
  /\ flow["op"].pc \in {"drain", "term", "kill"} /\ child = 0
  /\ Stopped(flow["op"].goal)
  /\ UNCHANGED <<timer, call>>

-----------------------------------------------------------------------------
(* Operations: enable, disable (and uninstall), upgrade, restartWorker *)

\* deactivatePluginRuntime stops only a handle that runs.
Enable ==
  /\ At("op", "idle") /\ plugin \in {"disabled", "error"}
  /\ spawned < MaxProcs
  /\ IF Running THEN StopInternal("error") ELSE StartWorker
  /\ UNCHANGED call

Disable ==
  /\ At("op", "idle") /\ plugin = "ready"
  /\ IF Running THEN StopInternal("disabled")
     ELSE plugin' = "disabled" /\ UNCHANGED <<handle, flow, spawned, proc>>
  /\ UNCHANGED call

Upgrade ==
  /\ At("op", "idle") /\ plugin = "ready"
  /\ spawned < MaxProcs
  /\ IF Running THEN StopInternal("upgrade") ELSE StartWorker
  /\ UNCHANGED call

Restart ==
  /\ At("op", "idle") /\ plugin = "ready" /\ registered
  /\ spawned < MaxProcs
  /\ StopInternal("restart")
  /\ UNCHANGED call

-----------------------------------------------------------------------------
(* RPC calls *)

CanSend == registered /\ status \in {"running", "starting"} /\ child # 0

\* call: refused unless the handle is up; the pipe to a dying process may be closed.
Call(c) ==
  /\ call[c] = Channel!Fresh
  /\ \/ /\ CanSend
        /\ call' = [call EXCEPT ![c] = [st |-> "sent", on |-> child]]
     \/ /\ CanSend => proc[child] = "dying"
        /\ Channel!Settle(c, "failed")
  /\ UNCHANGED <<plugin, handle, flow, spawned, proc>>

\* handleResponse: an answer to a call that is no longer pending is dropped.
Response(c) ==
  /\ Channel!InFlight(c) /\ proc[call[c].on] = "alive"
  /\ \E st \in {"ok", "failed"} : Channel!Settle(c, st)
  /\ UNCHANGED <<plugin, handle, flow, spawned, proc>>

TimeOut(c) ==
  /\ Channel!InFlight(c)
  /\ Channel!Settle(c, "failed")
  /\ UNCHANGED <<plugin, handle, flow, spawned, proc>>

Init ==
  /\ plugin = "disabled"
  /\ registered = FALSE /\ status = "stopped" /\ child = 0
  /\ intentional = FALSE /\ crashes = 0 /\ timer = FALSE
  /\ flow = [f \in Flows |-> Idle]
  /\ spawned = 0 /\ proc = [p \in Procs |-> "none"]
  /\ call = [c \in Calls |-> Channel!Fresh]

FlowStep(f) == InitOk(f) \/ InitFails(f) \/ SlainEnds(f)
StopStep == DrainEnds \/ TermEnds \/ StopEnds
Exit(p) == \E longAgo \in BOOLEAN : ExitEvent(p, longAgo)

Next ==
  \/ \E f \in Flows : FlowStep(f)
  \/ StopStep \/ Restarts
  \/ \E p \in Procs : Dies(p) \/ Exit(p)
  \/ Enable \/ Disable \/ Upgrade \/ Restart
  \/ \E c \in Calls : Call(c) \/ Response(c) \/ TimeOut(c)

Spec == Init /\ [][Next]_vars

(* Timers fire: those of initialize (15 s), of killProcess, of each stage of a *)
(* stop and of the backoff.  A process that was killed exits.                  *)
Fairness ==
  /\ \A f \in Flows : WF_vars(FlowStep(f))
  /\ WF_vars(StopStep) /\ WF_vars(Restarts)
  /\ \A p \in Procs : WF_vars(Exit(p))

FairSpec == Spec /\ Fairness

-----------------------------------------------------------------------------
(* Properties *)

\* The handle, its flows and its processes have the shape the code gives them; no
\* restart is scheduled after more than MaxConsecutiveCrashes crashes.
TypeOK ==
  /\ plugin \in {"ready", "disabled", "error"}
  /\ registered \in BOOLEAN
  /\ status \in {"stopped", "starting", "running", "stopping", "crashed", "backoff"}
  /\ child \in 0..MaxProcs /\ spawned \in 0..MaxProcs
  /\ intentional \in BOOLEAN /\ timer \in BOOLEAN
  /\ crashes \in 0..MaxProcs /\ (timer => crashes <= MaxConsecutiveCrashes)
  /\ flow \in [Flows -> [pc : {"idle", "init", "slain", "drain", "term", "kill"},
                         goal : {"none", "enable", "restart", "upgrade", "disabled", "error"}]]
  /\ proc \in [Procs -> {"none", "alive", "dying", "gone"}]
  /\ call \in [Calls -> [st : {"new", "sent", "ok", "failed"}, on : 0..MaxProcs]]
  /\ child # 0 => proc[child] # "none"

\* "One worker process per installed plugin": whatever crashes, restarts and
\* timeouts interleave with an operation, a process that is not gone is the one
\* the handle knows, so that it can be stopped.
OneWorker ==
  \A p \in Procs : proc[p] \in {"alive", "dying"} => child = p

\* Calls are settled as RpcChannel promises.
ChannelSpec == Channel!Spec

\* Every operation ends: a worker that ignores shutdown and SIGTERM is killed, one
\* that does not initialize is given up.
OperationEnds == flow["op"].pc # "idle" ~> flow["op"].pc = "idle"

=============================================================================
