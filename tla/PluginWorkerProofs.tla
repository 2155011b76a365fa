------------------------- MODULE PluginWorkerProofs -------------------------
(***************************************************************************)
(* PluginWorker for any number of calls, processes and crashes allowed.    *)
(* The operations are reduced to what they do to the handle; no step       *)
(* starts a process while there is one, and so every step is a step of     *)
(* RpcChannel.                                                             *)
(***************************************************************************)
EXTENDS PluginWorker, TLAPS

StopGoals == {"restart", "upgrade", "disabled", "error"}
Stopping == flow["op"].pc \in {"drain", "term", "kill"}

\* A handle that is stopped, or was given up, has no process; a stop has switched
\* the restart off.
HandleTells ==
  /\ status = "stopped" \/ ~registered => child = 0
  /\ timer \/ Stopping => registered
  /\ status = "stopping" => Stopping
  /\ Stopping => intentional /\ ~timer /\ flow["op"].goal \in StopGoals
  /\ \A f \in Flows : At(f, "init") => child # 0

\* A restart that waits for its backoff never fires into a live process or into
\* another start.
TimerMeansNoProcess ==
  timer => child = 0 /\ \A f \in Flows : ~At(f, "init")

\* Processes are numbered as they are spawned, and a crash takes one.
Numbered ==
  /\ \A p \in Procs : p > spawned => proc[p] = "none"
  /\ child <= spawned
  /\ \A c \in Calls : call[c].on <= spawned
  /\ crashes + (IF child = 0 THEN 0 ELSE 1) <= spawned

\* A call in flight was sent to the process there is.
InFlightOnChild == \A c \in Calls : Channel!InFlight(c) => child # 0 /\ call[c].on = child

Inv ==
  /\ TypeOK /\ OneWorker /\ TimerMeansNoProcess
  /\ HandleTells /\ Numbered /\ InFlightOnChild

-----------------------------------------------------------------------------
(* What the operations do to the handle                                      *)

Starts(f, goal) ==
  /\ child = 0
  /\ f = "auto" => ~Stopping
  /\ Spawn(f, goal)
  /\ timer' = FALSE
  /\ crashes' \in {0, crashes}
  /\ plugin' \in {plugin, "ready"}
  /\ registered' = TRUE
  /\ UNCHANGED call

Drains(goal) ==
  /\ child # 0 /\ timer' = FALSE /\ intentional' = TRUE /\ status' = "stopping"
  /\ flow' = [flow EXCEPT !["op"] = [pc |-> "drain", goal |-> goal]]
  /\ UNCHANGED <<plugin, registered, child, crashes, spawned, proc, call>>

IsStopped(goal) ==
  /\ child = 0 /\ timer' = FALSE /\ status' = "stopped" /\ registered' = FALSE /\ plugin' = goal
  /\ flow' = [flow EXCEPT !["op"] = Idle]
  /\ UNCHANGED <<child, intentional, crashes, spawned, proc, call>>

OnlyPlugin ==
  /\ plugin' \in {"disabled", "error"} /\ ~Stopping
  /\ flow' = flow \/ flow' = [flow EXCEPT !["op"] = Idle]
  /\ UNCHANGED <<handle, spawned, proc, call>>

TimerLapses == timer' = FALSE /\ UNCHANGED <<plugin, registered, status, child, intentional, crashes, flow,
                                      spawned, proc, call>>

\* The kinds of a stop, at its beginning and when its process is gone.
StopKind ==
  \/ \E goal \in {"enable", "restart"} : Starts("op", goal)
  \/ \E goal \in StopGoals : Drains(goal)
  \/ \E goal \in {"disabled", "error"} : IsStopped(goal)

LEMMA StoppedKind ==
  ASSUME Inv, NEW goal \in StopGoals, UNCHANGED call, timer' = FALSE, child = 0,
         goal = "restart" => registered, Stopped(goal)
  PROVE  StopKind
<1>1. CASE goal = "restart"
  <2>1. Starts("op", "restart")
    BY <1>1 DEF Stopped, Starts, Inv, TypeOK
  <2> QED
    BY <2>1 DEF StopKind
<1>2. CASE goal = "upgrade"
  <2>1. Starts("op", "enable")
    BY <1>2 DEF Stopped, Starts, Inv, TypeOK
  <2> QED
    BY <2>1 DEF StopKind
<1>3. CASE goal \in {"disabled", "error"}
  <2>1. IsStopped(goal)
    BY <1>3 DEF Stopped, IsStopped, Inv, TypeOK
  <2> QED
    BY <1>3, <2>1 DEF StopKind
<1> QED
  BY <1>1, <1>2, <1>3 DEF StopGoals

LEMMA StopInternalKind ==
  ASSUME Inv, NEW goal \in StopGoals, UNCHANGED call, At("op", "idle"),
         goal = "restart" => registered, StopInternal(goal)
  PROVE  StopKind
<1>1. timer' = FALSE
  BY DEF StopInternal, CancelPendingRestart
<1>2. CASE child = 0
  <2>1. Stopped(goal)
    BY <1>2 DEF StopInternal
  <2> QED
    BY <1>1, <1>2, <2>1, StoppedKind
<1>3. CASE child # 0
  <2>1. status \notin {"stopped", "stopping"}
    BY <1>3 DEF Inv, HandleTells, Stopping, At
  <2>2. Drains(goal)
    BY <1>1, <1>3, <2>1 DEF StopInternal, Drains
  <2> QED
    BY <2>2 DEF StopKind
<1> QED
  BY <1>2, <1>3

LEMMA StartWorkerKind ==
  ASSUME Inv, UNCHANGED call, At("op", "idle"), StartWorker
  PROVE  StopKind \/ OnlyPlugin
<1>1. CASE registered /\ status # "stopped"
  BY <1>1 DEF StartWorker, OnlyPlugin, Stopping, At
<1>2. CASE ~(registered /\ status # "stopped")
  <2>1. Starts("op", "enable")
    BY <1>2 DEF StartWorker, Starts, Inv, HandleTells
  <2> QED
    BY <2>1 DEF StopKind
<1> QED
  BY <1>1, <1>2

\* A step is a step of a flow or a process, or one of these kinds.
Kind ==
  \/ \E f \in Flows : InitOk(f) \/ InitFails(f) \/ SlainEnds(f)
  \/ DrainEnds \/ TermEnds
  \/ \E p \in Procs : Dies(p) \/ \E longAgo \in BOOLEAN : ExitEvent(p, longAgo)
  \/ Starts("auto", "none")
  \/ StopKind \/ OnlyPlugin \/ TimerLapses
  \/ \E c \in Calls : Call(c) \/ Response(c) \/ TimeOut(c)
  \/ UNCHANGED vars

LEMMA StepKinds == Inv /\ [Next]_vars => Kind
<1> SUFFICES ASSUME Inv, [Next]_vars PROVE Kind
  OBVIOUS
<1>1. CASE StopEnds
  <2>1. Stopping
    BY <1>1 DEF StopEnds, Stopping
  <2>2. flow["op"].goal \in StopGoals /\ timer' = FALSE /\ registered
    BY <1>1, <2>1 DEF StopEnds, Inv, HandleTells
  <2> QED
    BY <1>1, <2>2, StoppedKind DEF StopEnds, Kind
<1>2. CASE Restarts
  <2>1. child = 0 /\ registered /\ ~Stopping
    BY <1>2 DEF Restarts, Inv, TimerMeansNoProcess, HandleTells
  <2>2. CASE MayStart
    <3>1. Starts("auto", "none")
      BY <1>2, <2>1, <2>2 DEF Restarts, Starts
    <3> QED
      BY <3>1 DEF Kind
  <2>3. CASE ~MayStart
    <3>1. TimerLapses
      BY <1>2, <2>3 DEF Restarts, TimerLapses
    <3> QED
      BY <3>1 DEF Kind
  <2> QED
    BY <2>2, <2>3
<1>3. CASE Enable
  <2>1. CASE Running
    BY <1>3, <2>1, StopInternalKind DEF Enable, Kind, StopGoals
  <2>2. CASE ~Running
    BY <1>3, <2>2, StartWorkerKind DEF Enable, Kind
  <2> QED
    BY <2>1, <2>2
<1>4. CASE Disable
  <2>1. CASE Running
    BY <1>4, <2>1, StopInternalKind DEF Disable, Kind, StopGoals
  <2>2. CASE ~Running
    <3>1. OnlyPlugin
      BY <1>4, <2>2 DEF Disable, OnlyPlugin, Stopping, At
    <3> QED
      BY <3>1 DEF Kind
  <2> QED
    BY <2>1, <2>2
<1>5. CASE Upgrade
  <2>1. CASE Running
    BY <1>5, <2>1, StopInternalKind DEF Upgrade, Kind, StopGoals
  <2>2. CASE ~Running
    BY <1>5, <2>2, StartWorkerKind DEF Upgrade, Kind
  <2> QED
    BY <2>1, <2>2
<1>6. CASE Restart
  BY <1>6, StopInternalKind DEF Restart, Kind, StopGoals
<1>7. CASE \/ \E f \in Flows : FlowStep(f)
           \/ DrainEnds \/ TermEnds
           \/ \E p \in Procs : Dies(p) \/ Exit(p)
           \/ \E c \in Calls : Call(c) \/ Response(c) \/ TimeOut(c)
           \/ UNCHANGED vars
  BY <1>7 DEF Kind, FlowStep, Exit
<1> QED
  BY <1>1, <1>2, <1>3, <1>4, <1>5, <1>6, <1>7 DEF Next, StopStep

-----------------------------------------------------------------------------
(* The invariant                                                             *)

\* What a start and a call change, without EXCEPT.
Started(f) ==
  /\ child = 0 /\ (f = "auto" => ~Stopping) /\ spawned + 1 \in Procs /\ spawned' = spawned + 1 /\ child' = spawned + 1
  /\ proc' \in [Procs -> {"none", "alive", "dying", "gone"}]
  /\ proc'[spawned + 1] = "alive"
  /\ \A p \in Procs : p # spawned + 1 => proc'[p] = proc[p]
  /\ status' = "starting" /\ intentional' = FALSE /\ timer' = FALSE
  /\ registered' = TRUE /\ plugin' \in {plugin, "ready"} /\ crashes' \in {0, crashes}
  /\ call' = call
  /\ flow'[f].pc = "init"
  /\ \A g \in Flows : g # f => flow'[g] = flow[g]
  /\ flow' \in [Flows -> [pc : {"idle", "init", "slain", "drain", "term", "kill"},
                         goal : {"none", "enable", "restart", "upgrade", "disabled", "error"}]]

LEMMA StartChanges ==
  ASSUME Inv, NEW f \in Flows, NEW goal \in {"none", "enable", "restart"}, Starts(f, goal)
  PROVE  Started(f)
<1>1. spawned + 1 \in Procs /\ spawned' = spawned + 1 /\ child' = spawned + 1
  BY BoundsAssumption DEF Inv, TypeOK, Starts, Spawn, Procs
<1>2. proc' = [proc EXCEPT ![spawned + 1] = "alive"]
  BY <1>1 DEF Starts, Spawn
<1>3. flow' = [flow EXCEPT ![f] = [pc |-> "init", goal |-> goal]]
  BY DEF Starts, Spawn
<1>4. /\ proc' \in [Procs -> {"none", "alive", "dying", "gone"}]
      /\ proc'[spawned + 1] = "alive"
      /\ \A p \in Procs : p # spawned + 1 => proc'[p] = proc[p]
  BY <1>1, <1>2 DEF Inv, TypeOK
<1>5. /\ flow'[f].pc = "init"
      /\ \A g \in Flows : g # f => flow'[g] = flow[g]
      /\ flow' \in [Flows -> [pc : {"idle", "init", "slain", "drain", "term", "kill"},
                             goal : {"none", "enable", "restart", "upgrade", "disabled", "error"}]]
  BY <1>3 DEF Inv, TypeOK
<1> QED
  BY <1>1, <1>4, <1>5 DEF Starts, Spawn, Started

LEMMA CallChanges ==
  ASSUME Inv, NEW c \in Calls, Call(c) \/ Response(c) \/ TimeOut(c)
  PROVE  /\ UNCHANGED <<plugin, handle, flow, spawned, proc>>
         /\ \A d \in Calls : d # c => call'[d] = call[d]
         /\ call'[c].on \in {call[c].on, child}
         /\ call'[c].st = "sent" => child # 0 /\ call'[c].on = child
         /\ call' \in [Calls -> [st : {"new", "sent", "ok", "failed"}, on : 0..MaxProcs]]
<1> USE DEF Inv, TypeOK, Channel!InFlight, Channel!Settle, Channel!Fresh
<1>1. CASE CanSend /\ call' = [call EXCEPT ![c] = [st |-> "sent", on |-> child]]
  BY <1>1, BoundsAssumption DEF CanSend, Call, Response, TimeOut
<1>2. ASSUME NEW st \in {"ok", "failed"}, Channel!Settle(c, st)
      PROVE  /\ \A d \in Calls : d # c => call'[d] = call[d]
             /\ call'[c].on = call[c].on /\ call'[c].st # "sent"
             /\ call' \in [Calls -> [st : {"new", "sent", "ok", "failed"}, on : 0..MaxProcs]]
  BY <1>2
<1>3. UNCHANGED <<plugin, handle, flow, spawned, proc>>
  BY DEF Call, Response, TimeOut
<1> QED
  BY <1>1, <1>2, <1>3 DEF Call, Response, TimeOut

LEMMA TypeStep == Inv /\ [Next]_vars => TypeOK'
<1> SUFFICES ASSUME Inv, [Next]_vars PROVE TypeOK'
  OBVIOUS
<1> USE BoundsAssumption DEF Inv, TypeOK, OneWorker, TimerMeansNoProcess, HandleTells, Numbered, Procs, Flows, Idle, At, handle, Become, Kill, Stopping
<1>1. ASSUME NEW f \in Flows, InitOk(f)
      PROVE  TypeOK'
  BY <1>1 DEF InitOk
<1>2. ASSUME NEW f \in Flows, InitFails(f)
      PROVE  TypeOK'
  BY <1>2 DEF InitFails
<1>3. ASSUME NEW f \in Flows, SlainEnds(f)
      PROVE  TypeOK'
  BY <1>3 DEF SlainEnds, FailedPlugin
<1>4. CASE DrainEnds
  BY <1>4 DEF DrainEnds
<1>5. CASE TermEnds
  BY <1>5 DEF TermEnds
<1>6. ASSUME NEW p \in Procs, Dies(p)
      PROVE  TypeOK'
  BY <1>6 DEF Dies
<1>7. ASSUME NEW p \in Procs, NEW longAgo \in BOOLEAN, ExitEvent(p, longAgo)
      PROVE  TypeOK'
  BY <1>7 DEF ExitEvent, RejectAllPending, WillRestart, Starting, FailedPlugin, Channel!InFlight
<1>8. ASSUME NEW f \in Flows, NEW goal \in {"none", "enable", "restart"}, Starts(f, goal)
      PROVE  TypeOK'
  <2>1. Started(f)
    BY <1>8, StartChanges
  <2>2. child' \in 0..MaxProcs /\ spawned' \in 0..MaxProcs /\ crashes' \in 0..MaxProcs
    BY <2>1 DEF Started
  <2>3. child' # 0 => proc'[child'] # "none"
    BY <2>1 DEF Started
  <2>4. plugin' \in {"ready", "disabled", "error"}
    BY <2>1 DEF Started
  <2> QED
    BY <2>1, <2>2, <2>3, <2>4 DEF Started
<1>9. ASSUME NEW goal \in StopGoals, Drains(goal)
      PROVE  TypeOK'
  <2>1. flow' \in [Flows -> [pc : {"idle", "init", "slain", "drain", "term", "kill"},
                              goal : {"none", "enable", "restart", "upgrade", "disabled", "error"}]]
    BY <1>9 DEF Drains, StopGoals
  <2> QED
    BY <1>9, <2>1 DEF Drains
<1>10. ASSUME NEW goal \in {"disabled", "error"}, IsStopped(goal)
       PROVE  TypeOK'
  BY <1>10 DEF IsStopped
<1>11. CASE OnlyPlugin
  BY <1>11 DEF OnlyPlugin
<1>12. CASE TimerLapses
  BY <1>12 DEF TimerLapses
<1>13. ASSUME NEW c \in Calls, Call(c) \/ Response(c) \/ TimeOut(c)
       PROVE  TypeOK'
  BY <1>13, CallChanges
<1>14. CASE UNCHANGED vars
  BY <1>14 DEF vars
<1> QED
  BY <1>1, <1>2, <1>3, <1>4, <1>5, <1>6, <1>7, <1>8, <1>9, <1>10, <1>11, <1>12, <1>13, <1>14, StepKinds DEF Kind, StopKind, Flows

LEMMA WorkerStep == Inv /\ TypeOK' /\ [Next]_vars => (OneWorker' /\ TimerMeansNoProcess')
<1> SUFFICES ASSUME Inv, TypeOK', [Next]_vars PROVE (OneWorker' /\ TimerMeansNoProcess')
  OBVIOUS
<1> USE BoundsAssumption DEF Inv, TypeOK, OneWorker, TimerMeansNoProcess, HandleTells, Numbered, Procs, Flows, Idle, At, handle, Become, Kill, Stopping
<1>1. ASSUME NEW f \in Flows, InitOk(f)
      PROVE  (OneWorker' /\ TimerMeansNoProcess')
  BY <1>1 DEF InitOk
<1>2. ASSUME NEW f \in Flows, InitFails(f)
      PROVE  (OneWorker' /\ TimerMeansNoProcess')
  BY <1>2 DEF InitFails
<1>3. ASSUME NEW f \in Flows, SlainEnds(f)
      PROVE  (OneWorker' /\ TimerMeansNoProcess')
  BY <1>3 DEF SlainEnds, FailedPlugin
<1>4. CASE DrainEnds
  BY <1>4 DEF DrainEnds
<1>5. CASE TermEnds
  BY <1>5 DEF TermEnds
<1>6. ASSUME NEW p \in Procs, Dies(p)
      PROVE  (OneWorker' /\ TimerMeansNoProcess')
  BY <1>6 DEF Dies
<1>7. ASSUME NEW p \in Procs, NEW longAgo \in BOOLEAN, ExitEvent(p, longAgo)
      PROVE  (OneWorker' /\ TimerMeansNoProcess')
  BY <1>7 DEF ExitEvent, RejectAllPending, WillRestart, Starting, FailedPlugin, Channel!InFlight
<1>8. ASSUME NEW f \in Flows, NEW goal \in {"none", "enable", "restart"}, Starts(f, goal)
      PROVE  (OneWorker' /\ TimerMeansNoProcess')
  <2>1. Started(f)
    BY <1>8, StartChanges
  <2> QED
    BY <2>1 DEF Started
<1>9. ASSUME NEW goal \in StopGoals, Drains(goal)
      PROVE  (OneWorker' /\ TimerMeansNoProcess')
  BY <1>9 DEF Drains
<1>10. ASSUME NEW goal \in {"disabled", "error"}, IsStopped(goal)
       PROVE  (OneWorker' /\ TimerMeansNoProcess')
  BY <1>10 DEF IsStopped
<1>11. CASE OnlyPlugin
  BY <1>11 DEF OnlyPlugin
<1>12. CASE TimerLapses
  BY <1>12 DEF TimerLapses
<1>13. ASSUME NEW c \in Calls, Call(c) \/ Response(c) \/ TimeOut(c)
       PROVE  (OneWorker' /\ TimerMeansNoProcess')
  BY <1>13, CallChanges
<1>14. CASE UNCHANGED vars
  BY <1>14 DEF vars
<1> QED
  BY <1>1, <1>2, <1>3, <1>4, <1>5, <1>6, <1>7, <1>8, <1>9, <1>10, <1>11, <1>12, <1>13, <1>14, StepKinds DEF Kind, StopKind, Flows

LEMMA HandleStep == Inv /\ TypeOK' /\ [Next]_vars => HandleTells'
<1> SUFFICES ASSUME Inv, TypeOK', [Next]_vars PROVE HandleTells'
  OBVIOUS
<1> USE BoundsAssumption DEF Inv, TypeOK, OneWorker, TimerMeansNoProcess, HandleTells, Numbered, Procs, Flows, Idle, At, handle, Become, Kill, Stopping, StopGoals
<1>1. ASSUME NEW f \in Flows, InitOk(f)
      PROVE  HandleTells'
  BY <1>1 DEF InitOk
<1>2. ASSUME NEW f \in Flows, InitFails(f)
      PROVE  HandleTells'
  BY <1>2 DEF InitFails
<1>3. ASSUME NEW f \in Flows, SlainEnds(f)
      PROVE  HandleTells'
  BY <1>3 DEF SlainEnds, FailedPlugin
<1>4. CASE DrainEnds
  BY <1>4 DEF DrainEnds
<1>5. CASE TermEnds
  BY <1>5 DEF TermEnds
<1>6. ASSUME NEW p \in Procs, Dies(p)
      PROVE  HandleTells'
  BY <1>6 DEF Dies
<1>7. ASSUME NEW p \in Procs, NEW longAgo \in BOOLEAN, ExitEvent(p, longAgo)
      PROVE  HandleTells'
  BY <1>7 DEF ExitEvent, RejectAllPending, WillRestart, Starting, FailedPlugin, Channel!InFlight
<1>8. ASSUME NEW f \in Flows, NEW goal \in {"none", "enable", "restart"}, Starts(f, goal)
      PROVE  HandleTells'
  <2>1. Started(f)
    BY <1>8, StartChanges
  <2>2. ~(flow'["op"].pc \in {"drain", "term", "kill"})
    BY <2>1 DEF Started
  <2>3. child' # 0 /\ status' = "starting" /\ timer' = FALSE /\ registered' = TRUE
    BY <2>1 DEF Started
  <2> QED
    BY <2>2, <2>3
<1>9. ASSUME NEW goal \in StopGoals, Drains(goal)
      PROVE  HandleTells'
  BY <1>9 DEF Drains
<1>10. ASSUME NEW goal \in {"disabled", "error"}, IsStopped(goal)
       PROVE  HandleTells'
  BY <1>10 DEF IsStopped
<1>11. CASE OnlyPlugin
  BY <1>11 DEF OnlyPlugin
<1>12. CASE TimerLapses
  BY <1>12 DEF TimerLapses
<1>13. ASSUME NEW c \in Calls, Call(c) \/ Response(c) \/ TimeOut(c)
       PROVE  HandleTells'
  BY <1>13, CallChanges
<1>14. CASE UNCHANGED vars
  BY <1>14 DEF vars
<1> QED
  BY <1>1, <1>2, <1>3, <1>4, <1>5, <1>6, <1>7, <1>8, <1>9, <1>10, <1>11, <1>12, <1>13, <1>14, StepKinds DEF Kind, StopKind, Flows

LEMMA NumberedStep == Inv /\ TypeOK' /\ [Next]_vars => Numbered'
<1> SUFFICES ASSUME Inv, TypeOK', [Next]_vars PROVE Numbered'
  OBVIOUS
<1> USE BoundsAssumption DEF Inv, TypeOK, OneWorker, TimerMeansNoProcess, HandleTells, Numbered, Procs, Flows, Idle, At, handle, Become, Kill, Stopping
<1>1. ASSUME NEW f \in Flows, InitOk(f)
      PROVE  Numbered'
  BY <1>1 DEF InitOk
<1>2. ASSUME NEW f \in Flows, InitFails(f)
      PROVE  Numbered'
  BY <1>2 DEF InitFails
<1>3. ASSUME NEW f \in Flows, SlainEnds(f)
      PROVE  Numbered'
  BY <1>3 DEF SlainEnds, FailedPlugin
<1>4. CASE DrainEnds
  BY <1>4 DEF DrainEnds
<1>5. CASE TermEnds
  BY <1>5 DEF TermEnds
<1>6. ASSUME NEW p \in Procs, Dies(p)
      PROVE  Numbered'
  BY <1>6 DEF Dies
<1>7. ASSUME NEW p \in Procs, NEW longAgo \in BOOLEAN, ExitEvent(p, longAgo)
      PROVE  Numbered'
  BY <1>7 DEF ExitEvent, RejectAllPending, WillRestart, Starting, FailedPlugin, Channel!InFlight
<1>8. ASSUME NEW f \in Flows, NEW goal \in {"none", "enable", "restart"}, Starts(f, goal)
      PROVE  Numbered'
  <2>1. Started(f)
    BY <1>8, StartChanges
  <2>2. \A p \in Procs : p > spawned' => proc'[p] = "none"
    BY <2>1 DEF Started
  <2>3. child' <= spawned' /\ child' # 0
    BY <2>1 DEF Started
  <2>4. crashes' + 1 <= spawned'
    <3>1. crashes \in Nat /\ spawned \in Nat /\ crashes <= spawned
      BY <2>1 DEF Started
    <3>2. crashes' \in {0, crashes} /\ spawned' = spawned + 1
      BY <2>1 DEF Started
    <3>3. CASE crashes' = 0
      BY <3>1, <3>2, <3>3
    <3>4. CASE crashes' = crashes
      BY <3>1, <3>2, <3>4
    <3> QED
      BY <3>2, <3>3, <3>4
  <2>5. \A c \in Calls : call'[c].on <= spawned'
    BY <2>1 DEF Started
  <2> QED
    BY <2>2, <2>3, <2>4, <2>5
<1>9. ASSUME NEW goal \in StopGoals, Drains(goal)
      PROVE  Numbered'
  BY <1>9 DEF Drains
<1>10. ASSUME NEW goal \in {"disabled", "error"}, IsStopped(goal)
       PROVE  Numbered'
  BY <1>10 DEF IsStopped
<1>11. CASE OnlyPlugin
  BY <1>11 DEF OnlyPlugin
<1>12. CASE TimerLapses
  BY <1>12 DEF TimerLapses
<1>13. ASSUME NEW c \in Calls, Call(c) \/ Response(c) \/ TimeOut(c)
       PROVE  Numbered'
  <2>1. /\ UNCHANGED <<crashes, child, spawned, proc>>
        /\ \A d \in Calls : d # c => call'[d] = call[d]
        /\ call'[c].on \in {call[c].on, child}
    BY <1>13, CallChanges
  <2>2. \A d \in Calls : call'[d].on <= spawned'
    BY <2>1
  <2> QED
    BY <2>1, <2>2
<1>14. CASE UNCHANGED vars
  BY <1>14 DEF vars
<1> QED
  BY <1>1, <1>2, <1>3, <1>4, <1>5, <1>6, <1>7, <1>8, <1>9, <1>10, <1>11, <1>12, <1>13, <1>14, StepKinds DEF Kind, StopKind, Flows

LEMMA CallsStep == Inv /\ TypeOK' /\ [Next]_vars => InFlightOnChild'
<1> SUFFICES ASSUME Inv, TypeOK', [Next]_vars PROVE InFlightOnChild'
  OBVIOUS
<1> USE BoundsAssumption DEF Inv, TypeOK, OneWorker, TimerMeansNoProcess, HandleTells, Numbered, Procs, Flows, Idle, At, handle, Become, Kill, Stopping, InFlightOnChild, Channel!InFlight
<1>1. ASSUME NEW f \in Flows, InitOk(f)
      PROVE  InFlightOnChild'
  BY <1>1 DEF InitOk
<1>2. ASSUME NEW f \in Flows, InitFails(f)
      PROVE  InFlightOnChild'
  BY <1>2 DEF InitFails
<1>3. ASSUME NEW f \in Flows, SlainEnds(f)
      PROVE  InFlightOnChild'
  BY <1>3 DEF SlainEnds, FailedPlugin
<1>4. CASE DrainEnds
  BY <1>4 DEF DrainEnds
<1>5. CASE TermEnds
  BY <1>5 DEF TermEnds
<1>6. ASSUME NEW p \in Procs, Dies(p)
      PROVE  InFlightOnChild'
  BY <1>6 DEF Dies
<1>7. ASSUME NEW p \in Procs, NEW longAgo \in BOOLEAN, ExitEvent(p, longAgo)
      PROVE  InFlightOnChild'
  BY <1>7 DEF ExitEvent, RejectAllPending, WillRestart, Starting, FailedPlugin, Channel!InFlight
<1>8. ASSUME NEW f \in Flows, NEW goal \in {"none", "enable", "restart"}, Starts(f, goal)
      PROVE  InFlightOnChild'
  <2>1. Started(f)
    BY <1>8, StartChanges
  <2> QED
    BY <2>1 DEF Started
<1>9. ASSUME NEW goal \in StopGoals, Drains(goal)
      PROVE  InFlightOnChild'
  BY <1>9 DEF Drains
<1>10. ASSUME NEW goal \in {"disabled", "error"}, IsStopped(goal)
       PROVE  InFlightOnChild'
  BY <1>10 DEF IsStopped
<1>11. CASE OnlyPlugin
  BY <1>11 DEF OnlyPlugin
<1>12. CASE TimerLapses
  BY <1>12 DEF TimerLapses
<1>13. ASSUME NEW c \in Calls, Call(c) \/ Response(c) \/ TimeOut(c)
       PROVE  InFlightOnChild'
  BY <1>13, CallChanges
<1>14. CASE UNCHANGED vars
  BY <1>14 DEF vars
<1> QED
  BY <1>1, <1>2, <1>3, <1>4, <1>5, <1>6, <1>7, <1>8, <1>9, <1>10, <1>11, <1>12, <1>13, <1>14, StepKinds DEF Kind, StopKind, Flows

LEMMA InvInit == Init => Inv
<1> SUFFICES ASSUME Init PROVE Inv
  OBVIOUS
<1>1. \A f \in Flows : flow[f].pc = "idle"
  BY DEF Init, Idle
<1>2. TypeOK
  <2>1. /\ flow \in [Flows -> [pc : {"idle", "init", "slain", "drain", "term", "kill"},
                             goal : {"none", "enable", "restart", "upgrade", "disabled", "error"}]]
        /\ call \in [Calls -> [st : {"new", "sent", "ok", "failed"}, on : 0..MaxProcs]]
    BY BoundsAssumption DEF Init, Idle, Channel!Fresh
  <2>2. proc \in [Procs -> {"none", "alive", "dying", "gone"}]
    BY DEF Init
  <2>3. intentional \in BOOLEAN /\ timer \in BOOLEAN /\ registered \in BOOLEAN /\ ~timer
    BY DEF Init
  <2>4. child = 0 /\ 0 \in 0..MaxProcs /\ child = spawned /\ child = crashes
    BY BoundsAssumption DEF Init
  <2> QED
    BY <2>1, <2>2, <2>3, <2>4 DEF Init, TypeOK
<1>3. OneWorker /\ TimerMeansNoProcess
  BY DEF Init, OneWorker, TimerMeansNoProcess
<1>4. HandleTells
  BY <1>1 DEF Init, HandleTells, Stopping, Flows, At
<1>5. Numbered /\ InFlightOnChild
  BY DEF Init, Numbered, InFlightOnChild, Channel!InFlight, Channel!Fresh
<1> QED
  BY <1>2, <1>3, <1>4, <1>5 DEF Inv

LEMMA Invariance == Spec => []Inv
<1>1. Inv /\ [Next]_vars => Inv'
  BY TypeStep, WorkerStep, HandleStep, NumberedStep, CallsStep DEF Inv
<1> QED
  BY <1>1, InvInit, PTL DEF Spec

-----------------------------------------------------------------------------
(* The channel                                                               *)

ChannelMoves == [Channel!Next]_<<child, call>>

LEMMA ChannelInit == Init => Channel!Init
BY DEF Init, Channel!Init, Channel!Fresh

LEMMA ChannelStep == Inv /\ [Next]_vars => ChannelMoves
<1> SUFFICES ASSUME Inv, [Next]_vars PROVE ChannelMoves
  OBVIOUS
<1> USE DEF ChannelMoves
<1>1. ASSUME NEW f \in Flows, InitOk(f)
      PROVE  ChannelMoves
  <2>1. UNCHANGED <<child, call>>
    BY <1>1 DEF InitOk
  <2> QED
    BY <2>1
<1>2. ASSUME NEW f \in Flows, InitFails(f)
      PROVE  ChannelMoves
  <2>1. UNCHANGED <<child, call>>
    BY <1>2 DEF InitFails, handle
  <2> QED
    BY <2>1
<1>3. ASSUME NEW f \in Flows, SlainEnds(f)
      PROVE  ChannelMoves
  <2>1. UNCHANGED <<child, call>>
    BY <1>3 DEF SlainEnds
  <2> QED
    BY <2>1
<1>4. CASE DrainEnds
  <2>1. UNCHANGED <<child, call>>
    BY <1>4 DEF DrainEnds, handle
  <2> QED
    BY <2>1
<1>5. CASE TermEnds
  <2>1. UNCHANGED <<child, call>>
    BY <1>5 DEF TermEnds, handle
  <2> QED
    BY <2>1
<1>6. ASSUME NEW p \in Procs, Dies(p)
      PROVE  ChannelMoves
  <2>1. UNCHANGED <<child, call>>
    BY <1>6 DEF Dies, handle
  <2> QED
    BY <2>1
<1>7. ASSUME NEW p \in Procs, NEW longAgo \in BOOLEAN, ExitEvent(p, longAgo)
      PROVE  ChannelMoves
  <2>1. child # 0 /\ child' = 0
    BY <1>7 DEF ExitEvent, Inv, TypeOK, OneWorker, Procs
  <2>2. Channel!End
    BY <1>7, <2>1 DEF ExitEvent, RejectAllPending, Channel!End
  <2> QED
    BY <2>2 DEF Channel!Next
<1>8. ASSUME NEW f \in Flows, NEW goal \in {"none", "enable", "restart"}, Starts(f, goal)
      PROVE  ChannelMoves
  <2>1. Started(f)
    BY <1>8, StartChanges
  <2>2. \A c \in Calls : call[c].on \in Nat /\ call[c].on <= spawned
    BY DEF Inv, TypeOK, Numbered
  <2>3. spawned \in Nat
    BY DEF Inv, TypeOK
  <2>4. spawned + 1 \in Procs /\ Channel!Start(spawned + 1)
    BY <2>1, <2>2, <2>3 DEF Started, Channel!Start
  <2> QED
    BY <2>4 DEF Channel!Next
<1>9. ASSUME NEW goal \in StopGoals, Drains(goal)
      PROVE  ChannelMoves
  <2>1. UNCHANGED <<child, call>>
    BY <1>9 DEF Drains
  <2> QED
    BY <2>1
<1>10. ASSUME NEW goal \in {"disabled", "error"}, IsStopped(goal)
       PROVE  ChannelMoves
  <2>1. UNCHANGED <<child, call>>
    BY <1>10 DEF IsStopped
  <2> QED
    BY <2>1
<1>11. CASE OnlyPlugin
  <2>1. UNCHANGED <<child, call>>
    BY <1>11 DEF OnlyPlugin, handle
  <2> QED
    BY <2>1
<1>12. CASE TimerLapses
  <2>1. UNCHANGED <<child, call>>
    BY <1>12 DEF TimerLapses
  <2> QED
    BY <2>1
<1>13. ASSUME NEW c \in Calls, Call(c) \/ Response(c) \/ TimeOut(c)
       PROVE  ChannelMoves
  <2>1. CASE Call(c)
    <3>1. child' = child
      BY <2>1 DEF Call, handle
    <3>2. Channel!Send(c) \/ Channel!Refuse(c)
      BY <2>1, <3>1 DEF Call, CanSend, Channel!Send, Channel!Refuse
    <3> QED
      BY <3>2 DEF Channel!Next
  <2>2. CASE Response(c)
    <3>1. child' = child /\ call[c].on = child
      BY <2>2 DEF Response, handle, Inv, InFlightOnChild
    <3>2. Channel!Answer(c) \/ Channel!TimeOut(c)
      BY <2>2, <3>1 DEF Response, Channel!Answer, Channel!TimeOut
    <3> QED
      BY <3>2 DEF Channel!Next
  <2>3. CASE TimeOut(c)
    <3>1. Channel!TimeOut(c)
      BY <2>3 DEF TimeOut, handle, Channel!TimeOut
    <3> QED
      BY <3>1 DEF Channel!Next
  <2> QED
    BY <1>13, <2>1, <2>2, <2>3
<1>14. CASE UNCHANGED vars
  <2>1. UNCHANGED <<child, call>>
    BY <1>14 DEF vars, handle
  <2> QED
    BY <2>1
<1> HIDE DEF ChannelMoves
<1> QED
  BY <1>1, <1>2, <1>3, <1>4, <1>5, <1>6, <1>7, <1>8, <1>9, <1>10, <1>11, <1>12, <1>13, <1>14, StepKinds DEF Kind, StopKind, Flows

-----------------------------------------------------------------------------
(* Theorems *)

\* Every reachable state is well typed.
THEOREM TypeCorrect == Spec => []TypeOK
<1>1. Inv => TypeOK
  BY DEF Inv
<1> QED
  BY <1>1, Invariance, PTL

\* There is never a process beside the one the handle knows.
THEOREM OneProcess == Spec => []OneWorker
<1>1. Inv => OneWorker
  BY DEF Inv
<1> QED
  BY <1>1, Invariance, PTL

\* A restart that waits never fires into a process or a start.
THEOREM QuietTimer == Spec => []TimerMeansNoProcess
<1>1. Inv => TimerMeansNoProcess
  BY DEF Inv
<1> QED
  BY <1>1, Invariance, PTL

\* The worker and its host implement the channel.
THEOREM Implements == Spec => ChannelSpec
<1>1. Spec => [][Channel!Next]_<<child, call>>
  BY Invariance, ChannelStep, PTL DEF Spec, ChannelMoves
<1> QED
  BY <1>1, ChannelInit, PTL DEF Spec, ChannelSpec, Channel!Spec

=============================================================================
