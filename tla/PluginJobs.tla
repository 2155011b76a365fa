----------------------------- MODULE PluginJobs -----------------------------
(***************************************************************************)
(* The scheduled jobs of one plugin: plugin-job-scheduler.ts and           *)
(* plugin-job-store.ts in server/src/services, composed with what          *)
(* PluginWorker implements, the channel their runs call through.           *)
(*                                                                         *)
(* A run is an element of Calls, the RPC call it makes.  It is dispatched  *)
(* by a tick or for a request; a request is a run from its first check on. *)
(***************************************************************************)
EXTENDS RpcChannel, FiniteSets

CONSTANTS Jobs, MaxConcurrentJobs

ASSUME JobsAssumption ==
  IsFiniteSet(Jobs) /\ Jobs # {} /\ MaxConcurrentJobs \in Nat \ {0}

VARIABLES
  due,       \* jobs whose nextRunAt is past
  active,    \* activeJobs
  tick,      \* tickInProgress, and the due jobs it has read and not looked at
  row,       \* plugin_job_runs.status
  work,      \* the dispatch of a run
  cancelling,\* runs unregisterPlugin has read and not cancelled yet
  leaving    \* unregisterPlugin is under way

channel == <<up, call>>
jobVars == <<due, active, tick, row, work, cancelling, leaving>>
vars    == <<channel, jobVars>>

Runs == Calls
Unused == [pc |-> "none", job |-> CHOOSE j \in Jobs : TRUE, by |-> "tick"]
Now(r, pc) == work[r].pc = pc
Step(r, from, to) == Now(r, from) /\ work' = [work EXCEPT ![r].pc = to]
Begin(r, pc, j, by) ==
  /\ work[r] = Unused
  /\ work' = [work EXCEPT ![r] = [pc |-> pc, job |-> j, by |-> by]]
SetRow(r, st) == row' = [row EXCEPT ![r] = st]

-----------------------------------------------------------------------------
(* tick *)

\* Time passes: nextRunAt of a job is reached.
ComesDue(j) ==
  /\ j \notin due
  /\ due' = due \cup {j}
  /\ UNCHANGED <<channel, active, tick, row, work, cancelling, leaving>>

\* Mistake: ticks may overlap.
MayTickAnyway == TRUE
MayTick == ~tick.on

\* The interval fires and the due jobs are read.
Tick ==
  /\ MayTick /\ due # {}
  /\ Cardinality({r \in Runs : work[r] = Unused}) >= Cardinality(due)
  /\ tick' = [on |-> TRUE, jobs |-> due]
  /\ UNCHANGED <<channel, due, active, row, work, cancelling, leaving>>

Dispatchable(j) ==
  j \notin active /\ up # 0 /\ Cardinality(active) < MaxConcurrentJobs

\* The loop over the due jobs.  (A process that is up need not be initialized yet:
\* then the worker is not running, and the job is skipped.)
Look(j) ==
  /\ j \in tick.jobs
  /\ tick' = [tick EXCEPT !.jobs = @ \ {j}]
  /\ \/ /\ Dispatchable(j)
        /\ \E r \in Runs : Begin(r, "create", j, "tick")
        /\ active' = active \cup {j}
     \/ UNCHANGED <<work, active>>
  /\ UNCHANGED <<channel, due, row, cancelling, leaving>>

\* Promise.allSettled over the dispatches.
AllSettled == tick.jobs = {} /\ \A r \in Runs : work[r].by = "tick" => work[r].pc \in {"none", "done"}

TickEnds ==
  /\ tick.on /\ AllSettled
  /\ tick' = [tick EXCEPT !.on = FALSE]
  /\ UNCHANGED <<channel, due, active, row, work, cancelling, leaving>>

-----------------------------------------------------------------------------
(* triggerJob: the set, the rows and the worker are checked, then the run is  *)
(* created, and only then the job becomes active.                            *)

Trigger(r, j) ==
  /\ j \notin active
  /\ Begin(r, "check", j, "request")
  /\ UNCHANGED <<channel, due, active, tick, row, cancelling, leaving>>

CheckRows(r) ==
  LET busy == \E q \in Runs : row[q] = "running" /\ work[q].job = work[r].job IN
  /\ \/ ~busy /\ up # 0 /\ Step(r, "check", "create")
     \/ Step(r, "check", "done")
  /\ UNCHANGED <<channel, due, active, tick, row, cancelling, leaving>>

-----------------------------------------------------------------------------
(* dispatchJob and dispatchManualRun *)

CreateRun(r) ==
  /\ Step(r, "create", "mark")
  /\ SetRow(r, "queued")
  /\ active' = active \cup {work[r].job}
  /\ UNCHANGED <<channel, due, tick, cancelling, leaving>>

MarkRunning(r) ==
  /\ Step(r, "mark", "call")
  /\ SetRow(r, "running")
  /\ UNCHANGED <<channel, due, active, tick, cancelling, leaving>>

CallWorker(r) ==
  /\ Step(r, "call", "wait")
  /\ Send(r) \/ Refuse(r)
  /\ UNCHANGED <<due, active, tick, row, cancelling, leaving>>

\* Mistake: a call that fails is not caught.
SettledWell(r) == call[r].st = "ok"
Settled(r) == call[r].st \in {"ok", "failed"}

\* completeRun, whatever the row says by now
CompleteRun(r) ==
  /\ Settled(r)
  /\ Step(r, "wait", "leave")
  /\ SetRow(r, IF call[r].st = "ok" THEN "succeeded" ELSE "failed")
  /\ UNCHANGED <<channel, due, active, tick, cancelling, leaving>>

\* The finally block.  The entry of the job is deleted, whoever made it.
Leave(r) ==
  /\ Step(r, "leave", IF work[r].by = "tick" THEN "advance" ELSE "done")
  /\ active' = active \ {work[r].job}
  /\ UNCHANGED <<channel, due, tick, row, cancelling, leaving>>

AdvanceSchedulePointer(r) ==
  /\ Step(r, "advance", "done")
  /\ due' = due \ {work[r].job}
  /\ UNCHANGED <<channel, active, tick, row, cancelling, leaving>>

-----------------------------------------------------------------------------
(* unregisterPlugin and registerPlugin *)

\* The rows in flight are read: the plugin is being deactivated, or the coordinator
\* hears that it was.  The worker is stopped after that, or not at all.
Unregister ==
  /\ ~leaving
  /\ leaving' = TRUE
  /\ cancelling' = {r \in Runs : row[r] \in {"queued", "running"}}
  /\ UNCHANGED <<channel, due, active, tick, row, work>>

CancelRun(r) ==
  /\ r \in cancelling
  /\ cancelling' = cancelling \ {r}
  /\ SetRow(r, "cancelled")
  /\ UNCHANGED <<channel, due, active, tick, work, leaving>>

Unregistered ==
  /\ leaving /\ cancelling = {}
  /\ leaving' = FALSE
  /\ active' = {}
  /\ UNCHANGED <<channel, due, tick, row, work, cancelling>>

\* ensureNextRunTimestamps, the last step of an activation: jobs that are past due
\* are put off.
Register ==
  /\ up # 0
  /\ due' = {}
  /\ UNCHANGED <<channel, active, tick, row, work, cancelling, leaving>>

-----------------------------------------------------------------------------
(* The composition: the channel moves on its own, but for the calls of runs.  *)

ChannelStep ==
  /\ \/ \E p \in Procs : Start(p)
     \/ End
     \/ \E r \in Runs : Answer(r) \/ TimeOut(r)
  /\ UNCHANGED jobVars

JobStep(r) ==
  \/ CheckRows(r) \/ CreateRun(r) \/ MarkRunning(r) \/ CallWorker(r)
  \/ CompleteRun(r) \/ Leave(r) \/ AdvanceSchedulePointer(r)

JobInit ==
  /\ Init
  /\ due = {} /\ active = {} /\ tick = [on |-> FALSE, jobs |-> {}]
  /\ row = [r \in Runs |-> "absent"] /\ work = [r \in Runs |-> Unused]
  /\ cancelling = {} /\ leaving = FALSE

JobNext ==
  \/ ChannelStep
  \/ \E j \in Jobs : ComesDue(j) \/ Look(j) \/ \E r \in Runs : Trigger(r, j)
  \/ Tick \/ TickEnds
  \/ \E r \in Runs : JobStep(r) \/ CancelRun(r)
  \/ Unregister \/ Unregistered \/ Register

JobSpec == JobInit /\ [][JobNext]_vars

(* Handlers go on after each await, and every RPC call has a timeout.         *)
JobFairSpec ==
  /\ JobSpec
  /\ \A r \in Runs : WF_vars(JobStep(r)) /\ WF_vars(TimeOut(r) /\ UNCHANGED jobVars)
  /\ WF_vars(TickEnds) /\ \A j \in Jobs : WF_vars(Look(j))

-----------------------------------------------------------------------------
(* Properties *)

\* Rows and dispatches have the shape the scheduler gives them; a tick is in progress
\* until it has looked at every job it read, and a run has a row when it is called.
JobTypeOK ==
  /\ due \subseteq Jobs /\ active \subseteq Jobs /\ cancelling \subseteq Runs
  /\ tick \in [on : BOOLEAN, jobs : SUBSET Jobs]
  /\ row \in [Runs -> {"absent", "queued", "running", "succeeded", "failed", "cancelled"}]
  /\ work \in [Runs -> [pc : {"none", "check", "create", "mark", "call", "wait", "leave",
                             "advance", "done"},
                        job : Jobs, by : {"tick", "request"}]]
  /\ leaving \in BOOLEAN
  /\ tick.jobs # {} => tick.on
  /\ \A r \in Runs : work[r].pc \in {"mark", "call", "wait", "leave"} => row[r] # "absent"

Dispatched(r) == work[r].pc \in {"create", "mark", "call", "wait", "leave"}

\* "The host prevents overlapping execution of the same plugin/job combination":
\* true of the schedule, although a run that was triggered, or an unregistration,
\* removes the entry of a scheduled run from activeJobs.
ScheduledRunsDontOverlap ==
  \A r, q \in Runs :
    /\ work[r].by = "tick" /\ work[q].by = "tick" /\ work[r].job = work[q].job
    /\ Dispatched(r) /\ Dispatched(q)
    => r = q

\* One job cannot keep the scheduler: however its worker dies, hangs or is stopped,
\* the tick that dispatched it ends.
TickIsOver == tick.on ~> ~tick.on

=============================================================================
