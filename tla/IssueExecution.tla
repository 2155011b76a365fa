--------------------------- MODULE IssueExecution ---------------------------
(***************************************************************************)
(* The orchestration lock of an issue: heartbeatService in                 *)
(* server/src/services/heartbeat.ts.  A wakeup for an issue either starts  *)
(* a run, is coalesced into the run that holds the issue's execution lock  *)
(* (issues.executionRunId), or is deferred until that run is finished and  *)
(* releaseIssueExecutionAndPromote hands the lock to it.                   *)
(*                                                                         *)
(* The server is one Node process over Postgres.  A handler can be         *)
(* interrupted at every await, so each handler is a process with a program *)
(* counter and one action per database round trip (or per transaction,     *)
(* where a row lock makes the transaction atomic).  What survives a crash  *)
(* is the database: runs, issues and deferred requests.                    *)
(***************************************************************************)
EXTENDS Naturals, Sequences, FiniteSets

CONSTANTS
  Agents,    \* agents; an agent stands for its normalised name as well
  Issues,    \* issues of one company
  Callers,   \* concurrent calls of enqueueWakeup
  Reapers,   \* concurrent calls of reapOrphanedRuns
  None,      \* the null of the database's nullable columns
  MaxRuns,   \* bound: heartbeat_runs rows ever inserted
  MaxSlots,  \* heartbeat policy maxConcurrentRuns, the same for every agent
  MaxCrashes,\* bound: restarts of the server
  Outcomes,  \* what a returning adapter may report
  Features   \* the parts of the code a configuration exercises

AllFeatures == {"comment", "mention", "timer", "checkout", "adopt",
                "lateThrow", "cancel", "pause", "reap", "foreign", "retry", "detach"}

ASSUME NoneAssumption == None \notin Agents \cup Issues \cup Callers
ASSUME BoundsAssumption ==
  MaxRuns \in Nat /\ MaxSlots \in Nat \ {0} /\ MaxCrashes \in Nat
ASSUME FeaturesAssumption == Features \subseteq AllFeatures
ASSUME OutcomesAssumption == Outcomes \subseteq {"succeeded", "failed", "timed_out"}

VARIABLES
  nRuns,      \* rows of heartbeat_runs; a run is its place in creation order
  runStatus,  \* heartbeat_runs.status
  runAgent,   \* heartbeat_runs.agentId
  runIssue,   \* heartbeat_runs.contextSnapshot.issueId, or None
  retryOf,    \* heartbeat_runs.retryOfRunId, 0 when the run is no retry
  execRun,    \* issues.executionRunId, 0 when null
  execKey,    \* issues.executionAgentNameKey
  checkoutRun,\* issues.checkoutRunId, 0 when null
  deferred,   \* agents with a deferred_issue_execution request, oldest first
  invokable,  \* the agent's status is none of paused, terminated, pending
  rowLock,    \* who holds the row lock of the issue inside a transaction
  call,       \* the enqueueWakeup calls in progress
  exec,       \* executeRun of a run: its program counter
  outcome,    \* the outcome executeRun has computed and not yet written
  cancel,     \* cancelRunInternal / cancelActiveForAgentInternal of a run
  reaper,     \* reapOrphanedRuns calls: program counter, snapshot, run at hand
  crashes     \* restarts so far

dbVars   == <<nRuns, runStatus, runAgent, runIssue, retryOf,
              execRun, execKey, checkoutRun, deferred, invokable>>
procVars == <<rowLock, call, exec, outcome, cancel, reaper>>
vars     == <<dbVars, procVars, crashes>>

Runs == 1..MaxRuns
Active == {"queued", "running"}
Terminal == {"succeeded", "failed", "timed_out", "cancelled"}
Kinds == {"plain", "comment", "mention"}

NoCall   == [pc |-> "idle", agent |-> None, issue |-> None, kind |-> "plain",
             seen |-> 0, wasRunning |-> FALSE, key |-> None]
NoReaper == [pc |-> "idle", todo |-> {}, run |-> 0]

-----------------------------------------------------------------------------
(* What the handlers read *)

IsActive(r) == r # 0 /\ runStatus[r] \in Active

\* Active runs whose context names the issue, whoever holds the lock.
RunsFor(i) == {r \in Runs : runStatus[r] \in Active /\ runIssue[r] = i}

\* The first of a set of runs by (running first, createdAt).
FirstInLine(S, r) ==
  /\ r \in S
  /\ \A q \in S : \/ runStatus[r] = "running" /\ runStatus[q] = "queued"
                  \/ runStatus[r] = runStatus[q] /\ r <= q

\* The run a wakeup for the issue finds in charge: the lock's holder while
\* that is active, else an active run for the issue that holds no lock.
InCharge(i, r) ==
  \/ IsActive(execRun[i]) /\ r = execRun[i]
  \/ ~IsActive(execRun[i]) /\ FirstInLine(RunsFor(i), r)
  \/ ~IsActive(execRun[i]) /\ RunsFor(i) = {} /\ r = 0

RunningOf(a) == {r \in Runs : runStatus[r] = "running" /\ runAgent[r] = a}
QueuedOf(a)  == {r \in Runs : runStatus[r] = "queued" /\ runAgent[r] = a}
HeldBy(r)    == {i \in Issues : execRun[i] = r}

\* Mistake: a statement on the issue's row does not wait for its lock.
NoWaitForRow(i) == i \in Issues
RowUnlocked(i)  == rowLock[i] = None

Waits(i, a)  == \E k \in DOMAIN deferred[i] : deferred[i][k] = a

\* Bound: a wakeup arrives while there is room for the runs already owed.
Room == nRuns + Cardinality({w \in Issues \X Agents : Waits(w[1], w[2])})
              + Cardinality({c \in Callers : call[c].pc # "idle"}) < MaxRuns

\* Insert a queued run; n is its id.
InsertRun(n, a, i, of) ==
  /\ n = nRuns + 1 /\ n <= MaxRuns
  /\ nRuns' = n
  /\ runStatus' = [runStatus EXCEPT ![n] = "queued"]
  /\ runAgent' = [runAgent EXCEPT ![n] = a]
  /\ runIssue' = [runIssue EXCEPT ![n] = i]
  /\ retryOf' = [retryOf EXCEPT ![n] = of]

runColumns == <<nRuns, runStatus, runAgent, runIssue, retryOf>>

-----------------------------------------------------------------------------
(* releaseIssueExecutionAndPromote: one transaction that locks the rows    *)
(* the run holds, clears the lock of the first one and gives it to the     *)
(* oldest deferred request whose agent can be invoked; older requests of   *)
(* agents that cannot are failed on the way.                               *)

\* Mistake: the lock is cleared whoever still waits.
ClearLockOnly(i) ==
  /\ execRun' = [execRun EXCEPT ![i] = 0]
  /\ execKey' = [execKey EXCEPT ![i] = None]
  /\ UNCHANGED <<deferred, runColumns>>

ClearLock(i) ==
  /\ \A k \in DOMAIN deferred[i] : ~invokable[deferred[i][k]]
  /\ execRun' = [execRun EXCEPT ![i] = 0]
  /\ execKey' = [execKey EXCEPT ![i] = None]
  /\ deferred' = [deferred EXCEPT ![i] = <<>>]
  /\ UNCHANGED runColumns

PromoteDeferred(i) ==
  \E k \in DOMAIN deferred[i] :
    LET a == deferred[i][k] IN
    /\ invokable[a]
    /\ \A j \in 1..(k - 1) : ~invokable[deferred[i][j]]
    /\ InsertRun(nRuns + 1, a, i, 0)
    /\ execRun' = [execRun EXCEPT ![i] = nRuns + 1]
    /\ execKey' = [execKey EXCEPT ![i] = a]
    /\ deferred' = [deferred EXCEPT
                      ![i] = SubSeq(deferred[i], k + 1, Len(deferred[i]))]

ReleaseAndPromote(r) ==
  \/ /\ HeldBy(r) = {}
     /\ UNCHANGED <<runColumns, execRun, execKey, deferred>>
  \/ /\ \A i \in HeldBy(r) : RowUnlocked(i)
     /\ \E i \in HeldBy(r) : ClearLock(i) \/ PromoteDeferred(i)

-----------------------------------------------------------------------------
(* enqueueWakeup *)

\* An issue wakeup opens its transaction: SELECT ... FOR UPDATE on the issue,
\* then the run in charge and the agent key it will be compared with.  The
\* key is the one read with the row, before a stale lock is repaired.
WakeLock(c, a, i, k) ==
  /\ call[c].pc = "idle" /\ Room /\ invokable[a] /\ RowUnlocked(i)
  /\ k = "plain" \/ (k = "comment" /\ k \in Features)
  /\ \E r \in Runs \cup {0} :
       /\ InCharge(i, r)
       /\ call' = [call EXCEPT ![c] =
            [pc |-> "tx", agent |-> a, issue |-> i, kind |-> k, seen |-> r,
             wasRunning |-> r # 0 /\ runStatus[r] = "running",
             key |-> IF execKey[i] # None THEN execKey[i]
                     ELSE IF r # 0 THEN runAgent[r] ELSE None]]
  /\ rowLock' = [rowLock EXCEPT ![i] = c]
  /\ UNCHANGED <<dbVars, exec, outcome, cancel, reaper, crashes>>

\* The lock after the transaction found run r in charge (a repair writes it,
\* an intact lock keeps it).
KeepOrRepairLock(i, r) ==
  /\ execRun' = [execRun EXCEPT ![i] = r]
  /\ execKey' = [execKey EXCEPT ![i] = IF execRun[i] = r THEN @ ELSE runAgent[r]]

EndTx(c, i) ==
  /\ rowLock' = [rowLock EXCEPT ![i] = None]
  /\ call' = [call EXCEPT ![c] = NoCall]
  /\ UNCHANGED <<checkoutRun, invokable, exec, outcome, cancel, reaper, crashes>>

\* Mistake: any wakeup for a run in charge is coalesced, as before the lock.
CoalescesAnyAgent(c) ==
  /\ call[c].seen # 0
  /\ ~(call[c].kind = "comment" /\ call[c].wasRunning)

Coalesces(c) ==
  /\ call[c].seen # 0
  /\ call[c].key = call[c].agent
  /\ ~(call[c].kind = "comment" /\ call[c].wasRunning)

WakeCoalesce(c) ==
  LET i == call[c].issue IN
  /\ call[c].pc = "tx" /\ Coalesces(c)
  /\ KeepOrRepairLock(i, call[c].seen)
  /\ UNCHANGED <<runColumns, deferred>>
  /\ EndTx(c, i)

DeferOrMerge(q, a) == IF \E k \in DOMAIN q : q[k] = a THEN q ELSE Append(q, a)

WakeDefer(c) ==
  LET i == call[c].issue IN
  /\ call[c].pc = "tx" /\ call[c].seen # 0 /\ ~Coalesces(c)
  /\ KeepOrRepairLock(i, call[c].seen)
  /\ deferred' = [deferred EXCEPT ![i] = DeferOrMerge(@, call[c].agent)]
  /\ UNCHANGED runColumns
  /\ EndTx(c, i)

WakeStart(c) ==
  LET i == call[c].issue IN
  /\ call[c].pc = "tx" /\ call[c].seen = 0
  /\ InsertRun(nRuns + 1, call[c].agent, i, 0)
  /\ execRun' = [execRun EXCEPT ![i] = nRuns + 1]
  /\ execKey' = [execKey EXCEPT ![i] = call[c].agent]
  /\ UNCHANGED deferred
  /\ EndTx(c, i)

\* A mention (bypassIssueExecutionLock) and a timer wake without an issue take
\* the path without a transaction: read the agent's active runs of the same
\* task, then coalesce into one or insert a run that takes no lock.
WakeScan(c, a, i, k) ==
  /\ call[c].pc = "idle" /\ Room /\ invokable[a]
  /\ \/ k = "mention" /\ i \in Issues /\ k \in Features
     \/ k = "plain" /\ i = None /\ "timer" \in Features
  /\ LET queued  == {r \in QueuedOf(a) : runIssue[r] = i}
         running == {r \in RunningOf(a) : runIssue[r] = i}
         target  == IF queued # {} THEN queued
                    ELSE IF k = "mention" THEN {} ELSE running
     IN \E r \in target \cup {0} :
          /\ r = 0 <=> target = {}
          /\ \A q \in target : q <= r
          /\ call' = [call EXCEPT ![c] =
               [pc |-> "scan", agent |-> a, issue |-> i, kind |-> k, seen |-> r,
                wasRunning |-> FALSE, key |-> None]]
  /\ UNCHANGED <<dbVars, rowLock, exec, outcome, cancel, reaper, crashes>>

WakeScanned(c) ==
  /\ call[c].pc = "scan"
  /\ IF call[c].seen # 0 THEN UNCHANGED runColumns
     ELSE InsertRun(nRuns + 1, call[c].agent, call[c].issue, 0)
  /\ call' = [call EXCEPT ![c] = NoCall]
  /\ UNCHANGED <<execRun, execKey, checkoutRun, deferred, invokable,
                 rowLock, exec, outcome, cancel, reaper, crashes>>

-----------------------------------------------------------------------------
(* startNextQueuedRunForAgent and executeRun.  The agent start lock that    *)
(* serialises claims is the subject of module AgentStartLock; here a claim  *)
(* is one step, oldest queued run first, while a slot is free.              *)

\* Mistake: the claim does not say WHERE status = 'queued'.
ClaimableAgain(r) == runStatus[r] # "absent" /\ exec[r] = "idle"
Claimable(r) == runStatus[r] = "queued"

\* Mistake: queued runs are counted against the slots.
HasSlotForQueued(a) == Cardinality(RunningOf(a) \cup QueuedOf(a)) < MaxSlots
HasSlot(a) == Cardinality(RunningOf(a)) < MaxSlots

Claim(r) ==
  LET a == runAgent[r] IN
  /\ Claimable(r) /\ invokable[a] /\ HasSlot(a)
  /\ \A q \in QueuedOf(a) : r <= q
  /\ runStatus' = [runStatus EXCEPT ![r] = "running"]
  /\ exec' = [exec EXCEPT ![r] = "claimed"]
  /\ UNCHANGED <<nRuns, runAgent, runIssue, retryOf, execRun, execKey, checkoutRun,
                 deferred, invokable, rowLock, call, outcome, cancel, reaper, crashes>>

execOnly == <<dbVars, rowLock, call, cancel, reaper, crashes>>

\* executeRun reads its run again and returns if it was cancelled meanwhile.
ExecBegin(r) ==
  /\ exec[r] = "claimed"
  /\ exec' = [exec EXCEPT ![r] = IF IsActive(r) THEN "adapter" ELSE "idle"]
  /\ UNCHANGED <<execOnly, outcome>>

\* adapter.execute returned; the run's latest status decides the outcome.
AdapterReturns(r) ==
  /\ exec[r] = "adapter"
  /\ \E o \in Outcomes :
       outcome' = [outcome EXCEPT ![r] =
                     IF runStatus[r] = "cancelled" THEN "cancelled" ELSE o]
  /\ exec' = [exec EXCEPT ![r] = "settle"]
  /\ UNCHANGED execOnly

\* Mistake: the catch clause settles the run without an outcome.
AdapterThrowsNothing(r) ==
  /\ exec[r] = "adapter"
  /\ exec' = [exec EXCEPT ![r] = "settle"]
  /\ UNCHANGED <<execOnly, outcome>>

\* Setup or the adapter threw: the catch clause fails the run without looking
\* at its status.
AdapterThrows(r) ==
  /\ exec[r] = "adapter"
  /\ outcome' = [outcome EXCEPT ![r] = "failed"]
  /\ exec' = [exec EXCEPT ![r] = "settle"]
  /\ UNCHANGED execOnly

\* The same catch clause takes what throws after the status was written, at
\* next: the run is settled again, as failed.
OrThrows(r, next) ==
  \/ /\ exec' = [exec EXCEPT ![r] = next]
     /\ outcome' = [outcome EXCEPT ![r] = "none"]
  \/ /\ "lateThrow" \in Features
     /\ exec' = [exec EXCEPT ![r] = "settle"]
     /\ outcome' = [outcome EXCEPT ![r] = "failed"]

Settle(r) ==
  /\ exec[r] = "settle"
  /\ runStatus' = [runStatus EXCEPT ![r] = outcome[r]]
  /\ OrThrows(r, "release")
  /\ UNCHANGED <<nRuns, runAgent, runIssue, retryOf, execRun, execKey, checkoutRun,
                 deferred, invokable, rowLock, call, cancel, reaper, crashes>>

ExecRelease(r) ==
  /\ exec[r] = "release"
  /\ ReleaseAndPromote(r)
  /\ OrThrows(r, "idle")
  /\ UNCHANGED <<checkoutRun, invokable, rowLock, call, cancel, reaper, crashes>>

-----------------------------------------------------------------------------
(* cancelRunInternal and cancelActiveForAgentInternal, per run: read the    *)
(* run, write cancelled whatever it is by then, release.                    *)

CancelRead(r) ==
  /\ "cancel" \in Features /\ cancel[r] = "idle" /\ IsActive(r)
  /\ cancel' = [cancel EXCEPT ![r] = "set"]
  /\ UNCHANGED <<dbVars, rowLock, call, exec, outcome, reaper, crashes>>

CancelSet(r) ==
  /\ cancel[r] = "set"
  /\ runStatus' = [runStatus EXCEPT ![r] = "cancelled"]
  /\ cancel' = [cancel EXCEPT ![r] = "release"]
  /\ UNCHANGED <<nRuns, runAgent, runIssue, retryOf, execRun, execKey, checkoutRun,
                 deferred, invokable, rowLock, call, exec, outcome, reaper, crashes>>

\* Mistake: a cancelled run keeps its lock.
CancelKeepsLock(r) ==
  /\ cancel[r] = "release"
  /\ cancel' = [cancel EXCEPT ![r] = "idle"]
  /\ UNCHANGED <<dbVars, rowLock, call, exec, outcome, reaper, crashes>>

CancelRelease(r) ==
  /\ cancel[r] = "release"
  /\ ReleaseAndPromote(r)
  /\ cancel' = [cancel EXCEPT ![r] = "idle"]
  /\ UNCHANGED <<checkoutRun, invokable, rowLock, call, exec, outcome, reaper, crashes>>

\* The agent is paused, by a user or by a budget, and cancelActiveForAgent
\* sets out to cancel the runs that are active then.
Pause(a) ==
  /\ "pause" \in Features /\ invokable[a]
  /\ invokable' = [invokable EXCEPT ![a] = FALSE]
  /\ cancel' = [r \in Runs |-> IF IsActive(r) /\ runAgent[r] = a /\ cancel[r] = "idle"
                               THEN "set" ELSE cancel[r]]
  /\ UNCHANGED <<runColumns, execRun, execKey, checkoutRun, deferred,
                 rowLock, call, exec, outcome, reaper, crashes>>

Resume(a) ==
  /\ ~invokable[a]
  /\ invokable' = [invokable EXCEPT ![a] = TRUE]
  /\ UNCHANGED <<runColumns, execRun, execKey, checkoutRun, deferred, procVars, crashes>>

\* cancelPendingWakeupsForBudgetScope: drop the agent's deferred requests.
CancelDeferred(i, k) ==
  /\ "pause" \in Features /\ k \in DOMAIN deferred[i]
  /\ deferred' = [deferred EXCEPT
       ![i] = SubSeq(@, 1, k - 1) \o SubSeq(@, k + 1, Len(@))]
  /\ UNCHANGED <<runColumns, execRun, execKey, checkoutRun, invokable, procVars, crashes>>

-----------------------------------------------------------------------------
(* issues.ts: what checkout does to the execution lock.  The running agent *)
(* of r takes the issue; a stale checkout of the same agent is adopted     *)
(* without a look at the execution lock.                                   *)

checkoutFrame == <<runColumns, execKey, deferred, invokable, procVars, crashes>>

Checkout(r, i) ==
  /\ "checkout" \in Features
  /\ exec[r] = "adapter" /\ RowUnlocked(i)
  /\ execRun[i] \in {0, r} /\ checkoutRun[i] \in {0, r}
  /\ execRun' = [execRun EXCEPT ![i] = r]
  /\ checkoutRun' = [checkoutRun EXCEPT ![i] = r]
  /\ UNCHANGED checkoutFrame

AdoptStaleCheckout(r, i) ==
  /\ "adopt" \in Features
  /\ exec[r] = "adapter" /\ RowUnlocked(i)
  /\ checkoutRun[i] # 0 /\ runStatus[checkoutRun[i]] \in Terminal
  /\ runAgent[checkoutRun[i]] = runAgent[r]
  /\ execRun' = [execRun EXCEPT ![i] = r]
  /\ checkoutRun' = [checkoutRun EXCEPT ![i] = r]
  /\ UNCHANGED checkoutFrame

\* A release, a new status or a new assignee clears the checkout only.
ClearCheckout(i) ==
  /\ checkoutRun[i] # 0 /\ RowUnlocked(i)
  /\ checkoutRun' = [checkoutRun EXCEPT ![i] = 0]
  /\ UNCHANGED <<execRun, checkoutFrame>>

-----------------------------------------------------------------------------
(* reapOrphanedRuns: a snapshot of the running runs, then one run at a time.*)

reaperFrame == <<checkoutRun, invokable, rowLock, call, exec, outcome, cancel, crashes>>

ReapScan(p) ==
  /\ "reap" \in Features /\ reaper[p].pc = "idle"
  /\ \E r \in Runs : runStatus[r] = "running"
  /\ reaper' = [reaper EXCEPT ![p] =
       [pc |-> "loop", todo |-> {r \in Runs : runStatus[r] = "running"}, run |-> 0]]
  /\ UNCHANGED <<runColumns, execRun, execKey, deferred, reaperFrame>>

\* Mistake: activeRunExecutions is not consulted.
NeverKnown(r) == r \in Runs

\* The run is not known to be executing: no execution is registered with this
\* service instance.  (A run executed by another instance of the service, whose
\* adapter has no child process, is not known either.)
Unknown(r) == exec[r] = "idle" \/ ("foreign" \in Features /\ exec[r] = "adapter")

ReapSkip(p, r) ==
  /\ reaper[p].pc = "loop" /\ r \in reaper[p].todo /\ exec[r] # "idle"
  /\ reaper' = [reaper EXCEPT ![p].todo = @ \ {r}]
  /\ UNCHANGED <<runColumns, execRun, execKey, deferred, reaperFrame>>

\* The child process is alive though its handle is lost: flag the run as
\* detached, writing its status back to running.
ReapDetached(p, r) ==
  /\ "detach" \in Features
  /\ reaper[p].pc = "loop" /\ r \in reaper[p].todo /\ exec[r] = "idle"
  /\ runStatus' = [runStatus EXCEPT ![r] = "running"]
  /\ reaper' = [reaper EXCEPT ![p].todo = @ \ {r}]
  /\ UNCHANGED <<nRuns, runAgent, runIssue, retryOf, execRun, execKey, deferred, reaperFrame>>

\* Mistake: processLossRetryCount is not consulted.
MayRetryAgain(r) == exec[r] = "idle"
MayRetry(r) == exec[r] = "idle" /\ retryOf[r] = 0

\* The process is gone.  A local child that was not a retry itself is retried.
ReapFail(p, r) ==
  /\ reaper[p].pc = "loop" /\ r \in reaper[p].todo /\ Unknown(r)
  /\ runStatus' = [runStatus EXCEPT ![r] = "failed"]
  /\ \E next \in {"release", "retry"} :
       /\ next = "retry" => "retry" \in Features /\ MayRetry(r)
       /\ reaper' = [reaper EXCEPT ![p] =
            [pc |-> next, todo |-> reaper[p].todo \ {r}, run |-> r]]
  /\ UNCHANGED <<nRuns, runAgent, runIssue, retryOf, execRun, execKey, deferred, reaperFrame>>

ReapNext(p) == reaper' = [reaper EXCEPT ![p].pc = "loop", ![p].run = 0]

ReapRelease(p) ==
  /\ reaper[p].pc = "release"
  /\ ReleaseAndPromote(reaper[p].run)
  /\ ReapNext(p)
  /\ UNCHANGED reaperFrame

\* enqueueProcessLossRetry: the retry inherits the locks the lost run still has
\* on the issue of its context.
ReapRetry(p) ==
  LET r == reaper[p].run
      i == runIssue[r]
      inherits == i # None /\ execRun[i] = r
  IN
  /\ reaper[p].pc = "retry"
  /\ inherits => RowUnlocked(i)
  /\ InsertRun(nRuns + 1, runAgent[r], i, r)
  /\ execRun' = IF inherits THEN [execRun EXCEPT ![i] = nRuns + 1] ELSE execRun
  /\ execKey' = IF inherits THEN [execKey EXCEPT ![i] = runAgent[r]] ELSE execKey
  /\ UNCHANGED deferred
  /\ ReapNext(p)
  /\ UNCHANGED reaperFrame

ReapEnd(p) ==
  /\ reaper[p].pc = "loop" /\ reaper[p].todo = {}
  /\ reaper' = [reaper EXCEPT ![p] = NoReaper]
  /\ UNCHANGED <<runColumns, execRun, execKey, deferred, reaperFrame>>

-----------------------------------------------------------------------------

ProcInit ==
  [lock |-> [i \in Issues |-> None], call |-> [c \in Callers |-> NoCall],
   idle |-> [r \in Runs |-> "idle"], out |-> [r \in Runs |-> "none"],
   reaper |-> [p \in Reapers |-> NoReaper]]

Init ==
  /\ nRuns = 0
  /\ runStatus = [r \in Runs |-> "absent"]
  /\ runAgent = [r \in Runs |-> None]
  /\ runIssue = [r \in Runs |-> None]
  /\ retryOf = [r \in Runs |-> 0]
  /\ execRun = [i \in Issues |-> 0]
  /\ execKey = [i \in Issues |-> None]
  /\ checkoutRun = [i \in Issues |-> 0]
  /\ deferred = [i \in Issues |-> <<>>]
  /\ invokable = [a \in Agents |-> TRUE]
  /\ rowLock = ProcInit.lock /\ call = ProcInit.call
  /\ exec = ProcInit.idle /\ outcome = ProcInit.out
  /\ cancel = ProcInit.idle /\ reaper = ProcInit.reaper
  /\ crashes = 0

\* The server dies: open transactions roll back, memory is lost.
Crash ==
  /\ crashes < MaxCrashes
  /\ crashes' = crashes + 1
  /\ rowLock' = ProcInit.lock /\ call' = ProcInit.call
  /\ exec' = ProcInit.idle /\ outcome' = ProcInit.out
  /\ cancel' = ProcInit.idle /\ reaper' = ProcInit.reaper
  /\ UNCHANGED dbVars

WakeStep(c)  == WakeCoalesce(c) \/ WakeDefer(c) \/ WakeStart(c) \/ WakeScanned(c)
ExecStep(r)  == ExecBegin(r) \/ AdapterReturns(r) \/ AdapterThrows(r) \/ Settle(r)
                \/ ExecRelease(r)
CancelStep(r) == CancelSet(r) \/ CancelRelease(r)
ReapStep(p)  == \/ \E r \in Runs : ReapSkip(p, r) \/ ReapDetached(p, r) \/ ReapFail(p, r)
                \/ ReapRelease(p) \/ ReapRetry(p) \/ ReapEnd(p)

Next ==
  \/ \E c \in Callers : WakeStep(c)
  \/ \E c \in Callers, a \in Agents, k \in Kinds :
       \/ \E i \in Issues : WakeLock(c, a, i, k)
       \/ \E i \in Issues \cup {None} : WakeScan(c, a, i, k)
  \/ \E r \in Runs : Claim(r) \/ ExecStep(r) \/ CancelRead(r) \/ CancelStep(r)
  \/ \E r \in Runs, i \in Issues : Checkout(r, i) \/ AdoptStaleCheckout(r, i)
  \/ \E i \in Issues : ClearCheckout(i) \/ \E k \in 1..Cardinality(Agents) : CancelDeferred(i, k)
  \/ \E a \in Agents : Pause(a) \/ Resume(a)
  \/ \E p \in Reapers : ReapScan(p) \/ ReapStep(p)
  \/ Crash

Spec == Init /\ [][Next]_vars

(* The event loop runs every continuation that is ready, resumeQueuedRuns  *)
(* claims what is queued and adapters return (they have timeouts).         *)
Fairness ==
  /\ \A c \in Callers : WF_vars(WakeStep(c))
  /\ \A r \in Runs : /\ WF_vars(Claim(r)) /\ WF_vars(ExecStep(r))
                     /\ WF_vars(CancelStep(r))
  /\ \A p \in Reapers : WF_vars(ReapScan(p)) /\ WF_vars(ReapStep(p))

FairSpec == Spec /\ Fairness

-----------------------------------------------------------------------------
(* Properties *)

ExecPcs == {"idle", "claimed", "adapter", "settle", "release"}

Calls ==
  {NoCall} \cup [pc : {"tx"}, agent : Agents, issue : Issues, kind : Kinds,
                seen : 0..MaxRuns, wasRunning : BOOLEAN, key : Agents \cup {None}]
           \cup [pc : {"scan"}, agent : Agents, issue : Issues \cup {None}, kind : Kinds,
                seen : 0..MaxRuns, wasRunning : BOOLEAN, key : Agents \cup {None}]

ReaperStates ==
  [pc : {"idle", "loop"}, todo : SUBSET Runs, run : {0}]
    \cup [pc : {"release", "retry"}, todo : SUBSET Runs, run : Runs]

\* Every variable holds what its column, or its handler's local state, can hold.
TypeOK ==
  /\ nRuns \in 0..MaxRuns
  /\ runStatus \in [Runs -> Active \cup Terminal \cup {"absent"}]
  /\ runAgent \in [Runs -> Agents \cup {None}]
  /\ runIssue \in [Runs -> Issues \cup {None}]
  /\ retryOf \in [Runs -> 0..MaxRuns]
  /\ execRun \in [Issues -> 0..MaxRuns]
  /\ execKey \in [Issues -> Agents \cup {None}]
  /\ checkoutRun \in [Issues -> 0..MaxRuns]
  /\ deferred \in [Issues -> Seq(Agents)]
  /\ invokable \in [Agents -> BOOLEAN]
  /\ rowLock \in [Issues -> Callers \cup {None}]
  /\ call \in [Callers -> Calls]
  /\ exec \in [Runs -> ExecPcs]
  /\ outcome \in [Runs -> Terminal \cup {"none"}]
  /\ cancel \in [Runs -> {"idle", "set", "release"}]
  /\ reaper \in [Reapers -> ReaperStates]
  /\ crashes \in 0..MaxCrashes

\* "A single issue never has more than one active execution owner run
\* (queued|running) at once" (issue run orchestration plan, acceptance 1).
OneActiveRunPerIssue ==
  \A i \in Issues : \A r, q \in RunsFor(i) : r = q

\* Some handler in progress is going to release run r.
ReleasePending(r) ==
  \/ exec[r] \in {"adapter", "settle", "release"}
  \/ cancel[r] # "idle"
  \/ \E p \in Reapers : reaper[p].run = r /\ reaper[p].pc \in {"release", "retry"}

\* A deferred request always waits for a run that is still to be released:
\* "When the active issue run finishes, promote the oldest deferred request for
\* that issue into a queued run and transfer executionRunId" (plan, Rule B).
NoStrandedRequest ==
  \A i \in Issues : deferred[i] # <<>> =>
    execRun[i] # 0 /\ (IsActive(execRun[i]) \/ ReleasePending(execRun[i]))

\* A wakeup is coalesced only into a run of the agent it wakes (plan, Rule A):
\* merged into another agent's run it would reach nobody.
CoalescedIntoOwnRun ==
  \A c \in Callers : call[c].pc = "tx" /\ Coalesces(c) =>
    runAgent[call[c].seen] = call[c].agent

\* Even when nobody will release it, an issue with deferred requests has a lock,
\* so that the next wakeup's repair leads to a run whose release promotes them.
DeferredBehindLock ==
  \A i \in Issues : deferred[i] # <<>> => execRun[i] # 0

\* A lost process is retried once: no run has two retries, no retry is retried.
RetriedOnce ==
  \A r, q \in 1..nRuns : retryOf[r] # 0 =>
    /\ retryOf[r] = retryOf[q] => r = q
    /\ retryOf[retryOf[r]] = 0

\* No step makes a finished run active again.
FinishedStaysFinished ==
  [][\A r \in Runs : runStatus[r] \in Terminal => runStatus'[r] \in Terminal]_vars

\* The reaper fails only runs that nobody executes: "Reap orphaned running runs".
ReapedRunsAreOrphans ==
  \A p \in Reapers : reaper[p].run # 0 => exec[reaper[p].run] # "adapter"

\* A deferred request is promoted or dropped in the end.
DeferredIsServed ==
  \A i \in Issues, a \in Agents : Waits(i, a) ~> ~Waits(i, a)

\* A queued run of an agent that may run starts or is finished.
QueuedRunMoves ==
  \A r \in Runs : runStatus[r] = "queued" ~>
    (runStatus[r] # "queued" \/ ~invokable[runAgent[r]])

=============================================================================
