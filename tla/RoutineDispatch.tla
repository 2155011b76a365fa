--------------------------- MODULE RoutineDispatch ---------------------------
(***************************************************************************)
(* One routine and its schedule: server/src/services/routines.ts.          *)
(*                                                                         *)
(* dispatchRoutineRun holds the routine's row, in a transaction on a       *)
(* connection of its own, while it creates the execution issue and wakes   *)
(* the assignee; these two run on other connections of the same pool and   *)
(* are committed before the dispatch is.  The scheduler claims a due       *)
(* trigger before it dispatches; its ticks may overlap.                    *)
(*                                                                         *)
(* A dispatch creates at most one issue, so an issue has the number of the *)
(* routine run that created it (originRunId).                              *)
(***************************************************************************)
EXTENDS Naturals, FiniteSets

CONSTANTS
  Procs,       \* handlers: scheduler ticks and requests
  Keys,        \* idempotency keys
  None,        \* no process, no key
  Policy,      \* routines.concurrencyPolicy
  CatchUp,     \* routines.catchUpPolicy
  Cap,         \* MAX_CATCH_UP_RUNS
  Fires,       \* the minutes that match the cron expression
  Connections, \* size of the database pool
  MaxTime,     \* bound: the last minute
  MaxRuns,     \* bound: routine runs ever inserted
  MaxCrashes   \* bound: crashes of the server

ASSUME PolicyAssumption ==
  /\ Policy \in {"coalesce_if_active", "skip_if_active", "always_enqueue"}
  /\ CatchUp \in {"skip_missed", "enqueue_missed_with_cap"}
ASSUME BoundsAssumption ==
  /\ Fires \subseteq Nat /\ MaxTime \in Nat /\ MaxRuns \in Nat /\ MaxCrashes \in Nat
  /\ Cap \in Nat \ {0}
ASSUME NamesAssumption == None \notin Procs /\ None \notin Keys
\* A dispatch needs a second connection: with as many dispatches as connections
\* they would all wait for each other.
ASSUME PoolAssumption ==
  IsFiniteSet(Procs) /\ Connections \in Nat /\ Connections > Cardinality(Procs)

VARIABLES
  now,     \* the current minute
  nextRun, \* routine_triggers.nextRunAt; Never: null
  armed,   \* routine_triggers.enabled (the routine itself stays active)
  nRuns,   \* routine_runs rows inserted so far, rolled back ones included
  run,     \* routine_runs.status of committed rows
  keyOf,   \* routine_runs.idempotencyKey of committed rows
  issue,   \* status of the execution issue a run created
  exec,    \* its executionRunId: none, a live heartbeat run, or an ended one
  rowLock, \* the transaction that holds the routine's row
  free,    \* free connections of the pool
  call,    \* what each process is doing
  crashes

schedule == <<nextRun, armed>>
runRows  == <<nRuns, run, keyOf>>
issues   == <<issue, exec>>
locks    == <<rowLock, free>>
vars     == <<now, schedule, runRows, issues, locks, call, crashes>>

Runs == 1..MaxRuns
Never == MaxTime + 1   \* no minute that is looked at

\* Where the schedule stands n ticks after t: at the n-th matching minute after it.
TickAfter(t, n) ==
  LET later == {f \in Fires : f > t /\ f <= MaxTime}
      nth   == {f \in later : Cardinality({g \in later : g <= f}) = n}
  IN  IF n = 0 THEN t ELSE IF nth = {} THEN Never ELSE CHOOSE f \in nth : TRUE

\* nextCronTickInTimeZone
NextTick(t) == TickAfter(t, 1)

Open(i) == issue[i] = "todo"
Live(i) == Open(i) /\ exec[i] = "live"
\* issues_open_routine_execution_uq, which covers issues with an executionRunId
Indexed(i) == Open(i) /\ exec[i] # "none"

-----------------------------------------------------------------------------
(* Calls.  seen: the nextRunAt a tick has read; left: dispatches still to    *)
(* come; trig: the schedule trigger is touched; run, at: the run inserted    *)
(* and its triggeredAt.                                                      *)

Idle == [pc |-> "idle", seen |-> 0, left |-> 0, trig |-> FALSE, key |-> None,
         run |-> 0, at |-> 0]

At(p, pc) == call[p].pc = pc
Go(p, f) == call' = [call EXCEPT ![p] = f]
To(p, pc) == Go(p, [call[p] EXCEPT !.pc = pc])

\* The next dispatch of the loop, or the end.
After(f) ==
  IF f.left <= 1 THEN Idle
  ELSE [f EXCEPT !.pc = "connect", !.left = @ - 1, !.run = 0, !.at = 0]

-----------------------------------------------------------------------------
(* tickScheduledTriggers *)

TickRead(p) ==
  /\ At(p, "idle") /\ free > 0
  /\ armed /\ nextRun <= now
  /\ Go(p, [Idle EXCEPT !.pc = "claim", !.seen = nextRun, !.at = now, !.trig = TRUE])
  /\ UNCHANGED <<now, schedule, runRows, issues, locks, crashes>>

\* The runs to catch up: the ticks from nextRunAt to now, at most Cap.
Missed(from, to) ==
  LET due == {k \in 1..Cap : TickAfter(from, k - 1) <= to}
  IN IF CatchUp = "skip_missed" THEN 1 ELSE Cardinality(due)

ClaimedNext(from, to) ==
  IF CatchUp = "skip_missed" THEN NextTick(to) ELSE TickAfter(from, Missed(from, to))

\* Mistake: the claim does not ask whether nextRunAt is what the tick has read.
ClaimsAnyway(p) == At(p, "claim") /\ armed
Claims(p) == At(p, "claim") /\ armed /\ nextRun = call[p].seen

\* One UPDATE decides which of the overlapping ticks dispatches.
Claim(p) ==
  LET f == call[p] IN
  /\ free > 0
  /\ \/ /\ Claims(p)
        /\ nextRun' = ClaimedNext(f.seen, f.at)
        /\ Go(p, [f EXCEPT !.pc = "connect", !.left = Missed(f.seen, f.at),
                           !.seen = 0, !.at = 0])
     \/ /\ At(p, "claim") /\ ~Claims(p)
        /\ Go(p, Idle)
        /\ UNCHANGED nextRun
  /\ UNCHANGED <<now, armed, runRows, issues, locks, crashes>>

\* runRoutine and firePublicTrigger
Request(p, key, trig) ==
  /\ At(p, "idle")
  /\ Go(p, [Idle EXCEPT !.pc = "connect", !.left = 1, !.key = key, !.trig = trig])
  /\ UNCHANGED <<now, schedule, runRows, issues, locks, crashes>>

-----------------------------------------------------------------------------
(* dispatchRoutineRun *)

Connect(p) ==
  /\ At(p, "connect") /\ free > 0
  /\ free' = free - 1
  /\ To(p, "lock")
  /\ UNCHANGED <<now, schedule, runRows, issues, rowLock, crashes>>

\* Commit: the row and the connection are given back.
Commit(p) ==
  /\ rowLock' = None
  /\ free' = free + 1
  /\ Go(p, After(call[p]))

\* updateRoutineTouchedState, with the tick that follows the run's triggeredAt.
Touch(f) == nextRun' = IF f.trig THEN NextTick(f.at) ELSE nextRun

Known(key) == key # None /\ \E r \in Runs : run[r] # "absent" /\ keyOf[r] = key

\* Mistake: the row is read without FOR UPDATE.
RowIsFree == rowLock \in Procs \cup {None}
RowFree == rowLock = None

\* select ... for update; a key that was used answers with its run.  The insert
\* may throw, which ends the caller's loop too.
Lock(p) ==
  /\ At(p, "lock") /\ RowFree
  /\ \/ /\ Known(call[p].key)
        /\ Commit(p)
        /\ UNCHANGED nRuns
     \/ /\ ~Known(call[p].key) /\ nRuns < MaxRuns
        /\ nRuns' = nRuns + 1
        /\ rowLock' = p
        /\ Go(p, [call[p] EXCEPT !.pc = "find", !.run = nRuns + 1,
                           !.at = IF call[p].trig THEN now ELSE 0])
        /\ UNCHANGED free
     \/ /\ ~Known(call[p].key)
        /\ Go(p, Idle)
        /\ free' = free + 1
        /\ UNCHANGED <<nRuns, rowLock>>
  /\ UNCHANGED <<now, schedule, run, keyOf, issues, crashes>>

Finalize(p, status) ==
  /\ run' = [run EXCEPT ![call[p].run] = status]
  /\ keyOf' = [keyOf EXCEPT ![call[p].run] = call[p].key]
  /\ Touch(call[p])
  /\ Commit(p)

\* findLiveExecutionIssue
Find(p) ==
  LET active == Policy # "always_enqueue" /\ \E i \in Runs : Live(i) IN
  /\ At(p, "find")
  /\ \/ /\ active
        /\ Finalize(p, IF Policy = "skip_if_active" THEN "skipped" ELSE "coalesced")
     \/ /\ ~active
        /\ To(p, "create")
        /\ UNCHANGED <<nextRun, run, keyOf, locks>>
  /\ UNCHANGED <<now, armed, nRuns, issues, crashes>>

\* issueSvc.create, on another connection; it may throw.
Create(p) ==
  /\ At(p, "create") /\ free > 0
  /\ \/ /\ issue' = [issue EXCEPT ![call[p].run] = "todo"]
        /\ To(p, "wake")
     \/ To(p, "undo") /\ UNCHANGED issue
  /\ UNCHANGED <<now, schedule, runRows, exec, locks, crashes>>

\* Mistake: no index keeps an older issue from being woken beside a live one.
FreeAnyway(i) == i \in Runs
IndexFree(i) == \A j \in Runs \ {i} : ~Indexed(j)

\* queueIssueAssignmentWakeup, on another connection: it queues a run, or queues
\* none, or throws before the run is committed (as it must when the index is taken)
\* or after.
Wake(p) ==
  LET i == call[p].run IN
  /\ At(p, "wake") /\ free > 0
  /\ \/ /\ Open(i) => IndexFree(i)
        /\ exec' = [exec EXCEPT ![i] = "live"]
        /\ To(p, "finish") \/ To(p, "undo")
     \/ /\ To(p, "finish") \/ To(p, "undo")
        /\ UNCHANGED exec
  /\ UNCHANGED <<now, schedule, runRows, issue, locks, crashes>>

Finish(p) ==
  /\ At(p, "finish")
  /\ Finalize(p, "issue_created")
  /\ UNCHANGED <<now, armed, nRuns, issues, crashes>>

\* Mistake: the failed dispatch returns without ending its transaction.
UndoKeepsRow(p) ==
  /\ At(p, "undo")
  /\ Go(p, After(call[p]))
  /\ UNCHANGED <<now, schedule, runRows, issues, locks, crashes>>

\* The catch block deletes the issue and keeps the run as failed.
Undo(p) ==
  LET i == call[p].run IN
  /\ At(p, "undo")
  /\ issue' = [issue EXCEPT ![i] = IF @ = "absent" THEN @ ELSE "deleted"]
  /\ Finalize(p, "failed")
  /\ UNCHANGED <<now, armed, nRuns, exec, crashes>>

-----------------------------------------------------------------------------
(* The life of an execution issue *)

RunEnds(i) ==
  /\ exec[i] = "live"
  /\ exec' = [exec EXCEPT ![i] = "ended"]
  /\ UNCHANGED <<now, schedule, runRows, issue, locks, call, crashes>>

\* releaseIssueExecutionAndPromote, which may hand the issue to another run
Release(i) ==
  /\ exec[i] = "ended"
  /\ \E next \in {"none", "live"} : exec' = [exec EXCEPT ![i] = next]
  /\ UNCHANGED <<now, schedule, runRows, issue, locks, call, crashes>>

\* A comment or an assignment wakes an issue that is open and at rest.
Revive(i) ==
  /\ Open(i) /\ exec[i] = "none" /\ \A p \in Procs : call[p].run # i
  /\ IndexFree(i)
  /\ exec' = [exec EXCEPT ![i] = "live"]
  /\ UNCHANGED <<now, schedule, runRows, issue, locks, call, crashes>>

\* PATCH /issues/:id: "todo" stands for every open status, "done" for the rest.  An
\* issue that is opened again while a run has it enters the index.
IssueMoves(i, status) ==
  /\ issue[i] \in {"todo", "done"} \ {status}
  /\ status = "todo" /\ exec[i] # "none" => IndexFree(i)
  /\ issue' = [issue EXCEPT ![i] = status]
  /\ UNCHANGED <<now, schedule, runRows, exec, locks, call, crashes>>

-----------------------------------------------------------------------------
(* Time, the trigger's owner, crashes *)

Minute ==
  /\ now < MaxTime
  /\ now' = now + 1
  /\ UNCHANGED <<schedule, runRows, issues, locks, call, crashes>>

\* updateTrigger: the schedule is computed anew, whether or not it is enabled.
UpdateTrigger(enabled) ==
  /\ armed' = enabled
  /\ nextRun' = NextTick(now)
  /\ UNCHANGED <<now, runRows, issues, locks, call, crashes>>

\* The server dies: transactions are rolled back, committed rows stay.
Crash ==
  /\ crashes < MaxCrashes
  /\ crashes' = crashes + 1
  /\ call' = [p \in Procs |-> Idle]
  /\ rowLock' = None /\ free' = Connections
  /\ UNCHANGED <<now, schedule, runRows, issue, exec>>

Init ==
  /\ now = 0 /\ nextRun = NextTick(0) /\ armed = TRUE
  /\ nRuns = 0
  /\ run = [r \in Runs |-> "absent"] /\ keyOf = [r \in Runs |-> None]
  /\ issue = [r \in Runs |-> "absent"] /\ exec = [r \in Runs |-> "none"]
  /\ rowLock = None /\ free = Connections
  /\ call = [p \in Procs |-> Idle]
  /\ crashes = 0

Dispatch(p) ==
  \/ Claim(p) \/ Connect(p) \/ Lock(p) \/ Find(p) \/ Create(p) \/ Wake(p)
  \/ Finish(p) \/ Undo(p)

Next ==
  \/ \E p \in Procs : \/ TickRead(p) \/ Dispatch(p)
                      \/ \E key \in Keys \cup {None}, trig \in BOOLEAN : Request(p, key, trig)
  \/ \E i \in Runs : \/ RunEnds(i) \/ Release(i) \/ Revive(i)
                     \/ \E status \in {"todo", "done"} : IssueMoves(i, status)
  \/ Minute
  \/ \E enabled \in BOOLEAN : UpdateTrigger(enabled)
  \/ Crash

Spec == Init /\ [][Next]_vars

-----------------------------------------------------------------------------
(* Properties *)

Pcs == {"idle", "claim", "connect", "lock", "find", "create", "wake", "finish", "undo"}

\* Rows and calls have the shape their columns and handlers give them; a
\* connection is free or in the hands of one dispatch.
TypeOK ==
  /\ now \in 0..MaxTime /\ nextRun \in 0..Never /\ armed \in BOOLEAN
  /\ nRuns \in 0..MaxRuns
  /\ run \in [Runs -> {"absent", "skipped", "coalesced", "issue_created", "failed"}]
  /\ keyOf \in [Runs -> Keys \cup {None}]
  /\ issue \in [Runs -> {"absent", "todo", "done", "deleted"}]
  /\ exec \in [Runs -> {"none", "live", "ended"}]
  /\ rowLock \in Procs \cup {None}
  /\ call \in [Procs -> [pc : Pcs, seen : 0..Never, left : 0..Cap, trig : BOOLEAN,
                         key : Keys \cup {None}, run : 0..MaxRuns, at : 0..MaxTime]]
  /\ free + Cardinality({p \in Procs : call[p].pc \notin {"idle", "claim", "connect"}})
       = Connections

\* "Incoming run is immediately finalised ... no new issue is created": whatever
\* dispatches, comments and ends of runs interleave, one of the routine's open
\* issues at most is being executed.
OneLiveExecution ==
  \A i, j \in Runs : Live(i) /\ Live(j) => i = j

\* A request that is repeated with its idempotency key, at the same time or after
\* a crash, leaves one run.
OneRunPerKey ==
  \A r, q \in Runs :
    run[r] # "absent" /\ run[q] # "absent" /\ keyOf[r] = keyOf[q] /\ keyOf[r] # None => r = q

CanGo(p) ==
  \/ call[p].pc \in {"find", "finish", "undo"}
  \/ call[p].pc \in {"connect", "create", "wake"} /\ free > 0
  \/ At(p, "lock") /\ RowFree

\* While dispatches are under way one of them can go on, though each waits for the
\* routine's row and for a second connection of the pool it holds one of: they do
\* not wait for each other, and a dispatch that fails or dies with the server gives
\* back what it held.
DispatchesGoOn ==
  (\E p \in Procs : call[p].pc \notin {"idle", "claim"}) => \E p \in Procs : CanGo(p)

\* Of overlapping ticks, and ticks that a crash left behind, one at most dispatches
\* for an instant: whoever goes on to dispatch takes the schedule from an instant
\* that is due to a later one.
TickConsumesInstant ==
  [][\A p \in Procs : At(p, "claim") /\ call'[p].pc = "connect"
                       => nextRun <= now /\ nextRun' > nextRun]_vars

=============================================================================
