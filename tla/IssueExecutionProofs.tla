------------------------ MODULE IssueExecutionProofs ------------------------
(* Theorems about IssueExecution for every number of agents, issues, calls, *)
(* runs, slots and restarts.                                                *)
EXTENDS IssueExecution, TLAPS

USE NoneAssumption, BoundsAssumption, FeaturesAssumption, OutcomesAssumption

\* The columns of heartbeat_runs, and those of the issue's lock, by type.
RunTypes ==
  /\ nRuns \in 0..MaxRuns
  /\ runStatus \in [Runs -> Active \cup Terminal \cup {"absent"}]
  /\ runAgent \in [Runs -> Agents \cup {None}]
  /\ runIssue \in [Runs -> Issues \cup {None}]
  /\ retryOf \in [Runs -> 0..MaxRuns]

LockTypes ==
  /\ execRun \in [Issues -> 0..MaxRuns]
  /\ execKey \in [Issues -> Agents \cup {None}]
  /\ deferred \in [Issues -> Seq(Agents)]

LEMMA InsertRunType ==
  ASSUME TypeOK, NEW a \in Agents \cup {None}, NEW i \in Issues \cup {None}, NEW of \in 0..MaxRuns,
         NEW n, InsertRun(n, a, i, of)
  PROVE  RunTypes' /\ n \in Runs
BY DEF TypeOK, RunTypes, InsertRun, Runs, Active

LEMMA ReleaseType ==
  ASSUME TypeOK, NEW r, ReleaseAndPromote(r)
  PROVE  RunTypes' /\ LockTypes'
<1>1. CASE UNCHANGED <<runColumns, execRun, execKey, deferred>>
  BY <1>1 DEF TypeOK, RunTypes, LockTypes, runColumns
<1>2. ASSUME NEW i \in Issues, ClearLock(i)
      PROVE  RunTypes' /\ LockTypes'
  BY <1>2 DEF TypeOK, ClearLock, runColumns, RunTypes, LockTypes
<1>3. ASSUME NEW i \in Issues, PromoteDeferred(i)
      PROVE  RunTypes' /\ LockTypes'
  <2>1. PICK k \in DOMAIN deferred[i] :
          /\ InsertRun(nRuns + 1, deferred[i][k], i, 0)
          /\ execRun' = [execRun EXCEPT ![i] = nRuns + 1]
          /\ execKey' = [execKey EXCEPT ![i] = deferred[i][k]]
          /\ deferred' = [deferred EXCEPT ![i] = SubSeq(deferred[i], k + 1, Len(deferred[i]))]
    BY <1>3 DEF PromoteDeferred
  <2>2. deferred[i] \in Seq(Agents) /\ deferred[i][k] \in Agents
    BY <2>1 DEF TypeOK
  <2>3. RunTypes' /\ nRuns + 1 \in Runs
    BY <2>1, <2>2, InsertRunType DEF TypeOK
  <2>4. SubSeq(deferred[i], k + 1, Len(deferred[i])) \in Seq(Agents)
    BY <2>1, <2>2
  <2>5. QED
    BY <2>1, <2>2, <2>3, <2>4 DEF TypeOK, LockTypes, Runs
<1>4. QED
  BY <1>1, <1>2, <1>3 DEF ReleaseAndPromote, HeldBy

\* A handler's record stays a record of its kind.
LEMMA EndTxType ==
  ASSUME TypeOK, NEW c \in Callers, NEW i, EndTx(c, i)
  PROVE  call' \in [Callers -> Calls] /\ rowLock' \in [Issues -> Callers \cup {None}]
<1>1. NoCall \in Calls
  BY DEF Calls
<1>2. QED
  BY <1>1 DEF TypeOK, EndTx

LEMMA ReaperPcs ==
  ASSUME TypeOK, NEW p \in Reapers
  PROVE  /\ reaper[p].todo \in SUBSET Runs
         /\ reaper[p].pc \in {"release", "retry"} => reaper[p].run \in Runs
         /\ reaper[p].pc \in {"idle", "loop"} => reaper[p].run = 0
<1>1. reaper[p] \in ReaperStates
  BY DEF TypeOK
<1>2. QED
  BY <1>1 DEF ReaperStates

LEMMA ReapNextType ==
  ASSUME TypeOK, NEW p \in Reapers, ReapNext(p)
  PROVE  reaper' \in [Reapers -> ReaperStates]
<1>1. reaper[p] \in ReaperStates
  BY DEF TypeOK
<1>2. [reaper[p] EXCEPT !.pc = "loop", !.run = 0] \in ReaperStates
  BY <1>1 DEF ReaperStates
<1>3. QED
  BY <1>2 DEF TypeOK, ReapNext

\* A run that is about to be settled has an outcome.
OutcomeKnown == \A r \in Runs : exec[r] = "settle" => outcome[r] \in Terminal

TypeInv == TypeOK /\ OutcomeKnown

\* One step keeps every variable in its type.
LEMMA TypeStep == TypeInv /\ [Next]_vars => TypeOK'
<1> SUFFICES ASSUME TypeInv, [Next]_vars PROVE TypeOK'
  OBVIOUS
<1> USE DEF TypeInv
<1>1. ASSUME NEW c \in Callers, WakeStep(c) PROVE TypeOK'
  <2> DEFINE i == call[c].issue
  <2>0. call[c].pc = "tx" => /\ call[c].agent \in Agents /\ i \in Issues
                             /\ call[c].seen \in 0..MaxRuns
    BY DEF TypeOK, Calls, NoCall
  <2>1. CASE WakeCoalesce(c)
    BY <2>1, <2>0 DEF TypeOK, WakeCoalesce, Coalesces, KeepOrRepairLock, EndTx, Calls, runColumns, Runs
  <2>2. CASE WakeDefer(c)
    <3>1. DeferOrMerge(deferred[i], call[c].agent) \in Seq(Agents)
      BY <2>2, <2>0 DEF TypeOK, WakeDefer, DeferOrMerge
    <3>2. QED
      BY <2>2, <2>0, <3>1 DEF TypeOK, WakeDefer, KeepOrRepairLock, EndTx, Calls, runColumns, Runs
  <2>3. CASE WakeStart(c)
    <3>1. RunTypes' /\ nRuns + 1 \in Runs
      BY <2>3, <2>0, InsertRunType DEF WakeStart
    <3>2. call' \in [Callers -> Calls] /\ rowLock' \in [Issues -> Callers \cup {None}]
      BY <2>3, EndTxType DEF WakeStart
    <3>3. nRuns + 1 \in 0..MaxRuns
      BY <3>1 DEF Runs
    <3>4. QED
      BY <2>3, <2>0, <3>1, <3>2, <3>3 DEF TypeOK, WakeStart, EndTx, RunTypes
  <2>4. CASE WakeScanned(c)
    <3>1. call[c].agent \in Agents /\ i \in Issues \cup {None}
      BY <2>4 DEF TypeOK, Calls, NoCall, WakeScanned
    <3>2. RunTypes'
      BY <2>4, <3>1, InsertRunType DEF WakeScanned, TypeOK, RunTypes, runColumns
    <3>3. QED
      BY <2>4, <3>2 DEF TypeOK, WakeScanned, Calls, RunTypes
  <2>5. QED
    BY <1>1, <2>1, <2>2, <2>3, <2>4 DEF WakeStep
<1>2. ASSUME NEW c \in Callers, NEW a \in Agents, NEW k \in Kinds, NEW i \in Issues,
             WakeLock(c, a, i, k)
      PROVE  TypeOK'
  <2>1. PICK r \in Runs \cup {0} :
          call' = [call EXCEPT ![c] =
            [pc |-> "tx", agent |-> a, issue |-> i, kind |-> k, seen |-> r,
             wasRunning |-> r # 0 /\ runStatus[r] = "running",
             key |-> IF execKey[i] # None THEN execKey[i]
                     ELSE IF r # 0 THEN runAgent[r] ELSE None]]
    BY <1>2 DEF WakeLock
  <2> DEFINE key == IF execKey[i] # None THEN execKey[i]
                    ELSE IF r # 0 THEN runAgent[r] ELSE None
  <2> DEFINE seen == [pc |-> "tx", agent |-> a, issue |-> i, kind |-> k, seen |-> r,
                      wasRunning |-> r # 0 /\ runStatus[r] = "running", key |-> key]
  <2>a. key \in Agents \cup {None} /\ r \in 0..MaxRuns
    BY DEF TypeOK, Runs
  <2>b. (r # 0 /\ runStatus[r] = "running") \in BOOLEAN
    OBVIOUS
  <2>c. seen \in Calls
    <3> HIDE DEF key
    <3> QED BY <2>a, <2>b DEF Calls
  <2>2. call' \in [Callers -> Calls]
    <3> HIDE DEF seen
    <3>1. call' = [call EXCEPT ![c] = seen]
      BY <2>1 DEF seen
    <3>2. QED BY <3>1, <2>c DEF TypeOK
  <2>3. QED
    BY <1>2, <2>2 DEF TypeOK, WakeLock, dbVars
<1>3. ASSUME NEW c \in Callers, NEW a \in Agents, NEW k \in Kinds,
             NEW i \in Issues \cup {None}, WakeScan(c, a, i, k)
      PROVE  TypeOK'
  <2>1. PICK r \in Runs \cup {0} :
          call' = [call EXCEPT ![c] =
            [pc |-> "scan", agent |-> a, issue |-> i, kind |-> k, seen |-> r,
             wasRunning |-> FALSE, key |-> None]]
    <3>1. \A S : S \subseteq Runs => S \cup {0} \subseteq Runs \cup {0}
      OBVIOUS
    <3>2. QED
      BY <1>3, <3>1 DEF WakeScan, QueuedOf, RunningOf
  <2>2. [pc |-> "scan", agent |-> a, issue |-> i, kind |-> k, seen |-> r,
         wasRunning |-> FALSE, key |-> None] \in Calls
    BY DEF Calls, Runs
  <2>3. call' \in [Callers -> Calls]
    BY <2>1, <2>2 DEF TypeOK
  <2>4. QED
    BY <1>3, <2>3 DEF TypeOK, WakeScan, dbVars
<1>4. ASSUME NEW r \in Runs, Claim(r) \/ ExecStep(r) PROVE TypeOK'
  <2>1. CASE Claim(r)
    BY <2>1 DEF TypeOK, Claim, Active, ExecPcs
  <2>2. CASE ExecBegin(r)
    BY <2>2 DEF TypeOK, ExecBegin, execOnly, dbVars, ExecPcs
  <2>3. CASE AdapterReturns(r)
    BY <2>3 DEF TypeOK, AdapterReturns, execOnly, dbVars, ExecPcs, Terminal
  <2>4. CASE AdapterThrows(r)
    BY <2>4 DEF TypeOK, AdapterThrows, execOnly, dbVars, ExecPcs, Terminal
  <2>5. CASE Settle(r)
    BY <2>5 DEF TypeOK, OutcomeKnown, Settle, OrThrows, ExecPcs, Terminal
  <2>6. CASE ExecRelease(r)
    <3>1. RunTypes' /\ LockTypes'
      BY <2>6, ReleaseType DEF ExecRelease
    <3>2. QED
      BY <2>6, <3>1 DEF TypeOK, ExecRelease, OrThrows, ExecPcs, Terminal, RunTypes, LockTypes
  <2>7. QED
    BY <1>4, <2>1, <2>2, <2>3, <2>4, <2>5, <2>6 DEF ExecStep
<1>5. ASSUME NEW r \in Runs, CancelRead(r) \/ CancelStep(r) PROVE TypeOK'
  <2>1. CASE CancelRead(r)
    BY <2>1 DEF TypeOK, CancelRead, dbVars
  <2>2. CASE CancelSet(r)
    BY <2>2 DEF TypeOK, CancelSet, Terminal
  <2>3. CASE CancelRelease(r)
    <3>1. RunTypes' /\ LockTypes'
      BY <2>3, ReleaseType DEF CancelRelease
    <3>2. QED
      BY <2>3, <3>1 DEF TypeOK, CancelRelease, RunTypes, LockTypes
  <2>4. QED
    BY <1>5, <2>1, <2>2, <2>3 DEF CancelStep
<1>6. ASSUME NEW r \in Runs, NEW i \in Issues, Checkout(r, i) \/ AdoptStaleCheckout(r, i)
      PROVE  TypeOK'
  <2>1. r \in 0..MaxRuns
    BY DEF Runs
  <2>2. CASE Checkout(r, i)
    BY <2>1, <2>2 DEF TypeOK, Checkout, checkoutFrame, runColumns, procVars
  <2>3. CASE AdoptStaleCheckout(r, i)
    BY <2>1, <2>3 DEF TypeOK, AdoptStaleCheckout, checkoutFrame, runColumns, procVars
  <2>4. QED
    BY <1>6, <2>2, <2>3
<1>7. ASSUME NEW i \in Issues, ClearCheckout(i) PROVE TypeOK'
  BY <1>7 DEF TypeOK, ClearCheckout, checkoutFrame, runColumns, procVars
<1>8. ASSUME NEW i \in Issues, NEW k \in DOMAIN deferred[i], CancelDeferred(i, k) PROVE TypeOK'
  <2>1. SubSeq(deferred[i], 1, k - 1) \o SubSeq(deferred[i], k + 1, Len(deferred[i])) \in Seq(Agents)
    BY DEF TypeOK
  <2>2. QED
    BY <1>8, <2>1 DEF TypeOK, CancelDeferred, runColumns, procVars
<1>9. ASSUME NEW a \in Agents, Pause(a) \/ Resume(a) PROVE TypeOK'
  <2>1. CASE Pause(a)
    <3>1. cancel' \in [Runs -> {"idle", "set", "release"}]
      BY <2>1 DEF TypeOK, Pause
    <3>2. QED
      BY <2>1, <3>1 DEF TypeOK, Pause, runColumns
  <2>2. CASE Resume(a)
    BY <2>2 DEF TypeOK, Resume, runColumns, procVars
  <2>3. QED
    BY <1>9, <2>1, <2>2
<1>10. ASSUME NEW p \in Reapers, ReapScan(p) \/ ReapStep(p) PROVE TypeOK'
  <2> USE DEF reaperFrame, runColumns
  <2>1. CASE ReapScan(p)
    BY <2>1 DEF TypeOK, ReapScan, ReaperStates
  <2>2. ASSUME NEW r \in Runs, ReapSkip(p, r) PROVE TypeOK'
    <3>1. reaper' \in [Reapers -> ReaperStates]
      <4> DEFINE next == [reaper[p] EXCEPT !.todo = @ \ {r}]
      <4>1. reaper \in [Reapers -> ReaperStates]
        BY DEF TypeOK
      <4>2. next \in ReaperStates
        BY <4>1 DEF ReaperStates
      <4>3. reaper' = [reaper EXCEPT ![p] = next]
        BY <2>2, <4>1 DEF ReapSkip
      <4> QED
        BY <4>1, <4>2, <4>3
    <3> QED
      BY <2>2, <3>1 DEF TypeOK, ReapSkip
  <2>3. ASSUME NEW r \in Runs, ReapDetached(p, r) PROVE TypeOK'
    <3>1. reaper' \in [Reapers -> ReaperStates]
      <4> DEFINE next == [reaper[p] EXCEPT !.todo = @ \ {r}]
      <4>1. reaper \in [Reapers -> ReaperStates]
        BY DEF TypeOK
      <4>2. next \in ReaperStates
        BY <4>1 DEF ReaperStates
      <4>3. reaper' = [reaper EXCEPT ![p] = next]
        BY <2>3, <4>1 DEF ReapDetached
      <4> QED
        BY <4>1, <4>2, <4>3
    <3>2. runStatus' \in [Runs -> Active \cup Terminal \cup {"absent"}]
      BY <2>3 DEF TypeOK, ReapDetached, Active
    <3> QED
      BY <2>3, <3>1, <3>2 DEF TypeOK, ReapDetached
  <2>4. ASSUME NEW r \in Runs, ReapFail(p, r) PROVE TypeOK'
    <3>1. PICK next \in {"release", "retry"} :
            reaper' = [reaper EXCEPT ![p] = [pc |-> next, todo |-> reaper[p].todo \ {r}, run |-> r]]
      BY <2>4 DEF ReapFail
    <3>2. [pc |-> next, todo |-> reaper[p].todo \ {r}, run |-> r] \in ReaperStates
      BY ReaperPcs DEF ReaperStates
    <3>3. reaper' \in [Reapers -> ReaperStates]
      BY <3>1, <3>2 DEF TypeOK
    <3>4. QED
      BY <2>4, <3>3 DEF TypeOK, ReapFail, Terminal
  <2>5. CASE ReapRelease(p)
    <3>1. RunTypes' /\ LockTypes'
      BY <2>5, ReleaseType DEF ReapRelease
    <3>2. QED
      BY <2>5, <3>1, ReapNextType DEF TypeOK, ReapRelease, RunTypes, LockTypes
  <2>6. CASE ReapRetry(p)
    <3> DEFINE r == reaper[p].run
    <3>1. r \in Runs /\ r \in 0..MaxRuns
      BY <2>6, ReaperPcs DEF ReapRetry, Runs
    <3>2. runAgent[r] \in Agents \cup {None} /\ runIssue[r] \in Issues \cup {None}
      BY <3>1 DEF TypeOK
    <3>3. RunTypes' /\ nRuns + 1 \in Runs
      BY <2>6, <3>1, <3>2, InsertRunType DEF ReapRetry
    <3>4. reaper' \in [Reapers -> ReaperStates]
      BY <2>6, ReapNextType DEF ReapRetry
    <3>5. nRuns + 1 \in 0..MaxRuns
      BY <3>3 DEF Runs
    <3>6. execRun' \in [Issues -> 0..MaxRuns] /\ execKey' \in [Issues -> Agents \cup {None}]
      BY <2>6, <3>2, <3>5 DEF TypeOK, ReapRetry
    <3>7. QED
      BY <2>6, <3>3, <3>4, <3>6 DEF TypeOK, ReapRetry, RunTypes
  <2>7. CASE ReapEnd(p)
    BY <2>7 DEF TypeOK, ReapEnd, NoReaper, ReaperStates
  <2>8. QED
    BY <1>10, <2>1, <2>2, <2>3, <2>4, <2>5, <2>6, <2>7 DEF ReapStep
<1>11. CASE Crash
  BY <1>11 DEF TypeOK, Crash, dbVars, ProcInit, NoReaper, ExecPcs, Calls, ReaperStates, Runs
<1>12. CASE UNCHANGED vars
  BY <1>12 DEF TypeOK, vars, dbVars, procVars
<1>13. QED
  BY <1>1, <1>2, <1>3, <1>4, <1>5, <1>6, <1>7, <1>8, <1>9, <1>10, <1>11, <1>12 DEF Next, CancelDeferred

LEMMA OutcomeStep == TypeInv /\ [Next]_vars => OutcomeKnown'
<1> SUFFICES ASSUME TypeInv, [Next]_vars PROVE OutcomeKnown'
  OBVIOUS
<1>1. ASSUME UNCHANGED <<exec, outcome>> PROVE OutcomeKnown'
  BY <1>1 DEF TypeInv, OutcomeKnown
<1>2. ASSUME NEW r \in Runs, Claim(r) \/ ExecStep(r) PROVE OutcomeKnown'
  <2>1. exec \in [Runs -> ExecPcs] /\ outcome \in [Runs -> Terminal \cup {"none"}]
    BY DEF TypeInv, TypeOK
  <2>2. CASE Claim(r) \/ ExecBegin(r)
    BY <2>1, <2>2 DEF TypeInv, OutcomeKnown, Claim, ExecBegin, execOnly
  <2>3. CASE AdapterReturns(r) \/ AdapterThrows(r)
    BY <2>1, <2>3, OutcomesAssumption
    DEF TypeInv, OutcomeKnown, AdapterReturns, AdapterThrows, Terminal
  <2>4. CASE Settle(r) \/ ExecRelease(r)
    <3>1. OrThrows(r, "release") \/ OrThrows(r, "idle")
      BY <2>4 DEF Settle, ExecRelease
    <3> QED
      BY <2>1, <3>1 DEF TypeInv, OutcomeKnown, OrThrows, Terminal
  <2> QED
    BY <1>2, <2>2, <2>3, <2>4 DEF ExecStep
<1>3. CASE Crash
  BY <1>3 DEF Crash, ProcInit, OutcomeKnown
<1>4. ASSUME NEW c \in Callers,
             \/ WakeStep(c)
             \/ \E a \in Agents, k \in Kinds :
                  \/ \E i \in Issues : WakeLock(c, a, i, k)
                  \/ \E i \in Issues \cup {None} : WakeScan(c, a, i, k)
      PROVE  UNCHANGED <<exec, outcome>>
  BY <1>4 DEF WakeStep, WakeLock, WakeScan, WakeCoalesce, WakeDefer, WakeStart, WakeScanned, EndTx
<1>5. ASSUME NEW r \in Runs, CancelRead(r) \/ CancelStep(r) PROVE UNCHANGED <<exec, outcome>>
  BY <1>5 DEF CancelRead, CancelStep, CancelSet, CancelRelease
<1>6. ASSUME NEW i \in Issues,
             \/ ClearCheckout(i)
             \/ \E r \in Runs : Checkout(r, i) \/ AdoptStaleCheckout(r, i)
             \/ \E k \in 1..Cardinality(Agents) : CancelDeferred(i, k)
      PROVE  UNCHANGED <<exec, outcome>>
  BY <1>6 DEF ClearCheckout, Checkout, AdoptStaleCheckout, checkoutFrame, CancelDeferred, procVars
<1>7. ASSUME NEW a \in Agents, Pause(a) \/ Resume(a) PROVE UNCHANGED <<exec, outcome>>
  BY <1>7 DEF Pause, Resume, procVars
<1>8. ASSUME NEW p \in Reapers, ReapScan(p) \/ ReapStep(p) PROVE UNCHANGED <<exec, outcome>>
  BY <1>8 DEF ReapScan, ReapStep, ReapSkip, ReapDetached, ReapFail, ReapRelease, ReapRetry,
              ReapEnd, reaperFrame
<1>9. CASE UNCHANGED vars
  BY <1>9, <1>1 DEF vars, procVars
<1>10. QED
  BY <1>1, <1>2, <1>3, <1>4, <1>5, <1>6, <1>7, <1>8, <1>9 DEF Next

\* Every variable keeps its type: a run's status is one of the statuses the
\* schema names, a lock names a run or nothing, a handler is at one of its points.
THEOREM TypeCorrect == Spec => []TypeOK
<1>1. Init => TypeInv
  BY DEF Init, TypeInv, OutcomeKnown, TypeOK, ProcInit, NoReaper, ExecPcs, Calls, ReaperStates, Runs
<1>2. TypeInv /\ [Next]_vars => TypeInv'
  BY TypeStep, OutcomeStep DEF TypeInv
<1>3. QED
  BY <1>1, <1>2, PTL DEF Spec, TypeInv

-----------------------------------------------------------------------------
(* One active run per issue.  The lock alone keeps the plan's promise: in a *)
(* configuration in which every run of an issue is started under the row    *)
(* lock and no finished run comes back, restarts, pauses, checkouts,        *)
(* cancellations and the reaper included.                                   *)

OnlyLockedStarts == Features \cap {"mention", "adopt", "retry", "detach"} = {}

\* The rows of runs not inserted yet hold nothing.
NoRunBeyond == \A r \in Runs : r > nRuns => runStatus[r] = "absent"

\* An active run of an issue holds its lock.
Owner == \A r \in Runs, i \in Issues :
           runStatus[r] \in Active /\ runIssue[r] = i => execRun[i] = r

\* Handlers work on runs that exist, and release only finished ones.
Handled ==
  /\ \A r \in Runs : exec[r] # "idle" \/ cancel[r] # "idle" => runStatus[r] # "absent"
  /\ \A r \in Runs : exec[r] = "release" \/ cancel[r] = "release" => runStatus[r] \in Terminal
  /\ \A p \in Reapers : /\ \A r \in reaper[p].todo : runStatus[r] # "absent"
                        /\ reaper[p].pc # "retry"
                        /\ reaper[p].pc = "release" => runStatus[reaper[p].run] \in Terminal

\* A transaction holds the row it read, and what it read there is still so.
ReadUnderLock ==
  \A c \in Callers :
    /\ call[c].pc = "scan" => call[c].issue = None
    /\ call[c].pc = "tx" =>
         /\ rowLock[call[c].issue] = c
         /\ call[c].seen = 0 => RunsFor(call[c].issue) = {}
         /\ call[c].seen # 0 => execRun[call[c].issue] = call[c].seen

OwnerInv == TypeInv /\ NoRunBeyond /\ Owner /\ Handled /\ ReadUnderLock

\* What a step may do to the runs, and to the rows that are locked.
StatusMoves ==
  \A r \in Runs : /\ runStatus[r] \in Terminal => runStatus'[r] \in Terminal
                  /\ runStatus[r] # "absent" => runStatus'[r] # "absent"

LockedRowsKept ==
  \A i \in Issues : rowLock[i] # None =>
    execRun'[i] = execRun[i] /\ RunsFor(i)' \subseteq RunsFor(i)

Orderly == NoRunBeyond' /\ Owner' /\ StatusMoves /\ LockedRowsKept

\* A statement that changes no column of runs or locks is orderly.
LEMMA Unchanging ==
  ASSUME OwnerInv, UNCHANGED <<runColumns, execRun>>
  PROVE  Orderly
BY DEF OwnerInv, NoRunBeyond, Owner, StatusMoves, LockedRowsKept, Orderly, runColumns, RunsFor

\* An inserted run is new, and the other runs stay as they are.
LEMMA InsertEffect ==
  ASSUME TypeOK, NoRunBeyond, NEW a, NEW i, NEW of, NEW n, InsertRun(n, a, i, of)
  PROVE  /\ n = nRuns + 1 /\ n \in Runs /\ runStatus[n] = "absent"
         /\ runStatus'[n] = "queued" /\ runIssue'[n] = i
         /\ \A q \in Runs \ {n} : runStatus'[q] = runStatus[q] /\ runIssue'[q] = runIssue[q]
         /\ NoRunBeyond' /\ StatusMoves
<1>1. n \in Runs /\ n > nRuns /\ n = nRuns + 1
  BY DEF InsertRun, TypeOK, Runs
<1>2. runStatus[n] = "absent"
  BY <1>1 DEF NoRunBeyond
<1>3. /\ runStatus'[n] = "queued" /\ runIssue'[n] = i
      /\ \A q \in Runs \ {n} : runStatus'[q] = runStatus[q] /\ runIssue'[q] = runIssue[q]
  BY <1>1 DEF InsertRun, TypeOK
<1>4. NoRunBeyond'
  BY <1>1, <1>3 DEF NoRunBeyond, InsertRun, TypeOK, Runs
<1>5. StatusMoves
  BY <1>1, <1>2, <1>3 DEF StatusMoves, Terminal
<1>6. QED
  BY <1>1, <1>2, <1>3, <1>4, <1>5

\* Starting a run of an issue that has none, under its lock, is orderly for the
\* owner; so is inserting a run of no issue.
LEMMA StartEffect ==
  ASSUME TypeOK, NoRunBeyond, Owner, NEW a, NEW of, NEW i \in Issues, RunsFor(i) = {},
         InsertRun(nRuns + 1, a, i, of), execRun' = [execRun EXCEPT ![i] = nRuns + 1]
  PROVE  /\ Owner' /\ NoRunBeyond' /\ StatusMoves
         /\ \A j \in Issues \ {i} : execRun'[j] = execRun[j] /\ RunsFor(j)' \subseteq RunsFor(j)
<1> DEFINE n == nRuns + 1
<1>1. /\ n \in Runs /\ runStatus'[n] = "queued" /\ runIssue'[n] = i
      /\ \A q \in Runs \ {n} : runStatus'[q] = runStatus[q] /\ runIssue'[q] = runIssue[q]
      /\ NoRunBeyond' /\ StatusMoves
  BY InsertEffect
<1>2. execRun'[i] = n /\ \A j \in Issues \ {i} : execRun'[j] = execRun[j]
  BY DEF TypeOK
<1> HIDE DEF n
<1>3. Owner'
  BY <1>1, <1>2 DEF Owner, RunsFor
<1>4. \A j \in Issues \ {i} : RunsFor(j)' \subseteq RunsFor(j)
  BY <1>1 DEF RunsFor
<1>5. QED
  BY <1>1, <1>2, <1>3, <1>4

\* A finished run that holds an issue leaves it without an active run.
LEMMA FinishedHolder ==
  ASSUME Owner, NEW r \in Runs, runStatus[r] \in Terminal, NEW i \in HeldBy(r)
  PROVE  RunsFor(i) = {}
BY DEF Owner, HeldBy, RunsFor, Active, Terminal

\* The release of a finished run is orderly.
LEMMA ReleaseEffect ==
  ASSUME OwnerInv, NEW r \in Runs, runStatus[r] \in Terminal, ReleaseAndPromote(r)
  PROVE  Orderly
<1> USE DEF OwnerInv, TypeInv
<1>1. CASE UNCHANGED <<runColumns, execRun, execKey, deferred>>
  BY <1>1, Unchanging
<1>2. ASSUME NEW i \in HeldBy(r), RowUnlocked(i), ClearLock(i)
      PROVE  Orderly
  <2>1. i \in Issues /\ RunsFor(i) = {} /\ rowLock[i] = None
    BY <1>2, FinishedHolder DEF HeldBy, RowUnlocked
  <2>2. /\ execRun'[i] = 0 /\ \A j \in Issues \ {i} : execRun'[j] = execRun[j]
        /\ UNCHANGED <<nRuns, runStatus, runIssue>>
    BY <1>2, <2>1 DEF ClearLock, runColumns, TypeOK
  <2>3. Owner'
    BY <2>1, <2>2 DEF Owner, RunsFor
  <2>4. QED
    BY <2>1, <2>2, <2>3 DEF Orderly, NoRunBeyond, StatusMoves, LockedRowsKept, RunsFor
<1>3. ASSUME NEW i \in HeldBy(r), RowUnlocked(i), PromoteDeferred(i)
      PROVE  Orderly
  <2>1. i \in Issues /\ RunsFor(i) = {} /\ rowLock[i] = None
    BY <1>3, FinishedHolder DEF HeldBy, RowUnlocked
  <2>2. PICK a : /\ InsertRun(nRuns + 1, a, i, 0)
                 /\ execRun' = [execRun EXCEPT ![i] = nRuns + 1]
    BY <1>3 DEF PromoteDeferred
  <2>3. QED
    BY <2>1, <2>2, StartEffect DEF Orderly, LockedRowsKept
<1>4. QED
  BY <1>1, <1>2, <1>3 DEF ReleaseAndPromote

\* What a write of one run's status does.
LEMMA WriteStatus ==
  ASSUME OwnerInv, NEW r \in Runs, runStatus[r] # "absent", NEW s \in Terminal \cup Active,
         s \in Active => runStatus[r] \in Active,
         runStatus' = [runStatus EXCEPT ![r] = s], UNCHANGED <<nRuns, runIssue, execRun>>
  PROVE  Orderly
<1>1. runStatus'[r] = s /\ \A q \in Runs \ {r} : runStatus'[q] = runStatus[q]
  BY DEF OwnerInv, TypeInv, TypeOK
<1>2. NoRunBeyond' /\ Owner'
  BY <1>1 DEF OwnerInv, NoRunBeyond, Owner
<1>3. StatusMoves
  BY <1>1 DEF StatusMoves, Active, Terminal
<1>4. LockedRowsKept
  BY <1>1 DEF LockedRowsKept, RunsFor
<1>5. QED
  BY <1>2, <1>3, <1>4 DEF Orderly

LEMMA TxType ==
  ASSUME TypeOK, NEW c \in Callers, call[c].pc = "tx"
  PROVE  call[c].issue \in Issues /\ call[c].agent \in Agents /\ call[c].seen \in 0..MaxRuns
<1>1. call[c] \in Calls
  BY DEF TypeOK
<1>2. QED
  BY <1>1 DEF Calls, NoCall

\* Handlers that a step does not move stay right about their runs.
LEMMA HandledKept ==
  ASSUME OwnerInv, StatusMoves, UNCHANGED <<exec, cancel, reaper>>
  PROVE  Handled'
<1>1. \A p \in Reapers : /\ \A r \in reaper[p].todo : r \in Runs
                         /\ reaper[p].pc = "release" => reaper[p].run \in Runs
  BY ReaperPcs DEF OwnerInv, TypeInv
<1>2. QED
  BY <1>1 DEF OwnerInv, Handled, StatusMoves

\* So do transactions that a step does not move.
LEMMA ReadsKept ==
  ASSUME OwnerInv, LockedRowsKept, UNCHANGED <<rowLock, call>>
  PROVE  ReadUnderLock'
<1>1. ASSUME NEW c \in Callers, call[c].pc = "tx"
      PROVE  /\ call[c].issue \in Issues
             /\ rowLock[call[c].issue] = c
             /\ execRun'[call[c].issue] = execRun[call[c].issue]
             /\ RunsFor(call[c].issue)' \subseteq RunsFor(call[c].issue)
  <2>1. call[c].issue \in Issues
    BY <1>1, TxType DEF OwnerInv, TypeInv
  <2>2. rowLock[call[c].issue] = c /\ c # None
    BY <1>1 DEF OwnerInv, ReadUnderLock
  <2>3. QED
    BY <2>1, <2>2 DEF LockedRowsKept
<1>2. \A c \in Callers : call'[c] = call[c] /\ rowLock' = rowLock
  OBVIOUS
<1>3. QED
  BY <1>1, <1>2 DEF OwnerInv, ReadUnderLock

\* A call that ends leaves the other transactions their rows.
LEMMA CallEnds ==
  ASSUME OwnerInv, NEW c \in Callers, call[c].pc = "tx", NEW i, i = call[c].issue, EndTx(c, i),
         \A j \in Issues \ {i} : execRun'[j] = execRun[j] /\ RunsFor(j)' \subseteq RunsFor(j)
  PROVE  ReadUnderLock'
<1>1. i \in Issues /\ rowLock[i] = c
  BY TxType DEF OwnerInv, TypeInv, ReadUnderLock
<1>2. call'[c].pc = "idle" /\ \A d \in Callers \ {c} : call'[d] = call[d]
  BY DEF EndTx, NoCall, OwnerInv, TypeInv, TypeOK
<1>3. \A j \in Issues \ {i} : rowLock'[j] = rowLock[j]
  BY <1>1 DEF EndTx, OwnerInv, TypeInv, TypeOK
<1>4. ASSUME NEW d \in Callers \ {c}, call[d].pc = "tx"
      PROVE  call[d].issue \in Issues \ {i} /\ rowLock[call[d].issue] = d
  BY <1>1, <1>4, TxType DEF OwnerInv, TypeInv, ReadUnderLock
<1>5. QED
  BY <1>2, <1>3, <1>4 DEF OwnerInv, ReadUnderLock

LEMMA OwnerWake ==
  ASSUME OnlyLockedStarts, OwnerInv, NEW c \in Callers, WakeStep(c)
  PROVE  NoRunBeyond' /\ Owner' /\ StatusMoves /\ Handled' /\ ReadUnderLock'
<1> DEFINE i == call[c].issue
<1>0. call[c].pc = "tx" => i \in Issues /\ call[c].seen \in 0..MaxRuns
  BY TxType DEF OwnerInv, TypeInv
<1>1. CASE WakeCoalesce(c) \/ WakeDefer(c)
  <2>1. call[c].pc = "tx" /\ call[c].seen # 0 /\ KeepOrRepairLock(i, call[c].seen) /\ EndTx(c, i)
    BY <1>1 DEF WakeCoalesce, WakeDefer, Coalesces
  <2>2. execRun[i] = call[c].seen
    BY <2>1 DEF OwnerInv, ReadUnderLock
  <2>3. execRun' = execRun
    BY <2>1, <2>2, <1>0 DEF KeepOrRepairLock, OwnerInv, TypeInv, TypeOK
  <2>4. UNCHANGED <<runColumns, execRun>>
    BY <1>1, <2>3 DEF WakeCoalesce, WakeDefer
  <2>5. Orderly
    BY <2>4, Unchanging
  <2>6. UNCHANGED <<exec, cancel, reaper>>
    BY <2>1 DEF EndTx
  <2>7. \A j \in Issues : execRun'[j] = execRun[j] /\ RunsFor(j)' \subseteq RunsFor(j)
    BY <2>4 DEF runColumns, RunsFor
  <2>8. QED
    BY <2>1, <2>5, <2>6, <2>7, HandledKept, CallEnds DEF Orderly
<1>2. CASE WakeStart(c)
  <2>1. /\ call[c].pc = "tx" /\ call[c].seen = 0 /\ EndTx(c, i)
        /\ InsertRun(nRuns + 1, call[c].agent, i, 0)
        /\ execRun' = [execRun EXCEPT ![i] = nRuns + 1]
    BY <1>2 DEF WakeStart
  <2>2. RunsFor(i) = {}
    BY <2>1 DEF OwnerInv, ReadUnderLock
  <2>3. /\ Owner' /\ NoRunBeyond' /\ StatusMoves
        /\ \A j \in Issues \ {i} : execRun'[j] = execRun[j] /\ RunsFor(j)' \subseteq RunsFor(j)
    BY <1>0, <2>1, <2>2, StartEffect DEF OwnerInv, TypeInv
  <2>4. UNCHANGED <<exec, cancel, reaper>>
    BY <2>1 DEF EndTx
  <2>5. QED
    BY <2>1, <2>3, <2>4, HandledKept, CallEnds
<1>3. CASE WakeScanned(c)
  <2>1. i = None /\ UNCHANGED <<execRun, rowLock, exec, cancel, reaper>>
    BY <1>3 DEF WakeScanned, OwnerInv, ReadUnderLock
  <2>2. NoRunBeyond' /\ Owner' /\ StatusMoves /\ LockedRowsKept
    <3>1. CASE UNCHANGED runColumns
      BY <3>1, <2>1, Unchanging DEF Orderly
    <3>2. CASE InsertRun(nRuns + 1, call[c].agent, i, 0)
      <4>1. /\ runStatus[nRuns + 1] = "absent" /\ runIssue'[nRuns + 1] = None
            /\ \A q \in Runs \ {nRuns + 1} :
                 runStatus'[q] = runStatus[q] /\ runIssue'[q] = runIssue[q]
            /\ NoRunBeyond' /\ StatusMoves
        BY <2>1, <3>2, InsertEffect DEF OwnerInv, TypeInv
      <4>2. None \notin Issues
        OBVIOUS
      <4>3. Owner'
        BY <2>1, <4>1, <4>2 DEF OwnerInv, Owner
      <4>4. LockedRowsKept
        BY <2>1, <4>1, <4>2 DEF LockedRowsKept, RunsFor
      <4>5. QED
        BY <4>1, <4>3, <4>4
    <3>3. QED
      BY <1>3, <3>1, <3>2 DEF WakeScanned
  <2>3. call'[c].pc = "idle" /\ \A d \in Callers \ {c} : call'[d] = call[d]
    BY <1>3 DEF WakeScanned, NoCall, OwnerInv, TypeInv, TypeOK
  <2>4. ASSUME NEW d \in Callers, call[d].pc = "tx"
        PROVE  call[d].issue \in Issues /\ rowLock[call[d].issue] # None
    BY <2>4, TxType DEF OwnerInv, TypeInv, ReadUnderLock
  <2>5. ReadUnderLock'
    BY <2>1, <2>2, <2>3, <2>4 DEF OwnerInv, ReadUnderLock, LockedRowsKept
  <2>6. QED
    BY <2>1, <2>2, <2>5, HandledKept
<1>4. QED
  BY <1>1, <1>2, <1>3 DEF WakeStep

\* Opening a transaction: what it reads is so, and stays so under the row lock.
LEMMA OwnerLock ==
  ASSUME OwnerInv, NEW c \in Callers, NEW a, NEW k, NEW i \in Issues, WakeLock(c, a, i, k)
  PROVE  Orderly /\ Handled' /\ ReadUnderLock'
<1>1. Orderly
  BY Unchanging DEF WakeLock, dbVars, runColumns
<1>2. Handled'
  BY <1>1, HandledKept DEF Orderly, WakeLock
<1>3. rowLock[i] = None /\ UNCHANGED dbVars
  BY DEF WakeLock, RowUnlocked
<1>4. PICK r \in Runs \cup {0} :
        /\ InCharge(i, r)
        /\ call' = [call EXCEPT ![c] =
             [pc |-> "tx", agent |-> a, issue |-> i, kind |-> k, seen |-> r,
              wasRunning |-> r # 0 /\ runStatus[r] = "running",
              key |-> IF execKey[i] # None THEN execKey[i]
                      ELSE IF r # 0 THEN runAgent[r] ELSE None]]
  BY DEF WakeLock
<1>5. /\ r = 0 => RunsFor(i) = {}
      /\ r # 0 => execRun[i] = r
  <2>1. CASE IsActive(execRun[i])
    BY <1>4, <2>1 DEF InCharge, IsActive
  <2>2. CASE ~IsActive(execRun[i]) /\ FirstInLine(RunsFor(i), r)
    <3>1. r \in Runs /\ runStatus[r] \in Active /\ execRun[i] = r
      BY <2>2 DEF FirstInLine, RunsFor, OwnerInv, Owner
    <3>2. r # 0
      BY <3>1 DEF Runs
    <3>3. QED
      BY <3>1, <3>2
  <2>3. CASE ~IsActive(execRun[i]) /\ RunsFor(i) = {} /\ r = 0
    BY <2>3
  <2>4. QED
    BY <1>4, <2>1, <2>2, <2>3 DEF InCharge
<1>6. /\ call'[c].pc = "tx" /\ call'[c].issue = i /\ call'[c].seen = r
      /\ \A d \in Callers \ {c} : call'[d] = call[d]
  BY <1>4 DEF OwnerInv, TypeInv, TypeOK
<1>7. rowLock'[i] = c /\ \A j \in Issues \ {i} : rowLock'[j] = rowLock[j]
  BY DEF WakeLock, OwnerInv, TypeInv, TypeOK
<1>8. ASSUME NEW d \in Callers \ {c}, call[d].pc = "tx"
      PROVE  call[d].issue \in Issues \ {i} /\ rowLock[call[d].issue] = d
  BY <1>3, <1>8, TxType DEF OwnerInv, TypeInv, ReadUnderLock
<1>9. execRun' = execRun /\ \A j : RunsFor(j)' = RunsFor(j)
  BY <1>3 DEF dbVars, RunsFor
<1>10. QED
  BY <1>1, <1>2, <1>5, <1>6, <1>7, <1>8, <1>9 DEF OwnerInv, ReadUnderLock

LEMMA OwnerScan ==
  ASSUME OnlyLockedStarts, OwnerInv, NEW c \in Callers, NEW a, NEW k,
         NEW i \in Issues \cup {None}, WakeScan(c, a, i, k)
  PROVE  Orderly /\ Handled' /\ ReadUnderLock'
<1>1. Orderly
  BY Unchanging DEF WakeScan, dbVars, runColumns
<1>2. Handled'
  BY <1>1, HandledKept DEF Orderly, WakeScan
<1>3. i = None
  BY DEF WakeScan, OnlyLockedStarts
<1>4. PICK r :
        call' = [call EXCEPT ![c] =
          [pc |-> "scan", agent |-> a, issue |-> i, kind |-> k, seen |-> r,
           wasRunning |-> FALSE, key |-> None]]
  BY DEF WakeScan
<1>5. /\ call'[c].pc = "scan" /\ call'[c].issue = None
      /\ \A d \in Callers \ {c} : call'[d] = call[d]
  BY <1>3, <1>4 DEF OwnerInv, TypeInv, TypeOK
<1>6. execRun' = execRun /\ rowLock' = rowLock /\ \A j : RunsFor(j)' = RunsFor(j)
  BY DEF WakeScan, dbVars, RunsFor
<1>7. QED
  BY <1>1, <1>2, <1>5, <1>6 DEF OwnerInv, ReadUnderLock

LEMMA OwnerRun ==
  ASSUME OwnerInv, NEW r \in Runs, Claim(r) \/ ExecStep(r)
  PROVE  Orderly /\ Handled' /\ ReadUnderLock'
<1>1. CASE Claim(r)
  <2>1. /\ runStatus[r] = "queued" /\ runStatus' = [runStatus EXCEPT ![r] = "running"]
        /\ exec' = [exec EXCEPT ![r] = "claimed"]
        /\ UNCHANGED <<nRuns, runIssue, execRun, rowLock, call, cancel, reaper>>
    BY <1>1 DEF Claim, Claimable
  <2>2. Orderly
    BY <2>1, WriteStatus DEF Active
  <2>3. Handled'
    BY <2>1 DEF OwnerInv, TypeInv, TypeOK, Handled, Terminal
  <2>4. QED
    BY <2>1, <2>2, <2>3, ReadsKept DEF Orderly
<1>2. CASE ExecBegin(r) \/ AdapterReturns(r) \/ AdapterThrows(r)
  <2>1. /\ exec[r] # "idle" /\ \E pc \in {"idle", "adapter", "settle"} : exec' = [exec EXCEPT ![r] = pc]
        /\ UNCHANGED <<runColumns, execRun, rowLock, call, cancel, reaper>>
    BY <1>2 DEF ExecBegin, AdapterReturns, AdapterThrows, execOnly, dbVars, runColumns
  <2>2. Orderly
    BY <2>1, Unchanging
  <2>3. Handled'
    BY <2>1 DEF OwnerInv, TypeInv, TypeOK, Handled, runColumns
  <2>4. QED
    BY <2>1, <2>2, <2>3, ReadsKept DEF Orderly
<1>3. CASE Settle(r)
  <2>1. /\ exec[r] = "settle" /\ runStatus' = [runStatus EXCEPT ![r] = outcome[r]]
        /\ \E pc \in {"release", "settle"} : exec' = [exec EXCEPT ![r] = pc]
        /\ UNCHANGED <<nRuns, runIssue, execRun, rowLock, call, cancel, reaper>>
    BY <1>3 DEF Settle, OrThrows
  <2>2. outcome[r] \in Terminal /\ runStatus[r] # "absent"
    BY <2>1 DEF OwnerInv, TypeInv, OutcomeKnown, Handled
  <2>3. Orderly
    BY <2>1, <2>2, WriteStatus DEF Active, Terminal
  <2>4. Handled'
    <3>1. /\ runStatus'[r] \in Terminal /\ \A q \in Runs \ {r} : runStatus'[q] = runStatus[q]
          /\ \A q \in Runs \ {r} : exec'[q] = exec[q]
      BY <2>1, <2>2 DEF OwnerInv, TypeInv, TypeOK
    <3>2. "absent" \notin Terminal
      BY DEF Terminal
    <3>3. \A p \in Reapers : reaper[p].todo \subseteq Runs
                             /\ (reaper[p].pc = "release" => reaper[p].run \in Runs)
      BY ReaperPcs DEF OwnerInv, TypeInv
    <3>4. QED
      BY <2>1, <3>1, <3>2, <3>3 DEF OwnerInv, Handled
  <2>5. QED
    BY <2>1, <2>3, <2>4, ReadsKept DEF Orderly
<1>4. CASE ExecRelease(r)
  <2>1. /\ exec[r] = "release" /\ ReleaseAndPromote(r)
        /\ \E pc \in {"idle", "settle"} : exec' = [exec EXCEPT ![r] = pc]
        /\ UNCHANGED <<rowLock, call, cancel, reaper>>
    BY <1>4 DEF ExecRelease, OrThrows
  <2>2. Orderly
    BY <2>1, ReleaseEffect DEF OwnerInv, Handled
  <2>3. \A q \in Runs : exec'[q] = "release" => exec[q] = "release"
    BY <2>1 DEF OwnerInv, TypeInv, TypeOK
  <2>4. \A q \in Runs : exec'[q] # "idle" => exec[q] # "idle"
    BY <2>1 DEF OwnerInv, TypeInv, TypeOK
  <2>5. \A p \in Reapers : reaper[p].todo \subseteq Runs
                           /\ (reaper[p].pc = "release" => reaper[p].run \in Runs)
    BY ReaperPcs DEF OwnerInv, TypeInv
  <2>6. Handled'
    BY <2>1, <2>2, <2>3, <2>4, <2>5 DEF OwnerInv, Handled, Orderly, StatusMoves
  <2>7. QED
    BY <2>1, <2>2, <2>6, ReadsKept DEF Orderly
<1>5. QED
  BY <1>1, <1>2, <1>3, <1>4 DEF ExecStep

LEMMA OwnerCancel ==
  ASSUME OwnerInv, NEW r \in Runs, CancelRead(r) \/ CancelStep(r)
  PROVE  Orderly /\ Handled' /\ ReadUnderLock'
<1>0. \A p \in Reapers : reaper[p].todo \subseteq Runs
                         /\ (reaper[p].pc = "release" => reaper[p].run \in Runs)
  BY ReaperPcs DEF OwnerInv, TypeInv
<1>1. CASE CancelRead(r)
  <2>1. /\ runStatus[r] \in Active /\ cancel' = [cancel EXCEPT ![r] = "set"]
        /\ UNCHANGED <<runColumns, execRun, rowLock, call, exec, reaper>>
    BY <1>1 DEF CancelRead, IsActive, dbVars, runColumns
  <2>2. Orderly
    BY <2>1, Unchanging
  <2>3. Handled'
    BY <2>1 DEF OwnerInv, TypeInv, TypeOK, Handled, runColumns, Active
  <2>4. QED
    BY <2>1, <2>2, <2>3, ReadsKept DEF Orderly
<1>2. CASE CancelSet(r)
  <2>1. /\ cancel[r] = "set" /\ runStatus' = [runStatus EXCEPT ![r] = "cancelled"]
        /\ cancel' = [cancel EXCEPT ![r] = "release"]
        /\ UNCHANGED <<nRuns, runIssue, execRun, rowLock, call, exec, reaper>>
    BY <1>2 DEF CancelSet
  <2>2. runStatus[r] # "absent"
    BY <2>1 DEF OwnerInv, Handled
  <2>3. Orderly
    BY <2>1, <2>2, WriteStatus DEF Active, Terminal
  <2>4. /\ runStatus'[r] = "cancelled" /\ \A q \in Runs \ {r} : runStatus'[q] = runStatus[q]
        /\ \A q \in Runs \ {r} : cancel'[q] = cancel[q]
    BY <2>1 DEF OwnerInv, TypeInv, TypeOK
  <2>5. Handled'
    BY <1>0, <2>1, <2>4 DEF OwnerInv, Handled, Terminal
  <2>6. QED
    BY <2>1, <2>3, <2>5, ReadsKept DEF Orderly
<1>3. CASE CancelRelease(r)
  <2>1. /\ cancel[r] = "release" /\ ReleaseAndPromote(r) /\ cancel' = [cancel EXCEPT ![r] = "idle"]
        /\ UNCHANGED <<rowLock, call, exec, reaper>>
    BY <1>3 DEF CancelRelease
  <2>2. Orderly
    BY <2>1, ReleaseEffect DEF OwnerInv, Handled
  <2>3. \A q \in Runs : cancel'[q] # "idle" => cancel'[q] = cancel[q]
    BY <2>1 DEF OwnerInv, TypeInv, TypeOK
  <2>4. Handled'
    BY <1>0, <2>1, <2>2, <2>3 DEF OwnerInv, Handled, Orderly, StatusMoves
  <2>5. QED
    BY <2>1, <2>2, <2>4, ReadsKept DEF Orderly
<1>4. QED
  BY <1>1, <1>2, <1>3 DEF CancelStep

LEMMA OwnerIssue ==
  ASSUME OnlyLockedStarts, OwnerInv, NEW i \in Issues,
         \/ \E r \in Runs : Checkout(r, i) \/ AdoptStaleCheckout(r, i)
         \/ ClearCheckout(i) \/ \E k : CancelDeferred(i, k)
  PROVE  Orderly /\ Handled' /\ ReadUnderLock'
<1>1. ASSUME NEW r \in Runs, Checkout(r, i)
      PROVE  Orderly /\ Handled' /\ ReadUnderLock'
  <2>1. /\ exec[r] = "adapter" /\ rowLock[i] = None /\ execRun[i] \in {0, r}
        /\ execRun' = [execRun EXCEPT ![i] = r]
        /\ UNCHANGED <<runColumns, rowLock, call, exec, cancel, reaper>>
    BY <1>1 DEF Checkout, RowUnlocked, checkoutFrame, procVars
  <2>2. execRun'[i] = r /\ \A j \in Issues \ {i} : execRun'[j] = execRun[j]
    BY <2>1 DEF OwnerInv, TypeInv, TypeOK
  <2>3. NoRunBeyond' /\ StatusMoves
    BY <2>1 DEF OwnerInv, NoRunBeyond, StatusMoves, runColumns
  <2>4. Owner'
    BY <2>1, <2>2 DEF OwnerInv, Owner, runColumns, Runs
  <2>5. LockedRowsKept
    BY <2>1, <2>2 DEF LockedRowsKept, RunsFor, runColumns
  <2>6. QED
    BY <2>1, <2>3, <2>4, <2>5, HandledKept, ReadsKept DEF Orderly
<1>2. ASSUME NEW r \in Runs, AdoptStaleCheckout(r, i)
      PROVE  FALSE
  BY <1>2 DEF AdoptStaleCheckout, OnlyLockedStarts
<1>3. CASE ClearCheckout(i) \/ \E k : CancelDeferred(i, k)
  <2>1. UNCHANGED <<runColumns, execRun, rowLock, call, exec, cancel, reaper>>
    BY <1>3 DEF ClearCheckout, CancelDeferred, checkoutFrame, procVars
  <2>2. QED
    BY <2>1, Unchanging, HandledKept, ReadsKept DEF Orderly
<1>4. QED
  BY <1>1, <1>2, <1>3

LEMMA OwnerAgent ==
  ASSUME OwnerInv, NEW a \in Agents, Pause(a) \/ Resume(a)
  PROVE  Orderly /\ Handled' /\ ReadUnderLock'
<1>1. UNCHANGED <<runColumns, execRun, rowLock, call, exec, reaper>>
  BY DEF Pause, Resume, procVars
<1>2. Orderly /\ ReadUnderLock'
  BY <1>1, Unchanging, ReadsKept DEF Orderly
<1>3. CASE Pause(a)
  <2>1. \A q \in Runs : cancel'[q] = IF IsActive(q) /\ runAgent[q] = a /\ cancel[q] = "idle"
                                     THEN "set" ELSE cancel[q]
    BY <1>3 DEF Pause
  <2>2. Handled'
    BY <1>1, <2>1 DEF OwnerInv, Handled, IsActive, Active, runColumns
  <2>3. QED
    BY <1>2, <2>2
<1>4. CASE Resume(a)
  BY <1>2, <1>4, HandledKept DEF Resume, procVars, Orderly
<1>5. QED
  BY <1>3, <1>4

LEMMA OwnerReap ==
  ASSUME OnlyLockedStarts, OwnerInv, NEW p \in Reapers, ReapScan(p) \/ ReapStep(p)
  PROVE  Orderly /\ Handled' /\ ReadUnderLock'
<1>0. /\ reaper[p].todo \subseteq Runs
      /\ reaper[p].pc = "release" => reaper[p].run \in Runs
      /\ \A q \in Reapers : reaper[q].todo \subseteq Runs
                            /\ (reaper[q].pc = "release" => reaper[q].run \in Runs)
  BY ReaperPcs DEF OwnerInv, TypeInv
<1>1. UNCHANGED <<rowLock, call, exec, cancel>>
  BY DEF ReapScan, ReapStep, ReapSkip, ReapDetached, ReapFail, ReapRelease, ReapRetry, ReapEnd,
         reaperFrame
<1>2. ASSUME NEW todo \in SUBSET Runs, NEW pc, NEW run, UNCHANGED <<runColumns, execRun>>,
             reaper' = [reaper EXCEPT ![p] = [pc |-> pc, todo |-> todo, run |-> run]],
             \A r \in todo : runStatus[r] # "absent", pc \in {"idle", "loop"}
      PROVE  Orderly /\ Handled'
  <2>1. /\ reaper'[p].todo = todo /\ reaper'[p].pc = pc
        /\ \A q \in Reapers \ {p} : reaper'[q] = reaper[q]
    BY <1>2 DEF OwnerInv, TypeInv, TypeOK
  <2>2. runStatus' = runStatus
    BY <1>2 DEF runColumns
  <2>3. Handled'
    BY <1>0, <1>1, <1>2, <2>1, <2>2 DEF OwnerInv, Handled
  <2>4. QED
    BY <1>2, <2>3, Unchanging
<1>3. CASE ReapScan(p)
  <2> DEFINE todo == {r \in Runs : runStatus[r] = "running"}
  <2>1. /\ reaper' = [reaper EXCEPT ![p] = [pc |-> "loop", todo |-> todo, run |-> 0]]
        /\ UNCHANGED <<runColumns, execRun>>
    BY <1>3 DEF ReapScan
  <2>2. todo \in SUBSET Runs /\ \A r \in todo : runStatus[r] # "absent"
    OBVIOUS
  <2>3. Orderly /\ Handled'
    <3> HIDE DEF todo
    <3> QED BY <1>2, <2>1, <2>2
  <2>4. QED
    BY <1>1, <2>3, ReadsKept DEF Orderly
<1>4. ASSUME NEW r \in Runs, ReapSkip(p, r)
      PROVE  Orderly /\ Handled' /\ ReadUnderLock'
  <2>1. reaper'[p].todo \subseteq reaper[p].todo /\ reaper'[p].pc = reaper[p].pc
        /\ reaper'[p].run = reaper[p].run
        /\ \A q \in Reapers \ {p} : reaper'[q] = reaper[q]
    BY <1>4 DEF ReapSkip, OwnerInv, TypeInv, TypeOK, ReaperStates
  <2>2. UNCHANGED <<runColumns, execRun>>
    BY <1>4 DEF ReapSkip
  <2>3. runStatus' = runStatus
    BY <2>2 DEF runColumns
  <2>4. Handled'
    BY <1>1, <2>1, <2>3 DEF OwnerInv, Handled
  <2>5. QED
    BY <1>1, <2>2, <2>4, Unchanging, ReadsKept DEF Orderly
<1>5. ASSUME NEW r \in Runs, ReapDetached(p, r)
      PROVE  FALSE
  BY <1>5 DEF ReapDetached, OnlyLockedStarts
<1>6. ASSUME NEW r \in Runs, ReapFail(p, r)
      PROVE  Orderly /\ Handled' /\ ReadUnderLock'
  <2>1. /\ r \in reaper[p].todo
        /\ runStatus' = [runStatus EXCEPT ![r] = "failed"]
        /\ reaper' = [reaper EXCEPT ![p] =
             [pc |-> "release", todo |-> reaper[p].todo \ {r}, run |-> r]]
        /\ UNCHANGED <<nRuns, runIssue, execRun>>
    BY <1>6 DEF ReapFail, OnlyLockedStarts
  <2>2. runStatus[r] # "absent"
    BY <2>1 DEF OwnerInv, Handled
  <2>3. Orderly
    BY <2>1, <2>2, WriteStatus DEF Active, Terminal
  <2>4. runStatus'[r] = "failed" /\ \A q \in Runs \ {r} : runStatus'[q] = runStatus[q]
    BY <2>1 DEF OwnerInv, TypeInv, TypeOK
  <2>5. /\ reaper'[p].todo \subseteq reaper[p].todo /\ reaper'[p].pc = "release" /\ reaper'[p].run = r
        /\ \A q \in Reapers \ {p} : reaper'[q] = reaper[q]
    BY <2>1 DEF OwnerInv, TypeInv, TypeOK
  <2>6. Handled'
    BY <1>0, <1>1, <2>4, <2>5 DEF OwnerInv, Handled, Terminal
  <2>7. QED
    BY <1>1, <2>3, <2>6, ReadsKept DEF Orderly
<1>7. CASE ReapRelease(p)
  <2>1. reaper[p].pc = "release" /\ ReleaseAndPromote(reaper[p].run) /\ ReapNext(p)
    BY <1>7 DEF ReapRelease
  <2>2. Orderly
    BY <1>0, <2>1, ReleaseEffect DEF OwnerInv, Handled
  <2>3. /\ reaper'[p].todo = reaper[p].todo /\ reaper'[p].pc = "loop"
        /\ \A q \in Reapers \ {p} : reaper'[q] = reaper[q]
    BY <2>1 DEF ReapNext, OwnerInv, TypeInv, TypeOK, ReaperStates
  <2>4. Handled'
    BY <1>0, <1>1, <2>2, <2>3 DEF OwnerInv, Handled, Orderly, StatusMoves
  <2>5. QED
    BY <1>1, <2>2, <2>4, ReadsKept DEF Orderly
<1>8. ASSUME ReapRetry(p) PROVE FALSE
  BY <1>8 DEF ReapRetry, OwnerInv, Handled
<1>9. CASE ReapEnd(p)
  <2>1. /\ reaper' = [reaper EXCEPT ![p] = [pc |-> "idle", todo |-> {}, run |-> 0]]
        /\ UNCHANGED <<runColumns, execRun>>
    BY <1>9 DEF ReapEnd, NoReaper
  <2>0. {} \in SUBSET Runs /\ \A r \in {} : runStatus[r] # "absent"
    OBVIOUS
  <2>2. Orderly /\ Handled'
    BY <1>2, <2>0, <2>1
  <2>3. QED
    BY <1>1, <2>2, ReadsKept DEF Orderly
<1>10. QED
  BY <1>3, <1>4, <1>5, <1>6, <1>7, <1>8, <1>9 DEF ReapStep

LEMMA OwnerCrash ==
  ASSUME OwnerInv, Crash
  PROVE  Orderly /\ Handled' /\ ReadUnderLock'
<1>1. Orderly
  BY Unchanging DEF Crash, dbVars, runColumns
<1>2. Handled' /\ ReadUnderLock'
  BY DEF Crash, ProcInit, NoReaper, NoCall, Handled, ReadUnderLock
<1>3. QED
  BY <1>1, <1>2

\* Every step keeps the invariant, and moves no finished run.
LEMMA OwnerStep ==
  ASSUME OnlyLockedStarts, OwnerInv, [Next]_vars
  PROVE  OwnerInv' /\ StatusMoves
<1>1. TypeInv'
  BY TypeStep, OutcomeStep DEF OwnerInv, TypeInv
<1>2. NoRunBeyond' /\ Owner' /\ StatusMoves /\ Handled' /\ ReadUnderLock'
  <2>1. CASE UNCHANGED vars
    <3>1. UNCHANGED <<runColumns, execRun, rowLock, call, exec, cancel, reaper>>
      BY <2>1 DEF vars, dbVars, procVars, runColumns
    <3>2. QED
      BY <3>1, Unchanging, HandledKept, ReadsKept DEF Orderly
  <2>2. ASSUME NEW c \in Callers, WakeStep(c)
        PROVE  NoRunBeyond' /\ Owner' /\ StatusMoves /\ Handled' /\ ReadUnderLock'
    BY <2>2, OwnerWake
  <2>3. ASSUME NEW c \in Callers, NEW a \in Agents, NEW k \in Kinds,
               \/ \E i \in Issues : WakeLock(c, a, i, k)
               \/ \E i \in Issues \cup {None} : WakeScan(c, a, i, k)
        PROVE  Orderly /\ Handled' /\ ReadUnderLock'
    BY <2>3, OwnerLock, OwnerScan
  <2>4. ASSUME NEW r \in Runs, Claim(r) \/ ExecStep(r) \/ CancelRead(r) \/ CancelStep(r)
        PROVE  Orderly /\ Handled' /\ ReadUnderLock'
    BY <2>4, OwnerRun, OwnerCancel
  <2>5. ASSUME NEW i \in Issues,
               \/ \E r \in Runs : Checkout(r, i) \/ AdoptStaleCheckout(r, i)
               \/ ClearCheckout(i)
               \/ \E k \in 1..Cardinality(Agents) : CancelDeferred(i, k)
        PROVE  Orderly /\ Handled' /\ ReadUnderLock'
    BY <2>5, OwnerIssue
  <2>6. ASSUME NEW a \in Agents, Pause(a) \/ Resume(a)
        PROVE  Orderly /\ Handled' /\ ReadUnderLock'
    BY <2>6, OwnerAgent
  <2>7. ASSUME NEW p \in Reapers, ReapScan(p) \/ ReapStep(p)
        PROVE  Orderly /\ Handled' /\ ReadUnderLock'
    BY <2>7, OwnerReap
  <2>8. QED
    BY <2>1, <2>2, <2>3, <2>4, <2>5, <2>6, <2>7, OwnerCrash DEF Next, Orderly
<1>3. QED
  BY <1>1, <1>2 DEF OwnerInv

LEMMA OwnerInit ==
  ASSUME Init
  PROVE  OwnerInv
<1>1. TypeInv
  BY DEF Init, TypeInv, OutcomeKnown, TypeOK, ProcInit, NoReaper, ExecPcs, Calls, ReaperStates, Runs
<1>2. QED
  BY <1>1 DEF Init, OwnerInv, NoRunBeyond, Owner, Handled, ReadUnderLock, ProcInit, NoReaper,
              NoCall, Active

\* Acceptance 1 of the orchestration plan, wherever every run of an issue is
\* started under its lock: two active runs of one issue are one run.
THEOREM OneOwner ==
  ASSUME OnlyLockedStarts
  PROVE  Spec => []OneActiveRunPerIssue
<1>1. Init => OwnerInv
  BY OwnerInit
<1>2. OwnerInv /\ [Next]_vars => OwnerInv'
  BY OwnerStep
<1>3. OwnerInv => OneActiveRunPerIssue
  BY DEF OwnerInv, Owner, OneActiveRunPerIssue, RunsFor
<1>4. QED
  BY <1>1, <1>2, <1>3, PTL DEF Spec

\* In the same configurations no handler, however late it writes a status,
\* brings a finished run back.
THEOREM Finished ==
  ASSUME OnlyLockedStarts
  PROVE  Spec => FinishedStaysFinished
<1>1. Init => OwnerInv
  BY OwnerInit
<1>2. OwnerInv /\ [Next]_vars => OwnerInv'
  BY OwnerStep
<1>3. OwnerInv /\ [Next]_vars =>
        [\A r \in Runs : runStatus[r] \in Terminal => runStatus'[r] \in Terminal]_vars
  BY OwnerStep DEF StatusMoves
<1>4. QED
  BY <1>1, <1>2, <1>3, PTL DEF Spec, FinishedStaysFinished

-----------------------------------------------------------------------------
(* No deferred request without a lock, whatever is turned on: the next      *)
(* wakeup for the issue repairs the lock and the requests behind it are     *)
(* promoted after all.                                                      *)

\* A release empties the queue of the issue whose lock it clears.
LEMMA ReleaseWaiters ==
  ASSUME TypeInv, DeferredBehindLock, NEW r, ReleaseAndPromote(r)
  PROVE  DeferredBehindLock'
<1> USE DEF TypeInv
<1>1. CASE UNCHANGED <<runColumns, execRun, execKey, deferred>>
  BY <1>1 DEF DeferredBehindLock
<1>2. ASSUME NEW i \in Issues, ClearLock(i) PROVE DeferredBehindLock'
  BY <1>2 DEF ClearLock, DeferredBehindLock, TypeOK
<1>3. ASSUME NEW i \in Issues, PromoteDeferred(i) PROVE DeferredBehindLock'
  <2>1. /\ execRun' = [execRun EXCEPT ![i] = nRuns + 1]
        /\ \E q : deferred' = [deferred EXCEPT ![i] = q]
    BY <1>3 DEF PromoteDeferred
  <2>2. nRuns + 1 # 0
    BY DEF TypeOK
  <2>3. QED
    BY <2>1, <2>2 DEF DeferredBehindLock, TypeOK
<1>4. QED
  BY <1>1, <1>2, <1>3 DEF ReleaseAndPromote, HeldBy

\* A transaction defers behind the lock it has found or repaired.
LEMMA WakeWaiters ==
  ASSUME TypeInv, DeferredBehindLock, NEW c \in Callers, WakeStep(c)
  PROVE  DeferredBehindLock'
<1> DEFINE i == call[c].issue
<1>1. CASE WakeCoalesce(c) \/ WakeDefer(c)
  <2>1. /\ i \in Issues /\ call[c].seen # 0
        /\ execRun' = [execRun EXCEPT ![i] = call[c].seen]
        /\ \E q : deferred' = [deferred EXCEPT ![i] = q] \/ deferred' = deferred
    BY <1>1, TxType DEF WakeCoalesce, WakeDefer, Coalesces, KeepOrRepairLock, TypeInv
  <2>2. QED
    BY <2>1 DEF DeferredBehindLock, TypeInv, TypeOK
<1>2. CASE WakeStart(c)
  <2>1. i \in Issues /\ execRun' = [execRun EXCEPT ![i] = nRuns + 1] /\ deferred' = deferred
    BY <1>2, TxType DEF WakeStart, TypeInv
  <2>2. nRuns + 1 # 0
    BY DEF TypeInv, TypeOK
  <2>3. QED
    BY <2>1, <2>2 DEF DeferredBehindLock, TypeInv, TypeOK
<1>3. CASE WakeScanned(c)
  BY <1>3 DEF WakeScanned, DeferredBehindLock
<1>4. QED
  BY <1>1, <1>2, <1>3 DEF WakeStep

LEMMA WaitersStep == TypeInv /\ DeferredBehindLock /\ [Next]_vars => DeferredBehindLock'
<1> SUFFICES ASSUME TypeInv, DeferredBehindLock, [Next]_vars PROVE DeferredBehindLock'
  OBVIOUS
<1>1. ASSUME UNCHANGED <<execRun, deferred>> PROVE DeferredBehindLock'
  BY <1>1 DEF DeferredBehindLock
<1>2. ASSUME NEW c \in Callers, NEW a \in Agents, NEW k \in Kinds,
             \/ \E i \in Issues : WakeLock(c, a, i, k)
             \/ \E i \in Issues \cup {None} : WakeScan(c, a, i, k)
      PROVE  DeferredBehindLock'
  BY <1>1, <1>2 DEF WakeLock, WakeScan, dbVars
<1>3. ASSUME NEW r \in Runs, Claim(r) \/ ExecStep(r) PROVE DeferredBehindLock'
  <2>1. CASE ExecRelease(r)
    BY <2>1, ReleaseWaiters DEF ExecRelease
  <2>2. CASE Claim(r) \/ ExecBegin(r) \/ AdapterReturns(r) \/ AdapterThrows(r) \/ Settle(r)
    BY <1>1, <2>2 DEF Claim, ExecBegin, AdapterReturns, AdapterThrows, Settle, execOnly, dbVars
  <2>3. QED
    BY <1>3, <2>1, <2>2 DEF ExecStep
<1>4. ASSUME NEW r \in Runs, CancelRead(r) \/ CancelStep(r) PROVE DeferredBehindLock'
  BY <1>1, <1>4, ReleaseWaiters DEF CancelRead, CancelStep, CancelSet, CancelRelease, dbVars
<1>5. ASSUME NEW i \in Issues, NEW r \in Runs, Checkout(r, i) \/ AdoptStaleCheckout(r, i)
      PROVE  DeferredBehindLock'
  <2>1. execRun' = [execRun EXCEPT ![i] = r] /\ deferred' = deferred /\ r # 0
    BY <1>5 DEF Checkout, AdoptStaleCheckout, checkoutFrame, Runs
  <2>2. QED
    BY <2>1 DEF DeferredBehindLock, TypeInv, TypeOK
<1>6. ASSUME NEW i \in Issues, NEW k \in 1..Cardinality(Agents), CancelDeferred(i, k)
      PROVE  DeferredBehindLock'
  <2>1. /\ k \in DOMAIN deferred[i] /\ execRun' = execRun
        /\ \E q : deferred' = [deferred EXCEPT ![i] = q]
    BY <1>6 DEF CancelDeferred
  <2>2. deferred[i] # <<>>
    BY <2>1
  <2>3. QED
    BY <2>1, <2>2 DEF DeferredBehindLock, TypeInv, TypeOK
<1>7. ASSUME NEW i \in Issues, ClearCheckout(i) PROVE DeferredBehindLock'
  BY <1>1, <1>7 DEF ClearCheckout, checkoutFrame
<1>8. ASSUME NEW a \in Agents, Pause(a) \/ Resume(a) PROVE DeferredBehindLock'
  BY <1>1, <1>8 DEF Pause, Resume
<1>9. ASSUME NEW p \in Reapers, ReapScan(p) \/ ReapStep(p) PROVE DeferredBehindLock'
  <2>1. CASE ReapRelease(p)
    BY <2>1, ReleaseWaiters DEF ReapRelease
  <2>2. CASE ReapRetry(p)
    <3>1. /\ deferred' = deferred
          /\ \/ execRun' = execRun
             \/ \E i : execRun' = [execRun EXCEPT ![i] = nRuns + 1]
      BY <2>2 DEF ReapRetry
    <3>2. nRuns + 1 # 0
      BY DEF TypeInv, TypeOK
    <3>3. QED
      BY <3>1, <3>2 DEF DeferredBehindLock, TypeInv, TypeOK
  <2>3. CASE ReapScan(p) \/ ReapEnd(p)
             \/ \E r \in Runs : ReapSkip(p, r) \/ ReapDetached(p, r) \/ ReapFail(p, r)
    BY <1>1, <2>3 DEF ReapScan, ReapEnd, ReapSkip, ReapDetached, ReapFail
  <2>4. QED
    BY <1>9, <2>1, <2>2, <2>3 DEF ReapStep
<1>10. CASE Crash
  BY <1>1, <1>10 DEF Crash, dbVars
<1>11. CASE UNCHANGED vars
  BY <1>1, <1>11 DEF vars, dbVars
<1>12. QED
  BY <1>2, <1>3, <1>4, <1>5, <1>6, <1>7, <1>8, <1>9, <1>10, <1>11, WakeWaiters DEF Next

\* In every configuration, restarts, adoptions and retries included, an issue
\* with deferred requests has a lock: whoever clears it drops or promotes them.
THEOREM WaitersBehindLock == Spec => []DeferredBehindLock
<1>1. Init => TypeInv /\ DeferredBehindLock
  BY OwnerInit DEF OwnerInv, Init, DeferredBehindLock
<1>2. TypeInv /\ DeferredBehindLock /\ [Next]_vars => (TypeInv /\ DeferredBehindLock)'
  BY TypeStep, OutcomeStep, WaitersStep DEF TypeInv
<1>3. QED
  BY <1>1, <1>2, PTL DEF Spec

-----------------------------------------------------------------------------
(* What the reaper works on.  Its snapshot holds runs that have been        *)
(* started; a run nobody executes is not executed again, since only queued  *)
(* runs are claimed; so what it found to be an orphan is one until it moves *)
(* on, and a run it has retried is never in a later snapshot.               *)

Started(r) == runStatus[r] = "running" \/ runStatus[r] \in Terminal

HasRetry(r) == \E q \in 1..nRuns : retryOf[q] = r

\* Only rows that exist are worked on.
Rows ==
  /\ NoRunBeyond
  /\ \A r \in Runs : exec[r] # "idle" \/ cancel[r] # "idle" => runStatus[r] # "absent"
  /\ \A q \in 1..nRuns : retryOf[q] <= nRuns

Snapshots == \A p \in Reapers : \A r \in reaper[p].todo : Started(r)

AtHand ==
  \A p \in Reapers : reaper[p].run # 0 =>
    /\ Started(reaper[p].run)
    /\ "foreign" \notin Features => exec[reaper[p].run] = "idle"

ReaperInv == TypeInv /\ Rows /\ Snapshots /\ AtHand

\* A step of another handler starts no started run again, gives nobody's run
\* to somebody, and leaves a finished run that nobody executes finished.
Steady ==
  /\ Rows'
  /\ \A r \in Runs : /\ Started(r) => Started(r)'
                     /\ Started(r) /\ exec[r] = "idle" => exec'[r] = "idle"
                     /\ runStatus[r] \in Terminal /\ exec[r] = "idle" => runStatus'[r] \in Terminal

\* It adds no retry either.
NoRetry ==
  \/ UNCHANGED <<nRuns, retryOf>>
  \/ nRuns' = nRuns + 1 /\ nRuns + 1 \in Runs /\ retryOf' = [retryOf EXCEPT ![nRuns + 1] = 0]

LEMMA SteadySame ==
  ASSUME ReaperInv, UNCHANGED <<nRuns, runStatus, retryOf>>,
         \A r \in Runs : /\ exec'[r] # "idle" => exec[r] # "idle"
                         /\ cancel'[r] # "idle" => cancel[r] # "idle" \/ runStatus[r] # "absent"
  PROVE  Steady /\ NoRetry
BY DEF ReaperInv, Rows, Steady, NoRetry, NoRunBeyond, Started

\* The new row is nobody's.
LEMMA SteadyInsert ==
  ASSUME ReaperInv, NEW a, NEW i, NEW of \in 0..nRuns, InsertRun(nRuns + 1, a, i, of),
         \A r \in Runs : /\ exec'[r] # "idle" => exec[r] # "idle"
                         /\ cancel'[r] # "idle" => cancel[r] # "idle"
  PROVE  Steady
<1> DEFINE n == nRuns + 1
<1>1. /\ n \in Runs /\ runStatus[n] = "absent" /\ runStatus'[n] = "queued"
      /\ \A q \in Runs \ {n} : runStatus'[q] = runStatus[q]
      /\ NoRunBeyond'
  BY InsertEffect DEF ReaperInv, TypeInv, Rows
<1>2. nRuns' = n /\ n \in Nat /\ retryOf' = [retryOf EXCEPT ![n] = of]
  BY DEF InsertRun, ReaperInv, TypeInv, TypeOK
<1>3. \A q \in 1..nRuns : retryOf'[q] = retryOf[q] /\ q \in Runs
  BY <1>2 DEF ReaperInv, TypeInv, TypeOK, Runs
<1>4. retryOf'[n] = of
  BY <1>1, <1>2 DEF ReaperInv, TypeInv, TypeOK
<1>5. \A q \in 1..nRuns' : retryOf'[q] <= nRuns'
  <2>1. nRuns \in Nat /\ nRuns' = nRuns + 1 /\ of \in 0..nRuns
    BY <1>2 DEF ReaperInv, TypeInv, TypeOK
  <2>2. \A q \in 1..nRuns : retryOf[q] <= nRuns /\ retryOf[q] \in Nat
    BY <1>3 DEF ReaperInv, Rows, TypeInv, TypeOK
  <2>3. QED
    BY <1>3, <1>4, <2>1, <2>2
<1> HIDE DEF n
<1>6. \A r \in Runs : Started(r) => Started(r)'
  BY <1>1 DEF Started, Terminal
<1>7. \A r \in Runs : runStatus[r] \in Terminal => runStatus'[r] \in Terminal
  BY <1>1 DEF Terminal
<1>8. Rows'
  BY <1>1, <1>5 DEF Rows, ReaperInv
<1>9. QED
  BY <1>6, <1>7, <1>8 DEF Steady

\* A run that exists is given a status; only its executor, or a claim of a
\* queued run, makes a status other than a final one of it.
LEMMA SteadyWrite ==
  ASSUME ReaperInv, NEW r \in Runs, NEW s \in Terminal \cup {"running"}, runStatus[r] # "absent",
         runStatus' = [runStatus EXCEPT ![r] = s], UNCHANGED <<nRuns, retryOf>>,
         s = "running" => exec[r] # "idle" \/ runStatus[r] \notin Terminal,
         \A q \in Runs : exec'[q] # "idle" => exec[q] # "idle" \/ (q = r /\ runStatus[r] = "queued"),
         \A q \in Runs : cancel'[q] # "idle" => cancel[q] # "idle"
  PROVE  Steady /\ NoRetry
<1>1. runStatus'[r] = s /\ \A q \in Runs \ {r} : runStatus'[q] = runStatus[q]
  BY DEF ReaperInv, TypeInv, TypeOK
<1>2. s # "absent" /\ "queued" \notin Terminal
  BY DEF Terminal
<1>3. NoRunBeyond'
  BY <1>1, <1>2 DEF ReaperInv, Rows, NoRunBeyond
<1>4. Rows'
  BY <1>1, <1>2, <1>3 DEF ReaperInv, Rows
<1>5. ASSUME NEW q \in Runs
      PROVE  /\ Started(q) => Started(q)'
             /\ Started(q) /\ exec[q] = "idle" => exec'[q] = "idle"
             /\ runStatus[q] \in Terminal /\ exec[q] = "idle" => runStatus'[q] \in Terminal
  BY <1>1, <1>2 DEF Started
<1>6. QED
  BY <1>4, <1>5 DEF Steady, NoRetry

LEMMA SteadyRelease ==
  ASSUME ReaperInv, NEW r, ReleaseAndPromote(r),
         \A q \in Runs : /\ exec'[q] # "idle" => exec[q] # "idle"
                         /\ cancel'[q] # "idle" => cancel[q] # "idle"
  PROVE  Steady /\ NoRetry
<1>1. CASE UNCHANGED runColumns
  BY <1>1, SteadySame DEF runColumns
<1>2. ASSUME NEW a, NEW i, InsertRun(nRuns + 1, a, i, 0) PROVE Steady /\ NoRetry
  <2>1. 0 \in 0..nRuns
    BY DEF ReaperInv, TypeInv, TypeOK
  <2>2. NoRetry
    BY <1>2 DEF NoRetry, InsertRun, ReaperInv, TypeInv, TypeOK, Runs
  <2>3. QED
    BY <1>2, <2>1, <2>2, SteadyInsert
<1>3. QED
  BY <1>1, <1>2 DEF ReleaseAndPromote, ClearLock, PromoteDeferred, runColumns

LEMMA SteadyWake ==
  ASSUME ReaperInv, NEW c \in Callers, WakeStep(c)
  PROVE  Steady /\ NoRetry /\ reaper' = reaper
<1>1. UNCHANGED <<exec, cancel, reaper>>
  BY DEF WakeStep, WakeCoalesce, WakeDefer, WakeStart, WakeScanned, EndTx
<1>2. CASE UNCHANGED runColumns
  BY <1>1, <1>2, SteadySame DEF runColumns
<1>3. ASSUME NEW a, NEW i, InsertRun(nRuns + 1, a, i, 0) PROVE Steady /\ NoRetry
  <2>1. 0 \in 0..nRuns
    BY DEF ReaperInv, TypeInv, TypeOK
  <2>2. NoRetry
    BY <1>3 DEF NoRetry, InsertRun, ReaperInv, TypeInv, TypeOK, Runs
  <2>3. QED
    BY <1>1, <1>3, <2>1, <2>2, SteadyInsert
<1>4. QED
  BY <1>1, <1>2, <1>3 DEF WakeStep, WakeCoalesce, WakeDefer, WakeStart, WakeScanned, runColumns

LEMMA SteadyRun ==
  ASSUME ReaperInv, NEW r \in Runs, Claim(r) \/ ExecStep(r)
  PROVE  Steady /\ NoRetry /\ reaper' = reaper
<1>1. reaper' = reaper
  BY DEF Claim, ExecStep, ExecBegin, AdapterReturns, AdapterThrows, Settle, ExecRelease, execOnly
<1>2. CASE Claim(r)
  <2>1. /\ runStatus[r] = "queued" /\ runStatus' = [runStatus EXCEPT ![r] = "running"]
        /\ exec' = [exec EXCEPT ![r] = "claimed"] /\ UNCHANGED <<nRuns, retryOf, cancel>>
    BY <1>2 DEF Claim, Claimable
  <2>2. \A q \in Runs : exec'[q] # "idle" => exec[q] # "idle" \/ (q = r /\ runStatus[r] = "queued")
    BY <2>1 DEF ReaperInv, TypeInv, TypeOK
  <2>3. QED
    BY <1>1, <2>1, <2>2, SteadyWrite DEF Terminal
<1>3. CASE ExecBegin(r) \/ AdapterReturns(r) \/ AdapterThrows(r)
  <2>1. /\ exec[r] # "idle" /\ \E pc : exec' = [exec EXCEPT ![r] = pc]
        /\ UNCHANGED <<nRuns, runStatus, retryOf, cancel>>
    BY <1>3 DEF ExecBegin, AdapterReturns, AdapterThrows, execOnly, dbVars
  <2>2. \A q \in Runs : exec'[q] # "idle" => exec[q] # "idle"
    BY <2>1 DEF ReaperInv, TypeInv, TypeOK
  <2>3. QED
    BY <1>1, <2>1, <2>2, SteadySame
<1>4. CASE Settle(r)
  <2>1. /\ exec[r] = "settle" /\ runStatus' = [runStatus EXCEPT ![r] = outcome[r]]
        /\ \E pc : exec' = [exec EXCEPT ![r] = pc] /\ UNCHANGED <<nRuns, retryOf, cancel>>
    BY <1>4 DEF Settle, OrThrows
  <2>2. outcome[r] \in Terminal /\ runStatus[r] # "absent"
    BY <2>1 DEF ReaperInv, TypeInv, OutcomeKnown, Rows
  <2>3. \A q \in Runs : exec'[q] # "idle" => exec[q] # "idle"
    BY <2>1 DEF ReaperInv, TypeInv, TypeOK
  <2>4. QED
    BY <1>1, <2>1, <2>2, <2>3, SteadyWrite
<1>5. CASE ExecRelease(r)
  <2>1. /\ exec[r] = "release" /\ ReleaseAndPromote(r) /\ cancel' = cancel
        /\ \E pc : exec' = [exec EXCEPT ![r] = pc]
    BY <1>5 DEF ExecRelease, OrThrows
  <2>2. \A q \in Runs : exec'[q] # "idle" => exec[q] # "idle"
    BY <2>1 DEF ReaperInv, TypeInv, TypeOK
  <2>3. QED
    BY <1>1, <2>1, <2>2, SteadyRelease
<1>6. QED
  BY <1>2, <1>3, <1>4, <1>5 DEF ExecStep

LEMMA SteadyCancel ==
  ASSUME ReaperInv, NEW r \in Runs, CancelRead(r) \/ CancelStep(r)
  PROVE  Steady /\ NoRetry /\ reaper' = reaper
<1>1. UNCHANGED <<exec, reaper>>
  BY DEF CancelRead, CancelStep, CancelSet, CancelRelease
<1>2. CASE CancelRead(r)
  <2>1. /\ runStatus[r] \in Active /\ cancel' = [cancel EXCEPT ![r] = "set"]
        /\ UNCHANGED <<nRuns, runStatus, retryOf>>
    BY <1>2 DEF CancelRead, IsActive, dbVars
  <2>2. \A q \in Runs : cancel'[q] # "idle" => cancel[q] # "idle" \/ runStatus[q] # "absent"
    BY <2>1 DEF ReaperInv, TypeInv, TypeOK, Active
  <2>3. QED
    BY <1>1, <2>1, <2>2, SteadySame
<1>3. CASE CancelSet(r)
  <2>1. /\ cancel[r] = "set" /\ runStatus' = [runStatus EXCEPT ![r] = "cancelled"]
        /\ cancel' = [cancel EXCEPT ![r] = "release"] /\ UNCHANGED <<nRuns, retryOf>>
    BY <1>3 DEF CancelSet
  <2>2. runStatus[r] # "absent" /\ \A q \in Runs : cancel'[q] # "idle" => cancel[q] # "idle"
    BY <2>1 DEF ReaperInv, TypeInv, TypeOK, Rows
  <2>3. QED
    BY <1>1, <2>1, <2>2, SteadyWrite DEF Terminal
<1>4. CASE CancelRelease(r)
  <2>1. ReleaseAndPromote(r) /\ cancel' = [cancel EXCEPT ![r] = "idle"]
    BY <1>4 DEF CancelRelease
  <2>2. \A q \in Runs : cancel'[q] # "idle" => cancel[q] # "idle"
    BY <2>1 DEF ReaperInv, TypeInv, TypeOK
  <2>3. QED
    BY <1>1, <2>1, <2>2, SteadyRelease
<1>5. QED
  BY <1>2, <1>3, <1>4 DEF CancelStep

\* Pausing an agent sets out to cancel its active runs, which exist.
LEMMA SteadyAgent ==
  ASSUME ReaperInv, NEW a \in Agents, Pause(a) \/ Resume(a)
  PROVE  Steady /\ NoRetry /\ reaper' = reaper
<1>1. UNCHANGED <<nRuns, runStatus, retryOf, exec, reaper>>
  BY DEF Pause, Resume, runColumns, procVars
<1>2. \A q \in Runs : cancel'[q] # "idle" => cancel[q] # "idle" \/ runStatus[q] # "absent"
  BY DEF Pause, Resume, procVars, IsActive, Active
<1>3. QED
  BY <1>1, <1>2, SteadySame

LEMMA SteadyOthers ==
  ASSUME ReaperInv,
         \/ UNCHANGED vars
         \/ \E c \in Callers, a \in Agents, k \in Kinds :
              \/ \E i \in Issues : WakeLock(c, a, i, k)
              \/ \E i \in Issues \cup {None} : WakeScan(c, a, i, k)
         \/ \E r \in Runs, i \in Issues : Checkout(r, i) \/ AdoptStaleCheckout(r, i)
         \/ \E i \in Issues : \/ ClearCheckout(i)
                              \/ \E k \in 1..Cardinality(Agents) : CancelDeferred(i, k)
  PROVE  Steady /\ NoRetry /\ reaper' = reaper
<1> DEFINE Same == UNCHANGED <<nRuns, runStatus, retryOf, exec, cancel, reaper>>
<1>1. CASE UNCHANGED vars
  BY <1>1, SteadySame DEF vars, dbVars, procVars
<1>2. ASSUME NEW c, NEW a, NEW k, NEW i, WakeLock(c, a, i, k) \/ WakeScan(c, a, i, k)
      PROVE  Same
  BY <1>2 DEF WakeLock, WakeScan, dbVars
<1>3. ASSUME NEW r, NEW i, Checkout(r, i) \/ AdoptStaleCheckout(r, i) PROVE Same
  BY <1>3 DEF Checkout, AdoptStaleCheckout, checkoutFrame, runColumns, procVars
<1>4. ASSUME NEW i, NEW k, ClearCheckout(i) \/ CancelDeferred(i, k) PROVE Same
  BY <1>4 DEF ClearCheckout, CancelDeferred, checkoutFrame, runColumns, procVars
<1>5. Same => Steady /\ NoRetry /\ reaper' = reaper
  BY SteadySame
<1> HIDE DEF Same
<1>6. QED
  BY <1>1, <1>2, <1>3, <1>4, <1>5

\* A step that is not the reaper's leaves it right about its runs.
LEMMA SteadyReaper ==
  ASSUME ReaperInv, Steady, reaper' = reaper
  PROVE  Rows' /\ Snapshots' /\ AtHand'
<1>1. \A p \in Reapers : /\ reaper[p].todo \subseteq Runs
                         /\ reaper[p].run # 0 => reaper[p].run \in Runs
  <2>1. \A p \in Reapers : reaper[p] \in ReaperStates
    BY DEF ReaperInv, TypeInv, TypeOK
  <2>2. QED
    BY <2>1 DEF ReaperStates
<1>2. QED
  BY <1>1 DEF ReaperInv, Steady, Snapshots, AtHand

LEMMA ReaperTypes ==
  ASSUME TypeInv
  PROVE  \A p \in Reapers : /\ reaper[p].todo \in SUBSET Runs
                            /\ reaper[p].run \in Runs \cup {0}
                            /\ reaper[p].pc \in {"release", "retry"} => reaper[p].run \in Runs
                            /\ reaper[p].pc \in {"idle", "loop"} => reaper[p].run = 0
<1>1. \A p \in Reapers : reaper[p] \in ReaperStates
  BY DEF TypeInv, TypeOK
<1>2. QED
  BY <1>1 DEF ReaperStates, Runs

\* What a reaper's step does to the reapers' records.
Becomes(p, pc, todo, run) ==
  /\ reaper'[p].pc = pc /\ reaper'[p].todo = todo /\ reaper'[p].run = run
  /\ \A q \in Reapers \ {p} : reaper'[q] = reaper[q]

LEMMA ReaperRecord ==
  ASSUME TypeInv, NEW p \in Reapers
  PROVE  /\ ReapScan(p) => Becomes(p, "loop", {r \in Runs : runStatus[r] = "running"}, 0)
         /\ \A r \in Runs : ReapSkip(p, r) \/ ReapDetached(p, r) =>
              Becomes(p, reaper[p].pc, reaper[p].todo \ {r}, reaper[p].run)
         /\ \A r \in Runs : ReapFail(p, r) =>
              \E pc \in {"release", "retry"} : /\ Becomes(p, pc, reaper[p].todo \ {r}, r)
                                               /\ pc = "retry" => MayRetry(r)
         /\ ReapRelease(p) \/ ReapRetry(p) => Becomes(p, "loop", reaper[p].todo, 0)
         /\ ReapEnd(p) => Becomes(p, "idle", {}, 0)
<1>1. reaper \in [Reapers -> ReaperStates]
  BY DEF TypeInv, TypeOK
<1>2. ReapScan(p) => Becomes(p, "loop", {r \in Runs : runStatus[r] = "running"}, 0)
  BY <1>1 DEF ReapScan, Becomes
<1>3. ASSUME NEW r \in Runs, ReapSkip(p, r) \/ ReapDetached(p, r)
      PROVE  Becomes(p, reaper[p].pc, reaper[p].todo \ {r}, reaper[p].run)
  BY <1>1, <1>3 DEF ReapSkip, ReapDetached, Becomes, ReaperStates
<1>4. ASSUME NEW r \in Runs, ReapFail(p, r)
      PROVE  \E pc \in {"release", "retry"} : /\ Becomes(p, pc, reaper[p].todo \ {r}, r)
                                              /\ pc = "retry" => MayRetry(r)
  BY <1>1, <1>4 DEF ReapFail, Becomes
<1>5. ASSUME ReapRelease(p) \/ ReapRetry(p) PROVE Becomes(p, "loop", reaper[p].todo, 0)
  BY <1>1, <1>5 DEF ReapRelease, ReapRetry, ReapNext, Becomes, ReaperStates
<1>6. ReapEnd(p) => Becomes(p, "idle", {}, 0)
  BY <1>1 DEF ReapEnd, NoReaper, Becomes
<1>7. QED
  BY <1>2, <1>3, <1>4, <1>5, <1>6

\* A reaper's step keeps the rows, and a started run started.
LEMMA ReapRows ==
  ASSUME ReaperInv, NEW p \in Reapers, ReapScan(p) \/ ReapStep(p)
  PROVE  /\ Rows' /\ exec' = exec
         /\ \A r \in Runs : Started(r) => Started(r)'
<1>1. UNCHANGED <<exec, cancel>>
  BY DEF ReapScan, ReapStep, ReapSkip, ReapDetached, ReapFail, ReapRelease, ReapRetry, ReapEnd,
         reaperFrame
<1>2. CASE UNCHANGED runColumns
  BY <1>1, <1>2, SteadySame DEF Steady, runColumns
<1>3. ASSUME NEW r \in Runs, ReapDetached(p, r) \/ ReapFail(p, r)
      PROVE  Rows' /\ \A q \in Runs : Started(q) => Started(q)'
  <2>1. PICK s \in {"running", "failed"} : runStatus' = [runStatus EXCEPT ![r] = s]
    BY <1>3 DEF ReapDetached, ReapFail
  <2>2. r \in reaper[p].todo /\ UNCHANGED <<nRuns, retryOf>>
    BY <1>3 DEF ReapDetached, ReapFail
  <2>3. runStatus[r] # "absent"
    BY <2>2 DEF ReaperInv, Snapshots, Started, Terminal
  <2>4. runStatus'[r] = s /\ \A q \in Runs \ {r} : runStatus'[q] = runStatus[q]
    BY <2>1 DEF ReaperInv, TypeInv, TypeOK
  <2>5. Rows'
    BY <1>1, <2>2, <2>3, <2>4 DEF ReaperInv, Rows, NoRunBeyond
  <2>6. QED
    BY <2>4, <2>5 DEF Started, Terminal
<1>4. CASE ReapRelease(p)
  BY <1>1, <1>4, SteadyRelease DEF ReapRelease, Steady
<1>5. CASE ReapRetry(p)
  <2> DEFINE r == reaper[p].run
  <2>0. r \in Runs /\ r # 0 /\ InsertRun(nRuns + 1, runAgent[r], runIssue[r], r)
    BY <1>5, ReaperTypes DEF ReapRetry, ReaperInv, Runs
  <2>1. Started(r)
    BY <2>0 DEF ReaperInv, AtHand
  <2>2. r \in 0..nRuns
    BY <2>0, <2>1 DEF ReaperInv, Rows, NoRunBeyond, Started, Terminal, Runs, TypeInv, TypeOK
  <2>3. QED
    BY <1>1, <2>0, <2>2, SteadyInsert DEF Steady
<1>6. QED
  BY <1>1, <1>2, <1>3, <1>4, <1>5 DEF ReapStep, ReapScan, ReapSkip, ReapEnd

LEMMA ReapHolds ==
  ASSUME ReaperInv, NEW p \in Reapers, ReapScan(p) \/ ReapStep(p)
  PROVE  Rows' /\ Snapshots' /\ AtHand'
<1>1. /\ Rows' /\ exec' = exec
      /\ \A r \in Runs : Started(r) => Started(r)'
  BY ReapRows
<1>2. ASSUME NEW pc, NEW todo \in SUBSET Runs, NEW run \in Runs \cup {0},
             Becomes(p, pc, todo, run), \A r \in todo : Started(r),
             run # 0 => Started(run) /\ ("foreign" \notin Features => exec[run] = "idle")
      PROVE  Snapshots' /\ AtHand'
  <2>1. \A q \in Reapers : reaper[q].todo \in SUBSET Runs /\ reaper[q].run \in Runs \cup {0}
    BY ReaperTypes DEF ReaperInv
  <2>2. Snapshots'
    <3>1. \A q \in Reapers \ {p} : \A r \in reaper'[q].todo : Started(r)'
      BY <1>1, <1>2, <2>1 DEF ReaperInv, Snapshots, Becomes
    <3>2. \A r \in reaper'[p].todo : Started(r)'
      BY <1>1, <1>2 DEF Becomes
    <3>3. QED
      BY <3>1, <3>2 DEF Snapshots
  <2>3. AtHand'
    <3>1. \A q \in Reapers \ {p} : reaper'[q].run # 0 =>
            Started(reaper[q].run)' /\ ("foreign" \notin Features => exec'[reaper'[q].run] = "idle")
      BY <1>1, <1>2, <2>1 DEF ReaperInv, AtHand, Becomes
    <3>2. reaper'[p].run # 0 =>
            Started(reaper[p].run)' /\ ("foreign" \notin Features => exec'[reaper'[p].run] = "idle")
      BY <1>1, <1>2 DEF Becomes
    <3>3. QED
      BY <3>1, <3>2 DEF AtHand
  <2>4. QED
    BY <2>2, <2>3
<1>3. /\ reaper[p].todo \in SUBSET Runs /\ reaper[p].run \in Runs \cup {0}
      /\ \A r \in reaper[p].todo : Started(r)
      /\ reaper[p].run # 0 => Started(reaper[p].run)
                              /\ ("foreign" \notin Features => exec[reaper[p].run] = "idle")
  BY ReaperTypes DEF ReaperInv, Snapshots, AtHand
<1>a. /\ 0 \in Runs \cup {0}
      /\ 0 # 0 => Started(0) /\ ("foreign" \notin Features => exec[0] = "idle")
  OBVIOUS
<1>4. CASE ReapScan(p)
  <2> DEFINE todo == {r \in Runs : runStatus[r] = "running"}
  <2>1. todo \in SUBSET Runs /\ \A r \in todo : Started(r)
    BY DEF Started
  <2>2. Becomes(p, "loop", todo, 0)
    BY <1>4, ReaperRecord DEF ReaperInv
  <2> HIDE DEF todo
  <2>3. QED
    BY <1>1, <1>2, <2>1, <2>2
<1>5. ASSUME NEW r \in Runs, ReapSkip(p, r) \/ ReapDetached(p, r)
      PROVE  Snapshots' /\ AtHand'
  <2>1. Becomes(p, reaper[p].pc, reaper[p].todo \ {r}, reaper[p].run)
    BY <1>5, ReaperRecord DEF ReaperInv
  <2>2. reaper[p].todo \ {r} \in SUBSET Runs /\ \A q \in reaper[p].todo \ {r} : Started(q)
    BY <1>3
  <2>3. QED
    BY <1>2, <1>3, <2>1, <2>2
<1>6. ASSUME NEW r \in Runs, ReapFail(p, r) PROVE Snapshots' /\ AtHand'
  <2>1. PICK pc : Becomes(p, pc, reaper[p].todo \ {r}, r)
    BY <1>6, ReaperRecord DEF ReaperInv
  <2>2. Started(r) /\ ("foreign" \notin Features => exec[r] = "idle")
    BY <1>3, <1>6 DEF ReapFail, Unknown
  <2>3. reaper[p].todo \ {r} \in SUBSET Runs /\ \A q \in reaper[p].todo \ {r} : Started(q)
    BY <1>3
  <2>4. QED
    BY <1>2, <2>1, <2>2, <2>3
<1>7. CASE ReapRelease(p) \/ ReapRetry(p)
  <2>1. Becomes(p, "loop", reaper[p].todo, 0)
    BY <1>7, ReaperRecord DEF ReaperInv
  <2> DEFINE todo == reaper[p].todo
  <2>2. todo \in SUBSET Runs /\ \A r \in todo : Started(r)
    BY <1>3
  <2>3. Becomes(p, "loop", todo, 0)
    BY <2>1
  <2> HIDE DEF todo
  <2>4. QED
    BY <1>1, <1>2, <1>a, <2>2, <2>3
<1>8. CASE ReapEnd(p)
  <2>1. Becomes(p, "idle", {}, 0)
    BY <1>8, ReaperRecord DEF ReaperInv
  <2>2. {} \in SUBSET Runs /\ \A r \in {} : Started(r)
    OBVIOUS
  <2>3. QED
    BY <1>1, <1>2, <1>a, <2>1, <2>2
<1>9. QED
  BY <1>1, <1>4, <1>5, <1>6, <1>7, <1>8 DEF ReapStep

\* A crash forgets the handlers and keeps the rows.
LEMMA SteadyCrash ==
  ASSUME ReaperInv, Crash
  PROVE  /\ Steady /\ NoRetry /\ Snapshots' /\ AtHand'
         /\ \A p \in Reapers : reaper'[p] = NoReaper
<1>1. /\ UNCHANGED <<nRuns, runStatus, retryOf>>
      /\ \A r \in Runs : exec'[r] = "idle" /\ cancel'[r] = "idle"
      /\ \A p \in Reapers : reaper'[p] = NoReaper
  BY DEF Crash, dbVars, ProcInit
<1>2. Steady /\ NoRetry
  BY <1>1, SteadySame
<1>3. QED
  BY <1>1, <1>2 DEF Snapshots, AtHand, NoReaper

\* A step is a step of a reaper, a crash, or one that leaves the reapers alone.
LEMMA ReaperSplit ==
  ASSUME ReaperInv, [Next]_vars
  PROVE  \/ Steady /\ NoRetry /\ reaper' = reaper
         \/ \E p \in Reapers : ReapScan(p) \/ ReapStep(p)
         \/ Crash
<1>1. ASSUME NEW c \in Callers, WakeStep(c) PROVE Steady /\ NoRetry /\ reaper' = reaper
  BY <1>1, SteadyWake
<1>2. ASSUME NEW r \in Runs, Claim(r) \/ ExecStep(r) \/ CancelRead(r) \/ CancelStep(r)
      PROVE  Steady /\ NoRetry /\ reaper' = reaper
  BY <1>2, SteadyRun, SteadyCancel
<1>3. ASSUME NEW a \in Agents, Pause(a) \/ Resume(a) PROVE Steady /\ NoRetry /\ reaper' = reaper
  BY <1>3, SteadyAgent
<1>4. QED
  BY <1>1, <1>2, <1>3, SteadyOthers DEF Next

LEMMA ReaperStep == ReaperInv /\ [Next]_vars => ReaperInv'
<1> SUFFICES ASSUME ReaperInv, [Next]_vars PROVE ReaperInv'
  OBVIOUS
<1>1. TypeInv'
  BY TypeStep, OutcomeStep DEF ReaperInv, TypeInv
<1>2. Rows' /\ Snapshots' /\ AtHand'
  BY ReaperSplit, SteadyReaper, ReapHolds, SteadyCrash DEF Steady
<1>3. QED
  BY <1>1, <1>2 DEF ReaperInv

LEMMA ReaperInit ==
  ASSUME Init
  PROVE  ReaperInv
<1>1. TypeInv /\ NoRunBeyond
  BY OwnerInit DEF OwnerInv
<1>2. QED
  BY <1>1 DEF Init, ReaperInv, Rows, Snapshots, AtHand, ProcInit, NoReaper, Started, Terminal

\* Where every run is executed by the service instance that reaps it, the reaper
\* never settles a run whose adapter is at work, whatever happens between its
\* look at the execution and its release of the issue.
THEOREM OrphansOnly ==
  ASSUME "foreign" \notin Features
  PROVE  Spec => []ReapedRunsAreOrphans
<1>1. Init => ReaperInv
  BY ReaperInit
<1>2. ReaperInv /\ [Next]_vars => ReaperInv'
  BY ReaperStep
<1>3. ReaperInv => ReapedRunsAreOrphans
  BY DEF ReaperInv, AtHand, ReapedRunsAreOrphans
<1>4. QED
  BY <1>1, <1>2, <1>3, PTL DEF Spec

\* While passes of the reaper do not overlap, what it is about to retry has no
\* retry and is none, and what was retried stays out of its snapshots.
OneReaper == \A p, q \in Reapers : p = q

Settled(r) == runStatus[r] \in Terminal /\ exec[r] = "idle"

AboutToRetry ==
  \A p \in Reapers : reaper[p].pc = "retry" =>
    LET r == reaper[p].run IN
    /\ Settled(r) /\ retryOf[r] = 0 /\ ~HasRetry(r) /\ r \notin reaper[p].todo

Retried ==
  \A r \in Runs : HasRetry(r) =>
    Settled(r) /\ retryOf[r] = 0 /\ \A p \in Reapers : r \notin reaper[p].todo

OnlyRetry ==
  \A r, q \in 1..nRuns : retryOf[r] # 0 /\ retryOf[r] = retryOf[q] => r = q

RetryInv == AboutToRetry /\ Retried /\ OnlyRetry

\* Inserting a row that is no retry, or none, leaves who retries whom.
LEMMA NoRetryKeeps ==
  ASSUME ReaperInv, NoRetry
  PROVE  /\ \A r \in Runs : HasRetry(r)' <=> HasRetry(r)
         /\ \A r \in 1..nRuns : retryOf'[r] = retryOf[r]
         /\ OnlyRetry => OnlyRetry'
<1>0. nRuns \in Nat /\ 1..nRuns \subseteq Runs /\ retryOf \in [Runs -> 0..MaxRuns]
  BY DEF ReaperInv, TypeInv, TypeOK, Runs
<1>1. CASE UNCHANGED <<nRuns, retryOf>>
  BY <1>1 DEF HasRetry, OnlyRetry
<1>2. CASE nRuns' = nRuns + 1 /\ nRuns + 1 \in Runs /\ retryOf' = [retryOf EXCEPT ![nRuns + 1] = 0]
  <2>1. /\ retryOf'[nRuns + 1] = 0
        /\ \A q \in 1..nRuns : retryOf'[q] = retryOf[q]
        /\ \A q : q \in 1..nRuns' <=> q \in 1..nRuns \/ q = nRuns + 1
    BY <1>0, <1>2
  <2>2. \A r \in Runs : r # 0
    BY DEF Runs
  <2>3. \A r \in Runs : HasRetry(r)' <=> HasRetry(r)
    BY <2>1, <2>2 DEF HasRetry
  <2>4. OnlyRetry => OnlyRetry'
    BY <2>1 DEF OnlyRetry
  <2>5. QED
    BY <2>1, <2>3, <2>4
<1>3. QED
  BY <1>1, <1>2 DEF NoRetry

LEMMA SettledRows ==
  ASSUME ReaperInv, NEW r \in Runs, Settled(r)
  PROVE  r \in 1..nRuns
BY DEF ReaperInv, Rows, NoRunBeyond, Settled, Terminal, Runs, TypeInv, TypeOK

\* Steps of others do not touch what is settled.
LEMMA SteadyRetry ==
  ASSUME ReaperInv, RetryInv, Steady, NoRetry,
         \/ reaper' = reaper
         \/ \A p \in Reapers : reaper'[p] = NoReaper
  PROVE  RetryInv'
<1>1. \A r \in Runs : Settled(r) => Settled(r)'
  BY DEF Steady, Settled, Started
<1>2. /\ \A r \in Runs : HasRetry(r)' <=> HasRetry(r)
      /\ \A r \in 1..nRuns : retryOf'[r] = retryOf[r]
      /\ OnlyRetry'
  BY NoRetryKeeps DEF RetryInv
<1>3. AboutToRetry'
  <2> SUFFICES ASSUME NEW p \in Reapers, reaper'[p].pc = "retry"
               PROVE  (LET r == reaper[p].run IN
                       Settled(r) /\ retryOf[r] = 0 /\ ~HasRetry(r) /\ r \notin reaper[p].todo)'
    BY DEF AboutToRetry
  <2>1. reaper'[p] = reaper[p]
    BY DEF NoReaper
  <2> DEFINE r == reaper[p].run
  <2>2. r \in Runs /\ Settled(r) /\ retryOf[r] = 0 /\ ~HasRetry(r) /\ r \notin reaper[p].todo
    BY <2>1, ReaperTypes DEF ReaperInv, RetryInv, AboutToRetry
  <2>3. retryOf'[r] = 0
    BY <1>2, <2>2, SettledRows
  <2>4. QED
    BY <1>1, <1>2, <2>1, <2>2, <2>3
<1>4. Retried'
  <2> SUFFICES ASSUME NEW r \in Runs, HasRetry(r)'
               PROVE  Settled(r)' /\ retryOf'[r] = 0 /\ \A p \in Reapers : r \notin reaper'[p].todo
    BY DEF Retried
  <2>1. Settled(r) /\ retryOf[r] = 0 /\ \A p \in Reapers : r \notin reaper[p].todo
    BY <1>2 DEF RetryInv, Retried
  <2>2. \A p \in Reapers : r \notin reaper'[p].todo
    BY <2>1 DEF NoReaper
  <2>3. QED
    BY <1>1, <1>2, <2>1, <2>2, SettledRows
<1>5. QED
  BY <1>2, <1>3, <1>4 DEF RetryInv

\* The retry itself.
LEMMA RetryOnce ==
  ASSUME OneReaper, ReaperInv, RetryInv, NEW p \in Reapers, ReapRetry(p)
  PROVE  RetryInv'
<1> DEFINE r == reaper[p].run
<1> DEFINE n == nRuns + 1
<1>1. /\ r \in Runs /\ Settled(r) /\ retryOf[r] = 0 /\ ~HasRetry(r) /\ r \notin reaper[p].todo
      /\ InsertRun(n, runAgent[r], runIssue[r], r) /\ UNCHANGED <<exec, cancel>>
  BY ReaperTypes DEF ReapRetry, reaperFrame, ReaperInv, RetryInv, AboutToRetry
<1>2. r \in 1..nRuns /\ nRuns \in Nat /\ 1..nRuns \subseteq Runs /\ retryOf \in [Runs -> 0..MaxRuns]
  BY <1>1, SettledRows DEF ReaperInv, TypeInv, TypeOK, Runs
<1>3. Steady
  BY <1>1, <1>2, SteadyInsert
<1>4. /\ n \in Runs /\ nRuns' = n /\ retryOf'[n] = r
      /\ \A q \in 1..nRuns : retryOf'[q] = retryOf[q] /\ q \in Runs
      /\ \A q : q \in 1..nRuns' <=> q \in 1..nRuns \/ q = n
  BY <1>1, <1>2 DEF InsertRun, Runs, ReaperInv, TypeInv, TypeOK
<1>5. Becomes(p, "loop", reaper[p].todo, 0)
  BY ReaperRecord DEF ReaperInv
<1>6. \A q \in Reapers : reaper'[q].pc = "loop" /\ reaper'[q].todo = reaper[q].todo
  BY <1>5 DEF OneReaper, Becomes
<1> HIDE DEF n, r
<1>7. \A q \in Runs : HasRetry(q)' <=> HasRetry(q) \/ q = r
  BY <1>4 DEF HasRetry
<1>8. \A q \in Runs : Settled(q) => Settled(q)'
  BY <1>3 DEF Steady, Settled, Started
<1>9. AboutToRetry'
  BY <1>6 DEF AboutToRetry
<1>10. Retried'
  <2> SUFFICES ASSUME NEW q \in Runs, HasRetry(q)'
               PROVE  Settled(q)' /\ retryOf'[q] = 0 /\ \A x \in Reapers : q \notin reaper'[x].todo
    BY DEF Retried
  <2>1. Settled(q) /\ retryOf[q] = 0 /\ \A x \in Reapers : q \notin reaper[x].todo
    <3>1. CASE HasRetry(q)
      BY <3>1 DEF RetryInv, Retried
    <3>2. CASE q = r
      BY <1>1, <3>2 DEF OneReaper
    <3>3. QED
      BY <1>7, <3>1, <3>2
  <2>2. QED
    BY <1>4, <1>6, <1>8, <2>1, SettledRows
<1>11. OnlyRetry'
  <2> SUFFICES ASSUME NEW x \in 1..nRuns', NEW y \in 1..nRuns', retryOf'[x] # 0,
                      retryOf'[x] = retryOf'[y]
               PROVE  x = y
    BY DEF OnlyRetry
  <2>1. \A q \in 1..nRuns : retryOf[q] # r
    BY <1>1 DEF HasRetry
  <2>2. QED
    BY <1>4, <2>1 DEF RetryInv, OnlyRetry
<1>12. QED
  BY <1>9, <1>10, <1>11 DEF RetryInv

\* The reaper's other steps: only a run of its snapshot becomes running again or
\* is failed, and it is retried only if it is not executed and is no retry.
LEMMA ReapRetries ==
  ASSUME OneReaper, ReaperInv, RetryInv, NEW p \in Reapers, ReapScan(p) \/ ReapStep(p)
  PROVE  RetryInv'
<1>0. \A q \in Reapers : q = p
  BY DEF OneReaper
<1>1. ASSUME NEW pc, NEW todo \in SUBSET Runs, NEW run \in Runs \cup {0}, Becomes(p, pc, todo, run),
             UNCHANGED <<nRuns, retryOf, exec>>,
             \A r \in Runs : Settled(r) /\ r \notin reaper[p].todo => Settled(r)',
             \A r \in todo : ~HasRetry(r),
             pc = "retry" => /\ run \in Runs /\ Settled(run)' /\ retryOf[run] = 0
                             /\ ~HasRetry(run) /\ run \notin todo
      PROVE  RetryInv'
  <2>1. reaper'[p].pc = pc /\ reaper'[p].todo = todo /\ reaper'[p].run = run
    BY <1>1 DEF Becomes
  <2>2. \A r : HasRetry(r)' <=> HasRetry(r)
    BY <1>1 DEF HasRetry
  <2>3. AboutToRetry'
    BY <1>0, <1>1, <2>1, <2>2 DEF AboutToRetry
  <2>4. Retried'
    BY <1>0, <1>1, <2>1, <2>2 DEF RetryInv, Retried
  <2>5. OnlyRetry'
    BY <1>1 DEF RetryInv, OnlyRetry
  <2>6. QED
    BY <2>3, <2>4, <2>5 DEF RetryInv
<1>2. /\ reaper[p].todo \in SUBSET Runs /\ reaper[p].run \in Runs \cup {0}
      /\ \A r \in reaper[p].todo : ~HasRetry(r)
  BY ReaperTypes DEF ReaperInv, RetryInv, Retried
<1>3. CASE ReapScan(p)
  <2> DEFINE todo == {r \in Runs : runStatus[r] = "running"}
  <2>1. todo \in SUBSET Runs /\ \A r \in todo : ~HasRetry(r)
    BY DEF RetryInv, Retried, Settled, Terminal
  <2>2. Becomes(p, "loop", todo, 0)
    BY <1>3, ReaperRecord DEF ReaperInv
  <2>3. UNCHANGED <<nRuns, runStatus, retryOf, exec>>
    BY <1>3 DEF ReapScan, reaperFrame, runColumns
  <2>4. \A r \in Runs : Settled(r) => Settled(r)'
    BY <2>3 DEF Settled
  <2> HIDE DEF todo
  <2>5. QED
    BY <1>1, <2>1, <2>2, <2>3, <2>4
<1>4. ASSUME NEW r \in Runs, ReapSkip(p, r) \/ ReapDetached(p, r) PROVE RetryInv'
  <2>1. Becomes(p, reaper[p].pc, reaper[p].todo \ {r}, reaper[p].run) /\ reaper[p].pc = "loop"
    BY <1>4, ReaperRecord DEF ReaperInv, ReapSkip, ReapDetached
  <2>2. /\ UNCHANGED <<nRuns, retryOf, exec>> /\ r \in reaper[p].todo
        /\ \A q \in Runs \ {r} : runStatus'[q] = runStatus[q]
    BY <1>4 DEF ReapSkip, ReapDetached, reaperFrame, runColumns, ReaperInv, TypeInv, TypeOK
  <2>3. \A q \in Runs : Settled(q) /\ q \notin reaper[p].todo => Settled(q)'
    BY <2>2 DEF Settled
  <2>4. reaper[p].todo \ {r} \in SUBSET Runs /\ \A q \in reaper[p].todo \ {r} : ~HasRetry(q)
    BY <1>2
  <2>5. QED
    BY <1>1, <1>2, <2>1, <2>2, <2>3, <2>4
<1>5. ASSUME NEW r \in Runs, ReapFail(p, r) PROVE RetryInv'
  <2>1. PICK pc : Becomes(p, pc, reaper[p].todo \ {r}, r) /\ (pc = "retry" => MayRetry(r))
    BY <1>5, ReaperRecord DEF ReaperInv
  <2>2. /\ UNCHANGED <<nRuns, retryOf, exec>> /\ r \in reaper[p].todo
        /\ runStatus'[r] = "failed" /\ \A q \in Runs \ {r} : runStatus'[q] = runStatus[q]
    BY <1>5 DEF ReapFail, reaperFrame, ReaperInv, TypeInv, TypeOK
  <2>3. \A q \in Runs : Settled(q) => Settled(q)'
    BY <2>2 DEF Settled, Terminal
  <2>4. reaper[p].todo \ {r} \in SUBSET Runs /\ \A q \in reaper[p].todo \ {r} : ~HasRetry(q)
    BY <1>2
  <2>5. pc = "retry" => r \in Runs /\ Settled(r)' /\ retryOf[r] = 0 /\ ~HasRetry(r)
                        /\ r \notin reaper[p].todo \ {r}
    BY <1>2, <2>1, <2>2 DEF MayRetry, Settled, Terminal
  <2>6. QED
    BY <1>1, <2>1, <2>2, <2>3, <2>4, <2>5
<1>6. CASE ReapRelease(p)
  <2>1. ReleaseAndPromote(reaper[p].run) /\ UNCHANGED <<exec, cancel>>
    BY <1>6 DEF ReapRelease, reaperFrame
  <2>2. Steady /\ NoRetry
    BY <2>1, SteadyRelease
  <2>3. Becomes(p, "loop", reaper[p].todo, 0)
    BY <1>6, ReaperRecord DEF ReaperInv
  <2>4. /\ \A r \in Runs : HasRetry(r)' <=> HasRetry(r)
        /\ \A r \in 1..nRuns : retryOf'[r] = retryOf[r]
        /\ OnlyRetry'
    BY <2>2, NoRetryKeeps DEF RetryInv
  <2>5. reaper'[p].pc = "loop" /\ reaper'[p].todo = reaper[p].todo
    BY <2>3 DEF Becomes
  <2>6. AboutToRetry'
    BY <1>0, <2>5 DEF AboutToRetry
  <2>7. \A r \in Runs : Settled(r) => Settled(r)'
    BY <2>2 DEF Steady, Settled, Started
  <2>8. Retried'
    BY <1>0, <2>4, <2>5, <2>7, SettledRows DEF RetryInv, Retried
  <2>9. QED
    BY <2>4, <2>6, <2>8 DEF RetryInv
<1>7. CASE ReapRetry(p)
  BY <1>7, RetryOnce
<1>8. CASE ReapEnd(p)
  <2>1. Becomes(p, "idle", {}, 0)
    BY <1>8, ReaperRecord DEF ReaperInv
  <2>2. {} \in SUBSET Runs /\ \A r \in {} : ~HasRetry(r)
    OBVIOUS
  <2>3. UNCHANGED <<nRuns, runStatus, retryOf, exec>>
    BY <1>8 DEF ReapEnd, reaperFrame, runColumns
  <2>4. \A r \in Runs : Settled(r) => Settled(r)'
    BY <2>3 DEF Settled
  <2>5. QED
    BY <1>1, <2>1, <2>2, <2>3, <2>4
<1>9. QED
  BY <1>3, <1>4, <1>5, <1>6, <1>7, <1>8 DEF ReapStep

\* Acceptance of process-loss recovery: a lost run has at most one retry, and a
\* retry has none, through any number of restarts, detached children and late
\* settlements, as long as one pass of the reaper ends before the next begins.
THEOREM OneRetry ==
  ASSUME OneReaper
  PROVE  Spec => []RetriedOnce
<1>1. Init => ReaperInv /\ RetryInv
  <2> SUFFICES ASSUME Init PROVE ReaperInv /\ RetryInv
    OBVIOUS
  <2>1. 1..nRuns = {}
    BY DEF Init
  <2>2. QED
    BY <2>1, ReaperInit
    DEF Init, RetryInv, AboutToRetry, Retried, OnlyRetry, HasRetry, ProcInit, NoReaper
<1>2. ReaperInv /\ RetryInv /\ [Next]_vars => (ReaperInv /\ RetryInv)'
  <2> SUFFICES ASSUME ReaperInv, RetryInv, [Next]_vars PROVE RetryInv'
    BY ReaperStep
  <2>1. QED
    BY ReaperSplit, SteadyRetry, ReapRetries, SteadyCrash
<1>3. ReaperInv /\ RetryInv => RetriedOnce
  <2> SUFFICES ASSUME ReaperInv, RetryInv, NEW r \in 1..nRuns, NEW q \in 1..nRuns, retryOf[r] # 0
               PROVE  (retryOf[r] = retryOf[q] => r = q) /\ retryOf[retryOf[r]] = 0
    BY DEF RetriedOnce
  <2>1. retryOf[r] \in Runs /\ HasRetry(retryOf[r])
    BY DEF HasRetry, ReaperInv, Rows, TypeInv, TypeOK, Runs
  <2>2. QED
    BY <2>1 DEF RetryInv, Retried, OnlyRetry
<1>4. QED
  BY <1>1, <1>2, <1>3, PTL DEF Spec

-----------------------------------------------------------------------------
(* The agent key.  A transaction compares its agent with the key it read    *)
(* with the row; wherever every run of an issue is started under the row    *)
(* lock, that key is the agent of the run the wakeup is coalesced into.     *)

KeyOf(i) ==
  IF execRun[i] = 0 THEN execKey[i] = None
  ELSE runStatus[execRun[i]] # "absent" /\ execKey[i] \in {None, runAgent[execRun[i]]}

Keys == \A i \in Issues : KeyOf(i)

KeyRead ==
  \A c \in Callers : call[c].pc = "tx" /\ call[c].seen # 0 =>
    call[c].key = runAgent[call[c].seen]

KeyInv == OwnerInv /\ Keys /\ KeyRead

\* A run keeps its agent.
AgentsKept == \A r \in Runs : runStatus[r] # "absent" => runAgent'[r] = runAgent[r]

LEMMA InsertKeeps ==
  ASSUME OwnerInv, NEW a, NEW i, NEW of, NEW n, InsertRun(n, a, i, of)
  PROVE  /\ AgentsKept /\ n \in Runs /\ n # 0 /\ n = nRuns + 1
         /\ runAgent'[n] = a /\ runStatus'[n] # "absent"
         /\ \A r \in Runs : runStatus[r] # "absent" => runStatus'[r] # "absent"
<1>1. /\ n = nRuns + 1 /\ n \in Runs /\ runStatus[n] = "absent" /\ runStatus'[n] = "queued"
      /\ \A q \in Runs \ {n} : runStatus'[q] = runStatus[q]
  BY InsertEffect DEF OwnerInv, TypeInv
<1>2. runAgent'[n] = a /\ \A q \in Runs \ {n} : runAgent'[q] = runAgent[q]
  BY <1>1 DEF InsertRun, OwnerInv, TypeInv, TypeOK
<1>3. QED
  BY <1>1, <1>2 DEF AgentsKept, Runs

\* An issue whose lock a step leaves alone keeps its key.
LEMMA KeyKept ==
  ASSUME OwnerInv, NEW i \in Issues, KeyOf(i), execRun'[i] = execRun[i], execKey'[i] = execKey[i],
         AgentsKept, \A r \in Runs : runStatus[r] # "absent" => runStatus'[r] # "absent"
  PROVE  KeyOf(i)'
<1>1. execRun[i] # 0 => execRun[i] \in Runs
  BY DEF OwnerInv, TypeInv, TypeOK, Runs
<1>2. QED
  BY <1>1 DEF KeyOf, AgentsKept

\* A run that gets an issue's lock with its own key leaves the key right.
LEMMA KeyGiven ==
  ASSUME OwnerInv, Keys, NEW i \in Issues, NEW a, NEW of, NEW j,
         InsertRun(nRuns + 1, a, j, of), execRun' = [execRun EXCEPT ![i] = nRuns + 1],
         execKey' = [execKey EXCEPT ![i] = a]
  PROVE  Keys' /\ AgentsKept
<1> DEFINE n == nRuns + 1
<1>1. /\ AgentsKept /\ n \in Runs /\ n # 0 /\ runAgent'[n] = a /\ runStatus'[n] # "absent"
      /\ \A r \in Runs : runStatus[r] # "absent" => runStatus'[r] # "absent"
  BY InsertKeeps
<1>2. /\ execRun'[i] = n /\ execKey'[i] = a
      /\ \A k \in Issues \ {i} : execRun'[k] = execRun[k] /\ execKey'[k] = execKey[k]
  BY DEF OwnerInv, TypeInv, TypeOK
<1> HIDE DEF n
<1>3. KeyOf(i)'
  BY <1>1, <1>2 DEF KeyOf
<1>4. \A k \in Issues \ {i} : KeyOf(k)'
  BY <1>1, <1>2, KeyKept DEF Keys
<1>5. QED
  BY <1>1, <1>3, <1>4 DEF Keys

LEMMA KeysSame ==
  ASSUME OwnerInv, Keys, UNCHANGED <<execRun, execKey, runAgent>>, StatusMoves
  PROVE  Keys' /\ AgentsKept
BY KeyKept DEF Keys, AgentsKept, StatusMoves

LEMMA KeyRelease ==
  ASSUME OwnerInv, Keys, NEW r, ReleaseAndPromote(r)
  PROVE  Keys' /\ AgentsKept
<1>1. CASE UNCHANGED <<runColumns, execRun, execKey, deferred>>
  BY <1>1, KeysSame DEF runColumns, StatusMoves
<1>2. ASSUME NEW i \in Issues, ClearLock(i) PROVE Keys' /\ AgentsKept
  <2>1. /\ execRun'[i] = 0 /\ execKey'[i] = None /\ UNCHANGED <<runAgent, runStatus>>
        /\ \A k \in Issues \ {i} : execRun'[k] = execRun[k] /\ execKey'[k] = execKey[k]
    BY <1>2 DEF ClearLock, runColumns, OwnerInv, TypeInv, TypeOK
  <2>2. AgentsKept
    BY <2>1 DEF AgentsKept
  <2>3. \A k \in Issues \ {i} : KeyOf(k)'
    BY <2>1, <2>2, KeyKept DEF Keys
  <2>4. KeyOf(i)'
    BY <2>1 DEF KeyOf
  <2>5. QED
    BY <2>2, <2>3, <2>4 DEF Keys
<1>3. ASSUME NEW i \in Issues, PromoteDeferred(i) PROVE Keys' /\ AgentsKept
  BY <1>3, KeyGiven DEF PromoteDeferred
<1>4. QED
  BY <1>1, <1>2, <1>3 DEF ReleaseAndPromote, HeldBy

LEMMA KeyWake ==
  ASSUME OnlyLockedStarts, KeyInv, NEW c \in Callers, WakeStep(c)
  PROVE  Keys' /\ AgentsKept
<1> USE DEF KeyInv
<1> DEFINE i == call[c].issue
<1>1. CASE WakeCoalesce(c) \/ WakeDefer(c)
  <2>1. /\ i \in Issues /\ execRun[i] = call[c].seen /\ KeepOrRepairLock(i, call[c].seen)
        /\ UNCHANGED runColumns
    BY <1>1, TxType DEF WakeCoalesce, WakeDefer, Coalesces, OwnerInv, TypeInv, ReadUnderLock
  <2>2. execRun' = execRun /\ execKey' = execKey
    BY <2>1 DEF KeepOrRepairLock, OwnerInv, TypeInv, TypeOK
  <2>3. QED
    BY <2>1, <2>2, KeysSame DEF runColumns, StatusMoves
<1>2. CASE WakeStart(c)
  <2>1. i \in Issues
    BY <1>2, TxType DEF WakeStart, OwnerInv, TypeInv
  <2>2. QED
    BY <1>2, <2>1, KeyGiven DEF WakeStart
<1>3. CASE WakeScanned(c)
  <2>1. execRun' = execRun /\ execKey' = execKey
    BY <1>3 DEF WakeScanned
  <2>2. CASE UNCHANGED runColumns
    BY <2>1, <2>2, KeysSame DEF runColumns, StatusMoves
  <2>3. CASE InsertRun(nRuns + 1, call[c].agent, i, 0)
    BY <2>1, <2>3, InsertKeeps, KeyKept DEF Keys
  <2>4. QED
    BY <1>3, <2>2, <2>3 DEF WakeScanned
<1>4. QED
  BY <1>1, <1>2, <1>3 DEF WakeStep

\* The checking out run has the lock already or finds it without a key.
LEMMA KeyCheckout ==
  ASSUME KeyInv, NEW r \in Runs, NEW i \in Issues, Checkout(r, i)
  PROVE  Keys' /\ AgentsKept
<1> USE DEF KeyInv
<1>1. /\ exec[r] = "adapter" /\ execRun[i] \in {0, r} /\ execRun' = [execRun EXCEPT ![i] = r]
      /\ UNCHANGED <<execKey, runAgent, runStatus>>
  BY DEF Checkout, checkoutFrame, runColumns
<1>2. runStatus[r] # "absent" /\ r # 0
  BY <1>1 DEF OwnerInv, Handled, Runs
<1>3. execRun'[i] = r /\ \A k \in Issues \ {i} : execRun'[k] = execRun[k]
  BY <1>1 DEF OwnerInv, TypeInv, TypeOK
<1>4. KeyOf(i)'
  BY <1>1, <1>2, <1>3 DEF KeyOf, Keys
<1>5. AgentsKept /\ \A k \in Issues \ {i} : KeyOf(k)'
  BY <1>1, <1>3, KeyKept DEF Keys, AgentsKept
<1>6. QED
  BY <1>4, <1>5 DEF Keys

LEMMA KeyOthers ==
  ASSUME OnlyLockedStarts, KeyInv, [Next]_vars
  PROVE  Keys' /\ AgentsKept
<1> USE DEF KeyInv
<1>0. ASSUME UNCHANGED <<execRun, execKey, runAgent>> PROVE Keys' /\ AgentsKept
  BY <1>0, OwnerStep, KeysSame
<1>1. ASSUME NEW c \in Callers, NEW a, NEW k, NEW i, WakeLock(c, a, i, k) \/ WakeScan(c, a, i, k)
      PROVE  Keys' /\ AgentsKept
  BY <1>0, <1>1 DEF WakeLock, WakeScan, dbVars
<1>2. ASSUME NEW r \in Runs, Claim(r) \/ ExecStep(r) PROVE Keys' /\ AgentsKept
  <2>1. CASE ExecRelease(r)
    BY <2>1, KeyRelease DEF ExecRelease
  <2>2. CASE Claim(r) \/ ExecBegin(r) \/ AdapterReturns(r) \/ AdapterThrows(r) \/ Settle(r)
    BY <1>0, <2>2 DEF Claim, ExecBegin, AdapterReturns, AdapterThrows, Settle, execOnly, dbVars
  <2>3. QED
    BY <1>2, <2>1, <2>2 DEF ExecStep
<1>3. ASSUME NEW r \in Runs, CancelRead(r) \/ CancelStep(r) PROVE Keys' /\ AgentsKept
  BY <1>0, <1>3, KeyRelease DEF CancelRead, CancelStep, CancelSet, CancelRelease, dbVars
<1>4. ASSUME NEW i \in Issues, NEW r \in Runs, Checkout(r, i) \/ AdoptStaleCheckout(r, i)
      PROVE  Keys' /\ AgentsKept
  BY <1>4, KeyCheckout DEF AdoptStaleCheckout, OnlyLockedStarts
<1>5. ASSUME NEW i, NEW k, ClearCheckout(i) \/ CancelDeferred(i, k) PROVE Keys' /\ AgentsKept
  BY <1>0, <1>5 DEF ClearCheckout, CancelDeferred, checkoutFrame, runColumns
<1>6. ASSUME NEW a \in Agents, Pause(a) \/ Resume(a) PROVE Keys' /\ AgentsKept
  BY <1>0, <1>6 DEF Pause, Resume, runColumns
<1>7. ASSUME NEW p \in Reapers, ReapScan(p) \/ ReapStep(p) PROVE Keys' /\ AgentsKept
  <2>1. CASE ReapRelease(p)
    BY <2>1, KeyRelease DEF ReapRelease
  <2>2. ~ReapRetry(p)
    BY DEF ReapRetry, OwnerInv, Handled
  <2>3. CASE ReapScan(p) \/ ReapEnd(p)
             \/ \E r \in Runs : ReapSkip(p, r) \/ ReapDetached(p, r) \/ ReapFail(p, r)
    BY <1>0, <2>3 DEF ReapScan, ReapEnd, ReapSkip, ReapDetached, ReapFail, runColumns
  <2>4. QED
    BY <1>7, <2>1, <2>2, <2>3 DEF ReapStep
<1>8. CASE Crash \/ UNCHANGED vars
  BY <1>0, <1>8 DEF Crash, vars, dbVars
<1>9. QED
  BY <1>1, <1>2, <1>3, <1>4, <1>5, <1>6, <1>7, <1>8, KeyWake DEF Next

\* Opening a transaction is the one step that puts a call into one.
LEMMA CallsMove ==
  ASSUME OwnerInv, [Next]_vars
  PROVE  \/ \A c \in Callers : call'[c] = call[c] \/ call'[c].pc # "tx"
         \/ \E c \in Callers, a \in Agents, k \in Kinds, i \in Issues : WakeLock(c, a, i, k)
<1>1. ASSUME NEW c \in Callers, WakeStep(c) \/ \E a, i, k : WakeScan(c, a, i, k)
      PROVE  \A d \in Callers : call'[d] = call[d] \/ call'[d].pc # "tx"
  BY <1>1 DEF WakeStep, WakeCoalesce, WakeDefer, WakeStart, WakeScanned, WakeScan, EndTx, NoCall,
              OwnerInv, TypeInv, TypeOK
<1>2. ASSUME NEW r \in Runs, Claim(r) \/ ExecStep(r) \/ CancelRead(r) \/ CancelStep(r)
      PROVE  call' = call
  BY <1>2 DEF Claim, ExecStep, ExecBegin, AdapterReturns, AdapterThrows, Settle, ExecRelease,
              execOnly, CancelRead, CancelStep, CancelSet, CancelRelease
<1>3. ASSUME NEW i, \/ \E r : Checkout(r, i) \/ AdoptStaleCheckout(r, i)
                    \/ ClearCheckout(i) \/ \E k : CancelDeferred(i, k)
      PROVE  call' = call
  BY <1>3 DEF Checkout, AdoptStaleCheckout, ClearCheckout, CancelDeferred, checkoutFrame, procVars
<1>4. ASSUME NEW a \in Agents, Pause(a) \/ Resume(a) PROVE call' = call
  BY <1>4 DEF Pause, Resume, procVars
<1>5. ASSUME NEW p \in Reapers, ReapScan(p) \/ ReapStep(p) PROVE call' = call
  BY <1>5 DEF ReapScan, ReapStep, ReapSkip, ReapDetached, ReapFail, ReapRelease, ReapRetry, ReapEnd,
              reaperFrame
<1>6. Crash => \A c \in Callers : call'[c].pc # "tx"
  BY DEF Crash, ProcInit, NoCall
<1>7. UNCHANGED vars => call' = call
  BY DEF vars, procVars
<1>8. QED
  BY <1>1, <1>2, <1>3, <1>4, <1>5, <1>6, <1>7 DEF Next

\* What a transaction read stays the agent of the run it read.
LEMMA KeyReadStep ==
  ASSUME OnlyLockedStarts, KeyInv, [Next]_vars
  PROVE  KeyRead'
<1> USE DEF KeyInv
<1>1. AgentsKept
  BY KeyOthers
<1>2. ASSUME NEW c \in Callers, call[c].pc = "tx", call[c].seen # 0, call'[c] = call[c]
      PROVE  call'[c].key = runAgent'[call'[c].seen]
  <2>1. /\ call[c].issue \in Issues /\ execRun[call[c].issue] = call[c].seen
        /\ call[c].seen \in Runs
    BY <1>2, TxType DEF OwnerInv, TypeInv, ReadUnderLock, Runs
  <2>2. runStatus[call[c].seen] # "absent"
    BY <1>2, <2>1 DEF Keys, KeyOf
  <2>3. QED
    BY <1>1, <1>2, <2>1, <2>2 DEF AgentsKept, KeyRead
<1>3. ASSUME \A c \in Callers : call'[c] = call[c] \/ call'[c].pc # "tx"
      PROVE  KeyRead'
  BY <1>2, <1>3 DEF KeyRead
<1>4. ASSUME NEW c \in Callers, NEW a \in Agents, NEW k \in Kinds, NEW i \in Issues,
             WakeLock(c, a, i, k)
      PROVE  KeyRead'
  <2>1. PICK r \in Runs \cup {0} :
          call' = [call EXCEPT ![c] =
            [pc |-> "tx", agent |-> a, issue |-> i, kind |-> k, seen |-> r,
             wasRunning |-> r # 0 /\ runStatus[r] = "running",
             key |-> IF execKey[i] # None THEN execKey[i]
                     ELSE IF r # 0 THEN runAgent[r] ELSE None]]
    BY <1>4 DEF WakeLock
  <2>2. /\ call'[c].pc = "tx" /\ call'[c].issue = i /\ call'[c].seen = r
        /\ call'[c].key = IF execKey[i] # None THEN execKey[i]
                          ELSE IF r # 0 THEN runAgent[r] ELSE None
        /\ \A d \in Callers \ {c} : call'[d] = call[d]
    BY <2>1 DEF OwnerInv, TypeInv, TypeOK
  <2>3. execRun' = execRun /\ runAgent' = runAgent
    BY <1>4 DEF WakeLock, dbVars
  <2>4. r # 0 => execRun[i] = r
    BY <2>2, <2>3, OwnerStep DEF OwnerInv, ReadUnderLock
  <2>5. r # 0 => call'[c].key = runAgent[r]
    BY <2>2, <2>4 DEF Keys, KeyOf
  <2>6. QED
    BY <1>2, <2>2, <2>3, <2>5 DEF KeyRead
<1>5. QED
  BY <1>3, <1>4, CallsMove

\* Rule A of the orchestration plan, wherever every run of an issue is started
\* under its lock: no wakeup is merged into a run of another agent, however the
\* lock changes hands between the read of the row and the merge.
THEOREM CoalescedToOwn ==
  ASSUME OnlyLockedStarts
  PROVE  Spec => []CoalescedIntoOwnRun
<1>1. Init => KeyInv
  BY OwnerInit DEF Init, KeyInv, Keys, KeyOf, KeyRead, ProcInit, NoCall
<1>2. KeyInv /\ [Next]_vars => KeyInv'
  BY OwnerStep, KeyOthers, KeyReadStep DEF KeyInv
<1>3. KeyInv => CoalescedIntoOwnRun
  BY DEF KeyInv, KeyRead, CoalescedIntoOwnRun, Coalesces
<1>4. QED
  BY <1>1, <1>2, <1>3, PTL DEF Spec

-----------------------------------------------------------------------------
(* No stranded request.  While the server does not restart, and runs do not *)
(* take further issues by checkout, the run that holds an issue's lock is   *)
(* active or some handler is still to release it; a run holds no issue but  *)
(* its own, so one release is enough.                                       *)

OneIssuePerRun == OnlyLockedStarts /\ "checkout" \notin Features

HoldsOwn == \A i \in Issues : execRun[i] # 0 => runIssue[execRun[i]] = i

Pending(r) == IsActive(r) \/ ReleasePending(r)

HolderPending == \A i \in Issues : execRun[i] # 0 => Pending(execRun[i])

PendingInv == KeyInv /\ DeferredBehindLock /\ HoldsOwn /\ HolderPending

\* Holders are runs that exist.
LEMMA HolderExists ==
  ASSUME PendingInv, NEW i \in Issues, execRun[i] # 0
  PROVE  execRun[i] \in Runs /\ runStatus[execRun[i]] # "absent"
BY DEF PendingInv, KeyInv, Keys, KeyOf, OwnerInv, TypeInv, TypeOK, Runs

\* A step that gives no run the lock loses no pending release.
LEMMA PendingKept ==
  ASSUME PendingInv, UNCHANGED <<execRun, runIssue>>,
         \A r \in Runs : runStatus[r] # "absent" /\ Pending(r) => Pending(r)'
  PROVE  HoldsOwn' /\ HolderPending'
<1>1. \A i \in Issues : execRun[i] # 0 => execRun[i] \in Runs /\ runStatus[execRun[i]] # "absent"
  BY HolderExists
<1>2. HoldsOwn'
  BY DEF PendingInv, HoldsOwn
<1>3. HolderPending'
  <2> SUFFICES ASSUME NEW i \in Issues, execRun[i] # 0 PROVE Pending(execRun[i])'
    BY DEF HolderPending
  <2>1. Pending(execRun[i])
    BY DEF PendingInv, HolderPending
  <2>2. QED
    BY <1>1, <2>1
<1>4. QED
  BY <1>2, <1>3

\* A step that inserts a run, and at most gives it its issue's lock.
LEMMA PendingGiven ==
  ASSUME PendingInv, NEW a, NEW j, NEW of, InsertRun(nRuns + 1, a, j, of),
         UNCHANGED <<exec, cancel, reaper>>,
         \/ execRun' = execRun
         \/ j \in Issues /\ execRun' = [execRun EXCEPT ![j] = nRuns + 1]
  PROVE  HoldsOwn' /\ HolderPending'
<1> DEFINE n == nRuns + 1
<1>0. OwnerInv /\ TypeOK /\ NoRunBeyond
  BY DEF PendingInv, KeyInv, OwnerInv, TypeInv
<1>1. /\ n \in Runs /\ n # 0 /\ runStatus[n] = "absent" /\ runStatus'[n] = "queued" /\ runIssue'[n] = j
      /\ \A q \in Runs \ {n} : runStatus'[q] = runStatus[q] /\ runIssue'[q] = runIssue[q]
  BY <1>0, InsertEffect DEF Runs
<1>2. \A i \in Issues : execRun'[i] = execRun[i] \/ (i = j /\ execRun'[i] = n)
  BY <1>0 DEF TypeOK
<1> HIDE DEF n
<1>3. \A i \in Issues : execRun[i] # 0 => execRun[i] \in Runs \ {n}
  BY <1>1, HolderExists
<1>4. \A r \in Runs \ {n} : Pending(r) => Pending(r)'
  BY <1>1 DEF Pending, IsActive, ReleasePending
<1>5. HoldsOwn'
  BY <1>1, <1>2, <1>3 DEF PendingInv, HoldsOwn
<1>6. HolderPending'
  <2> SUFFICES ASSUME NEW i \in Issues, execRun'[i] # 0 PROVE Pending(execRun[i])'
    BY DEF HolderPending
  <2>1. CASE execRun'[i] = execRun[i]
    <3>1. Pending(execRun[i]) /\ execRun[i] \in Runs \ {n}
      BY <1>3, <2>1 DEF PendingInv, HolderPending
    <3>2. \E r \in Runs \ {n} : r = execRun[i] /\ Pending(r)
      BY <3>1
    <3>3. PICK r \in Runs \ {n} : r = execRun'[i] /\ Pending(r)'
      BY <1>4, <2>1, <3>2
    <3>4. QED
      BY <3>3 DEF Pending, IsActive, ReleasePending
  <2>2. CASE execRun'[i] = n
    BY <1>1, <2>2 DEF Pending, IsActive, Active
  <2>3. QED
    BY <1>2, <2>1, <2>2
<1>7. QED
  BY <1>5, <1>6

\* A release of a finished run leaves it no issue.
LEMMA ReleaseFrees ==
  ASSUME PendingInv, NEW r \in Runs, runStatus[r] \in Terminal, ReleaseAndPromote(r),
         \A q \in Runs \ {r} : ReleasePending(q) => ReleasePending(q)'
  PROVE  HoldsOwn' /\ HolderPending'
<1>0. OwnerInv /\ TypeOK /\ NoRunBeyond /\ r # 0
  BY DEF PendingInv, KeyInv, OwnerInv, TypeInv, Runs
<1>1. \A i, j \in HeldBy(r) : i = j
  BY <1>0 DEF HeldBy, PendingInv, HoldsOwn
<1>2. \A i \in Issues : execRun[i] # 0 =>
        /\ execRun[i] \in Runs /\ runStatus[execRun[i]] # "absent"
        /\ Pending(execRun[i]) /\ runIssue[execRun[i]] = i
  BY HolderExists DEF PendingInv, HoldsOwn, HolderPending
<1>3. ASSUME NEW n, \A i \in Issues : \/ execRun'[i] = execRun[i] /\ execRun[i] # r
                                      \/ execRun'[i] = 0
                                      \/ /\ execRun'[i] = n /\ n # 0
                                         /\ runStatus'[n] = "queued" /\ runIssue'[n] = i,
             \A q \in Runs : runStatus[q] # "absent" =>
               runStatus'[q] = runStatus[q] /\ runIssue'[q] = runIssue[q]
      PROVE  HoldsOwn' /\ HolderPending'
  <2>1. ASSUME NEW i \in Issues, execRun'[i] # 0
        PROVE  runIssue'[execRun'[i]] = i /\ Pending(execRun[i])'
    <3>1. CASE execRun'[i] = execRun[i] /\ execRun[i] # r
      <4>1. PICK q \in Runs \ {r} : q = execRun[i] /\ Pending(q) /\ runStatus[q] # "absent"
                                    /\ runIssue[q] = i
        BY <1>2, <2>1, <3>1
      <4>2. q = execRun'[i] /\ runStatus'[q] = runStatus[q] /\ runIssue'[q] = i
        BY <1>3, <3>1, <4>1
      <4>3. Pending(q)'
        BY <4>1, <4>2 DEF Pending, IsActive
      <4>4. QED
        BY <4>2, <4>3 DEF Pending, IsActive, ReleasePending
    <3>2. CASE execRun'[i] = n /\ n # 0 /\ runStatus'[n] = "queued" /\ runIssue'[n] = i
      BY <3>2 DEF Pending, IsActive, Active
    <3>3. QED
      BY <1>3, <2>1, <3>1, <3>2
  <2>2. QED
    BY <2>1 DEF HoldsOwn, HolderPending
<1>4. CASE HeldBy(r) = {} /\ UNCHANGED <<runColumns, execRun, execKey, deferred>>
  <2>1. UNCHANGED <<runStatus, runIssue, execRun>> /\ \A i \in Issues : execRun[i] # r
    BY <1>4 DEF runColumns, HeldBy
  <2>2. QED
    BY <1>3, <2>1
<1>5. ASSUME NEW i \in HeldBy(r), ClearLock(i) PROVE HoldsOwn' /\ HolderPending'
  <2>1. /\ execRun'[i] = 0 /\ UNCHANGED <<runStatus, runIssue>>
        /\ \A j \in Issues \ {i} : execRun'[j] = execRun[j] /\ execRun[j] # r
    BY <1>0, <1>1, <1>5 DEF ClearLock, HeldBy, TypeOK, runColumns
  <2>2. QED
    BY <1>3, <2>1
<1>6. ASSUME NEW i \in HeldBy(r), PromoteDeferred(i) PROVE HoldsOwn' /\ HolderPending'
  <2> DEFINE n == nRuns + 1
  <2>1. PICK a : InsertRun(n, a, i, 0) /\ execRun' = [execRun EXCEPT ![i] = n]
    BY <1>6 DEF PromoteDeferred
  <2>2. /\ n \in Runs /\ n # 0 /\ runStatus[n] = "absent" /\ runStatus'[n] = "queued"
        /\ runIssue'[n] = i
        /\ \A q \in Runs \ {n} : runStatus'[q] = runStatus[q] /\ runIssue'[q] = runIssue[q]
    BY <1>0, <2>1, InsertEffect DEF Runs
  <2>3. execRun'[i] = n /\ \A j \in Issues \ {i} : execRun'[j] = execRun[j] /\ execRun[j] # r
    BY <1>0, <1>1, <2>1 DEF HeldBy, TypeOK
  <2> HIDE DEF n
  <2>4. QED
    BY <1>3, <2>2, <2>3
<1>7. QED
  BY <1>4, <1>5, <1>6 DEF ReleaseAndPromote

LEMMA PendingRun ==
  ASSUME PendingInv, NEW r \in Runs, Claim(r) \/ ExecStep(r)
  PROVE  HoldsOwn' /\ HolderPending'
<1>0. TypeOK /\ OwnerInv
  BY DEF PendingInv, KeyInv, OwnerInv, TypeInv
<1>1. CASE Claim(r)
  <2>1. /\ exec' = [exec EXCEPT ![r] = "claimed"] /\ runStatus' = [runStatus EXCEPT ![r] = "running"]
        /\ UNCHANGED <<execRun, runIssue, cancel, reaper>>
    BY <1>1 DEF Claim
  <2>2. /\ runStatus'[r] = "running"
        /\ \A q \in Runs \ {r} : runStatus'[q] = runStatus[q] /\ exec'[q] = exec[q]
    BY <1>0, <2>1 DEF TypeOK
  <2>3. Pending(r)'
    BY <2>2 DEF Pending, IsActive, Active, Runs
  <2>4. \A q \in Runs : Pending(q) => Pending(q)'
    BY <2>1, <2>2, <2>3 DEF Pending, IsActive, ReleasePending
  <2>5. QED
    BY <2>1, <2>4, PendingKept
<1>2. CASE ExecBegin(r) \/ AdapterReturns(r) \/ AdapterThrows(r)
  <2>1. /\ UNCHANGED <<runStatus, execRun, runIssue, cancel, reaper>>
        /\ \A q \in Runs : exec[q] \in {"adapter", "settle", "release"} =>
             exec'[q] \in {"adapter", "settle", "release"}
    BY <1>0, <1>2 DEF ExecBegin, AdapterReturns, AdapterThrows, execOnly, dbVars, TypeOK
  <2>2. \A q \in Runs : Pending(q) => Pending(q)'
    BY <2>1 DEF Pending, IsActive, ReleasePending
  <2>3. QED
    BY <2>1, <2>2, PendingKept
<1>3. CASE Settle(r)
  <2>1. /\ UNCHANGED <<execRun, runIssue, cancel, reaper>>
        /\ \A q \in Runs \ {r} : runStatus'[q] = runStatus[q] /\ exec'[q] = exec[q]
        /\ exec'[r] \in {"settle", "release"}
    BY <1>0, <1>3 DEF Settle, OrThrows, TypeOK
  <2>2. Pending(r)'
    BY <2>1 DEF Pending, ReleasePending
  <2>3. \A q \in Runs : Pending(q) => Pending(q)'
    BY <2>1, <2>2 DEF Pending, IsActive, ReleasePending
  <2>4. QED
    BY <2>1, <2>3, PendingKept
<1>4. CASE ExecRelease(r)
  <2>1. /\ exec[r] = "release" /\ ReleaseAndPromote(r) /\ UNCHANGED <<cancel, reaper>>
        /\ \A q \in Runs \ {r} : exec'[q] = exec[q]
    BY <1>0, <1>4 DEF ExecRelease, OrThrows, TypeOK
  <2>2. \A q \in Runs \ {r} : ReleasePending(q) => ReleasePending(q)'
    BY <2>1 DEF ReleasePending
  <2>3. runStatus[r] \in Terminal
    BY <1>0, <2>1 DEF OwnerInv, Handled
  <2>4. QED
    BY <2>1, <2>2, <2>3, ReleaseFrees
<1>5. QED
  BY <1>1, <1>2, <1>3, <1>4 DEF ExecStep

LEMMA PendingCancel ==
  ASSUME PendingInv, NEW r \in Runs, CancelRead(r) \/ CancelStep(r)
  PROVE  HoldsOwn' /\ HolderPending'
<1>0. TypeOK /\ OwnerInv
  BY DEF PendingInv, KeyInv, OwnerInv, TypeInv
<1>1. CASE CancelRead(r) \/ CancelSet(r)
  <2>1. /\ UNCHANGED <<execRun, runIssue, exec, reaper>> /\ cancel'[r] # "idle"
        /\ \A q \in Runs \ {r} : runStatus'[q] = runStatus[q] /\ cancel'[q] = cancel[q]
    BY <1>0, <1>1 DEF CancelRead, CancelSet, dbVars, TypeOK
  <2>2. Pending(r)'
    BY <2>1 DEF Pending, ReleasePending
  <2>3. \A q \in Runs : Pending(q) => Pending(q)'
    BY <2>1, <2>2 DEF Pending, IsActive, ReleasePending
  <2>4. QED
    BY <2>1, <2>3, PendingKept
<1>2. CASE CancelRelease(r)
  <2>1. /\ cancel[r] = "release" /\ ReleaseAndPromote(r) /\ UNCHANGED <<exec, reaper>>
        /\ \A q \in Runs \ {r} : cancel'[q] = cancel[q]
    BY <1>0, <1>2 DEF CancelRelease, TypeOK
  <2>2. \A q \in Runs \ {r} : ReleasePending(q) => ReleasePending(q)'
    BY <2>1 DEF ReleasePending
  <2>3. runStatus[r] \in Terminal
    BY <1>0, <2>1 DEF OwnerInv, Handled
  <2>4. QED
    BY <2>1, <2>2, <2>3, ReleaseFrees
<1>3. QED
  BY <1>1, <1>2 DEF CancelStep

LEMMA PendingReap ==
  ASSUME OneIssuePerRun, PendingInv, NEW p \in Reapers, ReapScan(p) \/ ReapStep(p)
  PROVE  HoldsOwn' /\ HolderPending'
<1>0. TypeInv /\ TypeOK /\ OwnerInv /\ OnlyLockedStarts
  BY DEF PendingInv, KeyInv, OwnerInv, TypeInv, OneIssuePerRun
<1>1. CASE ReapScan(p) \/ ReapEnd(p) \/ \E r \in Runs : ReapSkip(p, r)
  <2>1. /\ UNCHANGED <<execRun, runIssue, runStatus, exec, cancel>>
        /\ reaper[p].pc \in {"idle", "loop"} /\ \A q \in Reapers \ {p} : reaper'[q] = reaper[q]
    BY <1>0, <1>1, ReaperRecord
    DEF ReapScan, ReapEnd, ReapSkip, runColumns, reaperFrame, Becomes
  <2>2. \A q \in Runs : Pending(q) => Pending(q)'
    BY <2>1 DEF Pending, IsActive, ReleasePending
  <2>3. QED
    BY <2>1, <2>2, PendingKept
<1>2. ASSUME NEW r \in Runs, ReapFail(p, r) PROVE HoldsOwn' /\ HolderPending'
  <2>1. /\ UNCHANGED <<execRun, runIssue, exec, cancel>> /\ reaper[p].pc = "loop"
        /\ \A q \in Runs \ {r} : runStatus'[q] = runStatus[q]
    BY <1>0, <1>2 DEF ReapFail, reaperFrame, TypeOK
  <2>2. PICK pc \in {"release", "retry"} : Becomes(p, pc, reaper[p].todo \ {r}, r)
    BY <1>0, <1>2, ReaperRecord
  <2>3. /\ reaper'[p].pc \in {"release", "retry"} /\ reaper'[p].run = r
        /\ \A q \in Reapers \ {p} : reaper'[q] = reaper[q]
    BY <2>2 DEF Becomes
  <2>4. Pending(r)'
    BY <2>3 DEF Pending, ReleasePending
  <2>5. \A q \in Runs : Pending(q) => Pending(q)'
    BY <2>1, <2>3, <2>4 DEF Pending, IsActive, ReleasePending
  <2>6. QED
    BY <2>1, <2>5, PendingKept
<1>3. CASE ReapRelease(p)
  <2> DEFINE r == reaper[p].run
  <2>1. /\ ReleaseAndPromote(r) /\ UNCHANGED <<exec, cancel>>
        /\ r \in Runs /\ runStatus[r] \in Terminal
    BY <1>0, <1>3, ReaperTypes DEF ReapRelease, reaperFrame, OwnerInv, Handled
  <2>2. \A q \in Reapers \ {p} : reaper'[q] = reaper[q]
    BY <1>0, <1>3, ReaperRecord DEF Becomes
  <2>3. \A q \in Runs \ {r} : ReleasePending(q) => ReleasePending(q)'
    BY <2>1, <2>2 DEF ReleasePending
  <2>4. QED
    BY <2>1, <2>3, ReleaseFrees
<1>4. ~ReapRetry(p) /\ \A r \in Runs : ~ReapDetached(p, r)
  BY <1>0 DEF ReapRetry, ReapDetached, OwnerInv, Handled, OnlyLockedStarts
<1>5. QED
  BY <1>1, <1>2, <1>3, <1>4 DEF ReapStep

LEMMA PendingWake ==
  ASSUME OneIssuePerRun, PendingInv, NEW c \in Callers, WakeStep(c)
  PROVE  HoldsOwn' /\ HolderPending'
<1> DEFINE i == call[c].issue
<1>0. TypeOK /\ OwnerInv
  BY DEF PendingInv, KeyInv, OwnerInv, TypeInv
<1>1. UNCHANGED <<exec, cancel, reaper>>
  BY DEF WakeStep, WakeCoalesce, WakeDefer, WakeStart, WakeScanned, EndTx
<1>2. ASSUME UNCHANGED <<runColumns, execRun>> PROVE HoldsOwn' /\ HolderPending'
  <2>1. \A q \in Runs : Pending(q) => Pending(q)'
    BY <1>1, <1>2 DEF Pending, IsActive, ReleasePending, runColumns
  <2>2. QED
    BY <1>2, <2>1, PendingKept DEF runColumns
<1>3. CASE WakeCoalesce(c) \/ WakeDefer(c)
  <2>1. /\ i \in Issues /\ execRun[i] = call[c].seen /\ KeepOrRepairLock(i, call[c].seen)
        /\ UNCHANGED runColumns
    BY <1>0, <1>3, TxType DEF WakeCoalesce, WakeDefer, Coalesces, OwnerInv, ReadUnderLock
  <2>2. execRun' = execRun
    BY <1>0, <2>1 DEF KeepOrRepairLock, TypeOK
  <2>3. QED
    BY <1>2, <2>1, <2>2
<1>4. CASE WakeStart(c)
  <2>1. i \in Issues
    BY <1>0, <1>4, TxType DEF WakeStart
  <2>2. QED
    BY <1>1, <1>4, <2>1, PendingGiven DEF WakeStart
<1>5. CASE WakeScanned(c)
  BY <1>1, <1>2, <1>5, PendingGiven DEF WakeScanned
<1>6. QED
  BY <1>3, <1>4, <1>5 DEF WakeStep

LEMMA PendingStep ==
  ASSUME OneIssuePerRun, MaxCrashes = 0, PendingInv, [Next]_vars
  PROVE  HoldsOwn' /\ HolderPending'
<1> DEFINE Same == UNCHANGED <<runStatus, runIssue, execRun, exec, cancel, reaper>>
<1>0. ASSUME Same PROVE HoldsOwn' /\ HolderPending'
  <2>1. \A q \in Runs : Pending(q) => Pending(q)'
    BY <1>0 DEF Pending, IsActive, ReleasePending
  <2>2. QED
    BY <1>0, <2>1, PendingKept
<1>1. ASSUME NEW c, NEW a, NEW k, NEW i, WakeLock(c, a, i, k) \/ WakeScan(c, a, i, k) PROVE Same
  BY <1>1 DEF WakeLock, WakeScan, dbVars
<1>2. ASSUME NEW i, NEW r, Checkout(r, i) \/ AdoptStaleCheckout(r, i) PROVE FALSE
  BY <1>2 DEF Checkout, AdoptStaleCheckout, OneIssuePerRun, OnlyLockedStarts
<1>3. ASSUME NEW i, NEW k, ClearCheckout(i) \/ CancelDeferred(i, k) PROVE Same
  BY <1>3 DEF ClearCheckout, CancelDeferred, checkoutFrame, runColumns, procVars
<1>4. ASSUME NEW a \in Agents, Pause(a) \/ Resume(a) PROVE HoldsOwn' /\ HolderPending'
  <2>1. /\ UNCHANGED <<runStatus, runIssue, execRun, exec, reaper>>
        /\ \A q \in Runs : cancel[q] # "idle" => cancel'[q] # "idle"
    BY <1>4 DEF Pause, Resume, runColumns, procVars
  <2>2. \A q \in Runs : Pending(q) => Pending(q)'
    BY <2>1 DEF Pending, IsActive, ReleasePending
  <2>3. QED
    BY <2>1, <2>2, PendingKept
<1>5. ~Crash
  BY DEF Crash, PendingInv, KeyInv, OwnerInv, TypeInv, TypeOK
<1>6. UNCHANGED vars => Same
  BY DEF vars, dbVars, procVars
<1> HIDE DEF Same
<1>7. QED
  BY <1>0, <1>1, <1>2, <1>3, <1>4, <1>5, <1>6, PendingWake, PendingRun, PendingCancel, PendingReap
  DEF Next

\* Rule B of the orchestration plan: however calls, pauses, cancellations, late
\* failures and the reaper interleave, a deferred request waits for a run that is
\* active or that some handler in progress is going to release.  It needs a server
\* that does not restart (a restart loses the handlers) and runs that hold one
\* issue each (a release promotes for one issue only).
THEOREM NoneStranded ==
  ASSUME OneIssuePerRun, MaxCrashes = 0
  PROVE  Spec => []NoStrandedRequest
<1>0. OnlyLockedStarts
  BY DEF OneIssuePerRun
<1>1. Init => PendingInv
  BY OwnerInit DEF Init, PendingInv, KeyInv, Keys, KeyOf, KeyRead, ProcInit, NoCall,
                   DeferredBehindLock, HoldsOwn, HolderPending
<1>2. PendingInv /\ [Next]_vars => PendingInv'
  <2> SUFFICES ASSUME PendingInv, [Next]_vars PROVE PendingInv'
    OBVIOUS
  <2>1. OwnerInv' /\ Keys' /\ KeyRead'
    BY <1>0, OwnerStep, KeyOthers, KeyReadStep DEF PendingInv, KeyInv
  <2>2. DeferredBehindLock'
    BY WaitersStep DEF PendingInv, KeyInv, OwnerInv
  <2>3. HoldsOwn' /\ HolderPending'
    BY PendingStep
  <2>4. QED
    BY <2>1, <2>2, <2>3 DEF PendingInv, KeyInv
<1>3. PendingInv => NoStrandedRequest
  BY DEF PendingInv, DeferredBehindLock, HolderPending, Pending, NoStrandedRequest
<1>4. QED
  BY <1>1, <1>2, <1>3, PTL DEF Spec
-----------------------------------------------------------------------------
(* The execution lock of an issue as an exclusive lease: what IssueCheckout *)
(* is shown to be for the checkout of an issue, this module is for its      *)
(* execution, wherever every run of an issue is started under the lock.     *)

Ended == {r \in Runs : runStatus[r] \in Terminal}

IssueLease(i) == INSTANCE ExclusiveLease WITH
  Holders <- Runs, Nobody <- 0, holder <- execRun[i], finished <- Ended

\* A transaction that found no run in charge has its row's lock to itself.
StartsFree ==
  \A c \in Callers : call[c].pc = "tx" /\ call[c].seen = 0 =>
    ~IsActive(execRun[call[c].issue])

LeaseInv == KeyInv /\ StartsFree

\* What a step does to locks: a lock is given only when its holder is finished, and
\* only by whoever has the row.
Passes(i) == execRun[i] \in Ended \cup {0} /\ execRun'[i] \in Runs
Leaves(c) == call[c].pc = "tx" /\ call'[c].pc # "tx"

LocksPass ==
  \A i \in Issues :
    \/ execRun'[i] = execRun[i]
    \/ rowLock[i] = None /\ (execRun'[i] = 0 \/ Passes(i))
    \/ \E c \in Callers : rowLock[i] = c /\ Leaves(c) /\ Passes(i)

RunsEnd == \/ Ended' = Ended
           \/ execRun' = execRun /\ \E r \in Runs : Ended' = Ended \cup {r}

LEMMA LeaseSame ==
  ASSUME UNCHANGED <<runStatus, execRun>>
  PROVE  LocksPass /\ RunsEnd
BY DEF LocksPass, RunsEnd, Ended

LEMMA LeaseWrite ==
  ASSUME TypeOK, NEW r \in Runs, NEW s, runStatus' = [runStatus EXCEPT ![r] = s],
         s \in Terminal \/ runStatus[r] \notin Terminal, UNCHANGED execRun
  PROVE  LocksPass /\ RunsEnd
<1>1. runStatus'[r] = s /\ \A q \in Runs \ {r} : runStatus'[q] = runStatus[q]
  BY DEF TypeOK
<1>2. Ended' = Ended \/ Ended' = Ended \cup {r}
  BY <1>1 DEF Ended
<1> QED BY <1>2 DEF LocksPass, RunsEnd

\* An insertion ends no run.
LEMMA LeaseInsert ==
  ASSUME OwnerInv, NEW a, NEW i, NEW of, InsertRun(nRuns + 1, a, i, of)
  PROVE  nRuns + 1 \in Runs /\ Ended' = Ended
<1>1. /\ nRuns + 1 \in Runs /\ runStatus[nRuns + 1] = "absent"
      /\ runStatus'[nRuns + 1] = "queued"
      /\ \A q \in Runs \ {nRuns + 1} : runStatus'[q] = runStatus[q]
  BY InsertEffect DEF OwnerInv, TypeInv
<1> QED BY <1>1 DEF Ended, Terminal

LEMMA LeaseRelease ==
  ASSUME OwnerInv, NEW r \in Runs, runStatus[r] \in Terminal, ReleaseAndPromote(r)
  PROVE  LocksPass /\ RunsEnd
<1>1. CASE UNCHANGED <<runColumns, execRun, execKey, deferred>>
  BY <1>1, LeaseSame DEF runColumns
<1>2. ASSUME NEW i \in HeldBy(r), RowUnlocked(i), ClearLock(i) \/ PromoteDeferred(i)
      PROVE  LocksPass /\ RunsEnd
  <2>1. /\ i \in Issues /\ rowLock[i] = None /\ execRun[i] \in Ended
        /\ execRun \in [Issues -> 0..MaxRuns]
    BY <1>2 DEF HeldBy, RowUnlocked, Ended, OwnerInv, TypeInv, TypeOK
  <2>2. CASE ClearLock(i)
    <3>1. UNCHANGED runStatus /\ execRun' = [execRun EXCEPT ![i] = 0]
      BY <2>2 DEF ClearLock, runColumns
    <3>2. execRun'[i] = 0 /\ \A j \in Issues \ {i} : execRun'[j] = execRun[j]
      BY <2>1, <3>1
    <3> QED BY <2>1, <3>1, <3>2 DEF LocksPass, RunsEnd, Ended
  <2>3. CASE PromoteDeferred(i)
    <3>1. PICK a : /\ InsertRun(nRuns + 1, a, i, 0)
                   /\ execRun' = [execRun EXCEPT ![i] = nRuns + 1]
      BY <2>3 DEF PromoteDeferred
    <3>2. nRuns + 1 \in Runs /\ Ended' = Ended
      BY <3>1, LeaseInsert
    <3>3. execRun'[i] = nRuns + 1 /\ \A j \in Issues \ {i} : execRun'[j] = execRun[j]
      BY <2>1, <3>1
    <3> QED BY <2>1, <3>2, <3>3 DEF LocksPass, RunsEnd, Passes
  <2> QED BY <1>2, <2>2, <2>3
<1> QED BY <1>1, <1>2 DEF ReleaseAndPromote

\* A wakeup that starts a run takes a lock that nobody needs any more; one that is
\* coalesced or deferred finds the lock as it read it.
LEMMA LeaseWake ==
  ASSUME OnlyLockedStarts, LeaseInv, NEW c \in Callers, WakeStep(c)
  PROVE  LocksPass /\ RunsEnd
<1> DEFINE i == call[c].issue
<1>0. /\ OwnerInv /\ Keys /\ execRun \in [Issues -> 0..MaxRuns]
      /\ call[c].pc = "tx" => i \in Issues /\ call[c].seen \in 0..MaxRuns /\ rowLock[i] = c
  BY TxType DEF LeaseInv, KeyInv, OwnerInv, TypeInv, TypeOK, ReadUnderLock
<1>1. CASE WakeCoalesce(c) \/ WakeDefer(c)
  <2>1. /\ call[c].pc = "tx" /\ call[c].seen # 0 /\ KeepOrRepairLock(i, call[c].seen)
        /\ UNCHANGED runStatus
    BY <1>1 DEF WakeCoalesce, WakeDefer, Coalesces, runColumns
  <2>2. execRun' = execRun
    BY <1>0, <2>1 DEF KeepOrRepairLock, OwnerInv, ReadUnderLock
  <2> QED BY <2>1, <2>2, LeaseSame
<1>2. CASE WakeStart(c)
  <2>1. /\ call[c].pc = "tx" /\ call[c].seen = 0 /\ EndTx(c, i)
        /\ InsertRun(nRuns + 1, call[c].agent, i, 0)
        /\ execRun' = [execRun EXCEPT ![i] = nRuns + 1]
    BY <1>2 DEF WakeStart
  <2>2. nRuns + 1 \in Runs /\ Ended' = Ended
    BY <1>0, <2>1, LeaseInsert
  <2>3. execRun'[i] = nRuns + 1 /\ \A j \in Issues \ {i} : execRun'[j] = execRun[j]
    BY <1>0, <2>1
  <2>4. execRun[i] \in Ended \cup {0}
    <3> SUFFICES ASSUME execRun[i] # 0 PROVE execRun[i] \in Ended
      OBVIOUS
    <3>1. execRun[i] \in Runs /\ runStatus[execRun[i]] # "absent"
      BY <1>0, <2>1 DEF Keys, KeyOf, Runs
    <3>2. runStatus[execRun[i]] \notin Active
      BY <2>1 DEF LeaseInv, StartsFree, IsActive
    <3> QED BY <1>0, <3>1, <3>2 DEF Ended, OwnerInv, TypeInv, TypeOK
  <2>5. Leaves(c)
    BY <1>0, <2>1 DEF Leaves, EndTx, NoCall, OwnerInv, TypeInv, TypeOK
  <2> HIDE DEF i
  <2> QED BY <1>0, <2>1, <2>2, <2>3, <2>4, <2>5 DEF LocksPass, RunsEnd, Passes
<1>3. CASE WakeScanned(c)
  <2>1. execRun' = execRun
    BY <1>3 DEF WakeScanned
  <2>2. CASE UNCHANGED runColumns
    BY <2>1, <2>2, LeaseSame DEF runColumns
  <2>3. CASE InsertRun(nRuns + 1, call[c].agent, i, 0)
    BY <1>0, <2>1, <2>3, LeaseInsert DEF LocksPass, RunsEnd
  <2> QED BY <1>3, <2>2, <2>3 DEF WakeScanned
<1> QED BY <1>1, <1>2, <1>3 DEF WakeStep

LEMMA LeaseEffect ==
  ASSUME OnlyLockedStarts, LeaseInv, [Next]_vars
  PROVE  LocksPass /\ RunsEnd
<1>0. OwnerInv /\ TypeOK
  BY DEF LeaseInv, KeyInv, OwnerInv, TypeInv
<1>1. ASSUME NEW c \in Callers, NEW a, NEW k, NEW i, WakeLock(c, a, i, k) \/ WakeScan(c, a, i, k)
      PROVE  LocksPass /\ RunsEnd
  BY <1>1, LeaseSame DEF WakeLock, WakeScan, dbVars
<1>2. ASSUME NEW r \in Runs, Claim(r) \/ ExecStep(r) PROVE LocksPass /\ RunsEnd
  <2>1. CASE Claim(r)
    <3>1. /\ runStatus[r] \notin Terminal /\ runStatus' = [runStatus EXCEPT ![r] = "running"]
          /\ UNCHANGED execRun
      BY <2>1 DEF Claim, Claimable, Terminal
    <3> QED BY <1>0, <3>1, LeaseWrite
  <2>2. CASE ExecBegin(r) \/ AdapterReturns(r) \/ AdapterThrows(r)
    BY <2>2, LeaseSame DEF ExecBegin, AdapterReturns, AdapterThrows, execOnly, dbVars
  <2>3. CASE Settle(r)
    <3>1. /\ outcome[r] \in Terminal /\ runStatus' = [runStatus EXCEPT ![r] = outcome[r]]
          /\ UNCHANGED execRun
      BY <1>0, <2>3 DEF Settle, OwnerInv, TypeInv, OutcomeKnown
    <3> QED BY <1>0, <3>1, LeaseWrite
  <2>4. CASE ExecRelease(r)
    BY <1>0, <2>4, LeaseRelease DEF ExecRelease, OwnerInv, Handled
  <2> QED BY <1>2, <2>1, <2>2, <2>3, <2>4 DEF ExecStep
<1>3. ASSUME NEW r \in Runs, CancelRead(r) \/ CancelStep(r) PROVE LocksPass /\ RunsEnd
  <2>1. CASE CancelRead(r)
    BY <2>1, LeaseSame DEF CancelRead, dbVars
  <2>2. CASE CancelSet(r)
    <3>1. /\ "cancelled" \in Terminal /\ runStatus' = [runStatus EXCEPT ![r] = "cancelled"]
          /\ UNCHANGED execRun
      BY <2>2 DEF CancelSet, Terminal
    <3> QED BY <1>0, <3>1, LeaseWrite
  <2>3. CASE CancelRelease(r)
    BY <1>0, <2>3, LeaseRelease DEF CancelRelease, OwnerInv, Handled
  <2> QED BY <1>3, <2>1, <2>2, <2>3 DEF CancelStep
<1>4. ASSUME NEW i \in Issues, NEW r \in Runs, Checkout(r, i) PROVE LocksPass /\ RunsEnd
  <2>1. /\ rowLock[i] = None /\ execRun[i] \in {0, r} /\ execRun' = [execRun EXCEPT ![i] = r]
        /\ UNCHANGED runStatus
    BY <1>4 DEF Checkout, RowUnlocked, checkoutFrame, runColumns
  <2>2. execRun'[i] = r /\ \A j \in Issues \ {i} : execRun'[j] = execRun[j]
    BY <1>0, <2>1 DEF TypeOK
  <2> QED BY <2>1, <2>2 DEF LocksPass, RunsEnd, Passes, Ended
<1>5. ASSUME NEW i, NEW r, AdoptStaleCheckout(r, i) PROVE FALSE
  BY <1>5 DEF AdoptStaleCheckout, OnlyLockedStarts
<1>6. ASSUME NEW i, NEW k, ClearCheckout(i) \/ CancelDeferred(i, k) PROVE LocksPass /\ RunsEnd
  BY <1>6, LeaseSame DEF ClearCheckout, CancelDeferred, checkoutFrame, runColumns
<1>7. ASSUME NEW a \in Agents, Pause(a) \/ Resume(a) PROVE LocksPass /\ RunsEnd
  BY <1>7, LeaseSame DEF Pause, Resume, runColumns
<1>8. ASSUME NEW p \in Reapers, ReapScan(p) \/ ReapStep(p) PROVE LocksPass /\ RunsEnd
  <2>1. CASE ReapRelease(p)
    <3>1. /\ reaper[p].run \in Runs /\ runStatus[reaper[p].run] \in Terminal
          /\ ReleaseAndPromote(reaper[p].run)
      BY <1>0, <2>1, ReaperPcs DEF ReapRelease, OwnerInv, Handled
    <3> QED BY <1>0, <3>1, LeaseRelease
  <2>2. ~ReapRetry(p)
    BY <1>0 DEF ReapRetry, OwnerInv, Handled
  <2>3. ASSUME NEW r \in Runs, ReapFail(p, r) PROVE LocksPass /\ RunsEnd
    <3>1. /\ "failed" \in Terminal /\ runStatus' = [runStatus EXCEPT ![r] = "failed"]
          /\ UNCHANGED execRun
      BY <2>3 DEF ReapFail, Terminal
    <3> QED BY <1>0, <3>1, LeaseWrite
  <2>4. \A r \in Runs : ~ReapDetached(p, r)
    BY DEF ReapDetached, OnlyLockedStarts
  <2>5. CASE ReapScan(p) \/ ReapEnd(p) \/ \E r \in Runs : ReapSkip(p, r)
    BY <2>5, LeaseSame DEF ReapScan, ReapEnd, ReapSkip, runColumns
  <2> QED BY <1>8, <2>1, <2>2, <2>3, <2>4, <2>5 DEF ReapStep
<1>9. CASE Crash \/ UNCHANGED vars
  BY <1>9, LeaseSame DEF Crash, vars, dbVars
<1>10. ASSUME NEW c \in Callers, WakeStep(c) PROVE LocksPass /\ RunsEnd
  BY <1>10, LeaseWake
<1>11. QED
  BY <1>1, <1>2, <1>3, <1>4, <1>5, <1>6, <1>7, <1>8, <1>9, <1>10 DEF Next

\* What a transaction found free stays free for it.
LEMMA StartsFreeStep ==
  ASSUME OnlyLockedStarts, LeaseInv, [Next]_vars
  PROVE  StartsFree'
<1>0. /\ OwnerInv /\ Keys /\ StatusMoves /\ LocksPass /\ StartsFree
      /\ ReadUnderLock /\ execRun \in [Issues -> 0..MaxRuns]
  BY OwnerStep, LeaseEffect DEF LeaseInv, KeyInv, OwnerInv, TypeInv, TypeOK
<1>1. ASSUME NEW c \in Callers, call[c].pc = "tx", call[c].seen = 0, call'[c] = call[c]
      PROVE  ~IsActive(execRun[call[c].issue])'
  <2> DEFINE i == call[c].issue
  <2>1. i \in Issues /\ rowLock[i] = c /\ c # None /\ ~Leaves(c)
    BY <1>0, <1>1, TxType DEF OwnerInv, TypeInv, ReadUnderLock, Leaves
  <2>2. execRun'[i] = execRun[i]
    BY <1>0, <2>1 DEF LocksPass
  <2>3. execRun[i] # 0 => /\ execRun[i] \in Runs /\ runStatus[execRun[i]] # "absent"
                          /\ runStatus[execRun[i]] \notin Active
    BY <1>0, <1>1, <2>1 DEF Keys, KeyOf, Runs, StartsFree, IsActive
  <2>4. execRun[i] # 0 => runStatus[execRun[i]] \in Terminal
    BY <1>0, <2>3 DEF OwnerInv, TypeInv, TypeOK
  <2>5. execRun[i] # 0 => runStatus'[execRun[i]] \in Terminal
    BY <1>0, <2>3, <2>4 DEF StatusMoves
  <2>6. i' = i
    BY <1>1
  <2> HIDE DEF i
  <2>7. ~IsActive(execRun[i])'
    BY <2>2, <2>5, <2>6 DEF IsActive, Active, Terminal
  <2> QED BY <2>7 DEF i
<1>2. ASSUME \A c \in Callers : call'[c] = call[c] \/ call'[c].pc # "tx"
      PROVE  StartsFree'
  BY <1>1, <1>2 DEF StartsFree
<1>3. ASSUME NEW c \in Callers, NEW a \in Agents, NEW k \in Kinds, NEW i \in Issues,
             WakeLock(c, a, i, k)
      PROVE  StartsFree'
  <2>1. PICK r \in Runs \cup {0} : InCharge(i, r) /\
          call' = [call EXCEPT ![c] =
            [pc |-> "tx", agent |-> a, issue |-> i, kind |-> k, seen |-> r,
             wasRunning |-> r # 0 /\ runStatus[r] = "running",
             key |-> IF execKey[i] # None THEN execKey[i]
                     ELSE IF r # 0 THEN runAgent[r] ELSE None]]
    BY <1>3 DEF WakeLock
  <2>2. /\ call'[c].pc = "tx" /\ call'[c].issue = i /\ call'[c].seen = r
        /\ \A d \in Callers \ {c} : call'[d] = call[d]
    BY <1>0, <2>1 DEF OwnerInv, TypeInv, TypeOK
  <2>3. execRun' = execRun /\ runStatus' = runStatus
    BY <1>3 DEF WakeLock, dbVars
  <2>4. r = 0 => ~IsActive(execRun[i])
    BY <2>1 DEF InCharge, IsActive
  <2> QED BY <1>1, <2>2, <2>3, <2>4 DEF StartsFree, IsActive
<1>4. QED
  BY <1>0, <1>2, <1>3, CallsMove

LEMMA LeaseStep ==
  ASSUME OnlyLockedStarts, LeaseInv, [Next]_vars, NEW i \in Issues
  PROVE  [IssueLease(i)!Next]_(IssueLease(i)!lease)
<1>1. LocksPass /\ RunsEnd
  BY LeaseEffect
<1>2. CASE execRun'[i] = execRun[i]
  BY <1>1, <1>2 DEF RunsEnd, IssueLease!Next, IssueLease!Finish, IssueLease!lease
<1>3. CASE execRun'[i] # execRun[i]
  <2>1. Ended' = Ended
    BY <1>1, <1>3 DEF RunsEnd
  <2>2. execRun'[i] = 0 \/ Passes(i)
    BY <1>1, <1>3 DEF LocksPass
  <2> QED
    BY <2>1, <2>2 DEF Passes, IssueLease!Next, IssueLease!Take, IssueLease!GiveUp
<1> QED BY <1>2, <1>3

\* Atomic ownership (doc/SPEC.md) of an issue's execution: wakeups, promotions,
\* checkouts, cancellations, pauses, the reaper and restarts together implement the
\* exclusive lease of the issue, wherever every run of an issue is started under its
\* lock.  The lock changes hands when the run that holds it is finished, and a
\* finished run stays so.
THEOREM LockIsLease ==
  ASSUME OnlyLockedStarts, NEW i \in Issues
  PROVE  Spec => IssueLease(i)!Spec
<1>1. Init => LeaseInv /\ IssueLease(i)!Init
  BY OwnerInit DEF Init, LeaseInv, KeyInv, Keys, KeyOf, KeyRead, StartsFree, ProcInit, NoCall,
                   IssueLease!Init, Ended, Terminal
<1>2. LeaseInv /\ [Next]_vars => LeaseInv'
  BY OwnerStep, KeyOthers, KeyReadStep, StartsFreeStep DEF LeaseInv, KeyInv
<1>3. LeaseInv /\ [Next]_vars => [IssueLease(i)!Next]_(IssueLease(i)!lease)
  BY LeaseStep
<1>4. QED
  BY <1>1, <1>2, <1>3, PTL DEF Spec, IssueLease!Spec

=============================================================================
