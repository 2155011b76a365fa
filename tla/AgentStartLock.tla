--------------------------- MODULE AgentStartLock ---------------------------
(***************************************************************************)
(* Who may start an agent's next run: withAgentStartLock and its callers   *)
(* in server/src/services/heartbeat.ts.  startNextQueuedRunForAgent runs   *)
(* behind a promise chain per agent, so that the slots it counts are the   *)
(* slots it fills.  The chain is a lock that is not re-entrant, and what   *)
(* runs under it awaits other calls: claimQueuedRun cancels a run that may *)
(* not start, and cancelRunInternal ends with startNextQueuedRunForAgent.  *)
(*                                                                         *)
(* A process is one top-level async call; its stack holds the calls it     *)
(* awaits, innermost first.  Only the innermost call of a process moves.   *)
(***************************************************************************)
EXTENDS Naturals, Sequences, FiniteSets

CONSTANTS
  Agents,
  Callers,   \* processes of requests: wakeups, cancellations, pauses, costs
  Driver,    \* the process of the interval's resumeQueuedRuns
  None,      \* no agent
  MaxRuns,   \* bound: runs ever queued
  MaxSlots,  \* heartbeat policy maxConcurrentRuns, the same for every agent
  Features   \* the parts of the code a configuration exercises

ASSUME LockNames ==
  /\ None \notin Agents /\ Driver \notin Callers
  /\ (Callers \cup {Driver}) \cap Nat = {}
ASSUME LockBounds == MaxRuns \in Nat /\ MaxSlots \in Nat \ {0}
ASSUME LockFeatures == Features \subseteq {"cancel", "pause", "budget", "promote"}

VARIABLES
  nRuns,     \* runs queued so far; a run is its place in creation order
  status,    \* heartbeat_runs.status; ended is any of the terminal ones
  agentOf,   \* heartbeat_runs.agentId
  invokable, \* the agent is none of paused, terminated, pending_approval
  blocked,   \* the company's budget stop: getInvocationBlock refuses work
  chain,     \* startLocksByAgent: the calls behind the agent's lock, in turn
  stack      \* the calls each process awaits, innermost first

lockVars == <<nRuns, status, agentOf, invokable, blocked, chain, stack>>

RunIds == 1..MaxRuns
Procs == RunIds \cup Callers \cup {Driver}   \* a run is also its executeRun
Active(r) == status[r] \in {"queued", "running"}

-----------------------------------------------------------------------------
(* CallNames in progress.  run: the run at hand; todo: the runs still to visit; *)
(* got: the runs claimed so far.                                            *)

Frame(fn, pc, a, r) ==
  [fn |-> fn, pc |-> pc, agent |-> a, run |-> r, todo |-> {}, got |-> {}]

StartCall(a)  == Frame("start", "wait", a, 0)
CancelCall(r) == Frame("cancel", "read", None, r)
DropCall(r)   == Frame("drop", "set", None, r)
ExecCall(r)   == Frame("exec", "begin", None, r)
WakeCall(a)   == Frame("wake", "checked", a, 0)
PauseCall(a)  == Frame("pause", "scan", a, 0)
BudgetCall    == Frame("budget", "scan", None, 0)
ResumeCall    == Frame("resume", "scan", None, 0)

CallNames == {"start", "cancel", "drop", "exec", "wake", "pause", "budget", "resume"}

Top(p) == Head(stack[p])
In(p, fns, pc) == stack[p] # <<>> /\ Top(p).fn \in fns /\ Top(p).pc = pc
Ticket(p, s) == [proc |-> p, depth |-> Len(s)]

\* The innermost call goes on as f.
GoOn(p, f) ==
  /\ stack' = [stack EXCEPT ![p] = <<f>> \o Tail(@)]
  /\ UNCHANGED chain

Return(p) ==
  /\ stack' = [stack EXCEPT ![p] = Tail(@)]
  /\ UNCHANGED chain

\* The innermost call becomes the calls s, the first of which is entered; an
\* entered startNextQueuedRunForAgent joins its agent's chain at once.
Await(p, s) ==
  LET new == s \o Tail(stack[p])
  IN /\ stack' = [stack EXCEPT ![p] = new]
     /\ chain' = IF Head(s).fn = "start"
                 THEN [chain EXCEPT ![Head(s).agent] = Append(@, Ticket(p, new))]
                 ELSE chain

\* An idle process receives a call.
Receive(p, f) ==
  /\ stack[p] = <<>>
  /\ stack' = [stack EXCEPT ![p] = <<f>>]
  /\ UNCHANGED chain

QueuedOf(a)  == {r \in RunIds : status[r] = "queued" /\ agentOf[r] = a}
RunningOf(a) == {r \in RunIds : status[r] = "running" /\ agentOf[r] = a}

Queue(a) ==
  /\ nRuns < MaxRuns
  /\ nRuns' = nRuns + 1
  /\ status' = [status EXCEPT ![nRuns + 1] = "queued"]
  /\ agentOf' = [agentOf EXCEPT ![nRuns + 1] = a]

runRows == <<nRuns, status, agentOf>>
gates   == <<invokable, blocked>>

-----------------------------------------------------------------------------
(* startNextQueuedRunForAgent, its body under the lock *)

HasTurn(p) ==
  LET waiting == chain[Top(p).agent]
  IN waiting # <<>> /\ Head(waiting) = Ticket(p, stack[p])

\* The body returns: the next call of the chain has its turn, and each claimed
\* run is executed by a process of its own.
Leave(p) ==
  /\ stack' = [q \in Procs |-> IF q = p THEN Tail(stack[q])
                               ELSE IF q \in Top(p).got THEN <<ExecCall(q)>>
                               ELSE stack[q]]
  /\ chain' = [chain EXCEPT ![Top(p).agent] = Tail(@)]

\* Mistake: the running runs are not counted.
CountsNothing(a) == IF a \in Agents THEN MaxSlots ELSE 0
FreeSlots(a) ==
  LET running == Cardinality(RunningOf(a))
  IN IF running >= MaxSlots THEN 0 ELSE MaxSlots - running

\* Mistake: the newest queued runs are picked.
PicksNewest(a) ==
  {r \in QueuedOf(a) : Cardinality({q \in QueuedOf(a) : q > r}) < FreeSlots(a)}
Picks(a) ==
  {r \in QueuedOf(a) : Cardinality({q \in QueuedOf(a) : q < r}) < FreeSlots(a)}

Look(p) ==
  LET a == Top(p).agent
      idle == ~invokable[a] \/ FreeSlots(a) = 0 \/ QueuedOf(a) = {}
  IN
  /\ In(p, {"start"}, "wait") /\ HasTurn(p)
  /\ \/ idle /\ Leave(p)
     \/ ~idle /\ GoOn(p, [Top(p) EXCEPT !.pc = "check", !.todo = Picks(a)])
  /\ UNCHANGED <<runRows, gates>>

\* claimQueuedRun, oldest picked run first: a run whose agent or company was
\* stopped meanwhile is cancelled, and the cancellation awaited, in the body.
Check(p) ==
  /\ In(p, {"start"}, "check")
  /\ \E r \in Top(p).todo :
       LET f == [Top(p) EXCEPT !.todo = @ \ {r}]
       IN /\ \A q \in Top(p).todo : r <= q
          /\ IF invokable[f.agent] /\ ~blocked
             THEN GoOn(p, [f EXCEPT !.pc = "update", !.run = r])
             ELSE Await(p, <<CancelCall(r), f>>)
  /\ UNCHANGED <<runRows, gates>>

\* Mistake: the claim does not say WHERE status = 'queued'.
ClaimableAnyway(r) == r <= nRuns
Claimable(r) == status[r] = "queued"

Claim(p) ==
  LET r == Top(p).run IN
  /\ In(p, {"start"}, "update")
  /\ \/ /\ Claimable(r)
        /\ status' = [status EXCEPT ![r] = "running"]
        /\ GoOn(p, [Top(p) EXCEPT !.pc = "check", !.run = 0, !.got = @ \cup {r}])
     \/ /\ ~Claimable(r)
        /\ UNCHANGED status
        /\ GoOn(p, [Top(p) EXCEPT !.pc = "check", !.run = 0])
  /\ UNCHANGED <<nRuns, agentOf, gates>>

Done(p) ==
  /\ In(p, {"start"}, "check") /\ Top(p).todo = {}
  /\ Leave(p)
  /\ UNCHANGED <<runRows, gates>>

-----------------------------------------------------------------------------
(* executeRun, cancelRunInternal, and the body of cancelActiveForAgent      *)

\* Mistake: a run that somebody has claimed is left to him.
ExecLeavesClaimed(p) ==
  /\ In(p, {"exec"}, "begin")
  /\ Return(p)
  /\ UNCHANGED <<runRows, gates>>

\* executeRun returns at once if its run was cancelled since the claim.
ExecBegin(p) ==
  /\ In(p, {"exec"}, "begin")
  /\ IF Active(Top(p).run) THEN GoOn(p, [Top(p) EXCEPT !.pc = "adapter"]) ELSE Return(p)
  /\ UNCHANGED <<runRows, gates>>

AdapterEnds(p) ==
  LET r == Top(p).run IN
  /\ In(p, {"exec"}, "adapter")
  /\ status' = [status EXCEPT ![r] = "ended"]
  /\ GoOn(p, [Top(p) EXCEPT !.pc = "release"])
  /\ UNCHANGED <<nRuns, agentOf, gates>>

CancelRead(p) ==
  /\ In(p, {"cancel"}, "read")
  /\ IF Active(Top(p).run) THEN GoOn(p, [Top(p) EXCEPT !.pc = "set"]) ELSE Return(p)
  /\ UNCHANGED <<runRows, gates>>

\* The status is written whatever it is by now.
CancelSet(p) ==
  /\ In(p, {"cancel", "drop"}, "set")
  /\ status' = [status EXCEPT ![Top(p).run] = "ended"]
  /\ GoOn(p, [Top(p) EXCEPT !.pc = "release"])
  /\ UNCHANGED <<nRuns, agentOf, gates>>

\* releaseIssueExecutionAndPromote: whether a wakeup was deferred behind the run
\* is the matter of IssueExecution; if one was, its run is started and awaited.
Release(p) ==
  LET f == [Top(p) EXCEPT !.pc = "tail"] IN
  /\ In(p, {"cancel", "drop", "exec"}, "release")
  /\ \/ GoOn(p, f) /\ UNCHANGED runRows
     \/ /\ "promote" \in Features
        /\ \E b \in Agents : /\ invokable[b]
                             /\ Queue(b)
                             /\ Await(p, <<StartCall(b), f>>)
  /\ UNCHANGED gates

\* The last await of executeRun and of cancelRunInternal.
StartNext(p) ==
  /\ In(p, {"cancel", "exec"}, "tail")
  /\ Await(p, <<StartCall(agentOf[Top(p).run])>>)
  /\ UNCHANGED <<runRows, gates>>

DropEnds(p) ==
  /\ In(p, {"drop"}, "tail")
  /\ Return(p)
  /\ UNCHANGED <<runRows, gates>>

\* Before that, executeRun books the run's cost: it may be the event that stops
\* the company, whose work is then cancelled by this very call.
CostStops(p) ==
  /\ "budget" \in Features /\ ~blocked
  /\ In(p, {"exec"}, "tail")
  /\ blocked' = TRUE
  /\ Await(p, <<BudgetCall, Top(p)>>)
  /\ UNCHANGED <<runRows, invokable>>

-----------------------------------------------------------------------------
(* cancelBudgetScopeWork, cancelActiveForAgentInternal, resumeQueuedRuns:   *)
(* read the runs (for resumeQueuedRuns, one run per agent), then one call   *)
(* after the other.                                                         *)

Scanned(f) ==
  CASE f.fn = "budget" -> {r \in RunIds : Active(r)}
    [] f.fn = "pause"  -> {r \in RunIds : Active(r) /\ agentOf[r] = f.agent}
    [] f.fn = "resume" -> {r \in RunIds : status[r] = "queued"
                                        /\ \A q \in QueuedOf(agentOf[r]) : r <= q}

Visit(f, r) ==
  CASE f.fn = "budget" -> CancelCall(r)
    [] f.fn = "pause"  -> DropCall(r)
    [] f.fn = "resume" -> StartCall(agentOf[r])

Scan(p) ==
  /\ In(p, {"budget", "pause", "resume"}, "scan")
  /\ GoOn(p, [Top(p) EXCEPT !.pc = "loop", !.todo = Scanned(Top(p))])
  /\ UNCHANGED <<runRows, gates>>

Loop(p) ==
  /\ In(p, {"budget", "pause", "resume"}, "loop")
  /\ \/ Top(p).todo = {} /\ Return(p)
     \/ \E r \in Top(p).todo :
          Await(p, <<Visit(Top(p), r), [Top(p) EXCEPT !.todo = @ \ {r}]>>)
  /\ UNCHANGED <<runRows, gates>>

-----------------------------------------------------------------------------
(* What begins *)

\* enqueueWakeup: the gates are read first, the run is inserted later.
Wake(c, a) ==
  /\ invokable[a] /\ ~blocked /\ nRuns < MaxRuns
  /\ Receive(c, WakeCall(a))
  /\ UNCHANGED <<runRows, gates>>

WakeInsert(p) ==
  LET a == Top(p).agent IN
  /\ In(p, {"wake"}, "checked")
  /\ \/ Queue(a) /\ Await(p, <<StartCall(a)>>)
     \/ nRuns = MaxRuns /\ Return(p) /\ UNCHANGED runRows
  /\ UNCHANGED gates

\* (A cancellation of a run that has ended returns at its first read.)
CancelRun(c, r) ==
  /\ "cancel" \in Features /\ Active(r)
  /\ Receive(c, CancelCall(r))
  /\ UNCHANGED <<runRows, gates>>

PauseAgent(c, a) ==
  /\ "pause" \in Features /\ invokable[a]
  /\ invokable' = [invokable EXCEPT ![a] = FALSE]
  /\ Receive(c, PauseCall(a))
  /\ UNCHANGED <<runRows, blocked>>

ResumeAgent(a) ==
  /\ ~invokable[a]
  /\ invokable' = [invokable EXCEPT ![a] = TRUE]
  /\ UNCHANGED <<runRows, blocked, chain, stack>>

\* A cost event of a request stops the company; a raised budget resumes it.
RequestStops(c) ==
  /\ "budget" \in Features /\ ~blocked
  /\ blocked' = TRUE
  /\ Receive(c, BudgetCall)
  /\ UNCHANGED <<runRows, invokable>>

BudgetRaised ==
  /\ blocked
  /\ blocked' = FALSE
  /\ UNCHANGED <<runRows, invokable, chain, stack>>

Tick ==
  /\ \E r \in RunIds : status[r] = "queued"
  /\ Receive(Driver, ResumeCall)
  /\ UNCHANGED <<runRows, gates>>

LockInit ==
  /\ nRuns = 0
  /\ status = [r \in RunIds |-> "absent"]
  /\ agentOf = [r \in RunIds |-> None]
  /\ invokable = [a \in Agents |-> TRUE]
  /\ blocked = FALSE
  /\ chain = [a \in Agents |-> <<>>]
  /\ stack = [p \in Procs |-> <<>>]

Step(p) ==
  \/ Look(p) \/ Check(p) \/ Claim(p) \/ Done(p)
  \/ ExecBegin(p) \/ AdapterEnds(p) \/ CancelRead(p) \/ CancelSet(p)
  \/ Release(p) \/ StartNext(p) \/ DropEnds(p) \/ Scan(p) \/ Loop(p) \/ WakeInsert(p)

LockNext ==
  \/ \E p \in Procs : Step(p) \/ CostStops(p)
  \/ \E c \in Callers : \/ \E a \in Agents : Wake(c, a) \/ PauseAgent(c, a)
                        \/ \E r \in RunIds : CancelRun(c, r)
                        \/ RequestStops(c)
  \/ \E a \in Agents : ResumeAgent(a)
  \/ BudgetRaised
  \/ Tick

LockSpec == LockInit /\ [][LockNext]_lockVars

(* The event loop runs every continuation that is ready, adapters return    *)
(* (they have timeouts), and the interval calls resumeQueuedRuns.           *)
LockFairSpec ==
  /\ LockSpec
  /\ \A p \in Procs : WF_lockVars(Step(p))
  /\ WF_lockVars(Tick)

-----------------------------------------------------------------------------
(* Properties *)

Frames ==
  [fn : CallNames, pc : {"wait", "check", "update", "read", "set", "release", "tail", "begin", "adapter",
                     "checked", "scan", "loop"},
   agent : Agents \cup {None}, run : 0..MaxRuns, todo : SUBSET RunIds, got : SUBSET RunIds]

\* Runs, chains and call stacks have the shape their columns and calls have.
LockTypeOK ==
  /\ nRuns \in 0..MaxRuns
  /\ status \in [RunIds -> {"absent", "queued", "running", "ended"}]
  /\ agentOf \in [RunIds -> Agents \cup {None}]
  /\ \A r \in RunIds : r <= nRuns => status[r] # "absent" /\ agentOf[r] \in Agents
  /\ invokable \in [Agents -> BOOLEAN] /\ blocked \in BOOLEAN
  /\ chain \in [Agents -> Seq([proc : Procs, depth : Nat])]
  /\ stack \in [Procs -> Seq(Frames)]

\* However many calls race to start an agent's runs, it has no more running runs
\* than its policy's maxConcurrentRuns.
SlotLimit == \A a \in Agents : Cardinality(RunningOf(a)) <= MaxSlots

\* A running run is being executed, or claimed by a call that is about to
\* execute it: none is left to the reaper.
ClaimedIsExecuted ==
  \A r \in RunIds : status[r] = "running" =>
    \/ stack[r] # <<>>
    \/ \E p \in Procs : \E k \in DOMAIN stack[p] : r \in stack[p][k].got

\* A run cancelled between the look at the queue and its claim is not started.
NeverRevived ==
  [][\A r \in RunIds : status[r] = "ended" => status'[r] = "ended"]_lockVars

\* An agent's runs start in the order they were queued.
StartsInOrder ==
  [][\A r \in RunIds : status[r] # "running" /\ status'[r] = "running" =>
       \A q \in QueuedOf(agentOf[r]) : r <= q]_lockVars

\* "make sure persisted queued work is still being driven forward": a queued run
\* starts or is cancelled, unless its company or its agent is stopped.
QueuedRunMoves ==
  \A r \in RunIds : status[r] = "queued" ~>
    (status[r] # "queued" \/ blocked \/ ~invokable[agentOf[r]])

=============================================================================
