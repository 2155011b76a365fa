---------------------------- MODULE IssueCheckout ---------------------------
(***************************************************************************)
(* The ownership of an issue: checkout, assertCheckoutOwner, update and    *)
(* release in server/src/services/issues.ts with the routes that call them *)
(* (server/src/routes/issues.ts).  A checkout is one conditional UPDATE;   *)
(* an update and a release read the issue, decide, and write later by id.  *)
(*                                                                         *)
(* The columns of one issue, the runs that may work on it, and the calls   *)
(* in progress: one per agent run and one per board user.  The heartbeat   *)
(* service appears as far as it writes issues.executionRunId (its own      *)
(* module is IssueExecution).                                              *)
(***************************************************************************)
EXTENDS Naturals, FiniteSets

CONSTANTS
  Agents, Users,
  Board,        \* calls of board users
  Runs,         \* bound: the runs of the agents, run k of agent a is <<a, k>>
  MaxCalls,     \* bound: calls in progress at a time
  None,         \* the null of the database's nullable columns
  Keep,         \* a column that a PATCH does not name
  Expected,     \* the expectedStatuses a checkout may come with
  Patches       \* the PATCH bodies clients send

Statuses == {"todo", "in_progress", "done"}  \* done stands for the others, too
Callers == Runs \cup Board

ASSUME RunsAssumption == Runs \subseteq Agents \X Nat
ASSUME NamesAssumption ==
  /\ None \notin Runs \cup Agents \cup Users
  /\ Keep \notin Statuses \cup Agents \cup Users \cup {None}
  /\ Board \cap (Runs \cup {None}) = {}
ASSUME InputsAssumption ==
  /\ Expected \subseteq SUBSET Statuses
  /\ Patches \subseteq [status : Statuses \cup {Keep},
                        agent : Agents \cup {None, Keep},
                        user : Users \cup {None, Keep}]

VARIABLES
  status,      \* issues.status
  agent,       \* issues.assigneeAgentId
  user,        \* issues.assigneeUserId
  checkoutRun, \* issues.checkoutRunId
  execRun,     \* issues.executionRunId
  phase,       \* of a run: new, active (queued or running), ended
  call         \* the request of each run and board user

issue == <<status, agent, user, checkoutRun, execRun>>
vars  == <<issue, phase, call>>

NoPatch  == [status |-> Keep, agent |-> Keep, user |-> Keep]
Idle     == [op |-> "none", pc |-> "idle", agent |-> None, old |-> None,
             patch |-> NoPatch, clear |-> FALSE]

Self(p)  == IF p \in Runs THEN p ELSE None      \* the run id a call comes with
Ended(r) == r \in Runs /\ phase[r] = "ended"
At(p, pc) == call[p].pc = pc
GoTo(p, pc) == call' = [call EXCEPT ![p].pc = pc]
Answer(p)   == call' = [call EXCEPT ![p] = Idle]
MayCall(p)  ==
  /\ At(p, "idle") /\ (p \in Runs => phase[p] = "active")
  /\ Cardinality({q \in Callers : ~At(q, "idle")}) < MaxCalls

\* The run both takes the issue out and takes its execution lock.
TakeIssue(r) ==
  /\ checkoutRun' = r
  /\ execRun' = r

-----------------------------------------------------------------------------
(* The heartbeat service: runs start, with the execution lock if it is free *)
(* or stale, or (timer wakes, mentions) without; a finished run's lock is   *)
(* released some time after its status was written.                         *)

LockFree == execRun = None \/ Ended(execRun)

RunStarts(r) ==
  /\ phase[r] = "new"
  /\ phase' = [phase EXCEPT ![r] = "active"]
  /\ UNCHANGED <<issue, call>>

TakeLock(r) ==
  /\ LockFree /\ ~Ended(r)
  /\ execRun' = r
  /\ phase' = [phase EXCEPT ![r] = "active"]
  /\ UNCHANGED <<status, agent, user, checkoutRun, call>>

RunEnds(r) ==
  /\ phase[r] = "active"
  /\ phase' = [phase EXCEPT ![r] = "ended"]
  /\ UNCHANGED <<issue, call>>

ReleaseLock(r) ==
  /\ execRun = r /\ Ended(r)
  /\ execRun' = None
  /\ UNCHANGED <<status, agent, user, checkoutRun, phase, call>>

-----------------------------------------------------------------------------
(* POST /issues/:id/checkout *)

\* Mistake: the execution lock is not in the WHERE clause.
WinsAnyLock(r, a, e) ==
  /\ status \in e
  /\ agent = None \/ (agent = a /\ checkoutRun \in {None, r})

Wins(r, a, e) ==
  /\ status \in e
  /\ agent = None \/ (agent = a /\ checkoutRun \in {None, r})
  /\ execRun \in {None, r}

\* The conditional UPDATE; when no row matches, look at the issue again.
Checkout(p, a, e) ==
  /\ MayCall(p) /\ (p \in Runs => a = p[1])
  /\ \/ /\ Wins(Self(p), a, e)
        /\ status' = "in_progress"
        /\ agent' = a /\ user' = None
        /\ TakeIssue(Self(p))
        /\ UNCHANGED call
     \/ /\ ~Wins(Self(p), a, e)
        /\ call' = [call EXCEPT ![p] = [Idle EXCEPT !.op = "checkout", !.pc = "reread",
                                                    !.agent = a]]
        /\ UNCHANGED issue
  /\ UNCHANGED phase

InProgressFor(a) == status = "in_progress" /\ agent = a
Unclaimed(r)     == checkoutRun = None /\ execRun \in {None, r}
OthersCheckout(r) == checkoutRun \notin {None, r}

Reread(p) ==
  LET mine == p \in Runs /\ InProgressFor(call[p].agent) IN
  /\ At(p, "reread")
  /\ \/ mine /\ Unclaimed(p) /\ GoTo(p, "adoptFree")
     \/ mine /\ OthersCheckout(p)
        /\ call' = [call EXCEPT ![p].pc = "adoptStale", ![p].old = checkoutRun]
     \/ ~(mine /\ (Unclaimed(p) \/ OthersCheckout(p))) /\ Answer(p)
  /\ UNCHANGED <<issue, phase>>

AdoptFree(p) ==
  /\ At(p, "adoptFree")
  /\ IF InProgressFor(call[p].agent) /\ Unclaimed(p)
     THEN TakeIssue(p)
     ELSE UNCHANGED <<checkoutRun, execRun>>
  /\ Answer(p)
  /\ UNCHANGED <<status, agent, user, phase>>

\* A run that is terminal stays so, so the look at it and the conditional UPDATE
\* are one step.
Stale(p) ==
  /\ Ended(call[p].old)
  /\ InProgressFor(call[p].agent)
  /\ checkoutRun = call[p].old

\* Mistake: the adoption leaves the execution lock alone.
AdoptCheckoutOnly(p) ==
  /\ At(p, "adoptStale") /\ Stale(p)
  /\ checkoutRun' = p
  /\ Answer(p)
  /\ UNCHANGED <<status, agent, user, execRun, phase>>

\* adoptStaleCheckoutRun, for checkout and for assertCheckoutOwner.
AdoptStale(p) ==
  /\ At(p, "adoptStale")
  /\ IF Stale(p) THEN TakeIssue(p) ELSE UNCHANGED <<checkoutRun, execRun>>
  /\ IF Stale(p) /\ call[p].op # "checkout" THEN GoTo(p, "read") ELSE Answer(p)
  /\ UNCHANGED <<status, agent, user, phase>>

-----------------------------------------------------------------------------
(* PATCH /issues/:id and POST /issues/:id/release.  (A comment that reopens *)
(* the issue is the patch of its status.)                                   *)

\* The route reads the issue: an agent that has it in progress must prove that
\* its run has the checkout.
Request(p, op, patch) ==
  /\ MayCall(p)
  /\ call' = [call EXCEPT ![p] =
       [op |-> op, pc |-> IF p \in Runs /\ InProgressFor(p[1]) THEN "assert" ELSE "read",
        agent |-> IF p \in Runs THEN p[1] ELSE None, old |-> None,
        patch |-> patch, clear |-> FALSE]]
  /\ UNCHANGED <<issue, phase>>

AssertOwner(p) ==
  LET mine == InProgressFor(call[p].agent) IN
  /\ At(p, "assert")
  /\ \/ mine /\ checkoutRun = p /\ GoTo(p, "read")
     \/ mine /\ OthersCheckout(p)
        /\ call' = [call EXCEPT ![p].pc = "adoptStale", ![p].old = checkoutRun]
     \/ ~(mine /\ checkoutRun # None) /\ Answer(p)
  /\ UNCHANGED <<issue, phase>>

Patched(new, old) == IF new = Keep THEN old ELSE new
Changes(new, old) == new # Keep /\ new # old

\* update reads the issue and refuses a patch that would leave it with two
\* assignees, or in progress with none.
ReadForUpdate(p) ==
  LET patch == call[p].patch
      a == Patched(patch.agent, agent)
      u == Patched(patch.user, user)
      allowed == /\ a = None \/ u = None
                 /\ patch.status = "in_progress" => a # None \/ u # None
  IN
  /\ At(p, "read") /\ call[p].op = "update"
  /\ IF allowed
     THEN call' = [call EXCEPT ![p].pc = "write",
                     ![p].clear = Changes(patch.agent, agent) \/ Changes(patch.user, user)]
     ELSE Answer(p)
  /\ UNCHANGED <<issue, phase>>

ClearsCheckout(c) == c.clear \/ c.patch.status \notin {Keep, "in_progress"}

\* Mistake: a column the patch does not name is written as it came.
WriteAll(p) ==
  LET c == call[p] IN
  /\ At(p, "write") /\ c.op = "update"
  /\ status' = c.patch.status
  /\ agent' = c.patch.agent
  /\ user' = c.patch.user
  /\ checkoutRun' = IF ClearsCheckout(c) THEN None ELSE checkoutRun
  /\ Answer(p)
  /\ UNCHANGED <<execRun, phase>>

WriteUpdate(p) ==
  LET c == call[p] IN
  /\ At(p, "write") /\ c.op = "update"
  /\ status' = Patched(c.patch.status, status)
  /\ agent' = Patched(c.patch.agent, agent)
  /\ user' = Patched(c.patch.user, user)
  /\ checkoutRun' = IF ClearsCheckout(c) THEN None ELSE checkoutRun
  /\ Answer(p)
  /\ UNCHANGED <<execRun, phase>>

ReadForRelease(p) ==
  LET a == call[p].agent
      refused == /\ p \in Runs
                 /\ \/ agent \notin {None, a}
                    \/ InProgressFor(a) /\ OthersCheckout(p)
  IN
  /\ At(p, "read") /\ call[p].op = "release"
  /\ IF refused THEN Answer(p) ELSE GoTo(p, "write")
  /\ UNCHANGED <<issue, phase>>

WriteRelease(p) ==
  /\ At(p, "write") /\ call[p].op = "release"
  /\ status' = "todo"
  /\ agent' = None /\ checkoutRun' = None
  /\ Answer(p)
  /\ UNCHANGED <<user, execRun, phase>>

-----------------------------------------------------------------------------

Init ==
  /\ status = "todo"
  /\ agent = None /\ user = None
  /\ checkoutRun = None /\ execRun = None
  /\ phase = [r \in Runs |-> "new"]
  /\ call = [p \in Callers |-> Idle]

RunStep(r) == RunStarts(r) \/ TakeLock(r) \/ RunEnds(r) \/ ReleaseLock(r)

CallStep(p) ==
  \/ \E a \in Agents, e \in Expected : Checkout(p, a, e)
  \/ Reread(p) \/ AdoptFree(p) \/ AdoptStale(p)
  \/ \E patch \in Patches : Request(p, "update", patch)
  \/ Request(p, "release", NoPatch)
  \/ AssertOwner(p)
  \/ ReadForUpdate(p) \/ WriteUpdate(p)
  \/ ReadForRelease(p) \/ WriteRelease(p)

Next ==
  \/ \E r \in Runs : RunStep(r)
  \/ \E p \in Callers : CallStep(p)

Spec == Init /\ [][Next]_vars

-----------------------------------------------------------------------------
(* Properties *)

Calls ==
  [op : {"none", "checkout", "update", "release"},
   pc : {"idle", "reread", "adoptFree", "adoptStale", "assert", "read", "write"},
   agent : Agents \cup {None}, old : Runs \cup {None},
   patch : Patches \cup {NoPatch}, clear : BOOLEAN]

\* Every column holds what it can hold and every call is at a step of its kind;
\* board users never get to the steps that take an issue for a run.
TypeOK ==
  /\ status \in Statuses
  /\ agent \in Agents \cup {None}
  /\ user \in Users \cup {None}
  /\ checkoutRun \in Runs \cup {None}
  /\ execRun \in Runs \cup {None}
  /\ phase \in [Runs -> {"new", "active", "ended"}]
  /\ call \in [Callers -> Calls]
  /\ \A p \in Callers : call[p].pc \in {"adoptFree", "adoptStale", "assert"} => p \in Runs

\* Whatever reads are stale when an update is written, only an issue in progress is
\* checked out, and an active run that has the checkout has the execution lock as
\* well, though two services write the two columns.  It is why an unassigned or
\* reassigned issue is not handed to another run while the first one works on it.
HolderHasLock ==
  checkoutRun # None =>
    /\ status = "in_progress"
    /\ ~Ended(checkoutRun) => execRun = checkoutRun

\* Atomic ownership (doc/SPEC.md, invariant 7): the checkout passes from a run
\* to another one only through a release or when the first run is finished.
Lease == INSTANCE ExclusiveLease WITH
  Holders <- Runs, Nobody <- None,
  holder <- checkoutRun, finished <- {r \in Runs : phase[r] = "ended"}
LeaseSpec == Lease!Spec

=============================================================================
