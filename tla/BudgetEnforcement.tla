-------------------------- MODULE BudgetEnforcement --------------------------
(***************************************************************************)
(* Budgets that stop work: server/src/services/budgets.ts with the cost    *)
(* events of costs.ts that reach it, the runs that heartbeat.ts starts or  *)
(* cancels on its word, and the board's pauses of an agent.                *)
(*                                                                         *)
(* A call is one request, or one run that books its cost.  It holds what   *)
(* it has read (a policy row, an observed amount) across its awaits; each  *)
(* statement on the database is a step.  Every scope, the company or one   *)
(* of its agents, has a monthly policy; an amount of 0 is no budget.       *)
(***************************************************************************)
EXTENDS Naturals, Sequences, FiniteSetsExt

CONSTANTS
  Agents,
  Company,      \* the scope of the company's own policy
  Runs,         \* bound: the runs ever queued
  AgentOf,      \* the agent of each run
  Calls,        \* requests in progress
  Amounts,      \* the amounts a board may set
  WarnPercent,  \* budget_policies.warnPercent
  MaxSpent,     \* bound: cost events ever, each of one cent
  MaxMonth,     \* bound: the last month
  MaxIncidents  \* bound: incidents, and approvals, ever inserted

Scopes == Agents \cup {Company}
Months == 0..MaxMonth

ASSUME ScopesAssumption == Company \notin Agents /\ IsFiniteSet(Agents)
ASSUME RunsAssumption == AgentOf \in [Runs -> Agents]
ASSUME BoundsAssumption ==
  /\ Amounts \subseteq Nat
  /\ WarnPercent \in Nat /\ MaxSpent \in Nat /\ MaxMonth \in Nat /\ MaxIncidents \in Nat

VARIABLES
  month,     \* the current UTC month, the window of every policy
  spent,     \* cost_events, by agent and month
  limit,     \* budget_policies.amount; 0: inactive
  hold,      \* pauseReason of the company or agent; "none": not paused
  incidents, \* budget_incidents in the order of their insertion
  approvals, \* approvals of type budget_override_required inserted so far
  call,      \* the calls in progress
  run,       \* heartbeat_runs.status; admitted: enqueueWakeup passed its checks
  claim      \* what claimQueuedRun has checked of a queued run

vars == <<month, spent, limit, hold, incidents, approvals, call, run, claim>>

policyRows   == <<month, spent, limit>>
incidentRows == <<incidents, approvals>>
runRows      == <<run, claim>>

RunsOf(s) == {r \in Runs : s = Company \/ AgentOf[r] = s}
Active(r) == run[r] \in {"queued", "running"}

End(r) ==
  /\ run' = [run EXCEPT ![r] = "ended"]
  /\ claim' = [claim EXCEPT ![r] = "none"]

\* computeObservedAmount: the sum of the scope's events in the window.
Observed(s) ==
  IF s = Company THEN MapThenSumSet(LAMBDA a : spent[a][month], Agents)
  ELSE spent[s][month]

SoftThreshold(amount) == (amount * WarnPercent + 99) \div 100
Exceeded(s) == limit[s] > 0 /\ Observed(s) >= limit[s]

-----------------------------------------------------------------------------
(* Calls.  scope, amount: the policy row at hand; then: the rows still to    *)
(* evaluate; hit: the observed amount was the row's amount, or more; ref: the *)
(* approval at hand; todo: the runs to cancel.                               *)

Idle == [pc |-> "idle", scope |-> Company, amount |-> 0, then |-> {}, hit |-> FALSE,
         ref |-> 0, todo |-> {}]

At(c, pc) == call[c].pc = pc
Go(c, f) == call' = [call EXCEPT ![c] = f]
To(c, pc) == Go(c, [call[c] EXCEPT !.pc = pc])
Start(c, f) == At(c, "idle") /\ Go(c, f)
\* What was read of the policy is not used any more; nor, at the next one, its scope.
NextPolicy(c) == Go(c, [Idle EXCEPT !.pc = "each", !.then = call[c].then])
Forget(c, pc) == Go(c, [call[c] EXCEPT !.pc = pc, !.amount = 0, !.hit = FALSE, !.ref = 0])

\* createEvent inserts the event; the totals it writes to agents and companies
\* are copies that no decision of this module reads.
CostEvent(c, a) ==
  /\ MapThenSumSet(LAMBDA e : spent[e[1]][e[2]], Agents \X Months) < MaxSpent
  /\ spent' = [spent EXCEPT ![a][month] = @ + 1]
  /\ Start(c, [Idle EXCEPT !.pc = "policies", !.scope = a])
  /\ UNCHANGED <<month, limit, hold, incidentRows, runRows>>

\* evaluateCostEvent reads the active policies of the event's scopes once.
ReadPolicies(c) ==
  LET rows == {<<s, limit[s]>> : s \in {x \in {Company, call[c].scope} : limit[x] > 0}} IN
  /\ At(c, "policies")
  /\ Go(c, [Idle EXCEPT !.pc = "each", !.then = rows])
  /\ UNCHANGED <<policyRows, hold, incidentRows, runRows>>

\* The next policy row, in the order the database returned them, and what is observed
\* of it: a soft incident comes before the hard stop.
Each(c) ==
  /\ At(c, "each")
  /\ \/ call[c].then = {} /\ Go(c, Idle)
     \/ \E row \in call[c].then :
          LET n == Observed(row[1])
              rest == [Idle EXCEPT !.pc = "each", !.then = call[c].then \ {row}]
          IN  Go(c, IF n < SoftThreshold(row[2]) THEN rest
                    ELSE [rest EXCEPT !.pc = "soft", !.scope = row[1], !.hit = n >= row[2]])
  /\ UNCHANGED <<policyRows, hold, incidentRows, runRows>>

-----------------------------------------------------------------------------
(* createIncidentIfNeeded *)

\* Mistake: the threshold type is not asked for.
LiveOfAnyKind(s, kind) ==
  {i \in DOMAIN incidents : /\ incidents[i].scope = s /\ incidents[i].month = month
                            /\ kind # "none" /\ incidents[i].status # "dismissed"}
Live(s, kind) ==
  {i \in DOMAIN incidents : /\ incidents[i].scope = s /\ incidents[i].month = month
                            /\ incidents[i].kind = kind /\ incidents[i].status # "dismissed"}

\* Mistake: incidents have no unique index.
InsertUnchecked(s, kind, ap) ==
  /\ Len(incidents) < MaxIncidents
  /\ incidents' = Append(incidents, [scope |-> s, month |-> month, kind |-> kind,
                                     status |-> "open", approval |-> ap])
Insert(s, kind, ap) ==
  /\ Len(incidents) < MaxIncidents
  /\ Live(s, kind) = {}   \* budget_incidents_policy_window_threshold_idx
  /\ incidents' = Append(incidents, [scope |-> s, month |-> month, kind |-> kind,
                                     status |-> "open", approval |-> ap])

\* Where the evaluation goes on after the soft threshold.
GoAfterSoft(c) == IF call[c].hit THEN Forget(c, "hard") ELSE NextPolicy(c)

FindSoft(c) ==
  /\ At(c, "soft")
  /\ IF Live(call[c].scope, "soft") = {} THEN To(c, "softInsert") ELSE GoAfterSoft(c)
  /\ UNCHANGED <<policyRows, hold, incidentRows, runRows>>

InsertSoft(c) ==
  /\ At(c, "softInsert")
  /\ Insert(call[c].scope, "soft", 0)
  /\ GoAfterSoft(c)
  /\ UNCHANGED <<policyRows, hold, approvals, runRows>>

\* resolveOpenSoftIncidents
ResolveSoft(c) ==
  /\ At(c, "hard")
  /\ incidents' = [i \in DOMAIN incidents |->
       IF incidents[i].scope = call[c].scope /\ incidents[i].kind = "soft"
          /\ incidents[i].status = "open"
       THEN [incidents[i] EXCEPT !.status = "resolved"] ELSE incidents[i]]
  /\ To(c, "hardFind")
  /\ UNCHANGED <<policyRows, hold, approvals, runRows>>

FindHard(c) ==
  /\ At(c, "hardFind")
  /\ To(c, IF Live(call[c].scope, "hard") = {} THEN "approval" ELSE "pause")
  /\ UNCHANGED <<policyRows, hold, incidentRows, runRows>>

\* Mistake: the insertion of the approval is not awaited.
ApprovalUnawaited(c) ==
  /\ At(c, "approval") /\ approvals < MaxIncidents
  /\ Go(c, [call[c] EXCEPT !.pc = "hardInsert", !.ref = approvals + 1])
  /\ UNCHANGED <<policyRows, hold, incidentRows, runRows>>

\* The approval is inserted before the incident that refers to it.
InsertApproval(c) ==
  /\ At(c, "approval") /\ approvals < MaxIncidents
  /\ approvals' = approvals + 1
  /\ Go(c, [call[c] EXCEPT !.pc = "hardInsert", !.ref = approvals + 1])
  /\ UNCHANGED <<policyRows, hold, incidents, runRows>>

InsertHard(c) ==
  /\ At(c, "hardInsert")
  /\ Insert(call[c].scope, "hard", call[c].ref)
  /\ Forget(c, "pause")
  /\ UNCHANGED <<policyRows, hold, approvals, runRows>>

\* Another call inserted the incident since it was looked for: the insert
\* throws, and with it the call, whose other policies are not evaluated.
Conflict(c) ==
  /\ \/ At(c, "softInsert") /\ Live(call[c].scope, "soft") # {}
     \/ At(c, "hardInsert") /\ Live(call[c].scope, "hard") # {}
  /\ Go(c, Idle)
  /\ UNCHANGED <<policyRows, hold, incidentRows, runRows>>

-----------------------------------------------------------------------------
(* pauseAndCancelScopeForBudget *)

\* Mistake: an agent that is paused already is paused for its budget too.
PauseAnyway(s) == hold' = [hold EXCEPT ![s] = "budget"]
PauseScope(s) ==
  hold' = IF s = Company \/ hold[s] = "none" THEN [hold EXCEPT ![s] = "budget"] ELSE hold

PauseForBudget(c) ==
  /\ At(c, "pause")
  /\ PauseScope(call[c].scope)
  /\ To(c, "scan")
  /\ UNCHANGED <<policyRows, incidentRows, runRows>>

\* Mistake: only running runs are looked for.
ScansRunning(s) == {r \in RunsOf(s) : run[r] = "running"}
Scanned(s) == {r \in RunsOf(s) : Active(r)}

\* cancelBudgetScopeWork, cancelActiveForAgentInternal: read the runs ...
Scan(c) ==
  /\ At(c, "scan")
  /\ Go(c, [call[c] EXCEPT !.pc = "cancel", !.todo = Scanned(call[c].scope)])
  /\ UNCHANGED <<policyRows, hold, incidentRows, runRows>>

\* ... and cancel one after the other what has not ended by itself.
Cancel(c) ==
  /\ At(c, "cancel")
  /\ \/ call[c].todo = {} /\ NextPolicy(c) /\ UNCHANGED runRows
     \/ \E r \in call[c].todo :
          /\ IF Active(r) THEN End(r) ELSE UNCHANGED runRows
          /\ Go(c, [call[c] EXCEPT !.todo = @ \ {r}])
  /\ UNCHANGED <<policyRows, hold, incidentRows>>

-----------------------------------------------------------------------------
(* upsertPolicy *)

Upsert(c, s, amount) ==
  /\ limit' = [limit EXCEPT ![s] = amount]
  /\ Start(c, [Idle EXCEPT !.pc = "upserted", !.scope = s, !.amount = amount])
  /\ UNCHANGED <<month, spent, hold, incidentRows, runRows>>

\* A budget that is not spent, or none, lifts the stop; a spent one stops.
UpsertObserve(c) ==
  LET n == Observed(call[c].scope) IN
  /\ At(c, "upserted")
  /\ IF call[c].amount = 0 \/ n < call[c].amount
     THEN Forget(c, "lift")
     ELSE Go(c, [call[c] EXCEPT !.pc = "soft", !.amount = 0, !.hit = TRUE])
  /\ UNCHANGED <<policyRows, hold, incidentRows, runRows>>

\* resumeScopeFromBudget
LiftHold(s) == hold' = IF hold[s] = "budget" THEN [hold EXCEPT ![s] = "none"] ELSE hold

Lift(c) ==
  /\ At(c, "lift")
  /\ LiftHold(call[c].scope)
  /\ To(c, "resolve")
  /\ UNCHANGED <<policyRows, incidentRows, runRows>>

OpenOf(s) == {i \in DOMAIN incidents : incidents[i].scope = s /\ incidents[i].status = "open"}

\* resolveOpenIncidentsForPolicy.  Of the approvals of these incidents, which are
\* marked approved here and rejected by a dismissal, no code reads the status.
Resolve(c) ==
  /\ At(c, "resolve")
  /\ incidents' = [i \in DOMAIN incidents |->
       IF i \in OpenOf(call[c].scope)
       THEN [incidents[i] EXCEPT !.status = "resolved"] ELSE incidents[i]]
  /\ Go(c, Idle)
  /\ UNCHANGED <<policyRows, hold, approvals, runRows>>

-----------------------------------------------------------------------------
(* resolveIncident *)

\* The new amount is compared with what is spent at the time; then the row is
\* written, the stop lifted, and the open incidents resolved.
Raise(c, i, amount) ==
  /\ amount > Observed(incidents[i].scope)
  /\ Start(c, [Idle EXCEPT !.pc = "raise", !.scope = incidents[i].scope, !.amount = amount])
  /\ UNCHANGED <<policyRows, hold, incidentRows, runRows>>

RaiseWrite(c) ==
  /\ At(c, "raise")
  /\ limit' = [limit EXCEPT ![call[c].scope] = call[c].amount]
  /\ Forget(c, "lift")
  /\ UNCHANGED <<month, spent, hold, incidentRows, runRows>>

\* Keep paused: the incident is dismissed, whatever its status.
Dismiss(c, i) ==
  /\ At(c, "idle")
  /\ incidents' = [incidents EXCEPT ![i].status = "dismissed"]
  /\ UNCHANGED <<policyRows, hold, approvals, call, runRows>>

-----------------------------------------------------------------------------
(* The board's pause and resumption of an agent *)

BoardPauses(c, a) ==
  /\ hold' = [hold EXCEPT ![a] = "manual"]
  /\ Start(c, [Idle EXCEPT !.pc = "scan", !.scope = a])
  /\ UNCHANGED <<policyRows, incidentRows, runRows>>

BoardResumes(a) ==
  /\ hold[a] # "none"
  /\ hold' = [hold EXCEPT ![a] = "none"]
  /\ UNCHANGED <<policyRows, incidentRows, call, runRows>>

-----------------------------------------------------------------------------
(* Runs: enqueueWakeup and claimQueuedRun with getInvocationBlock *)

Open(s) == hold[s] = "none" /\ ~Exceeded(s)

Admit(r) ==
  /\ run[r] = "absent" /\ Open(Company) /\ Open(AgentOf[r])
  /\ run' = [run EXCEPT ![r] = "admitted"]
  /\ UNCHANGED <<policyRows, hold, incidentRows, call, claim>>

QueueRun(r) ==
  /\ run[r] = "admitted"
  /\ run' = [run EXCEPT ![r] = "queued"]
  /\ UNCHANGED <<policyRows, hold, incidentRows, call, claim>>

\* A check that fails cancels the run.
CheckAgent(r) ==
  /\ run[r] = "queued" /\ claim[r] = "none"
  /\ IF hold[AgentOf[r]] = "none"
     THEN claim' = [claim EXCEPT ![r] = "agent"] /\ UNCHANGED run
     ELSE End(r)
  /\ UNCHANGED <<policyRows, hold, incidentRows, call>>

\* (The budgets are read after the company's pause, each in a statement.)
CheckBudgets(r) ==
  /\ run[r] = "queued" /\ claim[r] = "agent"
  /\ IF Open(Company) /\ ~Exceeded(AgentOf[r])
     THEN claim' = [claim EXCEPT ![r] = "checked"] /\ UNCHANGED run
     ELSE End(r)
  /\ UNCHANGED <<policyRows, hold, incidentRows, call>>

Claim(r) ==
  /\ claim[r] = "checked" /\ run[r] = "queued"
  /\ run' = [run EXCEPT ![r] = "running"]
  /\ claim' = [claim EXCEPT ![r] = "none"]
  /\ UNCHANGED <<policyRows, hold, incidentRows, call>>

RunEnds(r) ==
  /\ run[r] = "running"
  /\ End(r)
  /\ UNCHANGED <<policyRows, hold, incidentRows, call>>

\* A new month starts every window anew; nothing else happens.
NewMonth ==
  /\ month < MaxMonth
  /\ month' = month + 1
  /\ UNCHANGED <<spent, limit, hold, incidentRows, call, runRows>>

-----------------------------------------------------------------------------

Init ==
  /\ month = 0
  /\ spent = [a \in Agents |-> [m \in Months |-> 0]]
  /\ limit = [s \in Scopes |-> 0]
  /\ hold = [s \in Scopes |-> "none"]
  /\ incidents = <<>> /\ approvals = 0
  /\ call = [c \in Calls |-> Idle]
  /\ run = [r \in Runs |-> "absent"]
  /\ claim = [r \in Runs |-> "none"]

Evaluation(c) ==
  \/ ReadPolicies(c) \/ Each(c) \/ FindSoft(c) \/ InsertSoft(c)
  \/ ResolveSoft(c) \/ FindHard(c) \/ InsertApproval(c) \/ InsertHard(c) \/ Conflict(c)
  \/ PauseForBudget(c) \/ Scan(c) \/ Cancel(c)

Resolution(c) ==
  \/ UpsertObserve(c) \/ Lift(c) \/ Resolve(c) \/ RaiseWrite(c)

Request(c) ==
  \/ \E a \in Agents : CostEvent(c, a) \/ BoardPauses(c, a)
  \/ \E s \in Scopes, amount \in Amounts : Upsert(c, s, amount)
  \/ \E i \in DOMAIN incidents : \/ \E amount \in Amounts : Raise(c, i, amount)
                                 \/ Dismiss(c, i)

RunStep(r) ==
  \/ Admit(r) \/ QueueRun(r) \/ CheckAgent(r) \/ CheckBudgets(r)
  \/ Claim(r) \/ RunEnds(r)

Next ==
  \/ \E c \in Calls : Evaluation(c) \/ Resolution(c) \/ Request(c)
  \/ \E a \in Agents : BoardResumes(a)
  \/ \E r \in Runs : RunStep(r)
  \/ NewMonth

Spec == Init /\ [][Next]_vars

-----------------------------------------------------------------------------
(* Properties *)

Holds == {"none", "budget", "manual"}
Incident ==
  [scope : Scopes, month : Months, kind : {"soft", "hard"},
   status : {"open", "resolved", "dismissed"}, approval : Nat]

\* The rows and calls have the shape their columns and handlers give them.
TypeOK ==
  /\ month \in Months
  /\ spent \in [Agents -> [Months -> 0..MaxSpent]]
  /\ limit \in [Scopes -> Amounts \cup {0}]
  /\ hold \in [Scopes -> Holds]
  /\ incidents \in Seq(Incident)
  /\ \A i \in DOMAIN incidents : incidents[i].approval <= approvals
  /\ approvals \in 0..MaxIncidents
  /\ \A c \in Calls : call[c].scope \in Scopes /\ call[c].ref \in 0..approvals
  /\ run \in [Runs -> {"absent", "admitted", "queued", "running", "ended"}]
  /\ claim \in [Runs -> {"none", "agent", "checked"}]

\* "one open incident per policy per threshold per window": two cost events that
\* cross a threshold together leave one incident.
OneLiveIncident ==
  \A i, j \in DOMAIN incidents :
    /\ i # j
    /\ incidents[i].scope = incidents[j].scope /\ incidents[i].month = incidents[j].month
    /\ incidents[i].kind = incidents[j].kind
    => "dismissed" \in {incidents[i].status, incidents[j].status}

Stopping(s, r) ==
  \E c \in Calls : /\ call[c].scope = s
                   /\ At(c, "scan") \/ (At(c, "cancel") /\ r \in call[c].todo)

\* A stop is complete: once the call that paused a scope has cancelled what it
\* found, none of the scope's runs is running, those included that had passed
\* some of their checks when the pause was written.
StoppedScopeIsIdle ==
  \A s \in Scopes : \A r \in RunsOf(s) :
    hold[s] # "none" /\ run[r] = "running" => Stopping(s, r)

\* No scope is stopped without the incident that tells the board why.
StopIsAnnounced ==
  \A s \in Scopes : hold[s] = "budget" =>
    \E i \in DOMAIN incidents : incidents[i].scope = s /\ incidents[i].kind = "hard"

\* A pause by the board ends with the board's resumption only, whatever budgets
\* are spent and raised meanwhile.
BoardPauseStays ==
  [][\A a \in Agents : hold[a] = "manual" /\ hold'[a] # "manual" => BoardResumes(a)]_vars

=============================================================================
