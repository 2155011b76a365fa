--------------------------- MODULE AgentLifecycle ---------------------------
(***************************************************************************)
(* The hiring of an agent and its status: server/src/services/approvals.ts *)
(* and agents.ts, and what a run writes to agents.status in heartbeat.ts.  *)
(*                                                                         *)
(* Only resolveApproval writes on a condition.  Every other operation      *)
(* reads a row, decides, and writes by id after an await.                  *)
(***************************************************************************)
EXTENDS Naturals

CONSTANTS
  Users,     \* handlers of requests
  Runs,      \* heartbeat runs of the agent
  MaxReopen, \* bound: decisions overwritten by a request for revision
  MaxCrashes \* bound: crashes of the server

ASSUME BoundsAssumption == MaxReopen \in Nat /\ MaxCrashes \in Nat

VARIABLES
  agent,     \* agents.status of the agent that is hired
  approval,  \* approvals.status of the approval to hire it
  payload,   \* the approval's payload: "agent" has an agentId, "data" has none
  created,   \* agents created from the payload's data
  applied,   \* decisions that took effect
  reopened,  \* decisions that were overwritten
  lost,      \* a crash cut a hire or a decision in two
  call,      \* requests
  work,      \* the handling of runs (the row is running in "claimed" and "running")
  crashes

rows    == <<agent, approval, payload, created>>
history == <<applied, reopened, lost>>
vars    == <<rows, history, call, work, crashes>>

Open == {"pending", "revision_requested"}
Decision == {"approved", "rejected"}

\* late: the agent was terminated since the status was read.
Idle == [pc |-> "idle", want |-> "none", late |-> FALSE]

At(p, pc, want) == call[p].pc = pc /\ call[p].want = want
Become(p, pc, want) == call' = [call EXCEPT ![p] = [pc |-> pc, want |-> want, late |-> FALSE]]
Ends(p) == call' = [call EXCEPT ![p] = Idle]
Begin(p, pc, want) == call[p].pc = "idle" /\ Become(p, pc, want)

-----------------------------------------------------------------------------
(* Hiring *)

\* POST /companies/:id/agent-hires: the agent first, its approval later.
CreateAgent(p) ==
  /\ agent = "none" /\ approval = "none" /\ payload = "agent"
  /\ \A q \in Users : call[q].pc = "idle"
  /\ agent' = "pending_approval"
  /\ Begin(p, "hire", "none")
  /\ UNCHANGED <<approval, payload, created, history, work, crashes>>

CreateApproval(p) ==
  /\ At(p, "hire", "none")
  /\ approval' = "pending"
  /\ Ends(p)
  /\ UNCHANGED <<agent, payload, created, history, work, crashes>>

\* POST /companies/:id/approvals
CreateForData ==
  /\ approval = "none" /\ payload = "data"
  /\ approval' = "pending"
  /\ UNCHANGED <<agent, payload, created, history, call, work, crashes>>

-----------------------------------------------------------------------------
(* Decisions *)

\* approve and reject: an approval that is decided is left alone.
ReadForDecision(p, d) ==
  /\ approval \in Open
  /\ Begin(p, "resolve", d)
  /\ UNCHANGED <<rows, history, work, crashes>>

\* Mistake: the update does not ask for the status it was checked against.
StillThere == approval # "none"
StillOpen == approval \in Open

\* resolveApproval: the one update that decides who decides.
Resolve(p, d) ==
  /\ At(p, "resolve", d)
  /\ \/ /\ StillOpen
        /\ approval' = d
        /\ applied' = applied + 1
        /\ Become(p, "effect", d)
     \/ /\ ~StillOpen
        /\ Ends(p)
        /\ UNCHANGED <<approval, applied>>
  /\ UNCHANGED <<agent, payload, created, reopened, lost, work, crashes>>

\* approve of a payload without an agent
HireFromData(p) ==
  /\ At(p, "effect", "approved") /\ payload = "data"
  /\ created' = created + 1
  /\ Ends(p)
  /\ UNCHANGED <<agent, approval, payload, history, work, crashes>>

\* activatePendingApproval
ReadPending(p) ==
  /\ At(p, "effect", "approved") /\ payload = "agent"
  /\ IF agent = "pending_approval" THEN Become(p, "write", "activate") ELSE Ends(p)
  /\ UNCHANGED <<rows, history, work, crashes>>

\* Mistake: the approval is rejected and its agent is kept.
KeepRejected(p) ==
  /\ At(p, "effect", "rejected")
  /\ Ends(p)
  /\ UNCHANGED <<rows, history, work, crashes>>

\* reject: terminate, whatever the agent's status
TerminateRejected(p) ==
  /\ At(p, "effect", "rejected")
  /\ agent' = IF payload = "agent" THEN "terminated" ELSE agent
  /\ call' = [q \in Users |-> IF q = p THEN Idle ELSE [call[q] EXCEPT !.late = call[q].pc # "idle"]]
  /\ work' = [r \in Runs |-> [work[r] EXCEPT !.late = TRUE]]
  /\ UNCHANGED <<approval, payload, created, history, crashes>>

\* requestRevision and resubmit: read, then written by id.
Revise(p, to) ==
  /\ approval = (IF to = "pending" THEN "revision_requested" ELSE "pending")
  /\ Begin(p, "revise", to)
  /\ UNCHANGED <<rows, history, work, crashes>>

WriteRevision(p, to) ==
  /\ At(p, "revise", to)
  /\ approval \in Decision => reopened < MaxReopen
  /\ reopened' = reopened + (IF approval \in Decision THEN 1 ELSE 0)
  /\ approval' = to
  /\ Ends(p)
  /\ UNCHANGED <<agent, payload, created, applied, lost, work, crashes>>

-----------------------------------------------------------------------------
(* The agent's status *)

\* Mistake: resume refuses a pending agent only.
ResumesAll(want) ==
  IF want = "pause" THEN {"none", "terminated"} ELSE {"none", "pending_approval"}

\* What pause, and resume or a patch of the status, refuse
Refused(want) ==
  IF want = "pause" THEN {"none", "terminated"}
  ELSE {"none", "terminated", "pending_approval"}

ReadAgent(p, want) ==
  /\ agent \notin Refused(want)
  /\ Begin(p, "write", want)
  /\ UNCHANGED <<rows, history, work, crashes>>

WriteAgent(p) ==
  /\ call[p].pc = "write"
  /\ agent' = IF call[p].want = "pause" THEN "paused" ELSE "idle"
  /\ Ends(p)
  /\ UNCHANGED <<approval, payload, created, history, work, crashes>>

\* terminate: no status is asked for.
Terminate ==
  /\ agent # "none"
  /\ agent' = "terminated"
  /\ call' = [q \in Users |-> [call[q] EXCEPT !.late = call[q].pc # "idle"]]
  /\ work' = [r \in Runs |-> [work[r] EXCEPT !.late = TRUE]]
  /\ UNCHANGED <<approval, payload, created, history, crashes>>

-----------------------------------------------------------------------------
(* Runs *)

Moves(r, from, to, late) ==
  /\ work[r].pc = from
  /\ work' = [work EXCEPT ![r] = [pc |-> to, late |-> late]]
  /\ UNCHANGED <<approval, payload, created, history, call, crashes>>

\* claimQueuedRun: an agent that cannot be invoked has its run cancelled.
ClaimRun(r) ==
  /\ Moves(r, "queued", "claimed", FALSE)
  /\ agent \notin {"none", "paused", "terminated", "pending_approval"}
  /\ UNCHANGED agent

\* executeRun marks the agent running, whatever its status.
ExecuteRun(r) ==
  /\ Moves(r, "claimed", "running", FALSE)
  /\ agent' = "running"

\* finalizeAgentStatus: the status is read, the running runs are counted, and the
\* status is written, in three statements.
ReadForFinalize(r) ==
  /\ work[r].pc = "running"
  /\ IF agent \in {"paused", "terminated"}
     THEN Moves(r, "running", "queued", FALSE)
     ELSE Moves(r, "running", "final", FALSE)
  /\ UNCHANGED agent

CountRunning(r) ==
  /\ IF \E q \in Runs : work[q].pc \in {"claimed", "running"}
     THEN Moves(r, "final", "busy", work[r].late)
     ELSE Moves(r, "final", "free", work[r].late)
  /\ UNCHANGED agent

WriteFinalized(r) ==
  \/ Moves(r, "busy", "queued", FALSE) /\ agent' = "running"
  \/ Moves(r, "free", "queued", FALSE) /\ agent' \in {"idle", "error"}

\* The server dies: what was awaited is never done.
Crash ==
  /\ crashes < MaxCrashes
  /\ crashes' = crashes + 1
  /\ lost' = (lost \/ \E p \in Users : call[p].pc \in {"hire", "effect"} \/ At(p, "write", "activate"))
  /\ call' = [p \in Users |-> Idle]
  /\ work' = [r \in Runs |-> [pc |-> "queued", late |-> FALSE]]
  /\ UNCHANGED <<rows, applied, reopened>>

Init ==
  /\ agent = "none" /\ approval = "none"
  /\ payload \in {"agent", "data"}
  /\ created = 0 /\ applied = 0 /\ reopened = 0 /\ lost = FALSE
  /\ call = [p \in Users |-> Idle]
  /\ work = [r \in Runs |-> [pc |-> "queued", late |-> FALSE]]
  /\ crashes = 0

Decide(p) ==
  \/ \E d \in Decision : ReadForDecision(p, d) \/ Resolve(p, d)
  \/ HireFromData(p) \/ ReadPending(p) \/ TerminateRejected(p)
  \/ \E to \in Open : Revise(p, to) \/ WriteRevision(p, to)

Next ==
  \/ \E p \in Users : \/ CreateAgent(p) \/ CreateApproval(p)
                      \/ Decide(p)
                      \/ \E want \in {"pause", "resume"} : ReadAgent(p, want)
                      \/ WriteAgent(p)
  \/ CreateForData \/ Terminate
  \/ \E r \in Runs : \/ ClaimRun(r) \/ ExecuteRun(r)
                     \/ ReadForFinalize(r) \/ CountRunning(r) \/ WriteFinalized(r)
  \/ Crash

Spec == Init /\ [][Next]_vars

-----------------------------------------------------------------------------
(* Properties *)

Calls ==
  LET Call(pc, wants) == [pc : {pc}, want : wants, late : BOOLEAN] IN
  Call("idle", {"none"}) \cup Call("hire", {"none"}) \cup Call("resolve", Decision)
    \cup Call("effect", Decision) \cup Call("revise", Open)
    \cup Call("write", {"activate", "pause", "resume"})

\* Rows and calls have the shape their columns and handlers give them; an agent of
\* the payload is there only when the payload names one.
TypeOK ==
  /\ agent \in {"none", "pending_approval", "idle", "paused", "running", "error", "terminated"}
  /\ approval \in Open \cup Decision \cup {"none"}
  /\ payload \in {"agent", "data"}
  /\ payload = "data" => agent = "none"
  /\ created \in Nat /\ applied \in Nat /\ reopened \in Nat
  /\ lost \in BOOLEAN /\ crashes \in 0..MaxCrashes
  /\ call \in [Users -> Calls]
  /\ work \in [Runs -> [pc : {"queued", "claimed", "running", "final", "busy", "free"}, late : BOOLEAN]]

\* Effects belong to the decision that stands: an agent is activated or created for
\* an approved approval, and terminated for a rejected one.
EffectsMatchDecision ==
  \A p \in Users : call[p].pc = "effect" => call[p].want = approval \/ reopened > 0

\* Of decisions that race, retried requests and double clicks among them, one takes
\* effect, the one that stands: an approval is applied once, and once more each time
\* a request for revision, written late, has overwritten a decision.  No agent is
\* hired twice.
DecidedOnce ==
  /\ applied <= 1 + reopened
  /\ created <= applied
  /\ EffectsMatchDecision

\* An agent that waits for approval waits for something: its approval is open, or
\* the handler of the hire or of the decision is at work, or a crash stopped it.
PendingIsUndecided ==
  agent = "pending_approval" =>
    \/ approval \in Open \/ lost \/ reopened > 0
    \/ \E p \in Users : call[p].pc \in {"hire", "effect"} \/ At(p, "write", "activate")

\* A terminated agent comes back only through a write whose check is older than the
\* termination, or that has none: no operation brings it back in the open.
OnlyLateWritesRevive ==
  [][agent = "terminated" /\ agent' # "terminated"
       => \/ \E p \in Users : call[p].late /\ call'[p] = Idle
          \/ \E r \in Runs : work[r].late /\ work'[r] # work[r]]_vars

=============================================================================
