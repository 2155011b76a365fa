--------------------------- MODULE RuntimeServices --------------------------
(***************************************************************************)
(* The local services of runs (dev servers, previews), which runs of the   *)
(* same scope share: server/src/services/workspace-runtime.ts.             *)
(*                                                                         *)
(* The maps live in the server; every action is the code between two       *)
(* awaits.  The n-th service of a run's configuration is <<run, n>> if it  *)
(* is started for that run.  Rows of workspace_runtime_services are shown, *)
(* never decided on: of a write to them only the await and its failure are *)
(* kept.  Readiness is answered by the service's own process.              *)
(***************************************************************************)
EXTENDS Naturals, Sequences

CONSTANTS
  Runs,
  Specs,     \* entries of workspaceRuntime.services, by reuse key
  Ephemeral, \* those with lifecycle "ephemeral": no reuse key
  Policy,    \* their stopPolicy.type
  Wants,     \* the entries of each run's configuration, in order
  Stoppers,  \* requests that archive the execution workspace
  Inside,    \* the runs that started in that workspace
  MaxFaults, \* bound: processes that die and writes that fail
  None

ASSUME SpecsAssumption ==
  /\ Ephemeral \subseteq Specs
  /\ Policy \in [Specs -> {"idle_timeout", "on_run_finish", "manual"}]
  /\ Wants \in [Runs -> Seq(Specs)]
ASSUME NamesAssumption ==
  /\ Runs \cap Stoppers = {}
  /\ Inside \subseteq Runs
ASSUME BoundAssumption == MaxFaults \in Nat

VARIABLES
  pc,        \* what a run, or a request to stop, is waiting for
  position,  \* a run's place in its configuration
  current,   \* the service its handler has at hand
  acquired,  \* runtimeServiceLeasesByRun; while releasing, what is left of it
  toStop,    \* matchingServiceIds of a request
  byId,      \* runtimeServicesById
  byReuseKey,
  leases,    \* leaseRunIds of the records
  idleTimer, \* the records whose timer is armed
  up,        \* the services whose process runs and was not told to end
  faults,    \* how often a process died or a write failed
  raced,     \* history: keys for which two starts were under way at once
  lost       \* history: services whose lease a failed write has lost

handlers == <<pc, position, current, acquired, toStop>>
records  == <<byId, byReuseKey, leases, idleTimer, up>>
vars     == <<handlers, records, faults, raced, lost>>

Services == UNION {{r} \X DOMAIN Wants[r] : r \in Runs}
Kind(s)   == Wants[s[1]][s[2]]
Shared    == Specs \ Ephemeral
Wanted(r) == Wants[r][position[r]]
InHand(r) == <<r, position[r]>>

Stages == {"idle", "next", "starting", "persisting", "using",
           "releasing", "released", "stopping", "done"}

At(h, where) == pc[h] = where
Go(h, where) == pc' = [pc EXCEPT ![h] = where]
Starting(k) == {r \in Runs : At(r, "starting") /\ Wanted(r) = k}
Held(r) == {acquired[r][i] : i \in DOMAIN acquired[r]}
Fault == faults < MaxFaults /\ faults' = faults + 1

-----------------------------------------------------------------------------
(* Records *)

\* Mistake: clearing a timer leaves it armed.
KeepIdleTimer(s) == idleTimer
ClearIdleTimer(s) == idleTimer \ {s}

ScheduleIdleStop(s) ==
  IF Policy[Kind(s)] = "idle_timeout" THEN idleTimer \cup {s} ELSE ClearIdleTimer(s)

\* Mistake: only the process of a registered service is told to end.
TerminateRegistered(s) == up' = IF s \in byId THEN up \ {s} ELSE up
Terminate(s) == up' = up \ {s}

\* The synchronous part of stopRuntimeService: the key goes, whoever has it.
Stop(s) ==
  IF s \in byId
    THEN /\ byId' = byId \ {s}
         /\ byReuseKey' = IF Kind(s) \in Shared
                            THEN [byReuseKey EXCEPT ![Kind(s)] = None] ELSE byReuseKey
         /\ idleTimer' = ClearIdleTimer(s)
         /\ Terminate(s)
    ELSE UNCHANGED <<byId, byReuseKey, idleTimer, up>>

\* The timer's callback, which goes with the timer even if the record is gone.
IdleTimeout(s) ==
  /\ s \in idleTimer
  /\ IF s \in byId THEN Stop(s)
     ELSE idleTimer' = idleTimer \ {s} /\ UNCHANGED <<byId, byReuseKey, up>>
  /\ UNCHANGED <<handlers, leases, faults, raced, lost>>

\* A service dies by itself.
Dies(s) ==
  /\ s \in up
  /\ up' = up \ {s}
  /\ Fault
  /\ UNCHANGED <<handlers, byId, byReuseKey, leases, idleTimer, raced, lost>>

\* The handler that registerRuntimeService attaches.
Exit(s) ==
  /\ s \in byId \ up
  /\ byId' = byId \ {s}
  /\ byReuseKey' = [k \in Shared |-> IF byReuseKey[k] = s THEN None ELSE byReuseKey[k]]
  /\ idleTimer' = ClearIdleTimer(s)
  /\ UNCHANGED <<handlers, leases, up, faults, raced, lost>>

-----------------------------------------------------------------------------
(* ensureRuntimeServicesForRun *)

\* Mistake: a service that is in use is not shared.
FoundUnused(k) == k \in Shared /\ byReuseKey[k] \in byId /\ leases[byReuseKey[k]] = {}
Found(k) == k \in Shared /\ byReuseKey[k] \in byId

Reuse(r) ==
  /\ At(r, "next")
  /\ position[r] \in DOMAIN Wants[r]
  /\ Found(Wanted(r))
  /\ current' = [current EXCEPT ![r] = byReuseKey[Wanted(r)]]
  /\ leases' = [leases EXCEPT ![current'[r]] = @ \cup {r}]
  /\ idleTimer' = ClearIdleTimer(current'[r])
  /\ Go(r, "persisting")
  /\ UNCHANGED <<position, acquired, toStop, byId, byReuseKey, up, faults, raced, lost>>

StartLocalRuntimeService(r) ==
  /\ At(r, "next")
  /\ position[r] \in DOMAIN Wants[r]
  /\ ~Found(Wanted(r))
  /\ current' = [current EXCEPT ![r] = InHand(r)]
  /\ up' = up \cup {InHand(r)}
  /\ Go(r, "starting")
  /\ raced' = IF Starting(Wanted(r)) = {} THEN raced ELSE raced \cup {Wanted(r)}
  /\ UNCHANGED <<position, acquired, toStop, byId, byReuseKey, leases, idleTimer, faults, lost>>

\* waitForReadiness, the new record and registerRuntimeService.
Ready(r) ==
  /\ At(r, "starting")
  /\ LET s == current[r] IN
       /\ s \in up
       /\ byId' = byId \cup {s}
       /\ leases' = [leases EXCEPT ![s] = {r}]
       /\ byReuseKey' = IF Kind(s) \in Shared
                          THEN [byReuseKey EXCEPT ![Kind(s)] = s] ELSE byReuseKey
  /\ Go(r, "persisting")
  /\ UNCHANGED <<position, current, acquired, toStop, idleTimer, up, faults, raced, lost>>

\* No port, no process or no readiness: what was acquired is released.
StartFails(r) ==
  /\ At(r, "starting")
  /\ Terminate(current[r])
  /\ Go(r, "releasing")
  /\ UNCHANGED <<position, current, acquired, toStop, byId, byReuseKey, leases,
                 idleTimer, faults, raced, lost>>

\* Mistake: a service that is reused is not among those to give back.
AcquireStarted(r) ==
  IF current[r] = InHand(r) THEN Append(acquired[r], current[r]) ELSE acquired[r]
Acquire(r) == Append(acquired[r], current[r])

Persisted(r) ==
  /\ At(r, "persisting")
  /\ acquired' = [acquired EXCEPT ![r] = Acquire(r)]
  /\ position' = [position EXCEPT ![r] = @ + 1]
  /\ Go(r, "next")
  /\ current' = [current EXCEPT ![r] = None]
  /\ UNCHANGED <<toStop, records, faults, raced, lost>>

\* The service at hand is not among those that the catch block releases.
PersistFails(r) ==
  /\ At(r, "persisting")
  /\ lost' = lost \cup {current[r]}
  /\ Go(r, "releasing")
  /\ Fault
  /\ UNCHANGED <<position, current, acquired, toStop, records, raced>>

\* The services are returned and the adapter runs.
Ensured(r) ==
  /\ At(r, "next")
  /\ position[r] \notin DOMAIN Wants[r]
  /\ Go(r, "using")
  /\ UNCHANGED <<position, current, acquired, toStop, records, faults, raced, lost>>

-----------------------------------------------------------------------------
(* releaseRuntimeServicesForRun *)

AdapterEnds(r) ==
  /\ At(r, "using")
  /\ Go(r, "releasing")
  /\ UNCHANGED <<position, current, acquired, toStop, records, faults, raced, lost>>

DropLease(r) ==
  /\ At(r, "releasing")
  /\ acquired[r] # <<>>
  /\ LET s == Head(acquired[r]) IN
       /\ acquired' = [acquired EXCEPT ![r] = Tail(@)]
       /\ current' = [current EXCEPT ![r] = s]
       /\ IF s \in byId
            THEN leases' = [leases EXCEPT ![s] = @ \ {r}] /\ Go(r, "released")
            ELSE UNCHANGED <<leases, pc>>
  /\ UNCHANGED <<position, toStop, byId, byReuseKey, idleTimer, up, faults, raced, lost>>

\* Mistake: the stop policy of a shared service is not asked.
StopsEphemeral(k) == k \in Ephemeral
StopsAtOnce(k) == k \in Ephemeral \/ Policy[k] = "on_run_finish"

\* After the write, which may have let others lease or stop the service.
Unleased(r) ==
  /\ At(r, "released")
  /\ LET s == current[r] IN
       \/ /\ leases[s] # {}
          /\ Go(r, "releasing")
          /\ UNCHANGED <<byId, byReuseKey, idleTimer, up>>
       \/ /\ leases[s] = {} /\ StopsAtOnce(Kind(s))
          /\ Stop(s)
          /\ Go(r, IF s \in byId THEN "stopping" ELSE "releasing")
       \/ /\ leases[s] = {} /\ ~StopsAtOnce(Kind(s))
          /\ idleTimer' = ScheduleIdleStop(s)
          /\ Go(r, "releasing")
          /\ UNCHANGED <<byId, byReuseKey, up>>
  /\ UNCHANGED <<position, current, acquired, toStop, leases, faults, raced, lost>>

Stopped(r) ==
  /\ At(r, "stopping")
  /\ Go(r, "releasing")
  /\ UNCHANGED <<position, current, acquired, toStop, records, faults, raced, lost>>

\* The exception ends the loop; executeRun ignores it.
ReleaseFails(r) ==
  /\ pc[r] \in {"released", "stopping"}
  /\ lost' = lost \cup Held(r) \cup (IF At(r, "released") THEN {current[r]} ELSE {})
  /\ acquired' = [acquired EXCEPT ![r] = <<>>]
  /\ Go(r, "releasing")
  /\ Fault
  /\ UNCHANGED <<position, current, toStop, records, raced>>

Released(r) ==
  /\ At(r, "releasing")
  /\ acquired[r] = <<>>
  /\ Go(r, "done")
  /\ UNCHANGED <<position, current, acquired, toStop, records, faults, raced, lost>>

-----------------------------------------------------------------------------
(* stopRuntimeServicesForExecutionWorkspace *)

ListServices(w) ==
  /\ At(w, "idle")
  /\ toStop' = [toStop EXCEPT ![w] = {s \in byId : s[1] \in Inside}]
  /\ Go(w, "stopping")
  /\ UNCHANGED <<position, current, acquired, records, faults, raced, lost>>

StopListed(w) ==
  /\ At(w, "stopping")
  /\ \E s \in toStop[w] :
       /\ toStop' = [toStop EXCEPT ![w] = @ \ {s}]
       /\ Stop(s)
       /\ Go(w, IF s \in byId THEN "persisting" ELSE "stopping")
  /\ UNCHANGED <<position, current, acquired, leases, faults, raced, lost>>

StopGoesOn(w) ==
  /\ At(w, "persisting")
  /\ Go(w, "stopping")
  /\ UNCHANGED <<position, current, acquired, toStop, records, faults, raced, lost>>

\* The rest of the list is left.
StopFails(w) ==
  /\ At(w, "persisting")
  /\ toStop' = [toStop EXCEPT ![w] = {}]
  /\ Go(w, "done")
  /\ Fault
  /\ UNCHANGED <<position, current, acquired, records, raced, lost>>

StopEnds(w) ==
  /\ At(w, "stopping")
  /\ toStop[w] = {}
  /\ Go(w, "done")
  /\ UNCHANGED <<position, current, acquired, toStop, records, faults, raced, lost>>

-----------------------------------------------------------------------------

Init ==
  /\ pc = [h \in Runs \cup Stoppers |-> IF h \in Runs THEN "next" ELSE "idle"]
  /\ position = [r \in Runs |-> 1]
  /\ current = [r \in Runs |-> None]
  /\ acquired = [r \in Runs |-> <<>>]
  /\ toStop = [w \in Stoppers |-> {}]
  /\ byId = {}
  /\ byReuseKey = [k \in Shared |-> None]
  /\ leases = [s \in Services |-> {}]
  /\ idleTimer = {}
  /\ up = {}
  /\ faults = 0
  /\ raced = {}
  /\ lost = {}

\* What the event loop and the database owe a release.
ReleaseStep(r) ==
  \/ DropLease(r) \/ Unleased(r) \/ Stopped(r) \/ ReleaseFails(r) \/ Released(r)

Next ==
  \/ \E r \in Runs :
       \/ Reuse(r) \/ StartLocalRuntimeService(r) \/ Ready(r) \/ StartFails(r)
       \/ Persisted(r) \/ PersistFails(r) \/ Ensured(r) \/ AdapterEnds(r)
       \/ ReleaseStep(r)
  \/ \E s \in Services : IdleTimeout(s) \/ Dies(s) \/ Exit(s)
  \/ \E w \in Stoppers : \/ ListServices(w) \/ StopListed(w) \/ StopGoesOn(w)
                         \/ StopFails(w) \/ StopEnds(w)

Spec == Init /\ [][Next]_vars

\* Timers fire and the continuations of a release run.  Nobody makes an adapter end,
\* a service become ready or a workspace be archived.
FairSpec ==
  /\ Spec
  /\ \A r \in Runs : WF_vars(ReleaseStep(r))
  /\ \A s \in Services : WF_vars(IdleTimeout(s))

-----------------------------------------------------------------------------
(* Properties *)

TypeOK ==
  /\ pc \in [Runs \cup Stoppers -> Stages]
  /\ position \in [Runs -> Nat]
  /\ current \in [Runs -> Services \cup {None}]
  /\ acquired \in [Runs -> Seq(Services)]
  /\ toStop \in [Stoppers -> SUBSET Services]
  /\ byId \subseteq Services
  /\ byReuseKey \in [Shared -> Services \cup {None}]
  /\ leases \in [Services -> SUBSET Runs]
  /\ idleTimer \subseteq Services
  /\ up \subseteq Services
  /\ faults \in 0..MaxFaults
  /\ raced \subseteq Specs
  /\ lost \subseteq Services

\* A run and the services registered agree on who holds which: a lease is kept by a
\* run that will give it back, and what a run has acquired it still leases, whatever
\* other runs took and gave back meanwhile.  Only a write that failed loses a lease.
LeasesAgree ==
  \A r \in Runs, s \in byId :
    /\ r \in leases[s] => \/ s \in Held(r)
                          \/ At(r, "persisting") /\ current[r] = s
                          \/ s \in lost
    /\ s \in Held(r) /\ ~(pc[r] \in {"releasing", "released", "stopping"})
         => r \in leases[s]

\* A shared service that runs is the one that later runs of its key find, unless two
\* of them were once started at the same time.
SharedIsFound ==
  \A s \in byId : Kind(s) \in Shared \ raced => byReuseKey[Kind(s)] = s

\* No process is left alone: somebody waits for it to be ready or it is registered,
\* so that a release, a timer or the archiving of its workspace can stop it.
ProcessesAreHeld ==
  \A s \in up : s \in byId \/ \E r \in Runs : At(r, "starting") /\ current[r] = s

\* Idle timers and finished runs never stop a service that a run leases, though a
\* lease may be taken while a release waits for its write.  Only its own exit and
\* the archiving of the workspace end a leased service.
LeasedIsNotStopped ==
  [][\A s \in byId \ byId' :
       leases[s] = {} \/ s \notin up \/ (\E w \in Stoppers : s \in toStop[w])]_vars

\* A service with a stop policy that nobody leases is stopped or leased again, unless
\* the write of a release has failed.
UnleasedStops ==
  \A s \in Services :
    Kind(s) \in Ephemeral \/ Policy[Kind(s)] # "manual" =>
      (s \in byId /\ leases[s] = {} ~> s \notin byId \/ leases[s] # {} \/ s \in lost)

=============================================================================
