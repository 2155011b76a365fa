----------------------- MODULE BudgetEnforcementProofs -----------------------
(* Invariants of BudgetEnforcement, for any agents, runs, requests, amounts  *)
(* and bounds.                                                               *)
EXTENDS BudgetEnforcement, SequenceTheorems, FiniteSetTheorems, WellFoundedInduction, TLAPS

Pcs == {"idle", "policies", "each", "soft", "softInsert", "hard", "hardFind", "approval",
        "hardInsert", "pause", "scan", "cancel", "upserted", "lift", "resolve", "raise"}
CallRecord ==
  [pc : Pcs, scope : Scopes, amount : Nat, then : SUBSET (Scopes \X Nat), hit : BOOLEAN,
   ref : Nat, todo : SUBSET Runs]
IncidentRow ==
  [scope : Scopes, month : Nat, kind : {"soft", "hard"},
   status : {"open", "resolved", "dismissed"}, approval : Nat]

Shape ==
  /\ month \in Nat /\ limit \in [Scopes -> Nat] /\ approvals \in Nat
  /\ hold \in [Scopes -> Holds]
  /\ incidents \in Seq(IncidentRow)
  /\ call \in [Calls -> CallRecord]
  /\ run \in [Runs -> {"absent", "admitted", "queued", "running", "ended"}]
  /\ claim \in [Runs -> {"none", "agent", "checked"}]
  /\ \A r \in Runs : claim[r] # "none" => run[r] = "queued"

\* What a call writes before it pauses a scope.
Announced(s) ==
  \E i \in DOMAIN incidents : incidents[i].scope = s /\ incidents[i].kind = "hard"
PausesAnnounced == \A c \in Calls : At(c, "pause") => Announced(call[c].scope)

\* A run that no check of scope s will stop any more.
Passed(s, r) ==
  \/ run[r] = "running"
  \/ run[r] = "queued" /\ claim[r] = "checked"
  \/ run[r] = "queued" /\ claim[r] = "agent" /\ s # Company

\* Once a scope is stopped, a run that has passed is found by the call that stops it.
PassedAreStopped ==
  \A s \in Scopes : \A r \in RunsOf(s) :
    hold[s] # "none" /\ Passed(s, r) => Stopping(s, r)

Inv == Shape /\ OneLiveIncident /\ StopIsAnnounced /\ PausesAnnounced /\ PassedAreStopped

-----------------------------------------------------------------------------
(* Steps of a call that stops nothing                                         *)

\* The incidents that were there are there, and dismissed ones stay dismissed.
Kept ==
  \A i \in DOMAIN incidents :
    /\ i \in DOMAIN incidents'
    /\ incidents'[i].scope = incidents[i].scope /\ incidents'[i].kind = incidents[i].kind

Quiet == {"scan", "cancel"}

LEMMA CallsTyped == 
  ASSUME Shape, NEW c \in Calls
  PROVE  call[c] \in CallRecord
BY DEF Shape

LEMMA Found ==
  ASSUME NEW s, Announced(s), Kept
  PROVE  Announced(s)'
BY DEF Announced, Kept

LEMMA StoppingStays ==
  ASSUME Shape, NEW c \in Calls, NEW f, call' = [call EXCEPT ![c] = f],
         call[c].pc \notin Quiet, NEW s, NEW r, Stopping(s, r)
  PROVE  Stopping(s, r)'
<1>1. PICK d \in Calls : /\ call[d].scope = s
                         /\ At(d, "scan") \/ (At(d, "cancel") /\ r \in call[d].todo)
  BY DEF Stopping
<1>2. d # c
  BY <1>1 DEF At, Quiet
<1>3. call'[d] = call[d]
  BY <1>2 DEF Shape
<1> QED BY <1>1, <1>3 DEF Stopping, At

\* A step of one call that leaves runs and holds as they are.
LEMMA CallStep ==
  ASSUME Inv, NEW c \in Calls, NEW f \in CallRecord, call' = [call EXCEPT ![c] = f],
         call[c].pc \notin Quiet,
         UNCHANGED <<month, hold, run, claim>>,
         limit' \in [Scopes -> Nat], approvals' \in Nat,
         incidents' \in Seq(IncidentRow), Kept, OneLiveIncident',
         f.pc = "pause" => Announced(f.scope)'
  PROVE  Inv'
<1>1. Shape'
  BY DEF Inv, Shape
<1>2. StopIsAnnounced'
  BY Found DEF Inv, StopIsAnnounced, Announced
<1>3. PausesAnnounced'
  <2> SUFFICES ASSUME NEW d \in Calls, call'[d].pc = "pause"
               PROVE  \E i \in DOMAIN incidents' :
                        /\ incidents'[i].scope = call'[d].scope
                        /\ incidents'[i].kind = "hard"
    BY DEF PausesAnnounced, Announced, At
  <2>1. CASE d = c
    <3>1. call'[d] = f
      BY <2>1 DEF Inv, Shape
    <3> QED BY <3>1 DEF Announced
  <2>2. CASE d # c
    <3>1. call'[d] = call[d]
      BY <2>2 DEF Inv, Shape
    <3>2. Announced(call[d].scope)
      BY <3>1 DEF Inv, PausesAnnounced, At
    <3> QED BY <3>1, <3>2 DEF Announced, Kept
  <2> QED BY <2>1, <2>2
<1>4. PassedAreStopped'
  <2> SUFFICES ASSUME NEW s \in Scopes, NEW r \in RunsOf(s), hold'[s] # "none", Passed(s, r)'
               PROVE  Stopping(s, r)'
    BY DEF PassedAreStopped, RunsOf
  <2>1. hold[s] # "none" /\ Passed(s, r)
    BY DEF Passed
  <2>2. Stopping(s, r)
    BY <2>1 DEF Inv, PassedAreStopped
  <2> QED BY <2>2, StoppingStays DEF Inv
<1> QED BY <1>1, <1>2, <1>3, <1>4 DEF Inv

\* ... nor any incident.
LEMMA QuietStep ==
  ASSUME Inv, NEW c \in Calls, NEW f \in CallRecord, call' = [call EXCEPT ![c] = f],
         call[c].pc \notin Quiet,
         UNCHANGED <<month, hold, run, claim, incidents>>,
         limit' \in [Scopes -> Nat], approvals' \in Nat,
         f.pc = "pause" => Announced(f.scope)
  PROVE  Inv'
<1>1. incidents' \in Seq(IncidentRow) /\ Kept
  BY DEF Inv, Shape, Kept
<1>2. OneLiveIncident'
  BY DEF Inv, OneLiveIncident
<1>3. f.pc = "pause" => Announced(f.scope)'
  BY DEF Announced
<1> QED BY <1>1, <1>2, <1>3, CallStep

-----------------------------------------------------------------------------
(* The records of a call                                                      *)

LEMMA RecordsTyped ==
  /\ Idle \in CallRecord /\ Idle.pc = "idle"
  /\ \A g \in CallRecord, pc \in Pcs :
       /\ [g EXCEPT !.pc = pc] \in CallRecord
       /\ [g EXCEPT !.pc = pc, !.amount = 0, !.hit = FALSE, !.ref = 0] \in CallRecord
       /\ [g EXCEPT !.pc = pc, !.amount = 0, !.hit = TRUE] \in CallRecord
  /\ \A g \in CallRecord, n \in Nat : [g EXCEPT !.pc = "hardInsert", !.ref = n] \in CallRecord
  /\ \A g \in CallRecord, S \in SUBSET Runs :
       /\ [g EXCEPT !.pc = "cancel", !.todo = S] \in CallRecord
       /\ [g EXCEPT !.todo = S] \in CallRecord
  /\ \A rows \in SUBSET (Scopes \X Nat) :
       [Idle EXCEPT !.pc = "each", !.then = rows] \in CallRecord
  /\ \A pc \in Pcs, s \in Scopes : [Idle EXCEPT !.pc = pc, !.scope = s] \in CallRecord
  /\ \A pc \in Pcs, s \in Scopes, n \in Nat :
       [Idle EXCEPT !.pc = pc, !.scope = s, !.amount = n] \in CallRecord
<1>1. Idle \in CallRecord /\ Idle.pc = "idle"
  BY DEF Idle, CallRecord, Pcs, Scopes
<1>2. ASSUME NEW g \in CallRecord, NEW pc \in Pcs
      PROVE  /\ [g EXCEPT !.pc = pc] \in CallRecord
             /\ [g EXCEPT !.pc = pc, !.amount = 0, !.hit = FALSE, !.ref = 0] \in CallRecord
             /\ [g EXCEPT !.pc = pc, !.amount = 0, !.hit = TRUE] \in CallRecord
  BY DEF CallRecord
<1>3. ASSUME NEW g \in CallRecord, NEW n \in Nat
      PROVE  [g EXCEPT !.pc = "hardInsert", !.ref = n] \in CallRecord
  BY DEF CallRecord, Pcs
<1>4. ASSUME NEW g \in CallRecord, NEW S \in SUBSET Runs
      PROVE  /\ [g EXCEPT !.pc = "cancel", !.todo = S] \in CallRecord
             /\ [g EXCEPT !.todo = S] \in CallRecord
  BY DEF CallRecord, Pcs
<1>5. ASSUME NEW rows \in SUBSET (Scopes \X Nat)
      PROVE  [Idle EXCEPT !.pc = "each", !.then = rows] \in CallRecord
  BY <1>1 DEF CallRecord, Pcs
<1>6. ASSUME NEW pc \in Pcs, NEW s \in Scopes
      PROVE  [Idle EXCEPT !.pc = pc, !.scope = s] \in CallRecord
  BY <1>1 DEF CallRecord
<1>7. ASSUME NEW pc \in Pcs, NEW s \in Scopes, NEW n \in Nat
      PROVE  [Idle EXCEPT !.pc = pc, !.scope = s, !.amount = n] \in CallRecord
  BY <1>1 DEF CallRecord
<1> QED BY <1>1, <1>2, <1>3, <1>4, <1>5, <1>6, <1>7

LEMMA FieldsOf ==
  /\ \A g \in CallRecord, pc \in Pcs :
       /\ [g EXCEPT !.pc = pc].pc = pc /\ [g EXCEPT !.pc = pc].scope = g.scope
       /\ [g EXCEPT !.pc = pc, !.amount = 0, !.hit = FALSE, !.ref = 0].pc = pc
       /\ [g EXCEPT !.pc = pc, !.amount = 0, !.hit = FALSE, !.ref = 0].scope = g.scope
       /\ [g EXCEPT !.pc = pc, !.amount = 0, !.hit = TRUE].pc = pc
  /\ \A g \in CallRecord, n \in Nat :
       [g EXCEPT !.pc = "hardInsert", !.ref = n].pc = "hardInsert"
  /\ \A rows : [Idle EXCEPT !.pc = "each", !.then = rows].pc = "each"
  /\ \A pc, s : [Idle EXCEPT !.pc = pc, !.scope = s].pc = pc
  /\ \A pc, s, n : [Idle EXCEPT !.pc = pc, !.scope = s, !.amount = n].pc = pc
<1>1. ASSUME NEW g \in CallRecord, NEW pc \in Pcs
      PROVE  /\ [g EXCEPT !.pc = pc].pc = pc /\ [g EXCEPT !.pc = pc].scope = g.scope
             /\ [g EXCEPT !.pc = pc, !.amount = 0, !.hit = FALSE, !.ref = 0].pc = pc
             /\ [g EXCEPT !.pc = pc, !.amount = 0, !.hit = FALSE, !.ref = 0].scope = g.scope
             /\ [g EXCEPT !.pc = pc, !.amount = 0, !.hit = TRUE].pc = pc
  BY DEF CallRecord
<1>2. ASSUME NEW g \in CallRecord, NEW n \in Nat
      PROVE  [g EXCEPT !.pc = "hardInsert", !.ref = n].pc = "hardInsert"
  BY DEF CallRecord
<1> QED BY <1>1, <1>2 DEF Idle

-----------------------------------------------------------------------------
(* The steps that only read                                                   *)

LEMMA ReadingStep ==
  ASSUME Inv, NEW c \in Calls, NEW f \in CallRecord, Go(c, f), call[c].pc \notin Quiet,
         UNCHANGED <<policyRows, hold, incidentRows, runRows>>,
         f.pc = "pause" => Announced(f.scope)
  PROVE  Inv'
<1>1. limit' \in [Scopes -> Nat] /\ approvals' \in Nat
  BY DEF Inv, Shape, policyRows, incidentRows
<1>2. UNCHANGED <<month, hold, run, claim, incidents>>
  BY DEF policyRows, incidentRows, runRows
<1> QED BY <1>1, <1>2, QuietStep DEF Go

LEMMA ReadPoliciesStep ==
  ASSUME Inv, NEW c \in Calls, ReadPolicies(c)
  PROVE  Inv'
<1> DEFINE rows == {<<s, limit[s]>> : s \in {x \in {Company, call[c].scope} : limit[x] > 0}}
           f == [Idle EXCEPT !.pc = "each", !.then = rows]
<1>1. call[c].scope \in Scopes /\ Company \in Scopes
  BY CallsTyped DEF Inv, CallRecord, Scopes
<1>2. rows \in SUBSET (Scopes \X Nat)
  BY <1>1 DEF Inv, Shape
<1>3. f \in CallRecord /\ f.pc = "each"
  BY <1>2, RecordsTyped, FieldsOf
<1>4. /\ Go(c, f) /\ call[c].pc \notin Quiet
      /\ UNCHANGED <<policyRows, hold, incidentRows, runRows>>
  BY DEF ReadPolicies, At, Quiet
<1> HIDE DEF f
<1> QED BY <1>3, <1>4, ReadingStep

LEMMA EachStep ==
  ASSUME Inv, NEW c \in Calls, Each(c)
  PROVE  Inv'
<1>1. /\ call[c].pc \notin Quiet
      /\ UNCHANGED <<policyRows, hold, incidentRows, runRows>>
  BY DEF Each, At, Quiet
<1>2. call[c].then \in SUBSET (Scopes \X Nat)
  BY CallsTyped DEF Inv, CallRecord
<1>3. CASE Go(c, Idle)
  BY <1>1, <1>3, RecordsTyped, ReadingStep
<1>4. ASSUME NEW row \in call[c].then,
             Go(c, [Idle EXCEPT !.pc = "each", !.then = call[c].then \ {row}])
      PROVE  Inv'
  <2>1. [Idle EXCEPT !.pc = "each", !.then = call[c].then \ {row}] \in CallRecord
    BY <1>2, RecordsTyped
  <2>2. [Idle EXCEPT !.pc = "each", !.then = call[c].then \ {row}].pc = "each"
    BY FieldsOf
  <2> QED BY <2>1, <2>2, <1>1, <1>4, ReadingStep
<1>5. ASSUME NEW row \in call[c].then, NEW b \in BOOLEAN,
             Go(c, [[Idle EXCEPT !.pc = "each", !.then = call[c].then \ {row}]
                      EXCEPT !.pc = "soft", !.scope = row[1], !.hit = b])
      PROVE  Inv'
  <2> DEFINE g == [Idle EXCEPT !.pc = "each", !.then = call[c].then \ {row}]
             f == [g EXCEPT !.pc = "soft", !.scope = row[1], !.hit = b]
  <2>1. g \in CallRecord
    BY <1>2, RecordsTyped
  <2>2. row[1] \in Scopes
    BY <1>2
  <2> HIDE DEF g
  <2>3. f \in CallRecord /\ f.pc = "soft"
    BY <2>1, <2>2 DEF CallRecord, Pcs
  <2>4. Go(c, f)
    BY <1>5 DEF g
  <2> HIDE DEF f
  <2> QED BY <2>3, <2>4, <1>1, ReadingStep
<1>6. \/ Go(c, Idle)
      \/ \E row \in call[c].then :
           \/ Go(c, [Idle EXCEPT !.pc = "each", !.then = call[c].then \ {row}])
           \/ \E b \in BOOLEAN :
                Go(c, [[Idle EXCEPT !.pc = "each", !.then = call[c].then \ {row}]
                         EXCEPT !.pc = "soft", !.scope = row[1], !.hit = b])
  <2>1. \/ Go(c, Idle)
        \/ \E row \in call[c].then :
             Go(c, IF Observed(row[1]) < SoftThreshold(row[2])
                   THEN [Idle EXCEPT !.pc = "each", !.then = call[c].then \ {row}]
                   ELSE [[Idle EXCEPT !.pc = "each", !.then = call[c].then \ {row}]
                           EXCEPT !.pc = "soft", !.scope = row[1],
                                  !.hit = Observed(row[1]) >= row[2]])
    BY DEF Each
  <2>2. CASE Go(c, Idle)
    BY <2>2
  <2>3. ASSUME NEW row \in call[c].then,
               Go(c, IF Observed(row[1]) < SoftThreshold(row[2])
                     THEN [Idle EXCEPT !.pc = "each", !.then = call[c].then \ {row}]
                     ELSE [[Idle EXCEPT !.pc = "each", !.then = call[c].then \ {row}]
                             EXCEPT !.pc = "soft", !.scope = row[1],
                                    !.hit = Observed(row[1]) >= row[2]])
        PROVE  \/ Go(c, [Idle EXCEPT !.pc = "each", !.then = call[c].then \ {row}])
               \/ \E b \in BOOLEAN :
                    Go(c, [[Idle EXCEPT !.pc = "each", !.then = call[c].then \ {row}]
                             EXCEPT !.pc = "soft", !.scope = row[1], !.hit = b])
    <3>1. CASE Observed(row[1]) < SoftThreshold(row[2])
      BY <2>3, <3>1
    <3>2. CASE ~(Observed(row[1]) < SoftThreshold(row[2]))
      <4>1. (Observed(row[1]) >= row[2]) \in BOOLEAN
        OBVIOUS
      <4> QED BY <4>1, <2>3, <3>2
    <3> QED BY <3>1, <3>2
  <2> QED BY <2>1, <2>2, <2>3
<1> QED BY <1>3, <1>4, <1>5, <1>6

\* Where an evaluation goes on after the soft threshold, and what its other
\* steps that only read make of the call.
LEMMA AfterSoft ==
  ASSUME Shape, NEW c \in Calls, GoAfterSoft(c)
  PROVE  \E f \in CallRecord : Go(c, f) /\ f.pc # "pause"
<1>1. call[c] \in CallRecord /\ call[c].then \in SUBSET (Scopes \X Nat)
  BY CallsTyped DEF CallRecord
<1> DEFINE g == [Idle EXCEPT !.pc = "each", !.then = call[c].then]
           h == [call[c] EXCEPT !.pc = "hard", !.amount = 0, !.hit = FALSE, !.ref = 0]
<1>2. g \in CallRecord /\ g.pc = "each"
  BY <1>1, RecordsTyped, FieldsOf
<1>3. h \in CallRecord /\ h.pc = "hard"
  BY <1>1 DEF CallRecord, Pcs
<1>4. Go(c, g) \/ Go(c, h)
  BY DEF GoAfterSoft, Forget, NextPolicy
<1> HIDE DEF g, h
<1> QED BY <1>2, <1>3, <1>4

LEMMA MovedTo ==
  ASSUME Shape, NEW c \in Calls, NEW pc \in Pcs, To(c, pc)
  PROVE  \E f \in CallRecord : Go(c, f) /\ f.pc = pc /\ f.scope = call[c].scope
<1>1. /\ [call[c] EXCEPT !.pc = pc] \in CallRecord /\ [call[c] EXCEPT !.pc = pc].pc = pc
      /\ [call[c] EXCEPT !.pc = pc].scope = call[c].scope
  BY CallsTyped DEF CallRecord
<1> QED BY <1>1 DEF To

LEMMA Forgot ==
  ASSUME Shape, NEW c \in Calls, NEW pc \in Pcs, Forget(c, pc)
  PROVE  \E f \in CallRecord : Go(c, f) /\ f.pc = pc /\ f.scope = call[c].scope
<1> DEFINE f == [call[c] EXCEPT !.pc = pc, !.amount = 0, !.hit = FALSE, !.ref = 0]
<1>1. f \in CallRecord /\ f.pc = pc /\ f.scope = call[c].scope
  BY CallsTyped DEF CallRecord
<1> QED BY <1>1 DEF Forget

LEMMA FindSoftStep ==
  ASSUME Inv, NEW c \in Calls, FindSoft(c)
  PROVE  Inv'
<1>1. \E f \in CallRecord : Go(c, f) /\ f.pc # "pause"
  <2>1. To(c, "softInsert") \/ GoAfterSoft(c)
    BY DEF FindSoft
  <2> QED BY <2>1, AfterSoft, MovedTo DEF Inv, Pcs
<1>2. /\ call[c].pc \notin Quiet
      /\ UNCHANGED <<policyRows, hold, incidentRows, runRows>>
  BY DEF FindSoft, At, Quiet
<1> QED BY <1>1, <1>2, ReadingStep

\* A call that finds a hard incident pauses the scope on the strength of it.
LEMMA FindHardStep ==
  ASSUME Inv, NEW c \in Calls, FindHard(c)
  PROVE  Inv'
<1>1. /\ call[c].pc \notin Quiet
      /\ UNCHANGED <<policyRows, hold, incidentRows, runRows>>
  BY DEF FindHard, At, Quiet
<1>2. CASE Live(call[c].scope, "hard") = {}
  <2>1. To(c, "approval")
    BY <1>2 DEF FindHard
  <2> QED BY <2>1, <1>1, MovedTo, ReadingStep DEF Inv, Pcs
<1>3. CASE Live(call[c].scope, "hard") # {}
  <2>1. To(c, "pause")
    BY <1>3 DEF FindHard
  <2>2. Announced(call[c].scope)
    BY <1>3 DEF Live, Announced
  <2> QED BY <2>1, <2>2, <1>1, MovedTo, ReadingStep DEF Inv, Pcs
<1> QED BY <1>2, <1>3

LEMMA ConflictStep ==
  ASSUME Inv, NEW c \in Calls, Conflict(c)
  PROVE  Inv'
<1>1. /\ Go(c, Idle) /\ call[c].pc \notin Quiet
      /\ UNCHANGED <<policyRows, hold, incidentRows, runRows>>
  BY DEF Conflict, At, Quiet
<1> QED BY <1>1, RecordsTyped, ReadingStep

LEMMA UpsertObserveStep ==
  ASSUME Inv, NEW c \in Calls, UpsertObserve(c)
  PROVE  Inv'
<1>1. /\ call[c].pc \notin Quiet
      /\ UNCHANGED <<policyRows, hold, incidentRows, runRows>>
  BY DEF UpsertObserve, At, Quiet
<1>2. CASE Forget(c, "lift")
  BY <1>1, <1>2, Forgot, ReadingStep DEF Inv, Pcs
<1>3. CASE Go(c, [call[c] EXCEPT !.pc = "soft", !.amount = 0, !.hit = TRUE])
  <2>1. /\ [call[c] EXCEPT !.pc = "soft", !.amount = 0, !.hit = TRUE] \in CallRecord
        /\ [call[c] EXCEPT !.pc = "soft", !.amount = 0, !.hit = TRUE].pc = "soft"
    BY CallsTyped DEF Inv, CallRecord, Pcs
  <2> QED BY <2>1, <1>1, <1>3, ReadingStep
<1> QED BY <1>2, <1>3 DEF UpsertObserve

-----------------------------------------------------------------------------
(* The steps that write a policy or an approval                               *)

LEMMA CostEventStep ==
  ASSUME Inv, NEW c \in Calls, NEW a \in Agents, CostEvent(c, a)
  PROVE  Inv'
<1> DEFINE f == [Idle EXCEPT !.pc = "policies", !.scope = a]
<1>1. f \in CallRecord /\ f.pc = "policies"
  <2>1. Idle \in CallRecord
    BY RecordsTyped
  <2> QED BY <2>1 DEF CallRecord, Pcs, Scopes
<1>2. /\ Go(c, f) /\ call[c].pc \notin Quiet
      /\ UNCHANGED <<month, limit, hold, incidents, approvals, run, claim>>
  BY DEF CostEvent, Start, At, Quiet, incidentRows, runRows
<1> HIDE DEF f
<1> QED BY <1>1, <1>2, QuietStep DEF Inv, Shape, Go

LEMMA InsertApprovalStep ==
  ASSUME Inv, NEW c \in Calls, InsertApproval(c)
  PROVE  Inv'
<1> DEFINE f == [call[c] EXCEPT !.pc = "hardInsert", !.ref = approvals + 1]
<1>1. approvals + 1 \in Nat
  BY DEF Inv, Shape
<1>2. f \in CallRecord /\ f.pc = "hardInsert"
  BY <1>1, CallsTyped DEF Inv, CallRecord, Pcs
<1>3. /\ Go(c, f) /\ call[c].pc \notin Quiet
      /\ UNCHANGED <<month, limit, hold, incidents, run, claim>>
      /\ approvals' = approvals + 1
  BY DEF InsertApproval, At, Quiet, policyRows, runRows
<1> HIDE DEF f
<1> QED BY <1>1, <1>2, <1>3, QuietStep DEF Inv, Shape, Go

LEMMA UpsertStep ==
  ASSUME Inv, NEW c \in Calls, NEW s \in Scopes, NEW amount \in Amounts, Upsert(c, s, amount)
  PROVE  Inv'
<1> DEFINE f == [Idle EXCEPT !.pc = "upserted", !.scope = s, !.amount = amount]
<1>1. amount \in Nat
  BY BoundsAssumption
<1>2. f \in CallRecord /\ f.pc = "upserted"
  <2>1. Idle \in CallRecord
    BY RecordsTyped
  <2> QED BY <1>1, <2>1 DEF CallRecord, Pcs
<1>3. /\ Go(c, f) /\ call[c].pc \notin Quiet
      /\ UNCHANGED <<month, hold, incidents, approvals, run, claim>>
      /\ limit' = [limit EXCEPT ![s] = amount]
  BY DEF Upsert, Start, At, Quiet, incidentRows, runRows
<1>4. limit' \in [Scopes -> Nat]
  BY <1>1, <1>3 DEF Inv, Shape
<1> HIDE DEF f
<1> QED BY <1>2, <1>3, <1>4, QuietStep DEF Inv, Shape, Go

LEMMA RaiseStep ==
  ASSUME Inv, NEW c \in Calls, NEW i \in DOMAIN incidents, NEW amount \in Amounts,
         Raise(c, i, amount)
  PROVE  Inv'
<1> DEFINE f == [Idle EXCEPT !.pc = "raise", !.scope = incidents[i].scope, !.amount = amount]
<1>1. amount \in Nat /\ incidents[i].scope \in Scopes
  <2>1. incidents[i] \in IncidentRow
    BY ElementOfSeq DEF Inv, Shape
  <2> QED BY <2>1, BoundsAssumption DEF IncidentRow
<1>2. f \in CallRecord /\ f.pc = "raise"
  <2>1. Idle \in CallRecord
    BY RecordsTyped
  <2> QED BY <1>1, <2>1 DEF CallRecord, Pcs
<1>3. /\ Go(c, f) /\ call[c].pc \notin Quiet
      /\ UNCHANGED <<policyRows, hold, incidentRows, runRows>>
  BY DEF Raise, Start, At, Quiet
<1> HIDE DEF f
<1> QED BY <1>2, <1>3, ReadingStep

LEMMA RaiseWriteStep ==
  ASSUME Inv, NEW c \in Calls, RaiseWrite(c)
  PROVE  Inv'
<1>1. call[c].amount \in Nat
  BY CallsTyped DEF Inv, CallRecord
<1>2. /\ Forget(c, "lift") /\ call[c].pc \notin Quiet
      /\ UNCHANGED <<month, hold, incidents, approvals, run, claim>>
      /\ limit' = [limit EXCEPT ![call[c].scope] = call[c].amount]
  BY DEF RaiseWrite, At, Quiet, incidentRows, runRows
<1>3. limit' \in [Scopes -> Nat]
  BY <1>1, <1>2 DEF Inv, Shape
<1>4. PICK f \in CallRecord : Go(c, f) /\ f.pc = "lift"
  BY <1>2, Forgot DEF Inv, Pcs
<1> QED BY <1>2, <1>3, <1>4, QuietStep DEF Inv, Shape, Go

-----------------------------------------------------------------------------
(* The steps that write incidents                                             *)

\* The unique index: what is inserted is the only one of its kind not dismissed.
LEMMA Inserted ==
  ASSUME Inv, NEW s \in Scopes, NEW kind \in {"soft", "hard"}, NEW ap \in Nat,
         Insert(s, kind, ap)
  PROVE  /\ incidents' \in Seq(IncidentRow) /\ Kept /\ OneLiveIncident'
         /\ kind = "hard" => Announced(s)'
<1> DEFINE new == [scope |-> s, month |-> month, kind |-> kind, status |-> "open",
                   approval |-> ap]
           n == Len(incidents) + 1
<1>1. /\ incidents \in Seq(IncidentRow) /\ new \in IncidentRow
      /\ incidents' = Append(incidents, new) /\ Live(s, kind) = {}
  BY DEF Inv, Shape, Insert, IncidentRow
<1>2. /\ incidents' \in Seq(IncidentRow) /\ Len(incidents') = n
      /\ \A i \in 1..Len(incidents) : incidents'[i] = incidents[i]
      /\ incidents'[n] = new
  BY <1>1, AppendProperties
<1>3. /\ DOMAIN incidents = 1..Len(incidents) /\ DOMAIN incidents' = 1..n
      /\ Len(incidents) \in Nat
  BY <1>1, <1>2, LenProperties
<1>4. \A i \in DOMAIN incidents : incidents'[i] = incidents[i] /\ i \in DOMAIN incidents'
  BY <1>2, <1>3
<1>5. Kept
  BY <1>4 DEF Kept
<1>6. OneLiveIncident'
  <2> SUFFICES ASSUME NEW i \in DOMAIN incidents', NEW j \in DOMAIN incidents', i # j,
                      incidents'[i].scope = incidents'[j].scope,
                      incidents'[i].month = incidents'[j].month,
                      incidents'[i].kind = incidents'[j].kind
               PROVE  "dismissed" \in {incidents'[i].status, incidents'[j].status}
    BY DEF OneLiveIncident
  <2>1. \A k \in DOMAIN incidents :
          /\ incidents[k].scope = new.scope /\ incidents[k].month = new.month
          /\ incidents[k].kind = new.kind
          => incidents[k].status = "dismissed"
    BY <1>1 DEF Live
  <2> HIDE DEF new
  <2>2. CASE i \in DOMAIN incidents /\ j \in DOMAIN incidents
    BY <2>2, <1>4 DEF Inv, OneLiveIncident
  <2>3. CASE i = n
    <3>1. j \in DOMAIN incidents
      BY <2>3, <1>3
    <3> QED BY <3>1, <2>1, <2>3, <1>2, <1>4
  <2>4. CASE j = n
    <3>1. i \in DOMAIN incidents
      BY <2>4, <1>3
    <3> QED BY <3>1, <2>1, <2>4, <1>2, <1>4
  <2> QED BY <2>2, <2>3, <2>4, <1>3
<1>7. kind = "hard" => Announced(s)'
  <2>1. n \in DOMAIN incidents'
    BY <1>3
  <2> QED BY <2>1, <1>2 DEF Announced
<1> QED BY <1>2, <1>5, <1>6, <1>7

\* A change of status keeps the incidents, and OneLiveIncident if it revives none.
LEMMA Restated ==
  ASSUME Inv, DOMAIN incidents' = DOMAIN incidents,
         \A i \in DOMAIN incidents :
           /\ incidents'[i] \in IncidentRow
           /\ incidents'[i].scope = incidents[i].scope
           /\ incidents'[i].month = incidents[i].month
           /\ incidents'[i].kind = incidents[i].kind
           /\ incidents[i].status = "dismissed" => incidents'[i].status = "dismissed",
         incidents' = [i \in DOMAIN incidents |-> incidents'[i]]
  PROVE  incidents' \in Seq(IncidentRow) /\ Kept /\ OneLiveIncident'
<1>1. DOMAIN incidents = 1..Len(incidents) /\ Len(incidents) \in Nat
  BY LenProperties DEF Inv, Shape
<1>2. incidents' \in [1..Len(incidents) -> IncidentRow]
  BY <1>1
<1>3. incidents' \in Seq(IncidentRow)
  BY <1>1, <1>2, SeqDef
<1>4. OneLiveIncident'
  BY DEF Inv, OneLiveIncident
<1> QED BY <1>3, <1>4 DEF Kept

LEMMA InsertSoftStep ==
  ASSUME Inv, NEW c \in Calls, InsertSoft(c)
  PROVE  Inv'
<1>1. call[c].scope \in Scopes
  BY CallsTyped DEF Inv, CallRecord
<1>2. /\ Insert(call[c].scope, "soft", 0) /\ GoAfterSoft(c) /\ call[c].pc \notin Quiet
      /\ UNCHANGED <<month, limit, hold, approvals, run, claim>>
  BY DEF InsertSoft, At, Quiet, policyRows, runRows
<1>3. incidents' \in Seq(IncidentRow) /\ Kept /\ OneLiveIncident'
  BY <1>1, <1>2, Inserted
<1>4. PICK f \in CallRecord : Go(c, f) /\ f.pc # "pause"
  BY <1>2, AfterSoft DEF Inv
<1>5. limit' \in [Scopes -> Nat] /\ approvals' \in Nat
  BY <1>2 DEF Inv, Shape
<1> QED BY <1>2, <1>3, <1>4, <1>5, CallStep DEF Go

LEMMA InsertHardStep ==
  ASSUME Inv, NEW c \in Calls, InsertHard(c)
  PROVE  Inv'
<1>1. PICK s \in Scopes, ap \in Nat : s = call[c].scope /\ ap = call[c].ref
  BY CallsTyped DEF Inv, CallRecord
<1>2. /\ Insert(s, "hard", ap) /\ Forget(c, "pause") /\ call[c].pc \notin Quiet
      /\ UNCHANGED <<month, limit, hold, approvals, run, claim>>
  BY <1>1 DEF InsertHard, At, Quiet, policyRows, runRows
<1>3. incidents' \in Seq(IncidentRow) /\ Kept /\ OneLiveIncident' /\ Announced(s)'
  BY <1>2, Inserted
<1>4. PICK f \in CallRecord : Go(c, f) /\ f.scope = s
  BY <1>1, <1>2, Forgot DEF Inv, Pcs
<1>5. limit' \in [Scopes -> Nat] /\ approvals' \in Nat
  BY <1>2 DEF Inv, Shape
<1> QED BY <1>2, <1>3, <1>4, <1>5, CallStep DEF Go

LEMMA ResolveSoftStep ==
  ASSUME Inv, NEW c \in Calls, ResolveSoft(c)
  PROVE  Inv'
<1>1. /\ To(c, "hardFind") /\ call[c].pc \notin Quiet
      /\ UNCHANGED <<month, limit, hold, approvals, run, claim>>
  BY DEF ResolveSoft, At, Quiet, policyRows, runRows
<1>2. \A i \in DOMAIN incidents : incidents[i] \in IncidentRow
  BY ElementOfSeq DEF Inv, Shape
<1>3. incidents' \in Seq(IncidentRow) /\ Kept /\ OneLiveIncident'
  BY <1>2, Restated DEF ResolveSoft, IncidentRow
<1>4. PICK f \in CallRecord : Go(c, f) /\ f.pc = "hardFind"
  BY <1>1, MovedTo DEF Inv, Pcs
<1>5. limit' \in [Scopes -> Nat] /\ approvals' \in Nat
  BY <1>1 DEF Inv, Shape
<1> QED BY <1>1, <1>3, <1>4, <1>5, CallStep DEF Go

LEMMA ResolveStep ==
  ASSUME Inv, NEW c \in Calls, Resolve(c)
  PROVE  Inv'
<1>1. /\ Go(c, Idle) /\ call[c].pc \notin Quiet
      /\ UNCHANGED <<month, limit, hold, approvals, run, claim>>
  BY DEF Resolve, At, Quiet, policyRows, runRows
<1>2. \A i \in DOMAIN incidents : incidents[i] \in IncidentRow
  BY ElementOfSeq DEF Inv, Shape
<1>3. incidents' \in Seq(IncidentRow) /\ Kept /\ OneLiveIncident'
  BY <1>2, Restated DEF Resolve, OpenOf, IncidentRow
<1>4. limit' \in [Scopes -> Nat] /\ approvals' \in Nat
  BY <1>1 DEF Inv, Shape
<1> QED BY <1>1, <1>3, <1>4, RecordsTyped, CallStep DEF Go

\* A dismissal, of any incident, changes no call.
LEMMA DismissStep ==
  ASSUME Inv, NEW c \in Calls, NEW k \in DOMAIN incidents, Dismiss(c, k)
  PROVE  Inv'
<1>1. UNCHANGED <<month, limit, hold, approvals, call, run, claim>>
  BY DEF Dismiss, policyRows, runRows
<1>2. \A i \in DOMAIN incidents : incidents[i] \in IncidentRow
  BY ElementOfSeq DEF Inv, Shape
<1>3. incidents' \in Seq(IncidentRow) /\ Kept /\ OneLiveIncident'
  BY <1>2, Restated DEF Dismiss, IncidentRow
<1>4. Shape'
  BY <1>1, <1>3 DEF Inv, Shape
<1>5. StopIsAnnounced' /\ PausesAnnounced'
  BY <1>1, <1>3 DEF Inv, StopIsAnnounced, PausesAnnounced, Announced, Kept, At
<1>6. PassedAreStopped'
  BY <1>1 DEF Inv, PassedAreStopped, Passed, Stopping, At, RunsOf
<1> QED BY <1>3, <1>4, <1>5, <1>6 DEF Inv

-----------------------------------------------------------------------------
(* The steps that stop and lift                                               *)

\* What such a step leaves alone.
LEMMA IncidentsStay ==
  ASSUME Inv, UNCHANGED <<month, incidents>>
  PROVE  OneLiveIncident'
BY DEF Inv, OneLiveIncident

\* Calls other than the one that moves pause on the strength of what they found.
LEMMA PausesStay ==
  ASSUME Inv, NEW c \in Calls, NEW f \in CallRecord, Go(c, f), f.pc # "pause",
         UNCHANGED incidents
  PROVE  PausesAnnounced'
<1> SUFFICES ASSUME NEW d \in Calls, call'[d].pc = "pause"
             PROVE  \E i \in DOMAIN incidents :
                      incidents[i].scope = call'[d].scope /\ incidents[i].kind = "hard"
  BY DEF PausesAnnounced, Announced, At
<1>1. d # c /\ call'[d] = call[d]
  BY DEF Inv, Shape, Go
<1> QED BY <1>1 DEF Inv, PausesAnnounced, Announced, At

LEMMA PauseForBudgetStep ==
  ASSUME Inv, NEW c \in Calls, PauseForBudget(c)
  PROVE  Inv'
<1>1. PICK s \in Scopes : s = call[c].scope
  BY CallsTyped DEF Inv, CallRecord
<1>2. /\ PauseScope(s) /\ To(c, "scan") /\ call[c].pc = "pause"
      /\ UNCHANGED <<month, limit, incidents, approvals, run, claim>>
  BY <1>1 DEF PauseForBudget, At, policyRows, incidentRows, runRows
<1>3. PICK f \in CallRecord : Go(c, f) /\ f.pc = "scan" /\ f.scope = s
  BY <1>1, <1>2, MovedTo DEF Inv, Pcs
<1>4. /\ hold' \in [Scopes -> Holds]
      /\ \A x \in Scopes : x # s => hold'[x] = hold[x]
      /\ hold'[s] \in {"budget", hold[s]}
  BY <1>2 DEF Inv, Shape, PauseScope, Holds
<1>5. Shape'
  BY <1>2, <1>3, <1>4 DEF Inv, Shape, Go
<1>6. StopIsAnnounced'
  <2>1. Announced(s)
    BY <1>1, <1>2 DEF Inv, PausesAnnounced, At
  <2> QED BY <2>1, <1>2, <1>4 DEF Inv, StopIsAnnounced, Announced
<1>7. PausesAnnounced'
  BY <1>2, <1>3, PausesStay
<1>8. PassedAreStopped'
  <2> SUFFICES ASSUME NEW x \in Scopes, NEW r \in RunsOf(x), hold'[x] # "none", Passed(x, r)'
               PROVE  Stopping(x, r)'
    BY DEF PassedAreStopped, RunsOf
  <2>1. CASE x = s
    <3>1. call'[c] = f
      BY <1>3 DEF Inv, Shape, Go
    <3> QED BY <3>1, <2>1, <1>3 DEF Stopping, At
  <2>2. CASE x # s
    <3>1. Passed(x, r) /\ hold[x] # "none"
      BY <2>2, <1>2, <1>4 DEF Passed
    <3>2. Stopping(x, r)
      BY <3>1 DEF Inv, PassedAreStopped
    <3> QED BY <3>2, <1>2, <1>3, StoppingStays DEF Inv, Go, Quiet
  <2> QED BY <2>1, <2>2
<1> QED BY <1>2, <1>5, <1>6, <1>7, <1>8, IncidentsStay DEF Inv

LEMMA LiftStep ==
  ASSUME Inv, NEW c \in Calls, Lift(c)
  PROVE  Inv'
<1>1. PICK s \in Scopes : s = call[c].scope
  BY CallsTyped DEF Inv, CallRecord
<1>2. /\ LiftHold(s) /\ To(c, "resolve") /\ call[c].pc \notin Quiet
      /\ UNCHANGED <<month, limit, incidents, approvals, run, claim>>
  BY <1>1 DEF Lift, At, Quiet, policyRows, incidentRows, runRows
<1>3. PICK f \in CallRecord : Go(c, f) /\ f.pc = "resolve"
  BY <1>2, MovedTo DEF Inv, Pcs
<1>4. /\ hold' \in [Scopes -> Holds]
      /\ \A x \in Scopes : hold'[x] # "none" => hold'[x] = hold[x]
  BY <1>2 DEF Inv, Shape, LiftHold, Holds
<1>5. Shape'
  BY <1>2, <1>3, <1>4 DEF Inv, Shape, Go
<1>6. StopIsAnnounced'
  BY <1>2, <1>4 DEF Inv, StopIsAnnounced
<1>7. PausesAnnounced'
  BY <1>2, <1>3, PausesStay
<1>8. PassedAreStopped'
  <2> SUFFICES ASSUME NEW x \in Scopes, NEW r \in RunsOf(x), hold'[x] # "none", Passed(x, r)'
               PROVE  Stopping(x, r)'
    BY DEF PassedAreStopped, RunsOf
  <2>1. Passed(x, r) /\ hold[x] # "none"
    BY <1>2, <1>4 DEF Passed
  <2>2. Stopping(x, r)
    BY <2>1 DEF Inv, PassedAreStopped
  <2> QED BY <2>2, <1>2, <1>3, StoppingStays DEF Inv, Go
<1> QED BY <1>2, <1>5, <1>6, <1>7, <1>8, IncidentsStay DEF Inv

LEMMA BoardPausesStep ==
  ASSUME Inv, NEW c \in Calls, NEW a \in Agents, BoardPauses(c, a)
  PROVE  Inv'
<1> DEFINE f == [Idle EXCEPT !.pc = "scan", !.scope = a]
<1>1. a \in Scopes /\ f \in CallRecord /\ f.pc = "scan" /\ f.scope = a
  <2>1. Idle \in CallRecord /\ a \in Scopes
    BY RecordsTyped DEF Scopes
  <2> QED BY <2>1 DEF CallRecord, Pcs
<1>2. /\ Go(c, f) /\ call[c].pc \notin Quiet
      /\ UNCHANGED <<month, limit, incidents, approvals, run, claim>>
      /\ hold' = [hold EXCEPT ![a] = "manual"]
  BY DEF BoardPauses, Start, At, Quiet, policyRows, incidentRows, runRows
<1> HIDE DEF f
<1>3. /\ hold' \in [Scopes -> Holds] /\ hold'[a] = "manual"
      /\ \A x \in Scopes : x # a => hold'[x] = hold[x]
  BY <1>1, <1>2 DEF Inv, Shape, Holds
<1>4. Shape'
  BY <1>1, <1>2, <1>3 DEF Inv, Shape, Go
<1>5. StopIsAnnounced'
  BY <1>2, <1>3 DEF Inv, StopIsAnnounced
<1>6. PausesAnnounced'
  BY <1>1, <1>2, PausesStay
<1>7. PassedAreStopped'
  <2> SUFFICES ASSUME NEW x \in Scopes, NEW r \in RunsOf(x), hold'[x] # "none", Passed(x, r)'
               PROVE  Stopping(x, r)'
    BY DEF PassedAreStopped, RunsOf
  <2>1. CASE x = a
    <3>1. call'[c] = f
      BY <1>2 DEF Inv, Shape, Go
    <3> QED BY <3>1, <2>1, <1>1 DEF Stopping, At
  <2>2. CASE x # a
    <3>1. Passed(x, r) /\ hold[x] # "none"
      BY <2>2, <1>2, <1>3 DEF Passed
    <3>2. Stopping(x, r)
      BY <3>1 DEF Inv, PassedAreStopped
    <3> QED BY <3>2, <1>1, <1>2, StoppingStays DEF Inv, Go
  <2> QED BY <2>1, <2>2
<1> QED BY <1>2, <1>4, <1>5, <1>6, <1>7, IncidentsStay DEF Inv

LEMMA BoardResumesStep ==
  ASSUME Inv, NEW a \in Agents, BoardResumes(a)
  PROVE  Inv'
<1>1. /\ UNCHANGED <<month, limit, incidents, approvals, call, run, claim>>
      /\ hold' = [hold EXCEPT ![a] = "none"]
  BY DEF BoardResumes, policyRows, incidentRows, runRows
<1>2. /\ hold' \in [Scopes -> Holds]
      /\ \A x \in Scopes : hold'[x] # "none" => hold'[x] = hold[x]
  BY <1>1 DEF Inv, Shape, Holds
<1>3. Shape'
  BY <1>1, <1>2 DEF Inv, Shape
<1>4. StopIsAnnounced' /\ PausesAnnounced'
  BY <1>1, <1>2 DEF Inv, StopIsAnnounced, PausesAnnounced, Announced, At
<1>5. PassedAreStopped'
  BY <1>1, <1>2 DEF Inv, PassedAreStopped, Passed, Stopping, At, RunsOf
<1> QED BY <1>1, <1>3, <1>4, <1>5, IncidentsStay DEF Inv

-----------------------------------------------------------------------------
(* The steps that cancel runs                                                 *)

\* The scan finds every run that has passed.
LEMMA ScanStep ==
  ASSUME Inv, NEW c \in Calls, Scan(c)
  PROVE  Inv'
<1>1. PICK s \in Scopes : s = call[c].scope
  BY CallsTyped DEF Inv, CallRecord
<1> DEFINE found == Scanned(s)
           f == [call[c] EXCEPT !.pc = "cancel", !.todo = found]
<1>2. found \in SUBSET Runs
  BY DEF Scanned, RunsOf
<1>3. f \in CallRecord /\ f.pc = "cancel" /\ f.scope = s /\ f.todo = found
  BY <1>1, <1>2, CallsTyped DEF Inv, CallRecord, Pcs
<1>4. /\ Go(c, f) /\ call[c].pc = "scan"
      /\ UNCHANGED <<month, limit, hold, incidents, approvals, run, claim>>
  BY <1>1 DEF Scan, At, policyRows, incidentRows, runRows
<1> HIDE DEF f, found
<1>5. Shape'
  BY <1>3, <1>4 DEF Inv, Shape, Go
<1>6. StopIsAnnounced'
  BY <1>4 DEF Inv, StopIsAnnounced
<1>7. PausesAnnounced'
  BY <1>3, <1>4, PausesStay
<1>8. PassedAreStopped'
  <2> SUFFICES ASSUME NEW x \in Scopes, NEW r \in RunsOf(x), hold'[x] # "none", Passed(x, r)'
               PROVE  Stopping(x, r)'
    BY DEF PassedAreStopped, RunsOf
  <2>1. call'[c] = f /\ \A d \in Calls : d # c => call'[d] = call[d]
    BY <1>4 DEF Inv, Shape, Go
  <2>2. Passed(x, r) /\ hold[x] # "none"
    BY <1>4 DEF Passed
  <2>3. PICK d \in Calls : /\ call[d].scope = x
                           /\ At(d, "scan") \/ (At(d, "cancel") /\ r \in call[d].todo)
    BY <2>2 DEF Inv, PassedAreStopped, Stopping
  <2>4. CASE d = c
    <3>1. x = s
      BY <2>3, <2>4, <1>1
    <3>2. r \in found
      BY <2>2, <3>1 DEF found, Scanned, Active, Passed
    <3> QED BY <3>1, <3>2, <2>1, <1>3 DEF Stopping, At
  <2>5. CASE d # c
    BY <2>1, <2>3, <2>5 DEF Stopping, At
  <2> QED BY <2>4, <2>5
<1> QED BY <1>4, <1>5, <1>6, <1>7, <1>8, IncidentsStay DEF Inv

\* A call that has cancelled what it found goes on; one that cancels a run no
\* longer needs to stop it, for it has ended.
LEMMA CancelStep ==
  ASSUME Inv, NEW c \in Calls, Cancel(c)
  PROVE  Inv'
<1>1. /\ call[c].pc = "cancel"
      /\ UNCHANGED <<month, limit, hold, incidents, approvals>>
  BY DEF Cancel, At, policyRows, incidentRows
<1>2. ASSUME NEW f \in CallRecord, Go(c, f), f.pc # "pause",
             run' \in [Runs -> {"absent", "admitted", "queued", "running", "ended"}],
             claim' \in [Runs -> {"none", "agent", "checked"}],
             \A r \in Runs : claim'[r] # "none" => run'[r] = "queued",
             \A r \in Runs : \/ run'[r] = "ended"
                             \/ /\ run'[r] = run[r] /\ claim'[r] = claim[r]
                                /\ run[r] \in {"queued", "running"} /\ r \in call[c].todo
                                   => /\ f.pc = "cancel" /\ f.scope = call[c].scope
                                      /\ r \in f.todo
      PROVE  Inv'
  <2>1. Shape'
    BY <1>1, <1>2 DEF Inv, Shape, Go
  <2>2. StopIsAnnounced'
    BY <1>1 DEF Inv, StopIsAnnounced
  <2>3. PausesAnnounced'
    BY <1>1, <1>2, PausesStay
  <2>4. PassedAreStopped'
    <3> SUFFICES ASSUME NEW x \in Scopes, NEW r \in RunsOf(x), hold'[x] # "none",
                        Passed(x, r)'
                 PROVE  Stopping(x, r)'
      BY DEF PassedAreStopped, RunsOf
    <3>1. call'[c] = f /\ \A d \in Calls : d # c => call'[d] = call[d]
      BY <1>2 DEF Inv, Shape, Go
    <3>2. r \in Runs /\ run'[r] = run[r] /\ claim'[r] = claim[r]
      BY <1>2 DEF Passed, RunsOf
    <3>3. Passed(x, r) /\ hold[x] # "none" /\ run[r] \in {"queued", "running"}
      BY <3>2, <1>1 DEF Passed
    <3>4. PICK d \in Calls : /\ call[d].scope = x
                             /\ At(d, "scan") \/ (At(d, "cancel") /\ r \in call[d].todo)
      BY <3>3 DEF Inv, PassedAreStopped, Stopping
    <3>5. CASE d = c
      <4>1. r \in call[c].todo /\ call[c].scope = x
        BY <3>4, <3>5, <1>1 DEF At
      <4>2. f.pc = "cancel" /\ f.scope = x /\ r \in f.todo
        BY <4>1, <3>2, <3>3, <1>2 DEF Passed
      <4> QED BY <4>2, <3>1 DEF Stopping, At
    <3>6. CASE d # c
      BY <3>1, <3>4, <3>6 DEF Stopping, At
    <3> QED BY <3>5, <3>6
  <2> QED BY <2>1, <2>2, <2>3, <2>4, <1>1, IncidentsStay DEF Inv
<1>3. CASE call[c].todo = {} /\ NextPolicy(c) /\ UNCHANGED runRows
  <2> DEFINE f == [Idle EXCEPT !.pc = "each", !.then = call[c].then]
  <2>1. f \in CallRecord /\ f.pc = "each"
    <3>1. call[c].then \in SUBSET (Scopes \X Nat)
      BY CallsTyped DEF Inv, CallRecord
    <3> QED BY <3>1, RecordsTyped, FieldsOf
  <2>2. Go(c, f) /\ run' = run /\ claim' = claim
    BY <1>3 DEF NextPolicy, runRows
  <2> HIDE DEF f
  <2> QED BY <1>2, <1>3, <2>1, <2>2 DEF Inv, Shape
<1>4. ASSUME NEW q \in call[c].todo,
             IF Active(q) THEN End(q) ELSE UNCHANGED runRows,
             Go(c, [call[c] EXCEPT !.todo = @ \ {q}])
      PROVE  Inv'
  <2> DEFINE f == [call[c] EXCEPT !.todo = @ \ {q}]
  <2>1. q \in Runs
    BY CallsTyped DEF Inv, CallRecord
  <2>2. /\ f \in CallRecord /\ f.pc = "cancel" /\ f.scope = call[c].scope
        /\ f.todo = call[c].todo \ {q}
    BY <1>1, CallsTyped DEF Inv, CallRecord
  <2>3. Go(c, f)
    BY <1>4
  <2> HIDE DEF f
  <2>4. CASE Active(q)
    <3>1. End(q)
      BY <1>4, <2>4
    <3> QED BY <1>2, <2>1, <2>2, <2>3, <3>1 DEF Inv, Shape, End
  <2>5. CASE ~Active(q)
    <3>1. run' = run /\ claim' = claim
      BY <1>4, <2>5 DEF runRows
    <3> QED BY <1>2, <2>1, <2>2, <2>3, <2>5, <3>1 DEF Inv, Shape, Active
  <2> QED BY <2>4, <2>5
<1> QED BY <1>3, <1>4 DEF Cancel

-----------------------------------------------------------------------------
(* The steps of a run                                                         *)

\* A run passes the check of a scope only while the scope is not stopped.
LEMMA RunStepKeeps ==
  ASSUME Inv, NEW q \in Runs, RunStep(q)
  PROVE  Inv'
<1>1. UNCHANGED <<month, limit, hold, incidents, approvals, call>>
  BY DEF RunStep, Admit, QueueRun, CheckAgent, CheckBudgets, Claim, RunEnds, policyRows,
         incidentRows
<1>2. /\ run' \in [Runs -> {"absent", "admitted", "queued", "running", "ended"}]
      /\ claim' \in [Runs -> {"none", "agent", "checked"}]
      /\ \A r \in Runs : claim'[r] # "none" => run'[r] = "queued"
  BY DEF Inv, Shape, RunStep, Admit, QueueRun, CheckAgent, CheckBudgets, Claim, RunEnds, End
<1>3. Shape'
  BY <1>1, <1>2 DEF Inv, Shape
<1>4. StopIsAnnounced' /\ PausesAnnounced'
  BY <1>1 DEF Inv, StopIsAnnounced, PausesAnnounced, Announced, At
<1>5. PassedAreStopped'
  <2> SUFFICES ASSUME NEW s \in Scopes, NEW r \in RunsOf(s), hold[s] # "none", Passed(s, r)'
               PROVE  Stopping(s, r)'
    BY <1>1 DEF PassedAreStopped, RunsOf
  <2>1. r \in Runs /\ (s = Company \/ AgentOf[r] = s)
    BY DEF RunsOf
  <2>2. Passed(s, r)
    <3>1. CASE r # q
      <4>1. run'[r] = run[r] /\ claim'[r] = claim[r]
        BY <3>1, <2>1 DEF Inv, Shape, RunStep, Admit, QueueRun, CheckAgent, CheckBudgets, Claim,
                          RunEnds, End
      <4> QED BY <4>1 DEF Passed
    <3>2. CASE r = q /\ (Admit(q) \/ QueueRun(q) \/ RunEnds(q))
      BY <3>2, <2>1 DEF Inv, Shape, Passed, Admit, QueueRun, RunEnds, End
    <3>3. CASE r = q /\ CheckAgent(q)
      <4>1. CASE hold[AgentOf[q]] = "none"
        BY <4>1, <3>3, <2>1 DEF Inv, Shape, Passed, CheckAgent
      <4>2. CASE hold[AgentOf[q]] # "none"
        BY <4>2, <3>3, <2>1 DEF Inv, Shape, Passed, CheckAgent, End
      <4> QED BY <4>1, <4>2
    <3>4. CASE r = q /\ CheckBudgets(q)
      <4>1. CASE Open(Company) /\ ~Exceeded(AgentOf[q])
        BY <4>1, <3>4, <2>1 DEF Inv, Shape, Passed, CheckBudgets, Open
      <4>2. CASE ~(Open(Company) /\ ~Exceeded(AgentOf[q]))
        BY <4>2, <3>4, <2>1 DEF Inv, Shape, Passed, CheckBudgets, End
      <4> QED BY <4>1, <4>2
    <3>5. CASE r = q /\ Claim(q)
      BY <3>5, <2>1 DEF Inv, Shape, Passed, Claim
    <3> QED BY <3>1, <3>2, <3>3, <3>4, <3>5 DEF RunStep
  <2>3. Stopping(s, r)
    BY <2>2 DEF Inv, PassedAreStopped
  <2> QED BY <2>3, <1>1 DEF Stopping, At
<1> QED BY <1>1, <1>3, <1>4, <1>5, IncidentsStay DEF Inv

LEMMA NewMonthStep ==
  ASSUME Inv, NewMonth
  PROVE  Inv'
<1>1. /\ UNCHANGED <<limit, hold, incidents, approvals, call, run, claim>>
      /\ month' = month + 1
  BY DEF NewMonth, incidentRows, runRows
<1>2. Shape'
  BY <1>1 DEF Inv, Shape
<1>3. OneLiveIncident' /\ StopIsAnnounced' /\ PausesAnnounced'
  BY <1>1 DEF Inv, OneLiveIncident, StopIsAnnounced, PausesAnnounced, Announced, At
<1>4. PassedAreStopped'
  BY <1>1 DEF Inv, PassedAreStopped, Passed, Stopping, At, RunsOf
<1> QED BY <1>2, <1>3, <1>4 DEF Inv

-----------------------------------------------------------------------------

LEMMA InitHolds ==
  ASSUME Init
  PROVE  Inv
<1>1. Idle \in CallRecord /\ Idle.pc = "idle"
  BY RecordsTyped
<1>2. Shape
  BY <1>1, EmptySeq DEF Init, Shape, Holds
<1>3. OneLiveIncident /\ StopIsAnnounced
  BY DEF Init, OneLiveIncident, StopIsAnnounced
<1>4. PausesAnnounced /\ PassedAreStopped
  BY <1>1 DEF Init, PausesAnnounced, PassedAreStopped, At
<1> QED BY <1>2, <1>3, <1>4 DEF Inv

LEMMA StepKeeps ==
  ASSUME Inv, [Next]_vars
  PROVE  Inv'
<1>1. CASE UNCHANGED vars
  BY <1>1 DEF vars, Inv, Shape, OneLiveIncident, StopIsAnnounced, PausesAnnounced, Announced,
              PassedAreStopped, Passed, Stopping, At, RunsOf
<1>2. ASSUME NEW c \in Calls, Evaluation(c) PROVE Inv'
  BY <1>2, ReadPoliciesStep, EachStep, FindSoftStep, InsertSoftStep, ResolveSoftStep, FindHardStep,
     InsertApprovalStep, InsertHardStep, ConflictStep, PauseForBudgetStep, ScanStep, CancelStep
  DEF Evaluation
<1>3. ASSUME NEW c \in Calls, Resolution(c) PROVE Inv'
  BY <1>3, UpsertObserveStep, LiftStep, ResolveStep, RaiseWriteStep DEF Resolution
<1>4. ASSUME NEW c \in Calls, Request(c) PROVE Inv'
  BY <1>4, CostEventStep, BoardPausesStep, UpsertStep, RaiseStep, DismissStep DEF Request
<1>5. ASSUME NEW a \in Agents, BoardResumes(a) PROVE Inv'
  BY <1>5, BoardResumesStep
<1>6. ASSUME NEW r \in Runs, RunStep(r) PROVE Inv'
  BY <1>6, RunStepKeeps
<1> QED BY <1>1, <1>2, <1>3, <1>4, <1>5, <1>6, NewMonthStep DEF Next

LEMMA Invariance == Spec => []Inv
BY InitHolds, StepKeeps, PTL DEF Spec

-----------------------------------------------------------------------------
(* MapThenSumSet over a finite set.  The fold is a recursive function, which  *)
(* is the CHOOSE of a function that solves its equation.                      *)

Pick(s) == CHOOSE x \in s : TRUE
Sums(g, f, S) == g = [s \in SUBSET S |-> IF s = {} THEN 0 ELSE f[Pick(s)] + g[s \ {Pick(s)}]]

LEMMA LeastSubset ==
  ASSUME NEW S, IsFiniteSet(S), NEW T \in SUBSET SUBSET S, T # {}
  PROVE  \E t \in T : \A u \in T : ~(u \subseteq t /\ u # t)
<1>1. IsWellFoundedOn(StrictSubsetOrdering(S), SUBSET S)
  BY FS_StrictSubsetOrderingWellFounded, FS_FiniteSubsetsOfFinite
<1>2. PICK t \in T : \A u \in T : <<u, t>> \notin StrictSubsetOrdering(S)
  BY <1>1, WFMin, Zenon
<1> QED BY <1>2 DEF StrictSubsetOrdering

\* What a solution is at a set follows from what it is at smaller ones.
LEMMA SumOfMore ==
  ASSUME NEW f, NEW S, NEW g, Sums(g, f, S), NEW s \in SUBSET S, s # {}
  PROVE  /\ Pick(s) \in s /\ s \ {Pick(s)} \in SUBSET S
         /\ g[s] = f[Pick(s)] + g[s \ {Pick(s)}]
<1>1. Pick(s) \in s
  BY DEF Pick
<1>2. g[s] = IF s = {} THEN 0 ELSE f[Pick(s)] + g[s \ {Pick(s)}]
  BY DEF Sums
<1> QED BY <1>1, <1>2

LEMMA SumsAgree ==
  ASSUME NEW S, IsFiniteSet(S), NEW f, NEW A \in SUBSET S, NEW B \in SUBSET S,
         NEW g, Sums(g, f, A), NEW h, Sums(h, f, B), NEW s, s \in SUBSET A, s \in SUBSET B
  PROVE  g[s] = h[s]
<1> DEFINE Differ == {t \in SUBSET S : t \in SUBSET A /\ t \in SUBSET B /\ g[t] # h[t]}
<1>1. SUFFICES ASSUME Differ # {} PROVE FALSE
  OBVIOUS
<1>2. PICK t \in Differ : \A u \in Differ : ~(u \subseteq t /\ u # t)
  <2>1. Differ \in SUBSET SUBSET S
    OBVIOUS
  <2> HIDE DEF Differ
  <2> QED BY <1>1, <2>1, LeastSubset
<1>3. t # {}
  <2>1. g[{}] = 0 /\ h[{}] = 0
    BY DEF Sums
  <2> QED BY <2>1
<1>4. /\ Pick(t) \in t
      /\ g[t] = f[Pick(t)] + g[t \ {Pick(t)}] /\ h[t] = f[Pick(t)] + h[t \ {Pick(t)}]
  BY <1>3, SumOfMore
<1>5. g[t \ {Pick(t)}] = h[t \ {Pick(t)}]
  BY <1>2, <1>4
<1> QED BY <1>4, <1>5

LEMMA SumsExist ==
  ASSUME NEW S, IsFiniteSet(S), NEW f
  PROVE  \E g : Sums(g, f, S)
<1> DEFINE Without == {s \in SUBSET S : ~\E g : Sums(g, f, s)}
<1>1. SUFFICES ASSUME Without # {} PROVE FALSE
  OBVIOUS
<1>2. PICK s \in Without : \A u \in Without : ~(u \subseteq s /\ u # s)
  <2>1. Without \in SUBSET SUBSET S
    OBVIOUS
  <2> HIDE DEF Without
  <2> QED BY <1>1, <2>1, LeastSubset
<1> DEFINE sum(u) == CHOOSE g : Sums(g, f, u)
           value(u) == IF u = {} THEN 0 ELSE f[Pick(u)] + sum(u \ {Pick(u)})[u \ {Pick(u)}]
           g0 == [u \in SUBSET s |-> value(u)]
<1>3. ASSUME NEW u \in SUBSET s, u # s PROVE Sums(sum(u), f, u)
  BY <1>2, <1>3
<1>4. ASSUME NEW u \in SUBSET s, u # s PROVE g0[u] = sum(u)[u]
  <2>1. Sums(sum(u), f, u)
    BY <1>3, <1>4
  <2>2. CASE u = {}
    <3>1. sum(u)[u] = 0
      <4> HIDE DEF sum
      <4> QED BY <2>1, <2>2 DEF Sums
    <3> QED BY <2>2, <3>1
  <2>3. CASE u # {}
    <3> DEFINE v == u \ {Pick(u)}
    <3>1. /\ Pick(u) \in u /\ sum(u)[u] = f[Pick(u)] + sum(u)[v]
      <4> HIDE DEF sum
      <4> QED BY <2>1, <2>3, SumOfMore
    <3>2. v \in SUBSET s /\ v # s /\ v \in SUBSET u
      BY <3>1
    <3>3. Sums(sum(v), f, v)
      BY <1>3, <3>2
    <3>4. sum(u)[v] = sum(v)[v]
      <4>1. u \in SUBSET S /\ v \in SUBSET S
        BY <3>2
      <4> HIDE DEF sum, v
      <4> QED BY <2>1, <3>2, <3>3, <4>1, SumsAgree
    <3>5. g0[u] = f[Pick(u)] + sum(v)[v]
      BY <2>3
    <3> QED BY <3>1, <3>4, <3>5
  <2> QED BY <2>2, <2>3
<1>5. Sums(g0, f, s)
  <2> SUFFICES ASSUME NEW u \in SUBSET s, u # {}
               PROVE  sum(u \ {Pick(u)})[u \ {Pick(u)}] = g0[u \ {Pick(u)}]
    <3>1. g0 = [u \in SUBSET s |->
                 IF u = {} THEN 0 ELSE f[Pick(u)] + sum(u \ {Pick(u)})[u \ {Pick(u)}]]
      OBVIOUS
    <3> HIDE DEF g0, sum
    <3>2. \A u \in SUBSET s :
            (IF u = {} THEN 0 ELSE f[Pick(u)] + sum(u \ {Pick(u)})[u \ {Pick(u)}])
              = IF u = {} THEN 0 ELSE f[Pick(u)] + g0[u \ {Pick(u)}]
      OBVIOUS
    <3> QED BY <3>1, <3>2 DEF Sums
  <2>1. Pick(u) \in u
    BY DEF Pick
  <2>2. u \ {Pick(u)} \in SUBSET s /\ u \ {Pick(u)} # s
    BY <2>1
  <2> HIDE DEF g0, sum
  <2> QED BY <1>4, <2>2
<1> QED BY <1>2, <1>5

\* A sum of natural numbers is one, and none of them is greater.
LEMMA SumBounds ==
  ASSUME NEW S, IsFiniteSet(S), NEW f, \A e \in S : f[e] \in Nat, NEW g, Sums(g, f, S)
  PROVE  g[S] \in Nat /\ \A e \in S : f[e] <= g[S]
<1> DEFINE Good(s) == g[s] \in Nat /\ \A e \in s : f[e] <= g[s]
           Bad == {s \in SUBSET S : ~Good(s)}
<1>1. Bad = {}
  <2> SUFFICES ASSUME Bad # {} PROVE FALSE
    OBVIOUS
  <2>1. PICK s \in Bad : \A u \in Bad : ~(u \subseteq s /\ u # s)
    <3>1. Bad \in SUBSET SUBSET S
      OBVIOUS
    <3> HIDE DEF Bad
    <3> QED BY <3>1, LeastSubset
  <2>2. s # {}
    <3>1. g[{}] = 0
      BY DEF Sums
    <3> QED BY <3>1
  <2> DEFINE p == Pick(s)
             u == s \ {p}
  <2>3. p \in s /\ g[s] = f[p] + g[u]
    BY <2>2, SumOfMore
  <2>4. Good(u)
    BY <2>1, <2>3
  <2>5. f[p] \in Nat /\ \A e \in s : f[e] \in Nat
    BY <2>3
  <2>6. g[s] \in Nat /\ f[p] <= g[s] /\ g[u] <= g[s]
    BY <2>3, <2>4, <2>5
  <2>7. \A e \in s : f[e] <= g[s]
    BY <2>4, <2>5, <2>6
  <2> QED BY <2>6, <2>7
<1>2. Good(S)
  BY <1>1
<1> QED BY <1>2

-----------------------------------------------------------------------------
(* What the rows and the calls hold: beyond Shape, that months and counts stay *)
(* within their bounds, that a call books amounts a board may set, and that an *)
(* incident refers to an approval that was inserted before it.                 *)

Booked(f, n) == f.amount \in Amounts \cup {0} /\ f.ref \in Nat /\ f.ref <= n

Rows ==
  /\ month \in Months
  /\ spent \in [Agents -> [Months -> 0..MaxSpent]]
  /\ limit \in [Scopes -> Amounts \cup {0}]
  /\ \A i \in DOMAIN incidents : incidents[i].month \in Months /\ incidents[i].approval <= approvals
  /\ approvals <= MaxIncidents
  /\ \A c \in Calls : Booked(call[c], approvals)

LEMMA BookedStays ==
  ASSUME Inv, Rows, NEW c \in Calls, NEW f, Go(c, f), approvals' \in Nat,
         approvals <= approvals', Booked(f, approvals')
  PROVE  \A d \in Calls : Booked(call'[d], approvals')
<1> SUFFICES ASSUME NEW d \in Calls PROVE Booked(call'[d], approvals')
  OBVIOUS
<1>1. CASE d = c
  BY <1>1 DEF Go, Inv, Shape
<1>2. CASE d # c
  <2>1. call'[d] = call[d] /\ Booked(call[d], approvals) /\ approvals \in Nat
    BY <1>2 DEF Go, Inv, Shape, Rows
  <2> QED BY <2>1 DEF Booked
<1> QED BY <1>1, <1>2

\* A step of a call that writes no row but holds.
LEMMA CallMoves ==
  ASSUME Inv, Rows, NEW c \in Calls, NEW f, Go(c, f), Booked(f, approvals),
         UNCHANGED <<policyRows, incidentRows>>
  PROVE  Rows'
<1>1. UNCHANGED <<month, spent, limit, incidents, approvals>>
  BY DEF policyRows, incidentRows
<1>2. approvals' \in Nat /\ approvals <= approvals'
  BY <1>1 DEF Inv, Shape
<1>3. \A d \in Calls : Booked(call'[d], approvals')
  BY <1>1, <1>2, BookedStays
<1> QED BY <1>1, <1>3 DEF Rows

LEMMA BookedForms ==
  ASSUME Inv, Rows, NEW c \in Calls
  PROVE  /\ Booked(Idle, approvals) /\ Booked(call[c], approvals)
         /\ \A pc : /\ Booked([call[c] EXCEPT !.pc = pc], approvals)
                    /\ Booked([call[c] EXCEPT !.pc = pc, !.amount = 0, !.hit = FALSE, !.ref = 0],
                              approvals)
                    /\ Booked([call[c] EXCEPT !.pc = pc, !.amount = 0, !.hit = TRUE], approvals)
         /\ \A pc, S : /\ Booked([call[c] EXCEPT !.pc = pc, !.todo = S], approvals)
                       /\ Booked([call[c] EXCEPT !.todo = S], approvals)
         /\ \A rows : Booked([Idle EXCEPT !.pc = "each", !.then = rows], approvals)
         /\ \A pc, s : Booked([Idle EXCEPT !.pc = pc, !.scope = s], approvals)
         /\ \A pc, s : \A n \in Amounts :
              Booked([Idle EXCEPT !.pc = pc, !.scope = s, !.amount = n], approvals)
         /\ \A rows, s, b :
              Booked([[Idle EXCEPT !.pc = "each", !.then = rows]
                        EXCEPT !.pc = "soft", !.scope = s, !.hit = b], approvals)
<1>1. approvals \in Nat /\ call[c] \in CallRecord /\ Booked(call[c], approvals)
  BY CallsTyped DEF Inv, Shape, Rows
<1> QED BY <1>1 DEF Booked, Idle, CallRecord

LEMMA CallOnlySteps ==
  ASSUME Inv, Rows, NEW c \in Calls,
         \/ ReadPolicies(c) \/ Each(c) \/ FindSoft(c) \/ FindHard(c) \/ Conflict(c)
         \/ PauseForBudget(c) \/ Scan(c) \/ Cancel(c) \/ UpsertObserve(c) \/ Lift(c)
         \/ \E a \in Agents : BoardPauses(c, a)
         \/ \E i \in DOMAIN incidents : \E amount \in Amounts : Raise(c, i, amount)
  PROVE  Rows'
<1>1. UNCHANGED <<policyRows, incidentRows>>
  BY Zenon DEF ReadPolicies, Each, FindSoft, FindHard, Conflict, PauseForBudget, Scan, Cancel,
               UpsertObserve, Lift, BoardPauses, Raise
<1> DEFINE Moved == \E f : Go(c, f) /\ Booked(f, approvals)
<1>2. Moved
  <2>1. ASSUME NEW pc, To(c, pc) PROVE Moved
    <3>1. Booked([call[c] EXCEPT !.pc = pc], approvals)
      BY BookedForms, Zenon
    <3> QED BY <2>1, <3>1, Zenon DEF To
  <2>2. ASSUME NEW pc, Forget(c, pc) PROVE Moved
    <3>1. Booked([call[c] EXCEPT !.pc = pc, !.amount = 0, !.hit = FALSE, !.ref = 0], approvals)
      BY BookedForms, Zenon
    <3> QED BY <2>2, <3>1, Zenon DEF Forget
  <2>3. ASSUME NEW rows, Go(c, [Idle EXCEPT !.pc = "each", !.then = rows]) PROVE Moved
    <3>1. Booked([Idle EXCEPT !.pc = "each", !.then = rows], approvals)
      BY BookedForms, Zenon
    <3> QED BY <2>3, <3>1, Zenon
  <2>4. ASSUME NEW pc, NEW s, Go(c, [Idle EXCEPT !.pc = pc, !.scope = s]) PROVE Moved
    <3>1. Booked([Idle EXCEPT !.pc = pc, !.scope = s], approvals)
      BY BookedForms, Zenon
    <3> QED BY <2>4, <3>1, Zenon
  <2>5. ASSUME Go(c, Idle) PROVE Moved
    BY <2>5, BookedForms, Zenon
  <2>6. ASSUME NextPolicy(c) PROVE Moved
    BY <2>3, <2>6, Zenon DEF NextPolicy
  <2>7. CASE ReadPolicies(c)
    BY <2>3, <2>7, Zenon DEF ReadPolicies
  <2>8. CASE Each(c)
    <3>1. ASSUME NEW row \in call[c].then,
                 Go(c, IF Observed(row[1]) < SoftThreshold(row[2])
                       THEN [Idle EXCEPT !.pc = "each", !.then = call[c].then \ {row}]
                       ELSE [[Idle EXCEPT !.pc = "each", !.then = call[c].then \ {row}]
                               EXCEPT !.pc = "soft", !.scope = row[1],
                                      !.hit = Observed(row[1]) >= row[2]])
          PROVE  Moved
      <4> DEFINE rest == [Idle EXCEPT !.pc = "each", !.then = call[c].then \ {row}]
                 soft == [rest EXCEPT !.pc = "soft", !.scope = row[1],
                                      !.hit = Observed(row[1]) >= row[2]]
      <4>1. Booked(rest, approvals) /\ Booked(soft, approvals)
        BY BookedForms, Zenon
      <4>2. Go(c, rest) \/ Go(c, soft)
        BY <3>1
      <4> HIDE DEF rest, soft
      <4> QED BY <4>1, <4>2
    <3>2. \/ Go(c, Idle)
          \/ \E row \in call[c].then :
                 Go(c, IF Observed(row[1]) < SoftThreshold(row[2])
                       THEN [Idle EXCEPT !.pc = "each", !.then = call[c].then \ {row}]
                       ELSE [[Idle EXCEPT !.pc = "each", !.then = call[c].then \ {row}]
                               EXCEPT !.pc = "soft", !.scope = row[1],
                                      !.hit = Observed(row[1]) >= row[2]])
      BY <2>8, Zenon DEF Each
    <3> HIDE DEF Moved
    <3> QED BY <2>5, <3>1, <3>2, Zenon
  <2>9. CASE FindSoft(c)
    BY <2>1, <2>2, <2>6, <2>9, Zenon DEF FindSoft, GoAfterSoft
  <2>10. CASE FindHard(c)
    BY <2>1, <2>10, Zenon DEF FindHard
  <2>11. CASE Conflict(c)
    BY <2>5, <2>11, Zenon DEF Conflict
  <2>12. CASE PauseForBudget(c)
    BY <2>1, <2>12, Zenon DEF PauseForBudget
  <2>13. CASE Scan(c)
    <3>1. Booked([call[c] EXCEPT !.pc = "cancel", !.todo = Scanned(call[c].scope)], approvals)
      BY BookedForms, Zenon
    <3> QED BY <2>13, <3>1, Zenon DEF Scan
  <2>14. CASE Cancel(c)
    <3>1. ASSUME NEW S, Go(c, [call[c] EXCEPT !.todo = S]) PROVE Moved
      <4>1. Booked([call[c] EXCEPT !.todo = S], approvals)
        BY BookedForms, Zenon
      <4> QED BY <3>1, <4>1, Zenon
    <3>2. \/ NextPolicy(c)
          \/ \E r \in call[c].todo : Go(c, [call[c] EXCEPT !.todo = call[c].todo \ {r}])
      BY <2>14 DEF Cancel
    <3> HIDE DEF Moved
    <3> QED BY <2>6, <3>1, <3>2, Zenon
  <2>15. CASE UpsertObserve(c)
    <3>1. CASE Forget(c, "lift")
      BY <2>2, <3>1
    <3>2. CASE Go(c, [call[c] EXCEPT !.pc = "soft", !.amount = 0, !.hit = TRUE])
      <4>1. Booked([call[c] EXCEPT !.pc = "soft", !.amount = 0, !.hit = TRUE], approvals)
        BY BookedForms, Zenon
      <4> QED BY <3>2, <4>1, Zenon
    <3> QED BY <2>15, <3>1, <3>2 DEF UpsertObserve
  <2>16. CASE Lift(c)
    BY <2>1, <2>16, Zenon DEF Lift
  <2>17. CASE \E a \in Agents : BoardPauses(c, a)
    BY <2>4, <2>17, Zenon DEF BoardPauses, Start
  <2>18. CASE \E i \in DOMAIN incidents : \E amount \in Amounts : Raise(c, i, amount)
    <3>1. PICK i \in DOMAIN incidents : \E amount \in Amounts : Raise(c, i, amount)
      BY <2>18
    <3>2. PICK amount \in Amounts : Raise(c, i, amount)
      BY <3>1
    <3>3. Booked([Idle EXCEPT !.pc = "raise", !.scope = incidents[i].scope, !.amount = amount],
                 approvals)
      BY BookedForms, Zenon
    <3> QED BY <3>2, <3>3, Zenon DEF Raise, Start
  <2> QED BY <2>7, <2>8, <2>9, <2>10, <2>11, <2>12, <2>13, <2>14, <2>15, <2>16, <2>17, <2>18
<1> QED BY <1>1, <1>2, CallMoves

\* A cost event is booked while the sum of all is below the bound, and no part of
\* a sum is greater than it.
LEMMA CostEventRows ==
  ASSUME Inv, Rows, NEW c \in Calls, NEW a \in Agents, CostEvent(c, a)
  PROVE  Rows'
<1> DEFINE cents == [e \in Agents \X Months |-> spent[e[1]][e[2]]]
           total == MapThenSumSet(LAMBDA e : spent[e[1]][e[2]], Agents \X Months)
<1>0. IsFiniteSet(Agents \X Months)
  <2>1. IsFiniteSet(Months)
    BY FS_Interval, BoundsAssumption DEF Months
  <2> QED BY <2>1, FS_Product, ScopesAssumption
<1>1. \A b \in Agents, m \in Months : spent[b][m] \in 0..MaxSpent
  BY DEF Rows
<1>2. \E g : total = g[Agents \X Months] /\ Sums(g, cents, Agents \X Months)
  <2> DEFINE parts == Agents \X Months
             Adds(g) == g = [s \in SUBSET parts |->
                              IF s = {} THEN 0
                              ELSE spent[Pick(s)[1]][Pick(s)[2]] + g[s \ {Pick(s)}]]
  <2>1. total = (CHOOSE g : Adds(g))[parts]
    BY DEF MapThenSumSet, MapThenFoldSet, Pick
  <2>2. ASSUME NEW g PROVE Adds(g) <=> Sums(g, cents, parts)
    <3>1. \A s \in SUBSET parts :
            s # {} => cents[Pick(s)] = spent[Pick(s)[1]][Pick(s)[2]]
      BY DEF Pick
    <3>2. \A s \in SUBSET parts :
            (IF s = {} THEN 0 ELSE spent[Pick(s)[1]][Pick(s)[2]] + g[s \ {Pick(s)}])
              = IF s = {} THEN 0 ELSE cents[Pick(s)] + g[s \ {Pick(s)}]
      BY <3>1
    <3> HIDE DEF cents, parts
    <3> QED BY <3>2 DEF Sums
  <2>3. \E g : Sums(g, cents, parts)
    BY <1>0, SumsExist
  <2> HIDE DEF Adds, cents, total, parts
  <2>4. Adds(CHOOSE g : Adds(g))
    BY <2>2, <2>3
  <2> QED BY <2>1, <2>2, <2>4 DEF parts
<1>3. spent[a][month] < MaxSpent
  <2>1. \A e \in Agents \X Months : cents[e] \in Nat
    BY <1>1, BoundsAssumption
  <2>2. <<a, month>> \in Agents \X Months
    BY DEF Rows
  <2>3. cents[<<a, month>>] = spent[a][month]
    BY <2>2
  <2>4. total < MaxSpent
    BY DEF CostEvent
  <2> HIDE DEF cents, total
  <2>5. total \in Nat /\ cents[<<a, month>>] <= total
    BY <1>0, <1>2, <2>1, <2>2, SumBounds
  <2> QED BY <2>1, <2>2, <2>3, <2>4, <2>5, BoundsAssumption
<1>4. spent' \in [Agents -> [Months -> 0..MaxSpent]]
  BY <1>1, <1>3, BoundsAssumption DEF CostEvent, Rows
<1>5. Go(c, [Idle EXCEPT !.pc = "policies", !.scope = a])
  BY DEF CostEvent, Start
<1>6. UNCHANGED <<month, limit, incidents, approvals>>
  BY DEF CostEvent, incidentRows
<1>7. approvals' \in Nat /\ approvals <= approvals'
  BY <1>6 DEF Inv, Shape
<1>8. \A d \in Calls : Booked(call'[d], approvals')
  <2>1. Booked([Idle EXCEPT !.pc = "policies", !.scope = a], approvals')
    BY <1>6, BookedForms, Zenon
  <2> QED BY <1>5, <1>7, <2>1, BookedStays
<1> QED BY <1>4, <1>6, <1>8 DEF Rows

\* Rows that stay, and rows that are added, keep their months and approvals.
LEMMA InsertedRows ==
  ASSUME Inv, Rows, NEW s, NEW kind, NEW ap \in Nat, ap <= approvals, Insert(s, kind, ap),
         UNCHANGED approvals
  PROVE  \A i \in DOMAIN incidents' :
           incidents'[i].month \in Months /\ incidents'[i].approval <= approvals'
<1> DEFINE new == [scope |-> s, month |-> month, kind |-> kind, status |-> "open",
                   approval |-> ap]
<1>1. incidents' = Append(incidents, new) /\ incidents \in Seq(IncidentRow)
  BY DEF Insert, Inv, Shape
<1>2. ASSUME NEW i \in DOMAIN incidents'
      PROVE  incidents'[i] = new \/ (i \in DOMAIN incidents /\ incidents'[i] = incidents[i])
  <2> HIDE DEF new
  <2> QED BY <1>1, <1>2
<1>3. new.month \in Months /\ new.approval <= approvals
  BY DEF Rows
<1> HIDE DEF new
<1> QED BY <1>2, <1>3 DEF Rows

LEMMA RestatedRows ==
  ASSUME Inv, Rows, DOMAIN incidents' = DOMAIN incidents, approvals' = approvals,
         \A i \in DOMAIN incidents :
           incidents'[i] \in {incidents[i], [incidents[i] EXCEPT !.status = "resolved"],
                              [incidents[i] EXCEPT !.status = "dismissed"]}
  PROVE  \A i \in DOMAIN incidents' :
           incidents'[i].month \in Months /\ incidents'[i].approval <= approvals'
<1> SUFFICES ASSUME NEW i \in DOMAIN incidents
             PROVE  /\ incidents'[i].month = incidents[i].month
                    /\ incidents'[i].approval = incidents[i].approval
  BY DEF Rows
<1>1. incidents[i] \in IncidentRow
  BY ElementOfSeq DEF Inv, Shape
<1> QED BY <1>1 DEF IncidentRow

\* A step of a call that writes incidents and approvals.
LEMMA IncidentStep ==
  ASSUME Inv, Rows, NEW c \in Calls, NEW f, Go(c, f), Booked(f, approvals'),
         UNCHANGED <<month, spent, limit>>,
         approvals' \in Nat, approvals <= approvals', approvals' <= MaxIncidents,
         \A i \in DOMAIN incidents' :
           incidents'[i].month \in Months /\ incidents'[i].approval <= approvals'
  PROVE  Rows'
<1>1. \A d \in Calls : Booked(call'[d], approvals')
  BY BookedStays
<1> QED BY <1>1 DEF Rows

LEMMA InsertRows ==
  ASSUME Inv, Rows, NEW c \in Calls, InsertSoft(c) \/ InsertHard(c)
  PROVE  Rows'
<1>1. UNCHANGED <<month, spent, limit, approvals>> /\ approvals \in Nat /\ approvals <= MaxIncidents
  BY DEF InsertSoft, InsertHard, policyRows, Inv, Shape, Rows
<1>2. call[c].ref \in Nat /\ call[c].ref <= approvals
  BY DEF Rows, Booked
<1>3. \A i \in DOMAIN incidents' :
        incidents'[i].month \in Months /\ incidents'[i].approval <= approvals'
  <2>1. CASE InsertSoft(c)
    <3>1. Insert(call[c].scope, "soft", 0) /\ 0 <= approvals
      BY <1>1, <2>1 DEF InsertSoft
    <3> QED BY <1>1, <3>1, InsertedRows
  <2>2. CASE InsertHard(c)
    <3>1. Insert(call[c].scope, "hard", call[c].ref)
      BY <2>2 DEF InsertHard
    <3> QED BY <1>1, <1>2, <3>1, InsertedRows
  <2> QED BY <2>1, <2>2
<1>4. \E f : Go(c, f) /\ Booked(f, approvals')
  <2>1. ASSUME NEW pc, Forget(c, pc) PROVE \E f : Go(c, f) /\ Booked(f, approvals)
    <3>1. Booked([call[c] EXCEPT !.pc = pc, !.amount = 0, !.hit = FALSE, !.ref = 0], approvals)
      BY BookedForms, Zenon
    <3> QED BY <2>1, <3>1, Zenon DEF Forget
  <2>2. ASSUME NextPolicy(c) PROVE \E f : Go(c, f) /\ Booked(f, approvals)
    <3>1. Booked([Idle EXCEPT !.pc = "each", !.then = call[c].then], approvals)
      BY BookedForms, Zenon
    <3> QED BY <2>2, <3>1, Zenon DEF NextPolicy
  <2>3. NextPolicy(c) \/ Forget(c, "hard") \/ Forget(c, "pause")
    BY Zenon DEF InsertSoft, InsertHard, GoAfterSoft
  <2> QED BY <1>1, <2>1, <2>2, <2>3, Zenon
<1> QED BY <1>1, <1>3, <1>4, IncidentStep

LEMMA InsertApprovalRows ==
  ASSUME Inv, Rows, NEW c \in Calls, InsertApproval(c)
  PROVE  Rows'
<1> DEFINE f == [call[c] EXCEPT !.pc = "hardInsert", !.ref = approvals + 1]
<1>1. /\ UNCHANGED <<month, spent, limit, incidents>> /\ Go(c, f)
      /\ approvals' = approvals + 1 /\ approvals < MaxIncidents
      /\ approvals \in Nat /\ MaxIncidents \in Nat
  BY BoundsAssumption DEF InsertApproval, policyRows, Inv, Shape
<1>2. approvals' \in Nat /\ approvals <= approvals' /\ approvals' <= MaxIncidents
  BY <1>1
<1>3. Booked(f, approvals')
  BY <1>1, CallsTyped DEF Inv, CallRecord, Rows, Booked
<1>4. \A i \in DOMAIN incidents' :
        incidents'[i].month \in Months /\ incidents'[i].approval <= approvals'
  <2> SUFFICES ASSUME NEW i \in DOMAIN incidents PROVE incidents[i].approval <= approvals'
    BY <1>1 DEF Rows
  <2>1. incidents[i].approval \in Nat
    <3>1. incidents[i] \in IncidentRow
      BY ElementOfSeq DEF Inv, Shape
    <3> QED BY <3>1 DEF IncidentRow
  <2>2. incidents[i].approval <= approvals
    BY DEF Rows
  <2> QED BY <1>1, <2>1, <2>2
<1> HIDE DEF f
<1> QED BY <1>1, <1>2, <1>3, <1>4, IncidentStep

LEMMA ResolveRows ==
  ASSUME Inv, Rows, NEW c \in Calls, ResolveSoft(c) \/ Resolve(c)
  PROVE  Rows'
<1>1. /\ UNCHANGED <<month, spent, limit, approvals>>
      /\ approvals \in Nat /\ approvals <= approvals /\ approvals <= MaxIncidents
  BY DEF ResolveSoft, Resolve, policyRows, Inv, Shape, Rows
<1>2. \A i \in DOMAIN incidents' :
        incidents'[i].month \in Months /\ incidents'[i].approval <= approvals'
  BY <1>1, RestatedRows DEF ResolveSoft, Resolve
<1>3. \E f : Go(c, f) /\ Booked(f, approvals')
  <2>1. /\ Booked([call[c] EXCEPT !.pc = "hardFind"], approvals)
        /\ Booked(Idle, approvals)
    BY BookedForms, Zenon
  <2>2. Go(c, [call[c] EXCEPT !.pc = "hardFind"]) \/ Go(c, Idle)
    BY Zenon DEF ResolveSoft, Resolve, To
  <2> QED BY <1>1, <2>1, <2>2, Zenon
<1> QED BY <1>1, <1>2, <1>3, IncidentStep

LEMMA LimitRows ==
  ASSUME Inv, Rows, NEW c \in Calls,
         RaiseWrite(c) \/ \E s \in Scopes, amount \in Amounts : Upsert(c, s, amount)
  PROVE  Rows'
<1>1. UNCHANGED <<month, spent, incidents, approvals>> /\ approvals \in Nat
  <2>1. UNCHANGED <<month, spent, incidentRows>>
    BY Zenon DEF RaiseWrite, Upsert
  <2> QED BY <2>1 DEF incidentRows, Inv, Shape
<1>2. \E f : Go(c, f) /\ Booked(f, approvals)
  <2>1. CASE RaiseWrite(c)
    <3>1. Booked([call[c] EXCEPT !.pc = "lift", !.amount = 0, !.hit = FALSE, !.ref = 0], approvals)
      BY BookedForms, Zenon
    <3> QED BY <2>1, <3>1, Zenon DEF RaiseWrite, Forget
  <2>2. ASSUME NEW s \in Scopes, NEW amount \in Amounts, Upsert(c, s, amount)
        PROVE  \E f : Go(c, f) /\ Booked(f, approvals)
    <3>1. Booked([Idle EXCEPT !.pc = "upserted", !.scope = s, !.amount = amount], approvals)
      BY BookedForms, Zenon
    <3> QED BY <2>2, <3>1, Zenon DEF Upsert, Start
  <2> QED BY <2>1, <2>2, Zenon
<1>3. limit' \in [Scopes -> Amounts \cup {0}]
  <2>1. call[c].amount \in Amounts \cup {0}
    BY DEF Rows, Booked
  <2>2. limit \in [Scopes -> Amounts \cup {0}]
    BY DEF Rows
  <2>3. CASE RaiseWrite(c)
    BY <2>1, <2>2, <2>3 DEF RaiseWrite
  <2>4. ASSUME NEW s \in Scopes, NEW amount \in Amounts, Upsert(c, s, amount)
        PROVE  limit' \in [Scopes -> Amounts \cup {0}]
    <3>1. limit' = [limit EXCEPT ![s] = amount]
      BY <2>4, Zenon DEF Upsert
    <3> QED BY <2>2, <3>1
  <2> QED BY <2>3, <2>4, Zenon
<1>4. \A d \in Calls : Booked(call'[d], approvals')
  <2>1. approvals' \in Nat /\ approvals <= approvals'
    BY <1>1
  <2> QED BY <1>1, <1>2, <2>1, BookedStays
<1> QED BY <1>1, <1>3, <1>4 DEF Rows

LEMMA RowsStep ==
  ASSUME Inv, Rows, [Next]_vars
  PROVE  Rows'
<1>1. CASE UNCHANGED <<month, spent, limit, incidents, approvals, call>>
  BY <1>1 DEF Rows
<1>2. ASSUME NEW c \in Calls, Evaluation(c) PROVE Rows'
  BY <1>2, CallOnlySteps, InsertRows, InsertApprovalRows, ResolveRows DEF Evaluation
<1>3. ASSUME NEW c \in Calls, Resolution(c) PROVE Rows'
  BY <1>3, CallOnlySteps, ResolveRows, LimitRows DEF Resolution
<1>4. ASSUME NEW c \in Calls, Request(c) PROVE Rows'
  <2>1. CASE \E i \in DOMAIN incidents : Dismiss(c, i)
    <3>1. /\ UNCHANGED <<month, spent, limit, approvals, call>>
          /\ \A i \in DOMAIN incidents' :
               incidents'[i].month \in Months /\ incidents'[i].approval <= approvals'
      <4>1. PICK k \in DOMAIN incidents : Dismiss(c, k)
        BY <2>1
      <4>2. UNCHANGED <<month, spent, limit, approvals, call>>
        BY <4>1 DEF Dismiss, policyRows
      <4>3. /\ DOMAIN incidents' = DOMAIN incidents
            /\ \A i \in DOMAIN incidents :
                 incidents'[i] \in {incidents[i], [incidents[i] EXCEPT !.status = "dismissed"]}
        <5>1. incidents = [i \in DOMAIN incidents |-> incidents[i]]
          BY DEF Inv, Shape
        <5> QED BY <4>1, <5>1 DEF Dismiss
      <4> QED BY <4>2, <4>3, RestatedRows
    <3> QED BY <3>1 DEF Rows
  <2>2. CASE \E a \in Agents : CostEvent(c, a)
    BY <2>2, CostEventRows
  <2>3. CASE \E a \in Agents : BoardPauses(c, a)
    BY <2>3, CallOnlySteps
  <2>4. CASE \E s \in Scopes, amount \in Amounts : Upsert(c, s, amount)
    BY <2>4, LimitRows
  <2>5. CASE \E i \in DOMAIN incidents : \E amount \in Amounts : Raise(c, i, amount)
    BY <2>5, CallOnlySteps
  <2> QED BY <1>4, <2>1, <2>2, <2>3, <2>4, <2>5 DEF Request
<1>5. ASSUME NEW a \in Agents, BoardResumes(a) PROVE Rows'
  BY <1>1, <1>5 DEF BoardResumes, policyRows, incidentRows
<1>6. ASSUME NEW r \in Runs, RunStep(r) PROVE Rows'
  BY <1>1, <1>6 DEF RunStep, Admit, QueueRun, CheckAgent, CheckBudgets, Claim, RunEnds,
                    policyRows, incidentRows
<1>7. CASE NewMonth
  <2>1. UNCHANGED <<spent, limit, incidents, approvals, call>>
    BY <1>7 DEF NewMonth, incidentRows
  <2>2. month' \in Months
    BY <1>7, BoundsAssumption DEF NewMonth, Rows, Months
  <2> QED BY <2>1, <2>2 DEF Rows
<1>8. CASE UNCHANGED vars
  BY <1>1, <1>8 DEF vars
<1> QED BY <1>2, <1>3, <1>4, <1>5, <1>6, <1>7, <1>8 DEF Next

LEMMA RowsInit ==
  ASSUME Init
  PROVE  Rows
<1>1. Booked(Idle, 0)
  BY DEF Booked, Idle
<1>2. 0 \in Months /\ 0 \in 0..MaxSpent /\ 0 <= MaxIncidents
  BY BoundsAssumption DEF Months
<1>3. DOMAIN incidents = {}
  BY DEF Init
<1> QED BY <1>1, <1>2, <1>3 DEF Init, Rows

\* The months, the amounts and the number of cost events stay within what the
\* board sets and the bounds, and no incident refers to an approval that is yet
\* to be inserted.
THEOREM TypeCorrect == Spec => []TypeOK
<1>1. Spec => [](Inv /\ Rows)
  <2>1. Init => Inv /\ Rows
    BY InitHolds, RowsInit
  <2>2. Inv /\ Rows /\ [Next]_vars => (Inv /\ Rows)'
    BY StepKeeps, RowsStep
  <2> QED BY <2>1, <2>2, PTL DEF Spec
<1>2. Inv /\ Rows => TypeOK
  <2> SUFFICES ASSUME Inv, Rows PROVE TypeOK
    OBVIOUS
  <2>1. incidents \in Seq(Incident)
    <3>1. incidents \in Seq(IncidentRow)
      BY DEF Inv, Shape
    <3>2. \A i \in DOMAIN incidents : incidents[i] \in Incident
      <4> SUFFICES ASSUME NEW i \in DOMAIN incidents PROVE incidents[i] \in Incident
        OBVIOUS
      <4>1. incidents[i] \in IncidentRow /\ incidents[i].month \in Months
        BY <3>1, ElementOfSeq DEF Rows
      <4> QED BY <4>1 DEF IncidentRow, Incident
    <3>3. Len(incidents) \in Nat /\ incidents = [i \in 1..Len(incidents) |-> incidents[i]]
          /\ DOMAIN incidents = 1..Len(incidents)
      BY <3>1
    <3> QED BY <3>2, <3>3, IsASeq
  <2>2. \A c \in Calls : call[c].scope \in Scopes /\ call[c].ref \in 0..approvals
    <3> SUFFICES ASSUME NEW c \in Calls
                 PROVE  call[c].scope \in Scopes /\ call[c].ref \in 0..approvals
      OBVIOUS
    <3> QED BY CallsTyped DEF Inv, Shape, CallRecord, Rows, Booked
  <2>3. approvals \in 0..MaxIncidents
    BY BoundsAssumption DEF Inv, Shape, Rows
  <2> QED BY <2>1, <2>2, <2>3 DEF Inv, Shape, Rows, TypeOK
<1> QED BY <1>1, <1>2, PTL

\* Cost events, policy changes and resolutions in any order leave at most one
\* incident of a policy, window and threshold that is not dismissed.
THEOREM OneIncident == Spec => []OneLiveIncident
<1>1. Inv => OneLiveIncident
  BY DEF Inv
<1> QED BY <1>1, Invariance, PTL

\* A scope that is paused for its budget has a hard incident.
THEOREM StopAnnounced == Spec => []StopIsAnnounced
<1>1. Inv => StopIsAnnounced
  BY DEF Inv
<1> QED BY <1>1, Invariance, PTL

\* A run that is running in a stopped scope is about to be cancelled by a call
\* that stops the scope.
THEOREM StopIsComplete == Spec => []StoppedScopeIsIdle
<1>1. Inv => StoppedScopeIsIdle
  BY DEF Inv, PassedAreStopped, StoppedScopeIsIdle, Passed
<1> QED BY <1>1, Invariance, PTL

LEMMA ManualStays ==
  ASSUME Inv, [Next]_vars, NEW a \in Agents, hold[a] = "manual", hold'[a] # "manual"
  PROVE  BoardResumes(a)
<1>1. a \in Scopes /\ a # Company
  BY ScopesAssumption DEF Scopes
<1>2. hold' # hold
  OBVIOUS
<1>3. ~\E r \in Runs : RunStep(r)
  BY <1>2 DEF RunStep, Admit, QueueRun, CheckAgent, CheckBudgets, Claim, RunEnds
<1>4. ASSUME NEW c \in Calls, Evaluation(c) PROVE FALSE
  <2>1. PauseForBudget(c)
    BY <1>2, <1>4 DEF Evaluation, ReadPolicies, Each, FindSoft, InsertSoft, ResolveSoft, FindHard,
                      InsertApproval, InsertHard, Conflict, Scan, Cancel
  <2> QED BY <2>1, <1>1 DEF PauseForBudget, PauseScope, Inv, Shape
<1>5. ASSUME NEW c \in Calls, Resolution(c) PROVE FALSE
  <2>1. Lift(c)
    BY <1>2, <1>5 DEF Resolution, UpsertObserve, Resolve, RaiseWrite
  <2> QED BY <2>1, <1>1 DEF Lift, LiftHold, Inv, Shape
<1>6. ASSUME NEW c \in Calls, Request(c) PROVE FALSE
  <2>1. PICK b \in Agents : BoardPauses(c, b)
    BY <1>2, <1>6 DEF Request, CostEvent, Upsert, Raise, Dismiss
  <2> QED BY <2>1, <1>1 DEF BoardPauses, Inv, Shape
<1>7. PICK b \in Agents : BoardResumes(b)
  BY <1>2, <1>3, <1>4, <1>5, <1>6 DEF Next, NewMonth, vars
<1>8. b = a
  BY <1>1, <1>7 DEF BoardResumes, Inv, Shape
<1> QED BY <1>7, <1>8

\* Only the board's resumption of an agent ends the board's pause of it.
THEOREM ManualPauseStays == Spec => BoardPauseStays
<1>1. Inv /\ [Next]_vars =>
        [\A a \in Agents : hold[a] = "manual" /\ hold'[a] # "manual" => BoardResumes(a)]_vars
  BY ManualStays
<1> QED BY <1>1, Invariance, PTL DEF Spec, BoardPauseStays

=============================================================================
