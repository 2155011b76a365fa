------------------------ MODULE IssueCheckoutProofs -------------------------
(***************************************************************************)
(* IssueCheckout for every set of agents, runs and requests.  The relation *)
(* of the two columns a run holds an issue by, HolderHasLock, is inductive *)
(* with the types; from it every step either keeps the owner of the issue  *)
(* or is a step of ExclusiveLease.                                         *)
(***************************************************************************)
EXTENDS IssueCheckout, TLAPS

Inv == TypeOK /\ HolderHasLock

\* What a step does to the columns a run holds the issue by: the heartbeat
\* service writes execRun, the calls leave it or take both, or drop the checkout.
RunsWrite ==
  /\ UNCHANGED <<status, checkoutRun>>
  /\ \/ UNCHANGED <<execRun, phase>>
     \/ \E r \in Runs : /\ LockFree /\ ~Ended(r) /\ execRun' = r
                        /\ phase' = [phase EXCEPT ![r] = "active"]
     \/ \E r \in Runs : /\ phase[r] = "new" /\ UNCHANGED execRun
                        /\ phase' = [phase EXCEPT ![r] = "active"]
     \/ \E r \in Runs : /\ phase[r] = "active" /\ UNCHANGED execRun
                        /\ phase' = [phase EXCEPT ![r] = "ended"]
     \/ Ended(execRun) /\ execRun' = None /\ UNCHANGED phase

TakesBoth ==
  \E r \in Runs \cup {None} :
    /\ TakeIssue(r) /\ status' = "in_progress" /\ UNCHANGED phase
    /\ checkoutRun = None \/ Ended(checkoutRun) \/ execRun \in {None, r}

GivesBack ==
  /\ checkoutRun' = None /\ UNCHANGED <<execRun, phase>>

KeepsCheckout ==
  /\ UNCHANGED <<checkoutRun, execRun, phase>>
  /\ status' = status \/ status' = "in_progress"

\* The calls in progress stay well typed when one of them moves.
LEMMA CallMoves ==
  ASSUME TypeOK, NEW p \in Callers, NEW c \in Calls,
         call' = [call EXCEPT ![p] = c],
         c.pc \in {"adoptFree", "adoptStale", "assert"} => p \in Runs
  PROVE  /\ call' \in [Callers -> Calls]
         /\ \A q \in Callers : call'[q].pc \in {"adoptFree", "adoptStale", "assert"} => q \in Runs
BY DEF TypeOK

\* So they do when one of them ends, or goes to another step.
LEMMA CallAnswers ==
  ASSUME TypeOK, NEW p \in Callers, Answer(p)
  PROVE  /\ call' \in [Callers -> Calls]
         /\ \A q \in Callers : call'[q].pc \in {"adoptFree", "adoptStale", "assert"} => q \in Runs
<1>1. Idle \in Calls /\ Idle.pc = "idle"
  BY DEF Idle, Calls, NoPatch
<1> QED
  BY <1>1, CallMoves DEF Answer

LEMMA CallGoesTo ==
  ASSUME TypeOK, NEW p \in Callers,
         NEW pc \in {"adoptFree", "adoptStale", "read", "write"},
         pc \in {"adoptFree", "adoptStale"} => p \in Runs,
         \/ GoTo(p, pc)
         \/ \E old \in Runs : call' = [call EXCEPT ![p].pc = pc, ![p].old = old]
         \/ \E clear \in BOOLEAN : call' = [call EXCEPT ![p].pc = pc, ![p].clear = clear]
  PROVE  /\ call' \in [Callers -> Calls]
         /\ \A q \in Callers : call'[q].pc \in {"adoptFree", "adoptStale", "assert"} => q \in Runs
<1>1. call \in [Callers -> Calls] /\ call[p] \in Calls
  BY DEF TypeOK
<1>2. CASE GoTo(p, pc)
  <2> DEFINE c == [call[p] EXCEPT !.pc = pc]
  <2>1. c \in Calls /\ c.pc = pc
    BY <1>1 DEF Calls
  <2>2. call' = [call EXCEPT ![p] = c]
    BY <1>1, <1>2 DEF GoTo
  <2> QED
    BY <2>1, <2>2, CallMoves
<1>3. ASSUME NEW old \in Runs, call' = [call EXCEPT ![p].pc = pc, ![p].old = old]
      PROVE  /\ call' \in [Callers -> Calls]
             /\ \A q \in Callers : call'[q].pc \in {"adoptFree", "adoptStale", "assert"} => q \in Runs
  <2> DEFINE c == [call[p] EXCEPT !.pc = pc, !.old = old]
  <2>1. c \in Calls /\ c.pc = pc
    BY <1>1 DEF Calls
  <2>2. call' = [call EXCEPT ![p] = c]
    BY <1>1, <1>3
  <2> QED
    BY <2>1, <2>2, CallMoves
<1>4. ASSUME NEW clear \in BOOLEAN, call' = [call EXCEPT ![p].pc = pc, ![p].clear = clear]
      PROVE  /\ call' \in [Callers -> Calls]
             /\ \A q \in Callers : call'[q].pc \in {"adoptFree", "adoptStale", "assert"} => q \in Runs
  <2> DEFINE c == [call[p] EXCEPT !.pc = pc, !.clear = clear]
  <2>1. c \in Calls /\ c.pc = pc
    BY <1>1 DEF Calls
  <2>2. call' = [call EXCEPT ![p] = c]
    BY <1>1, <1>4
  <2> QED
    BY <2>1, <2>2, CallMoves
<1> QED
  BY <1>2, <1>3, <1>4

\* The same for a call that begins.
LEMMA CallBegins ==
  ASSUME TypeOK, NEW p \in Callers,
         NEW c \in Calls, call' = [call EXCEPT ![p] = c],
         c.pc = "assert" => p \in Runs, c.pc \in {"assert", "read", "reread"}
  PROVE  /\ call' \in [Callers -> Calls]
         /\ \A q \in Callers : call'[q].pc \in {"adoptFree", "adoptStale", "assert"} => q \in Runs
BY CallMoves

-----------------------------------------------------------------------------
(* Types *)

LEMMA TypeInit == Init => TypeOK
BY DEF Init, TypeOK, Idle, Calls, NoPatch, Statuses

LEMMA TypeStep == TypeOK /\ [Next]_vars => TypeOK'
<1> SUFFICES ASSUME TypeOK, [Next]_vars PROVE TypeOK'
  OBVIOUS
<1> DEFINE CallsTyped == /\ call' \in [Callers -> Calls]
                         /\ \A q \in Callers : call'[q].pc \in {"adoptFree", "adoptStale", "assert"}
                                               => q \in Runs
<1>1. ASSUME NEW r \in Runs, RunStep(r)
      PROVE  TypeOK'
  BY <1>1 DEF RunStep, RunStarts, TakeLock, RunEnds, ReleaseLock, TypeOK, issue
<1>2. ASSUME NEW p \in Callers, NEW a \in Agents, NEW e \in Expected, Checkout(p, a, e)
      PROVE  TypeOK'
  <2>1. CASE UNCHANGED call
    BY <1>2, <2>1 DEF Checkout, TypeOK, TakeIssue, Self, issue, Statuses
  <2>2. CASE /\ call' = [call EXCEPT ![p] = [Idle EXCEPT !.op = "checkout", !.pc = "reread",
                                                         !.agent = a]]
             /\ UNCHANGED <<issue, phase>>
    <3> DEFINE c == [Idle EXCEPT !.op = "checkout", !.pc = "reread", !.agent = a]
    <3>1. c \in Calls /\ c.pc = "reread"
      BY DEF Idle, Calls, NoPatch
    <3>2. CallsTyped
      BY <2>2, <3>1, CallBegins
    <3> QED
      BY <2>2, <3>2 DEF TypeOK, issue
  <2> QED
    BY <1>2, <2>1, <2>2 DEF Checkout
<1>3. ASSUME NEW p \in Callers, Reread(p)
      PROVE  TypeOK'
  <2>1. CallsTyped
    <3>1. CASE GoTo(p, "adoptFree") /\ p \in Runs
      BY <3>1, CallGoesTo
    <3>2. CASE /\ p \in Runs /\ OthersCheckout(p)
               /\ call' = [call EXCEPT ![p].pc = "adoptStale", ![p].old = checkoutRun]
      <4>1. checkoutRun \in Runs
        BY <3>2 DEF OthersCheckout, TypeOK
      <4> QED
        BY <3>2, <4>1, CallGoesTo
    <3>3. CASE Answer(p)
      BY <3>3, CallAnswers
    <3> QED
      BY <1>3, <3>1, <3>2, <3>3 DEF Reread
  <2> QED
    BY <1>3, <2>1 DEF Reread, TypeOK, issue
<1>4. ASSUME NEW p \in Callers, AdoptFree(p)
      PROVE  TypeOK'
  <2>1. CallsTyped
    BY <1>4, CallAnswers DEF AdoptFree
  <2>2. p \in Runs
    BY <1>4 DEF AdoptFree, TypeOK, At
  <2> QED
    BY <1>4, <2>1, <2>2 DEF AdoptFree, TypeOK, TakeIssue
<1>5. ASSUME NEW p \in Callers, AdoptStale(p)
      PROVE  TypeOK'
  <2>1. CallsTyped
    BY <1>5, CallAnswers, CallGoesTo DEF AdoptStale
  <2>2. p \in Runs
    BY <1>5 DEF AdoptStale, TypeOK, At
  <2> QED
    BY <1>5, <2>1, <2>2 DEF AdoptStale, TypeOK, TakeIssue
<1>6. ASSUME NEW p \in Callers, NEW op \in {"update", "release"},
             NEW patch \in Patches \cup {NoPatch}, Request(p, op, patch)
      PROVE  TypeOK'
  <2> DEFINE c == [op |-> op, pc |-> IF p \in Runs /\ InProgressFor(p[1]) THEN "assert" ELSE "read",
                   agent |-> IF p \in Runs THEN p[1] ELSE None, old |-> None,
                   patch |-> patch, clear |-> FALSE]
  <2>1. p \in Runs => p[1] \in Agents
    BY RunsAssumption
  <2>2. /\ c \in Calls /\ c.pc \in {"assert", "read"}
        /\ c.pc = "assert" => p \in Runs
    BY <2>1 DEF Calls
  <2>3. CallsTyped
    BY <1>6, <2>2, CallBegins DEF Request
  <2> QED
    BY <1>6, <2>3 DEF Request, TypeOK, issue
<1>7. ASSUME NEW p \in Callers, AssertOwner(p)
      PROVE  TypeOK'
  <2>1. p \in Runs
    BY <1>7 DEF AssertOwner, TypeOK, At
  <2>2. CallsTyped
    <3>1. CASE GoTo(p, "read")
      BY <3>1, CallGoesTo
    <3>2. CASE /\ OthersCheckout(p)
               /\ call' = [call EXCEPT ![p].pc = "adoptStale", ![p].old = checkoutRun]
      <4>1. checkoutRun \in Runs
        BY <3>2 DEF OthersCheckout, TypeOK
      <4> QED
        BY <2>1, <3>2, <4>1, CallGoesTo
    <3>3. CASE Answer(p)
      BY <3>3, CallAnswers
    <3> QED
      BY <1>7, <3>1, <3>2, <3>3 DEF AssertOwner
  <2> QED
    BY <1>7, <2>2 DEF AssertOwner, TypeOK, issue
<1>8. ASSUME NEW p \in Callers, ReadForUpdate(p)
      PROVE  TypeOK'
  <2> DEFINE clear == Changes(call[p].patch.agent, agent) \/ Changes(call[p].patch.user, user)
  <2>1. clear \in BOOLEAN
    BY DEF Changes
  <2>2. Answer(p) \/ call' = [call EXCEPT ![p].pc = "write", ![p].clear = clear]
    BY <1>8 DEF ReadForUpdate
  <2>3. CallsTyped
    BY <2>1, <2>2, CallAnswers, CallGoesTo
  <2> QED
    BY <1>8, <2>3 DEF ReadForUpdate, TypeOK, issue
<1>9. ASSUME NEW p \in Callers, WriteUpdate(p)
      PROVE  TypeOK'
  <2>1. CallsTyped
    BY <1>9, CallAnswers DEF WriteUpdate
  <2>2. call[p].patch \in Patches \cup {NoPatch}
    BY DEF TypeOK, Calls
  <2>3. call[p].patch \in [status : Statuses \cup {Keep}, agent : Agents \cup {None, Keep},
                           user : Users \cup {None, Keep}]
    BY <2>2, InputsAssumption DEF NoPatch
  <2> QED
    BY <1>9, <2>1, <2>3 DEF WriteUpdate, TypeOK, Patched
<1>10. ASSUME NEW p \in Callers, ReadForRelease(p)
       PROVE  TypeOK'
  <2>1. CallsTyped
    BY <1>10, CallAnswers, CallGoesTo DEF ReadForRelease
  <2> QED
    BY <1>10, <2>1 DEF ReadForRelease, TypeOK, issue
<1>11. ASSUME NEW p \in Callers, WriteRelease(p)
       PROVE  TypeOK'
  <2>1. CallsTyped
    BY <1>11, CallAnswers DEF WriteRelease
  <2> QED
    BY <1>11, <2>1 DEF WriteRelease, TypeOK, Statuses
<1>12. CASE UNCHANGED vars
  BY <1>12 DEF vars, issue, TypeOK
<1> QED
  BY <1>1, <1>2, <1>3, <1>4, <1>5, <1>6, <1>7, <1>8, <1>9, <1>10, <1>11, <1>12
  DEF Next, CallStep

\* Types are invariant, for any agents, runs, patches and number of calls.
THEOREM TypeCorrect == Spec => []TypeOK
BY TypeInit, TypeStep, PTL DEF Spec

-----------------------------------------------------------------------------
(* Ownership *)

LEMMA RunsEffect ==
  ASSUME NEW r \in Runs, RunStep(r)
  PROVE  RunsWrite
BY DEF RunStep, RunStarts, TakeLock, RunEnds, ReleaseLock, RunsWrite, issue

LEMMA CallEffect ==
  ASSUME TypeOK, NEW p \in Callers, CallStep(p)
  PROVE  TakesBoth \/ GivesBack \/ KeepsCheckout
<1>1. ASSUME NEW a \in Agents, NEW e \in Expected, Checkout(p, a, e)
      PROVE  TakesBoth \/ KeepsCheckout
  BY <1>1 DEF Checkout, Wins, TakesBoth, KeepsCheckout, Self, issue
<1>2. ASSUME Reread(p) \/ AssertOwner(p) \/ ReadForUpdate(p) \/ ReadForRelease(p)
      PROVE  KeepsCheckout
  BY <1>2 DEF Reread, AssertOwner, ReadForUpdate, ReadForRelease, KeepsCheckout, issue
<1>3. ASSUME NEW patch, NEW op, Request(p, op, patch)
      PROVE  KeepsCheckout
  BY <1>3 DEF Request, KeepsCheckout, issue
<1>4. ASSUME AdoptFree(p)
      PROVE  TakesBoth \/ KeepsCheckout
  <2>1. p \in Runs
    BY <1>4 DEF AdoptFree, TypeOK, At
  <2> QED
    BY <1>4, <2>1 DEF AdoptFree, InProgressFor, Unclaimed, TakesBoth, KeepsCheckout
<1>5. ASSUME AdoptStale(p)
      PROVE  TakesBoth \/ KeepsCheckout
  <2>1. p \in Runs
    BY <1>5 DEF AdoptStale, TypeOK, At
  <2> QED
    BY <1>5, <2>1 DEF AdoptStale, Stale, InProgressFor, TakesBoth, KeepsCheckout
<1>6. ASSUME WriteUpdate(p)
      PROVE  GivesBack \/ KeepsCheckout
  BY <1>6 DEF WriteUpdate, ClearsCheckout, Patched, GivesBack, KeepsCheckout
<1>7. ASSUME WriteRelease(p)
      PROVE  GivesBack
  BY <1>7 DEF WriteRelease, GivesBack
<1> QED
  BY <1>1, <1>2, <1>3, <1>4, <1>5, <1>6, <1>7 DEF CallStep

\* What any step does to the ownership of the issue.
LEMMA StepEffect ==
  ASSUME TypeOK, [Next]_vars
  PROVE  RunsWrite \/ TakesBoth \/ GivesBack \/ KeepsCheckout
<1>1. CASE UNCHANGED vars
  BY <1>1 DEF vars, issue, KeepsCheckout
<1> QED
  BY <1>1, RunsEffect, CallEffect DEF Next

LEMMA InvInit == Init => Inv
BY TypeInit DEF Init, Inv, HolderHasLock

LEMMA InvStep == Inv /\ [Next]_vars => Inv'
<1> SUFFICES ASSUME Inv, [Next]_vars PROVE Inv'
  OBVIOUS
<1>1. TypeOK /\ TypeOK' /\ HolderHasLock
  BY TypeStep DEF Inv
<1>2. CASE RunsWrite
  BY <1>1, <1>2 DEF Inv, HolderHasLock, RunsWrite, LockFree, Ended, TypeOK
<1>3. CASE TakesBoth
  BY <1>1, <1>3 DEF Inv, HolderHasLock, TakesBoth, TakeIssue, Ended
<1>4. CASE GivesBack \/ KeepsCheckout
  BY <1>1, <1>4 DEF Inv, HolderHasLock, GivesBack, KeepsCheckout, Ended
<1> QED
  BY <1>1, <1>2, <1>3, <1>4, StepEffect

\* An active run that holds a checkout holds the execution lock, and only an
\* issue in progress is checked out, however the calls and the heartbeat
\* service interleave.
THEOREM HolderLocks == Spec => []HolderHasLock
<1>1. Inv => HolderHasLock
  BY DEF Inv
<1> QED
  BY <1>1, InvInit, InvStep, PTL DEF Spec

-----------------------------------------------------------------------------
(* Refinement *)

LEMMA LeaseInit == Init => Lease!Init
BY DEF Init, Lease!Init

LEMMA LeaseStep == Inv /\ [Next]_vars => [Lease!Next]_(Lease!lease)
<1> SUFFICES ASSUME Inv, [Next]_vars PROVE Lease!Next \/ UNCHANGED Lease!lease
  OBVIOUS
<1> DEFINE finished == {r \in Runs : phase[r] = "ended"}
<1>1. TypeOK /\ HolderHasLock
  BY DEF Inv
<1>2. None \notin Runs
  BY NamesAssumption
<1>3. CASE RunsWrite
  <2>1. ASSUME NEW r \in Runs, phase[r] = "active", phase' = [phase EXCEPT ![r] = "ended"]
        PROVE  finished' = finished \cup {r}
    BY <1>1, <2>1 DEF TypeOK
  <2>2. ASSUME NEW r \in Runs, phase[r] # "ended", phase' = [phase EXCEPT ![r] = "active"]
        PROVE  finished' = finished
    BY <1>1, <2>2 DEF TypeOK
  <2>3. \/ finished' = finished
        \/ \E r \in Runs : finished' = finished \cup {r}
    BY <1>3, <2>1, <2>2 DEF RunsWrite, Ended
  <2> QED
    BY <1>3, <2>3 DEF RunsWrite, Lease!Next, Lease!Finish, Lease!lease
<1>4. CASE TakesBoth
  <2>1. PICK r \in Runs \cup {None} :
          /\ checkoutRun' = r /\ UNCHANGED phase
          /\ checkoutRun = None \/ Ended(checkoutRun) \/ execRun \in {None, r}
    BY <1>4 DEF TakesBoth, TakeIssue
  <2>2. finished' = finished
    BY <2>1
  <2>3. CASE r = None
    BY <2>1, <2>2, <2>3 DEF Lease!Next, Lease!GiveUp
  <2>4. CASE r \in Runs /\ checkoutRun \in finished \cup {None}
    BY <2>1, <2>2, <2>4 DEF Lease!Next, Lease!Take
  <2>5. CASE r \in Runs /\ checkoutRun \notin finished \cup {None}
    <3>1. checkoutRun \in Runs /\ ~Ended(checkoutRun)
      BY <1>1, <2>5 DEF TypeOK, Ended
    <3>2. execRun = checkoutRun
      BY <1>1, <1>2, <3>1 DEF HolderHasLock
    <3>3. checkoutRun' = checkoutRun
      BY <1>2, <2>1, <3>1, <3>2
    <3> QED
      BY <2>2, <3>3 DEF Lease!lease
  <2> QED
    BY <2>3, <2>4, <2>5
<1>5. CASE GivesBack
  BY <1>5 DEF GivesBack, Lease!Next, Lease!GiveUp
<1>6. CASE KeepsCheckout
  BY <1>6 DEF KeepsCheckout, Lease!lease
<1> QED
  BY <1>1, <1>3, <1>4, <1>5, <1>6, StepEffect

\* Atomic ownership: checkouts, adoptions, updates, releases and the heartbeat
\* service together implement the exclusive lease of the issue.
THEOREM Atomic == Spec => LeaseSpec
BY InvInit, InvStep, LeaseInit, LeaseStep, PTL DEF Spec, LeaseSpec, Lease!Spec

=============================================================================
