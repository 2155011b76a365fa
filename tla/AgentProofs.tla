---------------------------- MODULE AgentProofs ----------------------------
(***************************************************************************)
(* Theorems about agents, in two parts.                                    *)
(*                                                                         *)
(* AgentLifecycle, for every set of handlers and runs and any number of    *)
(* crashes and revisions.  Decisions are counted against what is stored:   *)
(* an approval is decided exactly when one more decision was applied than  *)
(* was overwritten.                                                        *)
(*                                                                         *)
(* AgentStartLock, for every set of agents, requests and runs, any number  *)
(* of slots and any nesting of calls.  A call has a place in its process:  *)
(* the depth it was entered at.  Only the innermost call of a process      *)
(* moves, so a call that has an agent's turn is the only one that has it,  *)
(* and what it picked stays within the free slots and in order until it    *)
(* has claimed it.                                                         *)
(***************************************************************************)
EXTENDS AgentLifecycle, AgentStartLock, FiniteSetTheorems, TLAPS

Approved == {p \in Users : At(p, "effect", "approved")}

\* Decisions applied, overwritten and under way agree with the approval's status.
DecisionsCounted ==
  /\ applied = reopened + (IF approval \in Decision THEN 1 ELSE 0)
  /\ IsFiniteSet(Approved)
  /\ created + Cardinality(Approved) <= applied

\* The approval of the hire that is under way is not there yet.
HireComesFirst ==
  /\ \A p \in Users : call[p].pc = "hire" => approval = "none" /\ payload = "agent"
  /\ \A p, q \in Users : call[p].pc = "hire" /\ call[q].pc = "hire" => p = q
  /\ approval = "none" => \A p \in Users : call[p].pc \in {"idle", "hire", "write"}

\* Whoever is about to write the status of a terminated agent is late.
WritersAreLate ==
  agent = "terminated" =>
    /\ \A p \in Users : call[p].pc = "write" => call[p].late
    /\ \A r \in Runs : work[r].pc \in {"claimed", "final", "busy", "free"} => work[r].late

\* Nobody works on an agent that is not there.
NoneIsUntouched ==
  agent = "none" => /\ \A p \in Users : call[p].pc \notin {"write", "hire"}
                    /\ \A r \in Runs : work[r].pc = "queued"

Inv ==
  /\ TypeOK /\ NoneIsUntouched
  /\ DecisionsCounted /\ HireComesFirst /\ WritersAreLate
  /\ EffectsMatchDecision /\ PendingIsUndecided

-----------------------------------------------------------------------------
(* Types *)

\* Which wants go with which steps.
LEMMA CallTypes ==
  /\ Idle \in Calls
  /\ \A late \in BOOLEAN :
       /\ \A c \in Calls : /\ [c EXCEPT !.late = late] \in Calls
                          /\ [c EXCEPT !.late = late].pc = c.pc
                          /\ [c EXCEPT !.late = late].want = c.want
                          /\ [c EXCEPT !.late = late].late = late
       /\ [pc |-> "hire", want |-> "none", late |-> late] \in Calls
       /\ \A d \in Decision : /\ [pc |-> "resolve", want |-> d, late |-> late] \in Calls
                             /\ [pc |-> "effect", want |-> d, late |-> late] \in Calls
       /\ \A to \in Open : [pc |-> "revise", want |-> to, late |-> late] \in Calls
       /\ \A want \in {"activate", "pause", "resume"} :
            [pc |-> "write", want |-> want, late |-> late] \in Calls
BY DEF Idle, Calls, Open, Decision

Works == [pc : {"queued", "claimed", "running", "final", "busy", "free"}, late : BOOLEAN]

\* What the end of a call, its next step, and a step of a run change.
LEMMA CallEnds ==
  ASSUME TypeOK, NEW p \in Users, Ends(p)
  PROVE  /\ call' \in [Users -> Calls]
         /\ call'[p] = Idle
         /\ \A q \in Users \ {p} : call'[q] = call[q]
BY CallTypes DEF TypeOK, Ends

LEMMA CallBecomes ==
  ASSUME TypeOK, NEW p \in Users, NEW pc, NEW want, Become(p, pc, want),
         [pc |-> pc, want |-> want, late |-> FALSE] \in Calls
  PROVE  /\ call' \in [Users -> Calls]
         /\ call'[p].pc = pc /\ call'[p].want = want /\ call'[p].late = FALSE
         /\ \A q \in Users \ {p} : call'[q] = call[q]
BY DEF TypeOK, Become

LEMMA WorkMoves ==
  ASSUME TypeOK, NEW r \in Runs, NEW from, NEW to \in {"queued", "claimed", "running", "final", "busy", "free"},
         Moves(r, from, to, FALSE)
  PROVE  /\ work' \in [Runs -> Works]
         /\ work[r].pc = from /\ work'[r].pc = to
         /\ \A q \in Runs \ {r} : work'[q] = work[q]
         /\ UNCHANGED <<approval, payload, created, history, call, crashes>>
BY DEF TypeOK, Moves, Works

LEMMA CountMoves ==
  ASSUME TypeOK, NEW r \in Runs, CountRunning(r)
  PROVE  /\ work' \in [Runs -> Works]
         /\ work[r].pc = "final" /\ work'[r].pc \in {"busy", "free"}
         /\ work'[r].late = work[r].late
         /\ \A q \in Runs \ {r} : work'[q] = work[q]
         /\ UNCHANGED <<agent, approval, payload, created, history, call, crashes>>
BY DEF TypeOK, CountRunning, Moves, Works

\* A termination ends its own call, and makes everybody else late.
LateAllBut(ended) ==
  /\ call' \in [Users -> Calls] /\ work' \in [Runs -> Works]
  /\ \A q \in ended : call'[q] = Idle
  /\ \A q \in Users : \/ q \in ended
                      \/ /\ call'[q].pc = call[q].pc /\ call'[q].want = call[q].want
                         /\ call[q].pc # "idle" => call'[q].late
  /\ \A r \in Runs : work'[r].pc = work[r].pc /\ work'[r].late

LEMMA Late ==
  ASSUME TypeOK, NEW ended \in SUBSET Users,
         call' = [q \in Users |-> IF q \in ended THEN Idle
                                  ELSE [call[q] EXCEPT !.late = call[q].pc # "idle"]],
         work' = [r \in Runs |-> [work[r] EXCEPT !.late = TRUE]]
  PROVE  LateAllBut(ended)
<1>1. \A q \in Users : (call[q].pc # "idle") \in BOOLEAN
  OBVIOUS
<1>2. /\ work' \in [Runs -> Works]
      /\ \A r \in Runs : work'[r].pc = work[r].pc /\ work'[r].late
  BY DEF TypeOK, Works
<1>3. call' \in [Users -> Calls]
  BY <1>1, CallTypes DEF TypeOK
<1>4. \A q \in ended : call'[q] = Idle
  OBVIOUS
<1>5. ASSUME NEW q \in Users \ ended
      PROVE  /\ call'[q].pc = call[q].pc /\ call'[q].want = call[q].want
             /\ call[q].pc # "idle" => call'[q].late
  <2>1. call'[q] = [call[q] EXCEPT !.late = call[q].pc # "idle"] /\ call[q] \in Calls
    BY <1>5 DEF TypeOK
  <2> QED
    BY <1>1, <2>1, CallTypes
<1> QED
  BY <1>2, <1>3, <1>4, <1>5 DEF LateAllBut

LEMMA AllLate ==
  /\ TypeOK /\ Terminate => LateAllBut({})
  /\ \A p \in Users : TypeOK /\ TerminateRejected(p) => LateAllBut({p})
<1>1. ASSUME TypeOK, Terminate
      PROVE  LateAllBut({})
  <2>1. call' = [q \in Users |-> IF q \in {} THEN Idle
                                  ELSE [call[q] EXCEPT !.late = call[q].pc # "idle"]]
    BY <1>1 DEF Terminate
  <2> QED
    BY <1>1, <2>1, Late DEF Terminate
<1>2. ASSUME NEW p \in Users, TypeOK, TerminateRejected(p)
      PROVE  LateAllBut({p})
  <2>1. call' = [q \in Users |-> IF q \in {p} THEN Idle
                                  ELSE [call[q] EXCEPT !.late = call[q].pc # "idle"]]
    BY <1>2 DEF TerminateRejected
  <2> QED
    BY <1>2, <2>1, Late DEF TerminateRejected
<1> QED
  BY <1>1, <1>2

LEMMA Crashes ==
  ASSUME Crash
  PROVE  /\ call' \in [Users -> Calls] /\ work' \in [Runs -> Works]
         /\ \A q \in Users : call'[q] = Idle
         /\ \A r \in Runs : work'[r].pc = "queued"
BY CallTypes DEF Crash, Works

LEMMA Wants ==
  \A c \in Calls : /\ c.pc = "effect" => c.want \in Decision
                   /\ c.pc = "hire" => c.want = "none"
BY DEF Calls, Open, Decision

LEMMA IdleStep == Idle.pc = "idle" /\ Idle.want = "none"
BY DEF Idle

LEMMA TypeInit == Init => TypeOK
<1> SUFFICES ASSUME Init PROVE TypeOK
  OBVIOUS
<1>1. call \in [Users -> Calls] /\ work \in [Runs -> Works]
  BY CallTypes DEF Init, Works
<1>2. lost \in BOOLEAN
  BY DEF Init
<1>3. created \in Nat /\ applied \in Nat /\ reopened \in Nat /\ crashes \in 0..MaxCrashes
  BY BoundsAssumption DEF Init
<1>4. agent = "none" /\ approval = "none" /\ payload \in {"agent", "data"}
  BY DEF Init
<1> QED
  BY <1>1, <1>2, <1>3, <1>4 DEF TypeOK, Works

LEMMA TypeStep == TypeOK /\ NoneIsUntouched /\ [Next]_vars => TypeOK' /\ NoneIsUntouched'
<1> SUFFICES ASSUME TypeOK, NoneIsUntouched, [Next]_vars PROVE TypeOK' /\ NoneIsUntouched'
  OBVIOUS
<1> DEFINE Typed == TypeOK' /\ NoneIsUntouched'
<1> USE CallTypes, IdleStep DEF TypeOK, NoneIsUntouched, Works, rows, history, Begin, At
<1>1. ASSUME NEW p \in Users, CreateAgent(p)
      PROVE  Typed
  BY <1>1, CallBecomes DEF CreateAgent
<1>2. ASSUME NEW p \in Users, CreateApproval(p)
      PROVE  Typed
  BY <1>2, CallEnds DEF CreateApproval, Open
<1>3. ASSUME NEW p \in Users, NEW d \in Decision, ReadForDecision(p, d)
      PROVE  Typed
  <2>1. Become(p, "resolve", d) /\ [pc |-> "resolve", want |-> d, late |-> FALSE] \in Calls
    BY <1>3 DEF ReadForDecision
  <2>2. call' \in [Users -> Calls] /\ call'[p].pc = "resolve" /\ \A q \in Users \ {p} : call'[q] = call[q]
    BY <2>1, CallBecomes
  <2> QED
    BY <1>3, <2>2 DEF ReadForDecision
<1>4. ASSUME NEW p \in Users, NEW d \in Decision, Resolve(p, d)
      PROVE  Typed
  <2>1. [pc |-> "effect", want |-> d, late |-> FALSE] \in Calls
    OBVIOUS
  <2>2. CASE Become(p, "effect", d)
    <3>1. call' \in [Users -> Calls] /\ call'[p].pc = "effect" /\ \A q \in Users \ {p} : call'[q] = call[q]
      BY <2>1, <2>2, CallBecomes
    <3> QED
      BY <1>4, <3>1 DEF Resolve
  <2>3. CASE Ends(p)
    BY <1>4, <2>3, CallEnds DEF Resolve
  <2> QED
    BY <1>4, <2>2, <2>3 DEF Resolve
<1>5. ASSUME NEW p \in Users, HireFromData(p)
      PROVE  Typed
  BY <1>5, CallEnds DEF HireFromData
<1>6. ASSUME NEW p \in Users, ReadPending(p)
      PROVE  Typed
  <2>1. CASE agent = "pending_approval"
    BY <1>6, <2>1, CallBecomes DEF ReadPending
  <2>2. CASE agent # "pending_approval"
    BY <1>6, <2>2, CallEnds DEF ReadPending
  <2> QED
    BY <2>1, <2>2
<1>7. ASSUME NEW p \in Users, TerminateRejected(p)
      PROVE  Typed
  <2>1. LateAllBut({p}) /\ (payload = "data" => agent' = "none") /\ (agent # "none" => agent' # "none")
    BY <1>7, AllLate DEF TerminateRejected
  <2>2. agent' \in {agent, "terminated"} /\ UNCHANGED <<approval, payload, created, history, crashes>>
    BY <1>7 DEF TerminateRejected
  <2>3. \A q \in Users : call'[q].pc \in {call[q].pc, "idle"}
    <3> TAKE q \in Users
    <3>1. CASE q = p
      BY <2>1, <3>1 DEF LateAllBut
    <3>2. CASE q # p
      BY <2>1, <3>2 DEF LateAllBut
    <3> QED
      BY <3>1, <3>2
  <2>4. /\ call' \in [Users -> Calls] /\ work' \in [Runs -> Works]
        /\ \A r \in Runs : work'[r].pc = work[r].pc
    BY <2>1 DEF LateAllBut
  <2>5. TypeOK'
    BY <2>1, <2>2, <2>4
  <2> QED
    BY <2>1, <2>3, <2>4, <2>5
<1>8. ASSUME NEW p \in Users, NEW to \in Open, Revise(p, to)
      PROVE  Typed
  <2>1. Become(p, "revise", to) /\ [pc |-> "revise", want |-> to, late |-> FALSE] \in Calls
    BY <1>8 DEF Revise
  <2>2. call' \in [Users -> Calls] /\ call'[p].pc = "revise" /\ \A q \in Users \ {p} : call'[q] = call[q]
    BY <2>1, CallBecomes
  <2> QED
    BY <1>8, <2>2 DEF Revise
<1>9. ASSUME NEW p \in Users, NEW to \in Open, WriteRevision(p, to)
      PROVE  Typed
  BY <1>9, CallEnds DEF WriteRevision
<1>10. ASSUME NEW p \in Users, NEW want \in {"pause", "resume"}, ReadAgent(p, want)
       PROVE  Typed
  BY <1>10, CallBecomes DEF ReadAgent, Refused
<1>11. ASSUME NEW p \in Users, WriteAgent(p)
       PROVE  Typed
  BY <1>11, CallEnds DEF WriteAgent
<1>12. CASE CreateForData
  BY <1>12 DEF CreateForData, Open
<1>13. CASE Terminate
  BY <1>13, AllLate DEF Terminate, LateAllBut
<1>14. ASSUME NEW r \in Runs, ClaimRun(r)
       PROVE  Typed
  BY <1>14, WorkMoves DEF ClaimRun
<1>15. ASSUME NEW r \in Runs, ExecuteRun(r)
       PROVE  Typed
  <2>1. agent' = "running" /\ agent # "none" /\ Moves(r, "claimed", "running", FALSE)
    BY <1>15 DEF ExecuteRun, Moves
  <2> QED
    BY <2>1, WorkMoves
<1>16. ASSUME NEW r \in Runs, ReadForFinalize(r)
       PROVE  Typed
  <2>1. agent' = agent /\ agent # "none"
    BY <1>16 DEF ReadForFinalize
  <2>2. CASE Moves(r, "running", "queued", FALSE)
    BY <2>1, <2>2, WorkMoves
  <2>3. CASE Moves(r, "running", "final", FALSE)
    BY <2>1, <2>3, WorkMoves
  <2> QED
    BY <1>16, <2>2, <2>3 DEF ReadForFinalize
<1>17. ASSUME NEW r \in Runs, CountRunning(r)
       PROVE  Typed
  BY <1>17, CountMoves
<1>18. ASSUME NEW r \in Runs, WriteFinalized(r)
       PROVE  Typed
  <2>1. agent' \in {"running", "idle", "error"} /\ agent # "none"
    BY <1>18 DEF WriteFinalized, Moves
  <2> QED
    BY <1>18, <2>1, WorkMoves DEF WriteFinalized
<1>19. CASE Crash
  BY <1>19, Crashes, BoundsAssumption DEF Crash
<1>20. CASE UNCHANGED vars
  BY <1>20 DEF vars
<1> QED
  BY <1>1, <1>2, <1>3, <1>4, <1>5, <1>6, <1>7, <1>8, <1>9, <1>10, <1>11, <1>12, <1>13,
     <1>14, <1>15, <1>16, <1>17, <1>18, <1>19, <1>20 DEF Next, Decide

-----------------------------------------------------------------------------
(* What a step does to the calls, call by call.                              *)

Moves1(p, pc, want) ==
  /\ call[p].pc # pc
  /\ call'[p].pc = pc /\ call'[p].want = want /\ ~call'[p].late
  /\ \A q \in Users \ {p} : call'[q] = call[q]

Ends1(p) ==
  /\ call'[p].pc = "idle" /\ call'[p].want = "none"
  /\ \A q \in Users \ {p} : call'[q] = call[q]

LEMMA Moving ==
  ASSUME TypeOK, NEW p \in Users
  PROVE  /\ \A d \in Decision : /\ Begin(p, "resolve", d) => Moves1(p, "resolve", d)
                                /\ At(p, "resolve", d) /\ Become(p, "effect", d)
                                     => Moves1(p, "effect", d)
         /\ \A to \in Open : Begin(p, "revise", to) => Moves1(p, "revise", to)
         /\ Begin(p, "hire", "none") => Moves1(p, "hire", "none")
         /\ \A want \in {"pause", "resume"} : Begin(p, "write", want) => Moves1(p, "write", want)
         /\ At(p, "effect", "approved") /\ Become(p, "write", "activate")
              => Moves1(p, "write", "activate")
         /\ Ends(p) => Ends1(p)
<1>1. ASSUME NEW pc, NEW want, call[p].pc # pc, Become(p, pc, want)
      PROVE  Moves1(p, pc, want)
  BY <1>1 DEF TypeOK, Become, Moves1
<1>2. ASSUME NEW pc, NEW want, pc # "idle", Begin(p, pc, want)
      PROVE  Moves1(p, pc, want)
  BY <1>1, <1>2 DEF Begin
<1>3. Ends(p) => Ends1(p)
  BY IdleStep DEF TypeOK, Ends, Ends1
<1>4. \A want : Begin(p, "hire", want) => Moves1(p, "hire", want)
  BY <1>2
<1>5. \A want : Begin(p, "resolve", want) => Moves1(p, "resolve", want)
  BY <1>2
<1>6. \A want : Begin(p, "revise", want) => Moves1(p, "revise", want)
  BY <1>2
<1>7. \A want : Begin(p, "write", want) => Moves1(p, "write", want)
  BY <1>2
<1>8. \A d \in Decision : At(p, "resolve", d) /\ Become(p, "effect", d) => Moves1(p, "effect", d)
  BY <1>1 DEF At
<1>9. At(p, "effect", "approved") /\ Become(p, "write", "activate") => Moves1(p, "write", "activate")
  BY <1>1 DEF At
<1> QED
  BY <1>3, <1>4, <1>5, <1>6, <1>7, <1>8, <1>9

LEMMA WritersStep == Inv /\ TypeOK' /\ [Next]_vars => WritersAreLate'
<1> SUFFICES ASSUME Inv, TypeOK', [Next]_vars PROVE WritersAreLate'
  OBVIOUS
<1> USE DEF Inv, NoneIsUntouched, WritersAreLate, rows, history, At, Moves1, Ends1
<1>1. ASSUME NEW p \in Users, CreateAgent(p)
      PROVE  WritersAreLate'
  BY <1>1, Moving DEF CreateAgent
<1>2. ASSUME NEW p \in Users, CreateApproval(p)
      PROVE  WritersAreLate'
  BY <1>2, Moving DEF CreateApproval
<1>3. ASSUME NEW p \in Users, NEW d \in Decision, ReadForDecision(p, d)
      PROVE  WritersAreLate'
  BY <1>3, Moving DEF ReadForDecision
<1>4. ASSUME NEW p \in Users, NEW d \in Decision, Resolve(p, d)
      PROVE  WritersAreLate'
  BY <1>4, Moving DEF Resolve, StillOpen
<1>5. ASSUME NEW p \in Users, HireFromData(p)
      PROVE  WritersAreLate'
  BY <1>5, Moving DEF HireFromData
<1>6. ASSUME NEW p \in Users, ReadPending(p)
      PROVE  WritersAreLate'
  BY <1>6, Moving DEF ReadPending
<1>7. ASSUME NEW p \in Users, TerminateRejected(p)
      PROVE  WritersAreLate'
  BY <1>7, AllLate, IdleStep DEF TerminateRejected, LateAllBut
<1>8. ASSUME NEW p \in Users, NEW to \in Open, Revise(p, to)
      PROVE  WritersAreLate'
  BY <1>8, Moving DEF Revise
<1>9. ASSUME NEW p \in Users, NEW to \in Open, WriteRevision(p, to)
      PROVE  WritersAreLate'
  BY <1>9, Moving DEF WriteRevision
<1>10. ASSUME NEW p \in Users, NEW want \in {"pause", "resume"}, ReadAgent(p, want)
       PROVE  WritersAreLate'
  BY <1>10, Moving DEF ReadAgent, Refused
<1>11. ASSUME NEW p \in Users, WriteAgent(p)
       PROVE  WritersAreLate'
  BY <1>11, Moving DEF WriteAgent
<1>12. CASE CreateForData
  BY <1>12 DEF CreateForData
<1>13. CASE Terminate
  <2>1. LateAllBut({})
    BY <1>13, AllLate DEF Inv
  <2>2. \A q \in Users : /\ call'[q].pc = call[q].pc /\ call'[q].want = call[q].want
                         /\ call[q].pc # "idle" => call'[q].late
    BY <2>1 DEF LateAllBut
  <2>3. \A r \in Runs : work'[r].late
    BY <2>1 DEF LateAllBut
  <2> QED
    BY <1>13, <2>2, <2>3 DEF Terminate
<1>14. ASSUME NEW r \in Runs, ClaimRun(r)
       PROVE  WritersAreLate'
  BY <1>14, WorkMoves DEF ClaimRun
<1>15. ASSUME NEW r \in Runs, ExecuteRun(r)
       PROVE  WritersAreLate'
  BY <1>15, WorkMoves DEF ExecuteRun
<1>16. ASSUME NEW r \in Runs, ReadForFinalize(r)
       PROVE  WritersAreLate'
  BY <1>16, WorkMoves DEF ReadForFinalize
<1>17. ASSUME NEW r \in Runs, CountRunning(r)
       PROVE  WritersAreLate'
  BY <1>17, CountMoves
<1>18. ASSUME NEW r \in Runs, WriteFinalized(r)
       PROVE  WritersAreLate'
  BY <1>18, WorkMoves DEF WriteFinalized
<1>19. CASE Crash
  BY <1>19, Crashes, IdleStep DEF Crash
<1>20. CASE UNCHANGED vars
  BY <1>20 DEF vars
<1> QED
  BY <1>1, <1>2, <1>3, <1>4, <1>5, <1>6, <1>7, <1>8, <1>9, <1>10, <1>11, <1>12, <1>13,
     <1>14, <1>15, <1>16, <1>17, <1>18, <1>19, <1>20 DEF Next, Decide

LEMMA HireStep == Inv /\ TypeOK' /\ [Next]_vars => HireComesFirst'
<1> SUFFICES ASSUME Inv, TypeOK', [Next]_vars PROVE HireComesFirst'
  OBVIOUS
<1> USE DEF Inv, NoneIsUntouched, HireComesFirst, Open, Decision, rows, history, At, Moves1, Ends1
<1>1. ASSUME NEW p \in Users, CreateAgent(p)
      PROVE  HireComesFirst'
  BY <1>1, Moving DEF CreateAgent
<1>2. ASSUME NEW p \in Users, CreateApproval(p)
      PROVE  HireComesFirst'
  BY <1>2, Moving DEF CreateApproval
<1>3. ASSUME NEW p \in Users, NEW d \in Decision, ReadForDecision(p, d)
      PROVE  HireComesFirst'
  BY <1>3, Moving DEF ReadForDecision
<1>4. ASSUME NEW p \in Users, NEW d \in Decision, Resolve(p, d)
      PROVE  HireComesFirst'
  BY <1>4, Moving DEF Resolve, StillOpen
<1>5. ASSUME NEW p \in Users, HireFromData(p)
      PROVE  HireComesFirst'
  BY <1>5, Moving DEF HireFromData
<1>6. ASSUME NEW p \in Users, ReadPending(p)
      PROVE  HireComesFirst'
  BY <1>6, Moving DEF ReadPending
<1>7. ASSUME NEW p \in Users, TerminateRejected(p)
      PROVE  HireComesFirst'
  BY <1>7, AllLate, IdleStep DEF TerminateRejected, LateAllBut
<1>8. ASSUME NEW p \in Users, NEW to \in Open, Revise(p, to)
      PROVE  HireComesFirst'
  BY <1>8, Moving DEF Revise
<1>9. ASSUME NEW p \in Users, NEW to \in Open, WriteRevision(p, to)
      PROVE  HireComesFirst'
  BY <1>9, Moving DEF WriteRevision
<1>10. ASSUME NEW p \in Users, NEW want \in {"pause", "resume"}, ReadAgent(p, want)
       PROVE  HireComesFirst'
  BY <1>10, Moving DEF ReadAgent, Refused
<1>11. ASSUME NEW p \in Users, WriteAgent(p)
       PROVE  HireComesFirst'
  BY <1>11, Moving DEF WriteAgent
<1>12. CASE CreateForData
  BY <1>12 DEF CreateForData
<1>13. CASE Terminate
  <2>1. LateAllBut({})
    BY <1>13, AllLate DEF Inv
  <2>2. \A q \in Users : /\ call'[q].pc = call[q].pc /\ call'[q].want = call[q].want
                         /\ call[q].pc # "idle" => call'[q].late
    BY <2>1 DEF LateAllBut
  <2>3. \A r \in Runs : work'[r].late
    BY <2>1 DEF LateAllBut
  <2> QED
    BY <1>13, <2>2, <2>3 DEF Terminate
<1>14. ASSUME NEW r \in Runs, ClaimRun(r)
       PROVE  HireComesFirst'
  BY <1>14, WorkMoves DEF ClaimRun
<1>15. ASSUME NEW r \in Runs, ExecuteRun(r)
       PROVE  HireComesFirst'
  BY <1>15, WorkMoves DEF ExecuteRun
<1>16. ASSUME NEW r \in Runs, ReadForFinalize(r)
       PROVE  HireComesFirst'
  BY <1>16, WorkMoves DEF ReadForFinalize
<1>17. ASSUME NEW r \in Runs, CountRunning(r)
       PROVE  HireComesFirst'
  BY <1>17, CountMoves
<1>18. ASSUME NEW r \in Runs, WriteFinalized(r)
       PROVE  HireComesFirst'
  BY <1>18, WorkMoves DEF WriteFinalized
<1>19. CASE Crash
  BY <1>19, Crashes, IdleStep DEF Crash
<1>20. CASE UNCHANGED vars
  BY <1>20 DEF vars
<1> QED
  BY <1>1, <1>2, <1>3, <1>4, <1>5, <1>6, <1>7, <1>8, <1>9, <1>10, <1>11, <1>12, <1>13,
     <1>14, <1>15, <1>16, <1>17, <1>18, <1>19, <1>20 DEF Next, Decide

LEMMA EffectStep == Inv /\ TypeOK' /\ [Next]_vars => EffectsMatchDecision'
<1> SUFFICES ASSUME Inv, TypeOK', [Next]_vars PROVE EffectsMatchDecision'
  OBVIOUS
<1> USE Wants DEF Inv, TypeOK, EffectsMatchDecision, HireComesFirst, Open, Decision, rows, history, At, Moves1, Ends1
<1>1. ASSUME NEW p \in Users, CreateAgent(p)
      PROVE  EffectsMatchDecision'
  BY <1>1, Moving DEF CreateAgent
<1>2. ASSUME NEW p \in Users, CreateApproval(p)
      PROVE  EffectsMatchDecision'
  BY <1>2, Moving DEF CreateApproval
<1>3. ASSUME NEW p \in Users, NEW d \in Decision, ReadForDecision(p, d)
      PROVE  EffectsMatchDecision'
  BY <1>3, Moving DEF ReadForDecision
<1>4. ASSUME NEW p \in Users, NEW d \in Decision, Resolve(p, d)
      PROVE  EffectsMatchDecision'
  BY <1>4, Moving DEF Resolve, StillOpen
<1>5. ASSUME NEW p \in Users, HireFromData(p)
      PROVE  EffectsMatchDecision'
  BY <1>5, Moving DEF HireFromData
<1>6. ASSUME NEW p \in Users, ReadPending(p)
      PROVE  EffectsMatchDecision'
  BY <1>6, Moving DEF ReadPending
<1>7. ASSUME NEW p \in Users, TerminateRejected(p)
      PROVE  EffectsMatchDecision'
  BY <1>7, AllLate, IdleStep DEF TerminateRejected, LateAllBut
<1>8. ASSUME NEW p \in Users, NEW to \in Open, Revise(p, to)
      PROVE  EffectsMatchDecision'
  BY <1>8, Moving DEF Revise
<1>9. ASSUME NEW p \in Users, NEW to \in Open, WriteRevision(p, to)
      PROVE  EffectsMatchDecision'
  BY <1>9, Moving DEF WriteRevision
<1>10. ASSUME NEW p \in Users, NEW want \in {"pause", "resume"}, ReadAgent(p, want)
       PROVE  EffectsMatchDecision'
  BY <1>10, Moving DEF ReadAgent, Refused
<1>11. ASSUME NEW p \in Users, WriteAgent(p)
       PROVE  EffectsMatchDecision'
  BY <1>11, Moving DEF WriteAgent
<1>12. CASE CreateForData
  BY <1>12 DEF CreateForData
<1>13. CASE Terminate
  <2>1. LateAllBut({})
    BY <1>13, AllLate DEF Inv
  <2>2. \A q \in Users : /\ call'[q].pc = call[q].pc /\ call'[q].want = call[q].want
                         /\ call[q].pc # "idle" => call'[q].late
    BY <2>1 DEF LateAllBut
  <2>3. \A r \in Runs : work'[r].late
    BY <2>1 DEF LateAllBut
  <2> QED
    BY <1>13, <2>2, <2>3 DEF Terminate
<1>14. ASSUME NEW r \in Runs, ClaimRun(r)
       PROVE  EffectsMatchDecision'
  <2>1. UNCHANGED <<call, approval, reopened>>
    BY <1>14, WorkMoves DEF ClaimRun
  <2> QED
    BY <2>1
<1>15. ASSUME NEW r \in Runs, ExecuteRun(r)
       PROVE  EffectsMatchDecision'
  BY <1>15, WorkMoves DEF ExecuteRun
<1>16. ASSUME NEW r \in Runs, ReadForFinalize(r)
       PROVE  EffectsMatchDecision'
  BY <1>16, WorkMoves DEF ReadForFinalize
<1>17. ASSUME NEW r \in Runs, CountRunning(r)
       PROVE  EffectsMatchDecision'
  BY <1>17, CountMoves
<1>18. ASSUME NEW r \in Runs, WriteFinalized(r)
       PROVE  EffectsMatchDecision'
  <2>1. UNCHANGED <<call, approval, reopened>>
    BY <1>18, WorkMoves DEF WriteFinalized
  <2> QED
    BY <2>1
<1>19. CASE Crash
  BY <1>19, Crashes, IdleStep DEF Crash
<1>20. CASE UNCHANGED vars
  BY <1>20 DEF vars
<1> QED
  BY <1>1, <1>2, <1>3, <1>4, <1>5, <1>6, <1>7, <1>8, <1>9, <1>10, <1>11, <1>12, <1>13,
     <1>14, <1>15, <1>16, <1>17, <1>18, <1>19, <1>20 DEF Next, Decide

LEMMA PendingStep == Inv /\ TypeOK' /\ [Next]_vars => PendingIsUndecided'
<1> SUFFICES ASSUME Inv, TypeOK', [Next]_vars PROVE PendingIsUndecided'
  OBVIOUS
<1> USE DEF Inv, TypeOK, NoneIsUntouched, PendingIsUndecided, HireComesFirst, Open, rows, history, At, Moves1, Ends1
<1>1. ASSUME NEW p \in Users, CreateAgent(p)
      PROVE  PendingIsUndecided'
  BY <1>1, Moving DEF CreateAgent
<1>2. ASSUME NEW p \in Users, CreateApproval(p)
      PROVE  PendingIsUndecided'
  BY <1>2, Moving DEF CreateApproval
<1>3. ASSUME NEW p \in Users, NEW d \in Decision, ReadForDecision(p, d)
      PROVE  PendingIsUndecided'
  BY <1>3, Moving DEF ReadForDecision
<1>4. ASSUME NEW p \in Users, NEW d \in Decision, Resolve(p, d)
      PROVE  PendingIsUndecided'
  BY <1>4, Moving DEF Resolve, StillOpen
<1>5. ASSUME NEW p \in Users, HireFromData(p)
      PROVE  PendingIsUndecided'
  BY <1>5, Moving DEF HireFromData
<1>6. ASSUME NEW p \in Users, ReadPending(p)
      PROVE  PendingIsUndecided'
  BY <1>6, Moving DEF ReadPending
<1>7. ASSUME NEW p \in Users, TerminateRejected(p)
      PROVE  PendingIsUndecided'
  BY <1>7, AllLate, IdleStep DEF TerminateRejected, LateAllBut
<1>8. ASSUME NEW p \in Users, NEW to \in Open, Revise(p, to)
      PROVE  PendingIsUndecided'
  BY <1>8, Moving DEF Revise
<1>9. ASSUME NEW p \in Users, NEW to \in Open, WriteRevision(p, to)
      PROVE  PendingIsUndecided'
  BY <1>9, Moving DEF WriteRevision
<1>10. ASSUME NEW p \in Users, NEW want \in {"pause", "resume"}, ReadAgent(p, want)
       PROVE  PendingIsUndecided'
  <2>1. call[p].pc = "idle" /\ Moves1(p, "write", want) /\ UNCHANGED <<rows, history>>
    BY <1>10, Moving DEF ReadAgent, Inv, Begin
  <2> QED
    BY <2>1
<1>11. ASSUME NEW p \in Users, WriteAgent(p)
       PROVE  PendingIsUndecided'
  BY <1>11, Moving DEF WriteAgent
<1>12. CASE CreateForData
  BY <1>12 DEF CreateForData
<1>13. CASE Terminate
  <2>1. LateAllBut({})
    BY <1>13, AllLate DEF Inv
  <2>2. \A q \in Users : /\ call'[q].pc = call[q].pc /\ call'[q].want = call[q].want
                         /\ call[q].pc # "idle" => call'[q].late
    BY <2>1 DEF LateAllBut
  <2>3. \A r \in Runs : work'[r].late
    BY <2>1 DEF LateAllBut
  <2> QED
    BY <1>13, <2>2, <2>3 DEF Terminate
<1>14. ASSUME NEW r \in Runs, ClaimRun(r)
       PROVE  PendingIsUndecided'
  BY <1>14, WorkMoves DEF ClaimRun
<1>15. ASSUME NEW r \in Runs, ExecuteRun(r)
       PROVE  PendingIsUndecided'
  BY <1>15, WorkMoves DEF ExecuteRun
<1>16. ASSUME NEW r \in Runs, ReadForFinalize(r)
       PROVE  PendingIsUndecided'
  BY <1>16, WorkMoves DEF ReadForFinalize
<1>17. ASSUME NEW r \in Runs, CountRunning(r)
       PROVE  PendingIsUndecided'
  BY <1>17, CountMoves
<1>18. ASSUME NEW r \in Runs, WriteFinalized(r)
       PROVE  PendingIsUndecided'
  BY <1>18, WorkMoves DEF WriteFinalized
<1>19. CASE Crash
  BY <1>19, Crashes, IdleStep DEF Crash
<1>20. CASE UNCHANGED vars
  BY <1>20 DEF vars
<1> QED
  BY <1>1, <1>2, <1>3, <1>4, <1>5, <1>6, <1>7, <1>8, <1>9, <1>10, <1>11, <1>12, <1>13,
     <1>14, <1>15, <1>16, <1>17, <1>18, <1>19, <1>20 DEF Next, Decide

\* Where no decision is applied, overwritten or completed the count stays.
LEMMA CountStays ==
  ASSUME Inv, Approved' \subseteq Approved, UNCHANGED <<applied, reopened, created>>,
         approval' \in Decision <=> approval \in Decision
  PROVE  DecisionsCounted'
<1>1. IsFiniteSet(Approved)
  BY DEF Inv, DecisionsCounted
<1>2. IsFiniteSet(Approved') /\ Cardinality(Approved') <= Cardinality(Approved)
  BY <1>1, FS_Subset
<1>3. Cardinality(Approved) \in Nat /\ Cardinality(Approved') \in Nat
  BY <1>1, <1>2, FS_CardinalityType
<1> QED
  BY <1>2, <1>3 DEF Inv, TypeOK, DecisionsCounted

LEMMA CountedStep == Inv /\ TypeOK' /\ [Next]_vars => DecisionsCounted'
<1> SUFFICES ASSUME Inv, TypeOK', [Next]_vars PROVE DecisionsCounted'
  OBVIOUS
<1> USE DEF Inv, At, Moves1, Ends1, rows, history, Approved
<1>1. ASSUME NEW p \in Users, CreateAgent(p)
      PROVE  DecisionsCounted'
  <2>1. Approved' \subseteq Approved
    BY <1>1, Moving DEF CreateAgent
  <2> QED
    BY <1>1, <2>1, CountStays DEF CreateAgent
<1>2. ASSUME NEW p \in Users, CreateApproval(p)
      PROVE  DecisionsCounted'
  <2>1. Approved' \subseteq Approved
    BY <1>2, Moving DEF CreateApproval, HireComesFirst
  <2> QED
    BY <1>2, <2>1, CountStays DEF CreateApproval, HireComesFirst, Decision
<1>3. ASSUME NEW p \in Users, NEW d \in Decision, ReadForDecision(p, d)
      PROVE  DecisionsCounted'
  <2>1. Approved' \subseteq Approved
    BY <1>3, Moving DEF ReadForDecision
  <2> QED
    BY <1>3, <2>1, CountStays DEF ReadForDecision
<1>4. ASSUME NEW p \in Users, NEW d \in Decision, Resolve(p, d)
      PROVE  DecisionsCounted'
  <2>1. CASE StillOpen
    <3>1. approval \notin Decision /\ d \in Decision
      BY <2>1 DEF StillOpen, Open, Decision
    <3>2. approval' = d /\ applied' = applied + 1 /\ UNCHANGED <<created, reopened>>
      BY <1>4, <2>1 DEF Resolve
    <3>3. Approved' \subseteq Approved \cup {p}
      BY <1>4, <2>1, Moving DEF Resolve
    <3>4. /\ IsFiniteSet(Approved)
          /\ IsFiniteSet(Approved \cup {p})
          /\ Cardinality(Approved \cup {p}) <= Cardinality(Approved) + 1
      <4>1. IsFiniteSet(Approved)
        BY DEF DecisionsCounted
      <4> HIDE DEF Approved
      <4>2. Cardinality(Approved) \in Nat
        BY <4>1, FS_CardinalityType
      <4>3. /\ IsFiniteSet(Approved \cup {p})
            /\ Cardinality(Approved \cup {p})
                 = IF p \in Approved THEN Cardinality(Approved) ELSE Cardinality(Approved) + 1
        BY <4>1, FS_AddElement
      <4> QED
        BY <4>1, <4>2, <4>3
    <3>5. IsFiniteSet(Approved') /\ Cardinality(Approved') <= Cardinality(Approved \cup {p})
      BY <3>3, <3>4, FS_Subset
    <3>6. Cardinality(Approved) \in Nat /\ Cardinality(Approved') \in Nat /\ Cardinality(Approved \cup {p}) \in Nat
      BY <3>4, <3>5, FS_CardinalityType
    <3> HIDE DEF Approved
    <3> QED
      BY <3>1, <3>2, <3>4, <3>5, <3>6 DEF TypeOK, DecisionsCounted
  <2>2. CASE ~StillOpen
    <3>1. Approved' \subseteq Approved
      BY <1>4, <2>2, Moving DEF Resolve
    <3> QED
      BY <1>4, <2>2, <3>1, CountStays DEF Resolve
  <2> QED
    BY <2>1, <2>2
<1>5. ASSUME NEW p \in Users, HireFromData(p)
      PROVE  DecisionsCounted'
  <2>1. p \in Approved /\ Approved' \subseteq Approved \ {p}
    BY <1>5, Moving DEF HireFromData
  <2>2. /\ IsFiniteSet(Approved)
        /\ IsFiniteSet(Approved \ {p})
        /\ Cardinality(Approved \ {p}) = Cardinality(Approved) - 1
    BY <2>1, FS_RemoveElement DEF DecisionsCounted
  <2>3. IsFiniteSet(Approved') /\ Cardinality(Approved') <= Cardinality(Approved \ {p})
    BY <2>1, <2>2, FS_Subset
  <2>4. Cardinality(Approved) \in Nat /\ Cardinality(Approved') \in Nat /\ Cardinality(Approved \ {p}) \in Nat
    BY <2>2, <2>3, FS_CardinalityType
  <2>5. created' = created + 1 /\ UNCHANGED <<applied, reopened, approval>>
    BY <1>5 DEF HireFromData
  <2> HIDE DEF Approved
  <2> QED
    BY <2>2, <2>3, <2>4, <2>5 DEF TypeOK, DecisionsCounted
<1>6. ASSUME NEW p \in Users, ReadPending(p)
      PROVE  DecisionsCounted'
  <2>1. Approved' \subseteq Approved
    <3>1. CASE Become(p, "write", "activate")
      BY <1>6, <3>1, Moving DEF ReadPending
    <3>2. CASE Ends(p)
      BY <1>6, <3>2, Moving DEF ReadPending
    <3> QED
      BY <1>6, <3>1, <3>2 DEF ReadPending
  <2> QED
    BY <1>6, <2>1, CountStays DEF ReadPending
<1>7. ASSUME NEW p \in Users, TerminateRejected(p)
      PROVE  DecisionsCounted'
  <2>1. Approved' \subseteq Approved
    BY <1>7, AllLate, IdleStep DEF TerminateRejected, LateAllBut
  <2> QED
    BY <1>7, <2>1, CountStays DEF TerminateRejected
<1>8. ASSUME NEW p \in Users, NEW to \in Open, Revise(p, to)
      PROVE  DecisionsCounted'
  <2>1. Approved' \subseteq Approved
    BY <1>8, Moving DEF Revise
  <2> QED
    BY <1>8, <2>1, CountStays DEF Revise
<1>9. ASSUME NEW p \in Users, NEW to \in Open, WriteRevision(p, to)
      PROVE  DecisionsCounted'
  <2>1. Approved' \subseteq Approved
    BY <1>9, Moving DEF WriteRevision
  <2>2. approval' = to /\ to \notin Decision /\ UNCHANGED <<applied, created>>
    BY <1>9 DEF WriteRevision, Open, Decision
  <2>3. reopened' = reopened + (IF approval \in Decision THEN 1 ELSE 0)
    BY <1>9 DEF WriteRevision
  <2>4. IsFiniteSet(Approved)
    BY DEF DecisionsCounted
  <2>5. IsFiniteSet(Approved') /\ Cardinality(Approved') <= Cardinality(Approved)
    BY <2>1, <2>4, FS_Subset
  <2>6. Cardinality(Approved) \in Nat /\ Cardinality(Approved') \in Nat
    BY <2>4, <2>5, FS_CardinalityType
  <2> HIDE DEF Approved
  <2> QED
    BY <2>2, <2>3, <2>5, <2>6 DEF TypeOK, DecisionsCounted
<1>10. ASSUME NEW p \in Users, NEW want \in {"pause", "resume"}, ReadAgent(p, want)
       PROVE  DecisionsCounted'
  <2>1. Approved' \subseteq Approved
    BY <1>10, Moving DEF ReadAgent, Refused
  <2> QED
    BY <1>10, <2>1, CountStays DEF ReadAgent, Refused
<1>11. ASSUME NEW p \in Users, WriteAgent(p)
       PROVE  DecisionsCounted'
  <2>1. Approved' \subseteq Approved
    BY <1>11, Moving DEF WriteAgent
  <2> QED
    BY <1>11, <2>1, CountStays DEF WriteAgent
<1>12. CASE CreateForData
  <2>1. Approved' \subseteq Approved
    BY <1>12, CountStays DEF CreateForData
  <2> QED
    BY <1>12, <2>1, CountStays DEF CreateForData, Decision
<1>13. CASE Terminate
  <2>1. Approved' \subseteq Approved
    BY <1>13, AllLate DEF LateAllBut
  <2> QED
    BY <1>13, <2>1, CountStays DEF Terminate
<1>14. ASSUME NEW r \in Runs, ClaimRun(r)
       PROVE  DecisionsCounted'
  <2>1. UNCHANGED <<call, applied, reopened, created, approval>>
    BY <1>14, WorkMoves DEF ClaimRun
  <2> QED
    BY <2>1, CountStays
<1>15. ASSUME NEW r \in Runs, ExecuteRun(r)
       PROVE  DecisionsCounted'
  <2>1. UNCHANGED <<call, applied, reopened, created, approval>>
    BY <1>15, WorkMoves DEF ExecuteRun
  <2> QED
    BY <2>1, CountStays
<1>16. ASSUME NEW r \in Runs, ReadForFinalize(r)
       PROVE  DecisionsCounted'
  <2>1. UNCHANGED <<call, applied, reopened, created, approval>>
    BY <1>16, WorkMoves DEF ReadForFinalize
  <2> QED
    BY <2>1, CountStays
<1>17. ASSUME NEW r \in Runs, CountRunning(r)
       PROVE  DecisionsCounted'
  <2>1. UNCHANGED <<call, applied, reopened, created, approval>>
    BY <1>17, CountMoves
  <2> QED
    BY <2>1, CountStays
<1>18. ASSUME NEW r \in Runs, WriteFinalized(r)
       PROVE  DecisionsCounted'
  <2>1. UNCHANGED <<call, applied, reopened, created, approval>>
    BY <1>18, WorkMoves DEF WriteFinalized
  <2> QED
    BY <2>1, CountStays
<1>19. CASE Crash
  <2>1. Approved' \subseteq Approved
    BY <1>19, Crashes, IdleStep DEF Crash
  <2> QED
    BY <1>19, <2>1, CountStays DEF Crash
<1>20. CASE UNCHANGED vars
  BY <1>20, CountStays DEF vars
<1> QED
  BY <1>1, <1>2, <1>3, <1>4, <1>5, <1>6, <1>7, <1>8, <1>9, <1>10, <1>11, <1>12, <1>13,
     <1>14, <1>15, <1>16, <1>17, <1>18, <1>19, <1>20 DEF Next, Decide

-----------------------------------------------------------------------------
(* Theorems *)

Revived ==
  \/ \E p \in Users : call[p].late /\ call'[p] = Idle
  \/ \E r \in Runs : work[r].late /\ work'[r] # work[r]

LEMMA RevivalStep == Inv /\ TypeOK' /\ [Next]_vars => (agent = "terminated" /\ agent' # "terminated" => Revived)
<1> SUFFICES ASSUME Inv, TypeOK', [Next]_vars PROVE (agent = "terminated" /\ agent' # "terminated" => Revived)
  OBVIOUS
<1> USE DEF Inv, rows, history, Begin, Revived
<1>1. ASSUME NEW p \in Users, CreateAgent(p)
      PROVE  (agent = "terminated" /\ agent' # "terminated" => Revived)
  BY <1>1 DEF CreateAgent
<1>2. ASSUME NEW p \in Users, CreateApproval(p)
      PROVE  (agent = "terminated" /\ agent' # "terminated" => Revived)
  BY <1>2 DEF CreateApproval
<1>3. ASSUME NEW p \in Users, NEW d \in Decision, ReadForDecision(p, d)
      PROVE  (agent = "terminated" /\ agent' # "terminated" => Revived)
  BY <1>3 DEF ReadForDecision
<1>4. ASSUME NEW p \in Users, NEW d \in Decision, Resolve(p, d)
      PROVE  (agent = "terminated" /\ agent' # "terminated" => Revived)
  BY <1>4 DEF Resolve, StillOpen
<1>5. ASSUME NEW p \in Users, HireFromData(p)
      PROVE  (agent = "terminated" /\ agent' # "terminated" => Revived)
  BY <1>5 DEF HireFromData
<1>6. ASSUME NEW p \in Users, ReadPending(p)
      PROVE  (agent = "terminated" /\ agent' # "terminated" => Revived)
  BY <1>6 DEF ReadPending
<1>7. ASSUME NEW p \in Users, TerminateRejected(p)
      PROVE  (agent = "terminated" /\ agent' # "terminated" => Revived)
  BY <1>7 DEF TerminateRejected
<1>8. ASSUME NEW p \in Users, NEW to \in Open, Revise(p, to)
      PROVE  (agent = "terminated" /\ agent' # "terminated" => Revived)
  BY <1>8 DEF Revise
<1>9. ASSUME NEW p \in Users, NEW to \in Open, WriteRevision(p, to)
      PROVE  (agent = "terminated" /\ agent' # "terminated" => Revived)
  BY <1>9 DEF WriteRevision
<1>10. ASSUME NEW p \in Users, NEW want \in {"pause", "resume"}, ReadAgent(p, want)
       PROVE  (agent = "terminated" /\ agent' # "terminated" => Revived)
  BY <1>10 DEF ReadAgent, Refused
<1>11. ASSUME NEW p \in Users, WriteAgent(p)
       PROVE  (agent = "terminated" /\ agent' # "terminated" => Revived)
  BY <1>11, CallEnds DEF WriteAgent, WritersAreLate
<1>12. CASE CreateForData
  BY <1>12 DEF CreateForData
<1>13. CASE Terminate
  BY <1>13 DEF Terminate
<1>14. ASSUME NEW r \in Runs, ClaimRun(r)
       PROVE  (agent = "terminated" /\ agent' # "terminated" => Revived)
  BY <1>14, WorkMoves DEF ClaimRun, WritersAreLate
<1>15. ASSUME NEW r \in Runs, ExecuteRun(r)
       PROVE  (agent = "terminated" /\ agent' # "terminated" => Revived)
  BY <1>15, WorkMoves DEF ExecuteRun, WritersAreLate
<1>16. ASSUME NEW r \in Runs, ReadForFinalize(r)
       PROVE  (agent = "terminated" /\ agent' # "terminated" => Revived)
  BY <1>16, WorkMoves DEF ReadForFinalize, WritersAreLate
<1>17. ASSUME NEW r \in Runs, CountRunning(r)
       PROVE  (agent = "terminated" /\ agent' # "terminated" => Revived)
  BY <1>17, CountMoves DEF WritersAreLate
<1>18. ASSUME NEW r \in Runs, WriteFinalized(r)
       PROVE  (agent = "terminated" /\ agent' # "terminated" => Revived)
  BY <1>18, WorkMoves DEF WriteFinalized, WritersAreLate
<1>19. CASE Crash
  BY <1>19 DEF Crash
<1>20. CASE UNCHANGED vars
  BY <1>20 DEF vars
<1> QED
  BY <1>1, <1>2, <1>3, <1>4, <1>5, <1>6, <1>7, <1>8, <1>9, <1>10, <1>11, <1>12, <1>13,
     <1>14, <1>15, <1>16, <1>17, <1>18, <1>19, <1>20 DEF Next, Decide

LEMMA InvInit == Init => Inv
<1> SUFFICES ASSUME Init PROVE Inv
  OBVIOUS
<1>1. TypeOK
  BY TypeInit
<1>2. \A p \in Users : call[p].pc = "idle"
  BY IdleStep DEF Init
<1>3. \A r \in Runs : work[r].pc = "queued"
  BY DEF Init
<1>4. Approved = {}
  BY <1>2 DEF Approved, At
<1>5. DecisionsCounted
  BY <1>4, FS_EmptySet DEF Init, DecisionsCounted, Decision
<1>6. /\ NoneIsUntouched /\ HireComesFirst /\ WritersAreLate
      /\ EffectsMatchDecision /\ PendingIsUndecided
  BY <1>2, <1>3 DEF Init, NoneIsUntouched, HireComesFirst, WritersAreLate,
                    EffectsMatchDecision, PendingIsUndecided
<1> QED
  BY <1>1, <1>5, <1>6 DEF Inv

LEMMA InvStep == Inv /\ [Next]_vars => Inv'
<1> SUFFICES ASSUME Inv, [Next]_vars PROVE Inv'
  OBVIOUS
<1>1. TypeOK' /\ NoneIsUntouched'
  BY TypeStep DEF Inv
<1> QED
  BY <1>1, WritersStep, HireStep, EffectStep, PendingStep, CountedStep DEF Inv

LEMMA Invariance == Spec => []Inv
BY InvInit, InvStep, PTL DEF Spec

\* Every reachable state is well typed.
THEOREM TypeCorrect == Spec => []TypeOK
<1>1. Inv => TypeOK
  BY DEF Inv
<1> QED
  BY <1>1, Invariance, PTL

\* Decisions take effect once each, the effects under way are those of the decision
\* that stands, and no agent is hired twice, however many
\* handlers decide.
THEOREM Decisions == Spec => []DecidedOnce
<1>1. Inv => DecidedOnce
  <2> SUFFICES ASSUME Inv PROVE DecidedOnce
    OBVIOUS
  <2>1. Cardinality(Approved) \in Nat
    BY FS_CardinalityType DEF Inv, DecisionsCounted
  <2> QED
    BY <2>1 DEF Inv, TypeOK, DecisionsCounted, DecidedOnce
<1> QED
  BY <1>1, Invariance, PTL

\* An agent that waits for approval has an approval to wait for.
THEOREM Pending == Spec => []PendingIsUndecided
<1>1. Inv => PendingIsUndecided
  BY DEF Inv
<1> QED
  BY <1>1, Invariance, PTL

\* Only a late write brings a terminated agent back.
THEOREM Revival == Spec => OnlyLateWritesRevive
<1>1. Inv /\ Inv' /\ [Next]_vars =>
        [agent = "terminated" /\ agent' # "terminated" => Revived]_vars
  BY RevivalStep DEF Inv
<1>2. Spec => [][agent = "terminated" /\ agent' # "terminated" => Revived]_vars
  BY <1>1, Invariance, PTL DEF Spec
<1> QED
  BY <1>2 DEF OnlyLateWritesRevive, Revived

-----------------------------------------------------------------------------
(* AgentStartLock: the calls in progress and what they rely on *)

\* The call at depth d of the calls s; the outermost is at depth 1.
AtDepth(s, d) == s[Len(s) + 1 - d]
CallAt(p, d) == AtDepth(stack[p], d)
Depths(p) == 1..Len(stack[p])

\* startNextQueuedRunForAgent under its agent's lock, and the runs it may still claim.
InBody(f) == f.fn = "start" /\ f.pc \in {"check", "update"}
AtHand(f) == IF f.pc = "update" THEN {f.run} ELSE {}
ToClaim(f) == f.todo \cup AtHand(f)

\* The row of status "absent" is none.
NoRunBeyond == \A r \in RunIds : r > nRuns => status[r] = "absent"

\* Calls name agents and runs that there are; only a body has runs of its own.
Sensible(f) ==
  /\ f.fn \in {"start", "wake", "pause"} => f.agent \in Agents
  /\ f.fn \in {"cancel", "drop", "exec"} => f.run \in 1..nRuns
  /\ f.todo \subseteq 1..nRuns
  /\ ~InBody(f) => f.got = {}
  /\ InBody(f) => /\ AtHand(f) \subseteq 1..nRuns
                  /\ AtHand(f) \cap f.todo = {}
                  /\ \A r \in ToClaim(f) : agentOf[r] = f.agent
CallsSensible == \A p \in Procs : \A d \in Depths(p) : Sensible(CallAt(p, d))

\* A body has the first place in its agent's chain.
BodyHasTurn ==
  \A p \in Procs : \A d \in Depths(p) :
    InBody(CallAt(p, d)) =>
      /\ chain[CallAt(p, d).agent] # <<>>
      /\ Head(chain[CallAt(p, d).agent]) = [proc |-> p, depth |-> d]

\* There is a slot for every run a body may still claim.
BodyHasSlots ==
  \A p \in Procs : \A d \in Depths(p) :
    LET f == CallAt(p, d)
    IN InBody(f) => Cardinality(RunningOf(f.agent)) + Cardinality(ToClaim(f)) <= MaxSlots

\* The run that the call above a body is cancelling for it.
Cancelling(p, d) ==
  IF /\ d + 1 \in Depths(p)
     /\ CallAt(p, d + 1).fn = "cancel" /\ CallAt(p, d + 1).pc \in {"read", "set"}
  THEN {CallAt(p, d + 1).run} ELSE {}

\* What is older than a run the body may still claim, it may still claim as well,
\* or is cancelling; the run at hand is the oldest.
OldestFirst ==
  \A p \in Procs : \A d \in Depths(p) :
    LET f == CallAt(p, d)
    IN InBody(f) => /\ \A r \in ToClaim(f) : \A q \in QueuedOf(f.agent) :
                         q < r => q \in ToClaim(f) \cup Cancelling(p, d)
                    /\ \A r \in AtHand(f) : \A q \in f.todo : r <= q
                    /\ f.pc = "update" => d = Len(stack[p])

\* The process of a run that has not ended is idle, or executes it.
Executing(r) ==
  /\ status[r] = "running" /\ Len(stack[r]) = 1
  /\ Top(r).fn = "exec" /\ Top(r).run = r /\ Top(r).pc \in {"begin", "adapter"}
RunsExecuted == \A r \in RunIds : stack[r] = <<>> \/ status[r] = "ended" \/ Executing(r)

\* A run that was claimed is claimed once, and not executed before its body ends.
ClaimedOnce ==
  \A p \in Procs : \A d \in Depths(p) : \A r \in CallAt(p, d).got :
    /\ stack[r] = <<>> /\ status[r] \in {"running", "ended"}
    /\ \A q \in Procs : \A e \in Depths(q) : r \in CallAt(q, e).got => q = p /\ e = d

\* Whoever claimed a run that is running has it still to execute, or it is executed.
RunningHeld ==
  \A r \in RunIds : status[r] = "running" =>
    stack[r] # <<>> \/ \E p \in Procs : \E d \in Depths(p) : r \in CallAt(p, d).got

-----------------------------------------------------------------------------
(* Stacks *)

\* The calls s with the innermost one replaced by one call, by two, or by none.
LEMMA OneCall ==
  ASSUME NEW F, NEW s \in Seq(F), s # <<>>, NEW f \in F
  PROVE  LET t == <<f>> \o Tail(s)
         IN /\ t \in Seq(F) /\ Len(t) = Len(s)
            /\ AtDepth(t, Len(s)) = f
            /\ \A d \in 1..Len(s) - 1 : AtDepth(t, d) = AtDepth(s, d)
<1> DEFINE t == <<f>> \o Tail(s)
<1>1. Len(s) \in Nat \ {0} /\ Tail(s) \in Seq(F) /\ Len(Tail(s)) = Len(s) - 1
  OBVIOUS
<1>2. \A i \in 1..Len(s) - 1 : Tail(s)[i] = s[i + 1]
  OBVIOUS
<1>3. t \in Seq(F) /\ Len(t) = Len(s)
  BY <1>1
<1>4. t[1] = f /\ \A i \in 2..Len(s) : t[i] = s[i]
  BY <1>1, <1>2
<1> QED
  BY <1>1, <1>3, <1>4 DEF AtDepth

LEMMA TwoCalls ==
  ASSUME NEW F, NEW s \in Seq(F), s # <<>>, NEW c \in F, NEW f \in F
  PROVE  LET t == <<c, f>> \o Tail(s)
         IN /\ t \in Seq(F) /\ Len(t) = Len(s) + 1
            /\ AtDepth(t, Len(s) + 1) = c /\ AtDepth(t, Len(s)) = f
            /\ \A d \in 1..Len(s) - 1 : AtDepth(t, d) = AtDepth(s, d)
<1> DEFINE t == <<c, f>> \o Tail(s)
<1>1. Len(s) \in Nat \ {0} /\ Tail(s) \in Seq(F) /\ Len(Tail(s)) = Len(s) - 1
  OBVIOUS
<1>2. \A i \in 1..Len(s) - 1 : Tail(s)[i] = s[i + 1]
  OBVIOUS
<1>3. t \in Seq(F) /\ Len(t) = Len(s) + 1
  BY <1>1
<1>4. t[1] = c /\ t[2] = f /\ \A i \in 2..Len(s) : t[i + 1] = s[i]
  BY <1>1, <1>2
<1> QED
  BY <1>1, <1>3, <1>4 DEF AtDepth

LEMMA NoCall ==
  ASSUME NEW F, NEW s \in Seq(F), s # <<>>
  PROVE  /\ Tail(s) \in Seq(F) /\ Len(Tail(s)) = Len(s) - 1
         /\ \A d \in 1..Len(s) - 1 : AtDepth(Tail(s), d) = AtDepth(s, d)
<1>1. Len(s) \in Nat \ {0} /\ Tail(s) \in Seq(F) /\ Len(Tail(s)) = Len(s) - 1
  OBVIOUS
<1>2. \A i \in 1..Len(s) - 1 : Tail(s)[i] = s[i + 1]
  OBVIOUS
<1> QED
  BY <1>1, <1>2 DEF AtDepth

LEMMA Innermost ==
  ASSUME NEW F, NEW s \in Seq(F), s # <<>>
  PROVE  Len(s) \in Nat \ {0} /\ Head(s) = AtDepth(s, Len(s)) /\ Head(s) \in F
BY DEF AtDepth

\* The call at depth d of p is where it was.
Kept(p, d) == d \in Depths(p) /\ d \in Depths(p)' /\ CallAt(p, d)' = CallAt(p, d)

\* Only the innermost call of p moves.
OnlyTop(p) ==
  /\ \A q \in Procs : \A d \in Depths(q) : Kept(q, d) \/ (q = p /\ d = Len(stack[p]))
  /\ \A q \in Procs : \A d \in Depths(q)' : Kept(q, d) \/ (q = p /\ d >= Len(stack[p]))
  /\ \A q \in Procs : q # p => stack'[q] = stack[q]

Stacks == stack \in [Procs -> Seq(Frames)]

LEMMA GoingOn ==
  ASSUME Stacks, NEW p \in Procs, stack[p] # <<>>, NEW f \in Frames,
         stack' = [stack EXCEPT ![p] = <<f>> \o Tail(@)]
  PROVE  /\ Stacks' /\ OnlyTop(p)
         /\ Len(stack'[p]) = Len(stack[p]) /\ AtDepth(stack'[p], Len(stack[p])) = f
<1>0. stack[p] \in Seq(Frames) /\ Len(stack[p]) \in Nat \ {0}
  BY DEF Stacks
<1>1. stack'[p] = <<f>> \o Tail(stack[p]) /\ \A q \in Procs : q # p => stack'[q] = stack[q]
  BY DEF Stacks
<1>2. /\ stack'[p] \in Seq(Frames) /\ Len(stack'[p]) = Len(stack[p])
      /\ AtDepth(stack'[p], Len(stack[p])) = f
      /\ \A d \in 1..Len(stack[p]) - 1 : AtDepth(stack'[p], d) = AtDepth(stack[p], d)
  <2>1. /\ <<f>> \o Tail(stack[p]) \in Seq(Frames)
        /\ Len(<<f>> \o Tail(stack[p])) = Len(stack[p])
        /\ AtDepth(<<f>> \o Tail(stack[p]), Len(stack[p])) = f
        /\ \A d \in 1..Len(stack[p]) - 1 :
             AtDepth(<<f>> \o Tail(stack[p]), d) = AtDepth(stack[p], d)
    BY <1>0, OneCall
  <2> QED
    BY <1>1, <2>1
<1>3. Stacks'
  BY <1>2 DEF Stacks
<1>4. OnlyTop(p)
  BY <1>0, <1>1, <1>2 DEF OnlyTop, Kept, Depths, CallAt
<1> QED
  BY <1>2, <1>3, <1>4 DEF CallAt

LEMMA CallingOn ==
  ASSUME Stacks, NEW p \in Procs, stack[p] # <<>>, NEW c \in Frames, NEW f \in Frames,
         stack' = [stack EXCEPT ![p] = <<c, f>> \o Tail(stack[p])]
  PROVE  /\ Stacks' /\ OnlyTop(p)
         /\ Len(stack'[p]) = Len(stack[p]) + 1
         /\ AtDepth(stack'[p], Len(stack[p])) = f /\ AtDepth(stack'[p], Len(stack[p]) + 1) = c
<1>0. stack[p] \in Seq(Frames) /\ Len(stack[p]) \in Nat \ {0}
  BY DEF Stacks
<1>1. stack'[p] = <<c, f>> \o Tail(stack[p]) /\ \A q \in Procs : q # p => stack'[q] = stack[q]
  BY DEF Stacks
<1>2. /\ stack'[p] \in Seq(Frames) /\ Len(stack'[p]) = Len(stack[p]) + 1
      /\ AtDepth(stack'[p], Len(stack[p])) = f /\ AtDepth(stack'[p], Len(stack[p]) + 1) = c
      /\ \A d \in 1..Len(stack[p]) - 1 : AtDepth(stack'[p], d) = AtDepth(stack[p], d)
  BY <1>0, <1>1, TwoCalls
<1>3. Stacks'
  BY <1>2 DEF Stacks
<1> DEFINE n == Len(stack[p])
<1>4. ASSUME NEW q \in Procs, NEW d \in Depths(q), q # p \/ d # n
      PROVE  Kept(q, d)
  <2>1. CASE q # p
    BY <2>1, <1>1 DEF Kept, Depths, CallAt
  <2>2. CASE q = p
    <3>1. d \in 1..n - 1
      BY <2>2, <1>0, <1>4 DEF Depths
    <3>2. d \in 1..n /\ d \in 1..n + 1
      BY <3>1, <1>0
    <3>3. AtDepth(stack'[p], d) = AtDepth(stack[p], d)
      BY <3>1, <1>2
    <3> QED
      BY <2>2, <3>2, <3>3, <1>2 DEF Kept, Depths, CallAt
  <2> QED
    BY <2>1, <2>2
<1>5. ASSUME NEW q \in Procs, NEW d \in Depths(q)', q # p \/ d < n
      PROVE  d \in Depths(q)
  BY <1>0, <1>1, <1>2, <1>5 DEF Depths
<1>6. \A d \in Depths(p)' : d < n \/ d >= n
  BY <1>0, <1>2 DEF Depths
<1>7. OnlyTop(p)
  <2>1. ASSUME NEW q \in Procs, NEW d \in Depths(q)' PROVE Kept(q, d) \/ (q = p /\ d >= n)
    <3>1. CASE q # p
      BY <3>1, <1>4, <1>5
    <3>2. CASE q = p /\ d < n
      BY <3>2, <1>0, <1>4, <1>5
    <3> QED
      BY <3>1, <3>2, <1>6
  <2> QED
    BY <1>1, <1>4, <2>1 DEF OnlyTop
<1> QED
  BY <1>2, <1>3, <1>7

LEMMA Returning ==
  ASSUME Stacks, NEW p \in Procs, stack[p] # <<>>,
         stack' = [stack EXCEPT ![p] = Tail(@)]
  PROVE  /\ Stacks' /\ OnlyTop(p)
         /\ Len(stack'[p]) = Len(stack[p]) - 1
<1>0. stack[p] \in Seq(Frames) /\ Len(stack[p]) \in Nat \ {0}
  BY DEF Stacks
<1>1. stack'[p] = Tail(stack[p]) /\ \A q \in Procs : q # p => stack'[q] = stack[q]
  BY DEF Stacks
<1>2. /\ stack'[p] \in Seq(Frames) /\ Len(stack'[p]) = Len(stack[p]) - 1
      /\ \A d \in 1..Len(stack[p]) - 1 : AtDepth(stack'[p], d) = AtDepth(stack[p], d)
  BY <1>0, <1>1, NoCall
<1>3. Stacks'
  BY <1>2 DEF Stacks
<1>4. OnlyTop(p)
  BY <1>0, <1>1, <1>2 DEF OnlyTop, Kept, Depths, CallAt
<1> QED
  BY <1>2, <1>3, <1>4

LEMMA Receiving ==
  ASSUME Stacks, NEW p \in Procs, NEW f \in Frames, Receive(p, f)
  PROVE  /\ Stacks' /\ OnlyTop(p) /\ chain' = chain
         /\ Len(stack[p]) = 0 /\ Len(stack'[p]) = 1 /\ AtDepth(stack'[p], 1) = f
<1>1. /\ stack[p] = <<>> /\ stack'[p] = <<f>> /\ chain' = chain
      /\ \A q \in Procs : q # p => stack'[q] = stack[q]
  BY DEF Stacks, Receive
<1>2. /\ <<f>> \in Seq(Frames) /\ Len(<<f>>) = 1 /\ AtDepth(<<f>>, 1) = f /\ Len(stack[p]) = 0
  BY <1>1 DEF AtDepth
<1>3. Stacks'
  BY <1>1, <1>2 DEF Stacks, Receive
<1>4. OnlyTop(p)
  BY <1>1, <1>2 DEF OnlyTop, Kept, Depths, CallAt
<1> QED
  BY <1>1, <1>2, <1>3, <1>4 DEF CallAt

-----------------------------------------------------------------------------
(* Rows, chains and calls that only go on *)

RowsOK ==
  /\ nRuns \in 0..MaxRuns
  /\ status \in [RunIds -> {"absent", "queued", "running", "ended"}]
  /\ agentOf \in [RunIds -> Agents \cup {None}]
  /\ \A r \in RunIds : r <= nRuns => status[r] # "absent" /\ agentOf[r] \in Agents
  /\ NoRunBeyond

\* Runs are queued, and end.
RowsMove ==
  /\ RowsOK'
  /\ nRuns <= nRuns'
  /\ \A r \in 1..nRuns : /\ agentOf'[r] = agentOf[r]
                         /\ status'[r] = status[r] \/ status'[r] = "ended"
  /\ \A r \in RunIds : r > nRuns => status'[r] \in {"absent", "queued"}

LEMMA RowsStay == ASSUME RowsOK, UNCHANGED runRows PROVE RowsMove
BY LockBounds DEF RowsOK, RowsMove, runRows, NoRunBeyond, RunIds

LEMMA RunEnds ==
  ASSUME RowsOK, NEW r \in 1..nRuns, status' = [status EXCEPT ![r] = "ended"],
         UNCHANGED <<nRuns, agentOf>>
  PROVE  RowsMove /\ r \in RunIds /\ status'[r] = "ended"
<1>1. r \in RunIds
  BY LockBounds DEF RowsOK, RunIds
<1> QED
  BY <1>1, LockBounds DEF RowsOK, RowsMove, NoRunBeyond, RunIds

LEMMA RunQueued ==
  ASSUME RowsOK, NEW a \in Agents, Queue(a)
  PROVE  RowsMove
<1>1. nRuns + 1 \in RunIds /\ nRuns' = nRuns + 1 /\ nRuns \in Nat
  BY LockBounds DEF RowsOK, RunIds, Queue
<1>2. /\ status' = [status EXCEPT ![nRuns + 1] = "queued"]
      /\ agentOf' = [agentOf EXCEPT ![nRuns + 1] = a]
  BY DEF Queue
<1>3. \A r \in RunIds : /\ r <= nRuns + 1 <=> r <= nRuns \/ r = nRuns + 1
                        /\ r \in Nat
  BY <1>1 DEF RunIds
<1>4. RowsOK'
  <2>1. nRuns' \in 0..MaxRuns
    BY <1>1 DEF RunIds
  <2>2. /\ status' \in [RunIds -> {"absent", "queued", "running", "ended"}]
        /\ agentOf' \in [RunIds -> Agents \cup {None}]
    BY <1>1, <1>2 DEF RowsOK
  <2>3. \A r \in RunIds : r <= nRuns + 1 => status'[r] # "absent" /\ agentOf'[r] \in Agents
    BY <1>1, <1>2, <1>3 DEF RowsOK
  <2>4. \A r \in RunIds : r > nRuns + 1 => status'[r] = "absent"
    BY <1>1, <1>2, <1>3 DEF RowsOK, NoRunBeyond
  <2> QED
    BY <1>1, <2>1, <2>2, <2>3, <2>4 DEF RowsOK, NoRunBeyond
<1>5. \A r \in 1..nRuns : r \in RunIds /\ r # nRuns + 1
  BY <1>1, LockBounds DEF RunIds
<1> QED
  BY <1>1, <1>2, <1>3, <1>4, <1>5 DEF RowsMove, RowsOK, NoRunBeyond

Tickets == [proc : Procs, depth : Nat]
ChainsOK == chain \in [Agents -> Seq(Tickets)]

\* Who has a turn keeps it.
ChainsGrow ==
  /\ ChainsOK'
  /\ \A a \in Agents : chain[a] # <<>> => chain'[a] # <<>> /\ Head(chain'[a]) = Head(chain[a])

LEMMA ChainsStay == ASSUME ChainsOK, UNCHANGED chain PROVE ChainsGrow
BY DEF ChainsOK, ChainsGrow

LEMMA Joining ==
  ASSUME ChainsOK, NEW a \in Agents, NEW t \in Tickets,
         chain' = [chain EXCEPT ![a] = Append(@, t)]
  PROVE  ChainsGrow
<1>1. Append(chain[a], t) \in Seq(Tickets) /\ Append(chain[a], t) # <<>>
  BY DEF ChainsOK
<1>2. chain[a] # <<>> => Head(Append(chain[a], t)) = Head(chain[a])
  BY DEF ChainsOK
<1> QED
  BY <1>1, <1>2 DEF ChainsOK, ChainsGrow

\* The innermost call of p moves, and no body does.
Moved(p) ==
  /\ Stacks' /\ OnlyTop(p)
  /\ \A d \in Depths(p)' : d >= Len(stack[p]) => Sensible(CallAt(p, d))' /\ ~InBody(CallAt(p, d))'

LEMMA MovedOn ==
  ASSUME Stacks, NEW p \in Procs, stack[p] # <<>>, NEW f \in Frames, GoOn(p, f),
         Sensible(f)', ~InBody(f)
  PROVE  /\ Moved(p) /\ UNCHANGED chain
         /\ stack'[p] # <<>> /\ Len(stack'[p]) = Len(stack[p]) /\ Top(p)' = f
<1>1. /\ Stacks' /\ OnlyTop(p)
      /\ Len(stack'[p]) = Len(stack[p]) /\ AtDepth(stack'[p], Len(stack[p])) = f
  BY GoingOn DEF GoOn
<1>2. /\ Len(stack[p]) \in Nat \ {0}
      /\ stack'[p] # <<>> /\ Head(stack'[p]) = AtDepth(stack'[p], Len(stack'[p]))
  BY <1>1 DEF Stacks, AtDepth
<1>3. \A d \in Depths(p)' : d >= Len(stack[p]) => d = Len(stack[p])
  BY <1>1, <1>2 DEF Depths
<1> QED
  BY <1>1, <1>2, <1>3 DEF Moved, CallAt, GoOn, Top, InBody, Sensible, AtHand, ToClaim

LEMMA MovedBack ==
  ASSUME Stacks, NEW p \in Procs, stack[p] # <<>>, Return(p)
  PROVE  Moved(p) /\ UNCHANGED chain
<1>1. Stacks' /\ OnlyTop(p) /\ Len(stack'[p]) = Len(stack[p]) - 1
  BY Returning DEF Return
<1>2. Len(stack[p]) \in Nat \ {0}
  BY DEF Stacks
<1>3. \A d \in Depths(p)' : ~(d >= Len(stack[p]))
  BY <1>1, <1>2 DEF Depths
<1> QED
  BY <1>1, <1>3 DEF Moved, Return

LEMMA MovedUp ==
  ASSUME Stacks, NEW p \in Procs, NEW f \in Frames, Receive(p, f), Sensible(f)', ~InBody(f)
  PROVE  Moved(p) /\ UNCHANGED chain /\ stack[p] = <<>>
<1>1. /\ Stacks' /\ OnlyTop(p) /\ chain' = chain
      /\ Len(stack[p]) = 0 /\ Len(stack'[p]) = 1 /\ AtDepth(stack'[p], 1) = f
  BY Receiving
<1>2. \A d \in Depths(p)' : d = 1
  BY <1>1 DEF Depths
<1> QED
  BY <1>1, <1>2 DEF Moved, CallAt, Receive, InBody, Sensible, AtHand, ToClaim

\* A call that is awaited last takes the caller's place.
LEMMA MovedIn ==
  ASSUME Stacks, ChainsOK, NEW p \in Procs, stack[p] # <<>>, NEW c \in Frames, Await(p, <<c>>),
         c.fn = "start" => c.agent \in Agents, Sensible(c)', ~InBody(c)
  PROVE  Moved(p) /\ ChainsGrow
<1>1. stack' = [stack EXCEPT ![p] = <<c>> \o Tail(stack[p])]
  BY DEF Await
<1>2. /\ Stacks' /\ OnlyTop(p)
      /\ Len(stack'[p]) = Len(stack[p]) /\ AtDepth(stack'[p], Len(stack[p])) = c
  BY <1>1, GoingOn
<1>3. Len(stack[p]) \in Nat \ {0}
  BY DEF Stacks
<1>4. \A d \in Depths(p)' : d >= Len(stack[p]) => d = Len(stack[p])
  BY <1>2, <1>3 DEF Depths
<1>5. Moved(p)
  BY <1>2, <1>4 DEF Moved, CallAt, InBody, Sensible, AtHand, ToClaim
<1>6. stack'[p] = <<c>> \o Tail(stack[p])
  BY <1>1 DEF Stacks
<1>7. Ticket(p, <<c>> \o Tail(stack[p])) \in Tickets
  BY <1>2, <1>3, <1>6 DEF Ticket, Tickets
<1>8. chain' = IF c.fn = "start"
               THEN [chain EXCEPT ![c.agent] = Append(@, Ticket(p, <<c>> \o Tail(stack[p])))]
               ELSE chain
  BY DEF Await
<1>9. ChainsGrow
  BY <1>7, <1>8, Joining, ChainsStay
<1> QED
  BY <1>5, <1>9

\* A call that is awaited on the way leaves the caller beneath it.
LEMMA MovedInto ==
  ASSUME Stacks, ChainsOK, NEW p \in Procs, stack[p] # <<>>, NEW c \in Frames, NEW f \in Frames,
         Await(p, <<c, f>>), c.fn = "start" => c.agent \in Agents,
         Sensible(c)', ~InBody(c), Sensible(f)', ~InBody(f)
  PROVE  /\ Moved(p) /\ ChainsGrow
         /\ Len(stack'[p]) = Len(stack[p]) + 1
<1>1. stack' = [stack EXCEPT ![p] = <<c, f>> \o Tail(stack[p])]
  BY DEF Await
<1>2. /\ Stacks' /\ OnlyTop(p) /\ Len(stack'[p]) = Len(stack[p]) + 1
      /\ AtDepth(stack'[p], Len(stack[p])) = f /\ AtDepth(stack'[p], Len(stack[p]) + 1) = c
  BY <1>1, CallingOn
<1>3. Len(stack[p]) \in Nat \ {0}
  BY DEF Stacks
<1>4. \A d \in Depths(p)' : d >= Len(stack[p]) => d = Len(stack[p]) \/ d = Len(stack[p]) + 1
  BY <1>2, <1>3 DEF Depths
<1>5. Moved(p)
  BY <1>2, <1>4 DEF Moved, CallAt, InBody, Sensible, AtHand, ToClaim
<1>6. stack'[p] = <<c, f>> \o Tail(stack[p])
  BY <1>1 DEF Stacks
<1>7. Ticket(p, <<c, f>> \o Tail(stack[p])) \in Tickets
  BY <1>2, <1>3, <1>6 DEF Ticket, Tickets
<1>8. chain' = IF c.fn = "start"
               THEN [chain EXCEPT ![c.agent] = Append(@, Ticket(p, <<c, f>> \o Tail(stack[p])))]
               ELSE chain
  BY DEF Await
<1>9. ChainsGrow
  BY <1>7, <1>8, Joining, ChainsStay
<1> QED
  BY <1>2, <1>5, <1>9

-----------------------------------------------------------------------------
(* Steps outside the bodies *)

\* A run whose cancellation is being decided is cancelled, or decided on.
CancelGoes(p) ==
  stack[p] # <<>> /\ Top(p).fn = "cancel" /\ Top(p).pc \in {"read", "set"} =>
    \/ Top(p).run \in RunIds /\ status'[Top(p).run] # "queued"
    \/ /\ Len(stack'[p]) = Len(stack[p])
       /\ Top(p)'.fn = "cancel" /\ Top(p)'.pc = "set" /\ Top(p)'.run = Top(p).run

\* What a step of p does that neither enters nor moves nor leaves a body.
Aside(p) ==
  /\ Moved(p) /\ ChainsGrow /\ RowsMove
  /\ stack[p] = <<>> => p \notin RunIds
  /\ stack[p] # <<>> => ~InBody(Top(p))
  /\ CancelGoes(p)
  /\ p \in RunIds /\ Executing(p) => Executing(p)' \/ status'[p] = "ended"

StartState == Stacks /\ ChainsOK /\ RowsOK /\ CallsSensible

\* The innermost call of a process.
LEMMA TopCall ==
  ASSUME StartState, NEW p \in Procs, stack[p] # <<>>
  PROVE  Top(p) \in Frames /\ Sensible(Top(p)) /\ Len(stack[p]) \in Depths(p)
         /\ Top(p) = CallAt(p, Len(stack[p]))
<1>1. /\ Len(stack[p]) \in Nat \ {0} /\ Head(stack[p]) = AtDepth(stack[p], Len(stack[p]))
      /\ Head(stack[p]) \in Frames
  BY Innermost DEF StartState, Stacks
<1>2. Len(stack[p]) \in Depths(p)
  BY <1>1 DEF Depths
<1> QED
  BY <1>1, <1>2 DEF StartState, CallsSensible, CallAt, Top

\* A call that makes sense goes on making sense.
LEMMA SensibleStays ==
  ASSUME RowsOK, RowsMove, NEW f \in Frames, Sensible(f)
  PROVE  Sensible(f)'
<1>1. \A r \in 1..nRuns : r \in 1..nRuns' /\ agentOf'[r] = agentOf[r]
  BY LockBounds DEF RowsMove, RowsOK
<1> QED
  BY <1>1 DEF Sensible, ToClaim, AtHand

\* Only fn, pc and the runs matter to whether a call makes sense.
LEMMA FrameGoesOn ==
  ASSUME NEW f \in Frames,
         NEW pc \in {"wait", "check", "update", "read", "set", "release", "tail", "begin",
                     "adapter", "checked", "scan", "loop"}
  PROVE  LET g == [f EXCEPT !.pc = pc]
         IN /\ g \in Frames /\ g.fn = f.fn /\ g.pc = pc /\ g.agent = f.agent
            /\ g.run = f.run /\ g.todo = f.todo /\ g.got = f.got
BY DEF Frames

LEMMA NewFrames ==
  /\ \A a \in Agents : /\ StartCall(a) \in Frames /\ WakeCall(a) \in Frames
                       /\ PauseCall(a) \in Frames
  /\ \A r \in RunIds : /\ CancelCall(r) \in Frames /\ DropCall(r) \in Frames
                       /\ ExecCall(r) \in Frames
  /\ BudgetCall \in Frames /\ ResumeCall \in Frames
BY LockBounds DEF StartCall, WakeCall, PauseCall, CancelCall, DropCall, ExecCall, BudgetCall,
  ResumeCall, Frame, Frames, CallNames, RunIds

\* New calls claim nothing.
LEMMA NewSensible ==
  /\ \A a \in Agents : \A f \in {StartCall(a), WakeCall(a), PauseCall(a)} : Sensible(f) /\ ~InBody(f)
  /\ \A r \in 1..nRuns : \A f \in {CancelCall(r), DropCall(r), ExecCall(r)} : Sensible(f) /\ ~InBody(f)
  /\ \A f \in {BudgetCall, ResumeCall} : Sensible(f) /\ ~InBody(f)
BY DEF StartCall, WakeCall, PauseCall, CancelCall, DropCall, ExecCall, BudgetCall, ResumeCall,
  Frame, Sensible, InBody

LEMMA RunIdsProcs == RunIds \subseteq Procs /\ RunIds \cap (Callers \cup {Driver}) = {}
BY LockNames DEF Procs, RunIds

LEMMA AllStaySensible ==
  ASSUME RowsOK, RowsMove PROVE \A f \in Frames : Sensible(f) => Sensible(f)'
BY SensibleStays

\* A call that is no start goes on at pc.
LEMMA GoesAside ==
  ASSUME StartState, RowsMove, NEW p \in Procs, stack[p] # <<>>, Top(p).fn # "start",
         NEW pc \in {"wait", "check", "update", "read", "set", "release", "tail", "begin",
                     "adapter", "checked", "scan", "loop"},
         GoOn(p, [Top(p) EXCEPT !.pc = pc])
  PROVE  /\ Moved(p) /\ ChainsGrow /\ ~InBody(Top(p))
         /\ stack'[p] # <<>> /\ Len(stack'[p]) = Len(stack[p])
         /\ Top(p)'.fn = Top(p).fn /\ Top(p)'.pc = pc /\ Top(p)'.run = Top(p).run
<1> DEFINE f == [Top(p) EXCEPT !.pc = pc]
<1>1. Top(p) \in Frames /\ Sensible(Top(p))
  BY TopCall
<1>2. /\ f \in Frames /\ f.fn = Top(p).fn /\ f.pc = pc /\ f.agent = Top(p).agent
      /\ f.run = Top(p).run /\ f.todo = Top(p).todo /\ f.got = Top(p).got
  BY <1>1, FrameGoesOn
<1>3. Sensible(f) /\ ~InBody(f) /\ ~InBody(Top(p))
  BY <1>1, <1>2 DEF Sensible, InBody
<1>4. \A g \in Frames : Sensible(g) => Sensible(g)'
  BY AllStaySensible DEF StartState
<1>5. GoOn(p, f)
  OBVIOUS
<1> HIDE DEF f
<1>6. /\ Moved(p) /\ UNCHANGED chain
      /\ stack'[p] # <<>> /\ Len(stack'[p]) = Len(stack[p]) /\ Top(p)' = f
  BY <1>2, <1>3, <1>4, <1>5, MovedOn DEF StartState
<1>7. ChainsGrow
  BY <1>6, ChainsStay DEF StartState
<1> QED
  BY <1>2, <1>3, <1>6, <1>7

\* A call that is no start returns.
LEMMA ReturnsAside ==
  ASSUME StartState, RowsMove, NEW p \in Procs, stack[p] # <<>>, Top(p).fn # "start", Return(p)
  PROVE  Moved(p) /\ ChainsGrow /\ ~InBody(Top(p))
BY MovedBack, ChainsStay DEF StartState, InBody

\* A call that is no start awaits another, and is over.
LEMMA TailAside ==
  ASSUME StartState, RowsMove, NEW p \in Procs, stack[p] # <<>>, Top(p).fn # "start",
         NEW a \in Agents, Await(p, <<StartCall(a)>>)
  PROVE  Moved(p) /\ ChainsGrow /\ ~InBody(Top(p))
<1>1. StartCall(a) \in Frames /\ Sensible(StartCall(a)) /\ ~InBody(StartCall(a))
  BY NewFrames, NewSensible
<1>2. StartCall(a).agent = a
  BY DEF StartCall, Frame
<1>3. \A g \in Frames : Sensible(g) => Sensible(g)'
  BY AllStaySensible DEF StartState
<1> QED
  BY <1>1, <1>2, <1>3, MovedIn DEF StartState, InBody

\* A call that is no start awaits c, to go on as f.
LEMMA AwaitAside ==
  ASSUME StartState, RowsMove, NEW p \in Procs, stack[p] # <<>>, Top(p).fn # "start",
         NEW c \in Frames, NEW f \in Frames, Sensible(c), Sensible(f), f.fn # "start", ~InBody(c),
         Await(p, <<c, f>>)
  PROVE  Moved(p) /\ ChainsGrow /\ ~InBody(Top(p))
<1>1. \A g \in Frames : Sensible(g) => Sensible(g)'
  BY AllStaySensible DEF StartState
<1>2. c.fn = "start" => c.agent \in Agents
  BY DEF Sensible
<1> QED
  BY <1>1, <1>2, MovedInto DEF StartState, InBody

LEMMA AsideExecBegin ==
  ASSUME StartState, NEW p \in Procs, ExecBegin(p) PROVE Aside(p)
<1>1. stack[p] # <<>> /\ Top(p).fn = "exec" /\ Top(p).pc = "begin"
  BY DEF ExecBegin, In
<1>2. RowsMove /\ status' = status
  BY RowsStay DEF ExecBegin, StartState, runRows
<1>3. Moved(p) /\ ChainsGrow /\ ~InBody(Top(p))
  BY <1>1, <1>2, GoesAside, ReturnsAside DEF ExecBegin
<1>4. ASSUME p \in RunIds, Executing(p) PROVE Executing(p)'
  <2>1. GoOn(p, [Top(p) EXCEPT !.pc = "adapter"])
    BY <1>4 DEF Executing, ExecBegin, Active
  <2>2. /\ Len(stack'[p]) = Len(stack[p])
        /\ Top(p)'.fn = Top(p).fn /\ Top(p)'.pc = "adapter" /\ Top(p)'.run = Top(p).run
    BY <1>1, <1>2, <2>1, GoesAside
  <2> QED
    BY <1>2, <1>4, <2>2 DEF Executing
<1> QED
  BY <1>1, <1>2, <1>3, <1>4 DEF Aside, CancelGoes

LEMMA AsideAdapterEnds ==
  ASSUME StartState, NEW p \in Procs, AdapterEnds(p) PROVE Aside(p)
<1>1. stack[p] # <<>> /\ Top(p).fn = "exec" /\ Top(p).pc = "adapter"
  BY DEF AdapterEnds, In
<1>2. Top(p).run \in 1..nRuns
  BY <1>1, TopCall DEF Sensible
<1>3. RowsMove /\ status'[Top(p).run] = "ended"
  BY <1>2, RunEnds DEF AdapterEnds, StartState
<1>4. Moved(p) /\ ChainsGrow /\ ~InBody(Top(p))
  BY <1>1, <1>3, GoesAside DEF AdapterEnds
<1> QED
  BY <1>1, <1>3, <1>4 DEF Aside, CancelGoes, Executing

LEMMA AsideCancelRead ==
  ASSUME StartState, NEW p \in Procs, CancelRead(p) PROVE Aside(p)
<1>1. stack[p] # <<>> /\ Top(p).fn = "cancel" /\ Top(p).pc = "read"
  BY DEF CancelRead, In
<1>2. RowsMove /\ status' = status
  BY RowsStay DEF CancelRead, StartState, runRows
<1>3. Moved(p) /\ ChainsGrow /\ ~InBody(Top(p))
  BY <1>1, <1>2, GoesAside, ReturnsAside DEF CancelRead
<1>4. CancelGoes(p)
  <2>0. Top(p).run \in RunIds
    BY <1>1, TopCall, LockBounds DEF Sensible, StartState, RowsOK, RunIds
  <2>1. CASE ~Active(Top(p).run)
    BY <1>2, <2>0, <2>1 DEF Active, CancelGoes
  <2>2. CASE GoOn(p, [Top(p) EXCEPT !.pc = "set"])
    BY <1>1, <1>2, <2>2, GoesAside DEF CancelGoes
  <2> QED
    BY <2>1, <2>2 DEF CancelRead
<1> QED
  BY <1>1, <1>2, <1>3, <1>4 DEF Aside, Executing

LEMMA AsideCancelSet ==
  ASSUME StartState, NEW p \in Procs, CancelSet(p) PROVE Aside(p)
<1>1. stack[p] # <<>> /\ Top(p).fn \in {"cancel", "drop"} /\ Top(p).pc = "set"
  BY DEF CancelSet, In
<1>2. Top(p).run \in 1..nRuns
  BY <1>1, TopCall DEF Sensible
<1>3. RowsMove /\ Top(p).run \in RunIds /\ status'[Top(p).run] = "ended"
  BY <1>2, RunEnds DEF CancelSet, StartState
<1>4. Moved(p) /\ ChainsGrow /\ ~InBody(Top(p))
  BY <1>1, <1>3, GoesAside DEF CancelSet
<1> QED
  BY <1>1, <1>3, <1>4 DEF Aside, CancelGoes, Executing

LEMMA AsideRelease ==
  ASSUME StartState, NEW p \in Procs, Release(p) PROVE Aside(p)
<1> DEFINE f == [Top(p) EXCEPT !.pc = "tail"]
<1>1. stack[p] # <<>> /\ Top(p).fn \in {"cancel", "drop", "exec"} /\ Top(p).pc = "release"
  BY DEF Release, In
<1>2. CASE GoOn(p, f) /\ UNCHANGED runRows
  <2>1. RowsMove
    BY <1>2, RowsStay DEF StartState
  <2>2. Moved(p) /\ ChainsGrow /\ ~InBody(Top(p))
    BY <1>1, <1>2, <2>1, GoesAside
  <2> QED
    BY <1>1, <2>1, <2>2 DEF Aside, CancelGoes, Executing
<1>3. ASSUME NEW b \in Agents, Queue(b), Await(p, <<StartCall(b), f>>)
      PROVE  Aside(p)
  <2>1. RowsMove
    BY <1>3, RunQueued DEF StartState
  <2>2. Top(p) \in Frames /\ Sensible(Top(p))
    BY <1>1, TopCall
  <2>3. /\ f \in Frames /\ f.fn = Top(p).fn /\ f.pc = "tail" /\ f.agent = Top(p).agent
        /\ f.run = Top(p).run /\ f.todo = Top(p).todo /\ f.got = Top(p).got
    BY <2>2, FrameGoesOn
  <2>4. Sensible(f) /\ f.fn # "start"
    BY <1>1, <2>2, <2>3 DEF Sensible, InBody
  <2>5. StartCall(b) \in Frames /\ Sensible(StartCall(b)) /\ ~InBody(StartCall(b))
    BY NewFrames, NewSensible
  <2>6. Moved(p) /\ ChainsGrow /\ ~InBody(Top(p))
    BY <1>1, <1>3, <2>1, <2>3, <2>4, <2>5, AwaitAside
  <2> QED
    BY <1>1, <2>1, <2>6 DEF Aside, CancelGoes, Executing
<1> QED
  BY <1>2, <1>3 DEF Release

LEMMA AsideStartNext ==
  ASSUME StartState, NEW p \in Procs, StartNext(p) PROVE Aside(p)
<1>1. stack[p] # <<>> /\ Top(p).fn \in {"cancel", "exec"} /\ Top(p).pc = "tail"
  BY DEF StartNext, In
<1>2. RowsMove
  BY RowsStay DEF StartNext, StartState
<1>3. Top(p).run \in 1..nRuns
  BY <1>1, TopCall DEF Sensible
<1>4. agentOf[Top(p).run] \in Agents
  BY <1>3, LockBounds DEF StartState, RowsOK, RunIds
<1>5. Moved(p) /\ ChainsGrow /\ ~InBody(Top(p))
  BY <1>1, <1>2, <1>4, TailAside DEF StartNext
<1> QED
  BY <1>1, <1>2, <1>5 DEF Aside, CancelGoes, Executing

LEMMA AsideDropEnds ==
  ASSUME StartState, NEW p \in Procs, DropEnds(p) PROVE Aside(p)
<1>1. stack[p] # <<>> /\ Top(p).fn = "drop" /\ Top(p).pc = "tail"
  BY DEF DropEnds, In
<1>2. RowsMove
  BY RowsStay DEF DropEnds, StartState
<1>3. Moved(p) /\ ChainsGrow /\ ~InBody(Top(p))
  BY <1>1, <1>2, ReturnsAside DEF DropEnds
<1> QED
  BY <1>1, <1>2, <1>3 DEF Aside, CancelGoes, Executing

LEMMA AsideCostStops ==
  ASSUME StartState, NEW p \in Procs, CostStops(p) PROVE Aside(p)
<1>1. stack[p] # <<>> /\ Top(p).fn = "exec" /\ Top(p).pc = "tail"
  BY DEF CostStops, In
<1>2. RowsMove
  BY RowsStay DEF CostStops, StartState
<1>3. Top(p) \in Frames /\ Sensible(Top(p))
  BY <1>1, TopCall
<1>4. BudgetCall \in Frames /\ Sensible(BudgetCall) /\ ~InBody(BudgetCall)
  BY NewFrames, NewSensible
<1>5. Moved(p) /\ ChainsGrow /\ ~InBody(Top(p))
  BY <1>1, <1>2, <1>3, <1>4, AwaitAside DEF CostStops
<1> QED
  BY <1>1, <1>2, <1>5 DEF Aside, CancelGoes, Executing

\* What a scan finds is there.
LEMMA ScannedThere ==
  ASSUME RowsOK, NEW f \in Frames, f.fn \in {"budget", "pause", "resume"}
  PROVE  Scanned(f) \subseteq 1..nRuns /\ Scanned(f) \subseteq RunIds
<1>1. \A r \in RunIds : status[r] \in {"queued", "running"} => r \in 1..nRuns
  BY LockBounds DEF RowsOK, NoRunBeyond, RunIds
<1>2. Scanned(f) \subseteq {r \in RunIds : status[r] \in {"queued", "running"}}
  <2>1. CASE f.fn = "budget"
    BY <2>1 DEF Scanned, Active
  <2>2. CASE f.fn = "pause"
    BY <2>2 DEF Scanned, Active
  <2>3. CASE f.fn = "resume"
    BY <2>3 DEF Scanned
  <2> QED
    BY <2>1, <2>2, <2>3
<1> QED
  BY <1>1, <1>2

LEMMA FrameLoses ==
  ASSUME NEW f \in Frames, NEW r \in f.todo
  PROVE  LET g == [f EXCEPT !.todo = @ \ {r}]
         IN /\ g \in Frames /\ g.fn = f.fn /\ g.pc = f.pc /\ g.agent = f.agent
            /\ g.run = f.run /\ g.todo = f.todo \ {r} /\ g.got = f.got
BY DEF Frames

LEMMA AsideScan ==
  ASSUME StartState, NEW p \in Procs, Scan(p) PROVE Aside(p)
<1> DEFINE f == [Top(p) EXCEPT !.pc = "loop", !.todo = Scanned(Top(p))]
<1>1. stack[p] # <<>> /\ Top(p).fn \in {"budget", "pause", "resume"} /\ Top(p).pc = "scan"
  BY DEF Scan, In
<1>2. RowsMove
  BY RowsStay DEF Scan, StartState
<1>3. Top(p) \in Frames /\ Sensible(Top(p))
  BY <1>1, TopCall
<1>4. Scanned(Top(p)) \subseteq 1..nRuns /\ Scanned(Top(p)) \in SUBSET RunIds
  BY <1>1, <1>3, ScannedThere DEF StartState
<1>5. /\ f \in Frames /\ f.fn = Top(p).fn /\ f.pc = "loop" /\ f.agent = Top(p).agent
      /\ f.run = Top(p).run /\ f.todo = Scanned(Top(p)) /\ f.got = Top(p).got
  BY <1>3, <1>4 DEF Frames
<1>6. Sensible(f) /\ ~InBody(f) /\ ~InBody(Top(p))
  BY <1>1, <1>3, <1>4, <1>5 DEF Sensible, InBody
<1>7. \A g \in Frames : Sensible(g) => Sensible(g)'
  BY <1>2, AllStaySensible DEF StartState
<1>8. GoOn(p, f)
  BY DEF Scan
<1> HIDE DEF f
<1>9. Moved(p) /\ UNCHANGED chain
  BY <1>1, <1>5, <1>6, <1>7, <1>8, MovedOn DEF StartState
<1>10. ChainsGrow
  BY <1>9, ChainsStay DEF StartState
<1> QED
  BY <1>1, <1>2, <1>6, <1>9, <1>10 DEF Aside, CancelGoes, Executing

LEMMA AsideLoop ==
  ASSUME StartState, NEW p \in Procs, Loop(p) PROVE Aside(p)
<1>1. stack[p] # <<>> /\ Top(p).fn \in {"budget", "pause", "resume"} /\ Top(p).pc = "loop"
  BY DEF Loop, In
<1>2. RowsMove
  BY RowsStay DEF Loop, StartState
<1>3. Top(p) \in Frames /\ Sensible(Top(p))
  BY <1>1, TopCall
<1>4. CASE Return(p)
  BY <1>1, <1>2, <1>4, ReturnsAside DEF Aside, CancelGoes, Executing
<1>5. ASSUME NEW r \in Top(p).todo, Await(p, <<Visit(Top(p), r), [Top(p) EXCEPT !.todo = @ \ {r}]>>)
      PROVE  Aside(p)
  <2> DEFINE f == [Top(p) EXCEPT !.todo = @ \ {r}]
             c == Visit(Top(p), r)
  <2>1. r \in 1..nRuns /\ r \in RunIds /\ agentOf[r] \in Agents
    BY <1>3, <1>5, LockBounds DEF Sensible, StartState, RowsOK, RunIds
  <2>3. /\ f \in Frames /\ f.fn = Top(p).fn /\ f.pc = Top(p).pc /\ f.agent = Top(p).agent
        /\ f.run = Top(p).run /\ f.todo = Top(p).todo \ {r} /\ f.got = Top(p).got
    BY <1>3, FrameLoses
  <2>4. Sensible(f) /\ f.fn # "start"
    BY <1>1, <1>3, <2>3 DEF Sensible, InBody
  <2>5. c \in {CancelCall(r), DropCall(r), StartCall(agentOf[r])}
    BY <1>1 DEF Visit
  <2>6. c \in Frames /\ Sensible(c) /\ ~InBody(c)
    BY <2>1, <2>5, NewFrames, NewSensible
  <2>7. Await(p, <<c, f>>)
    BY <1>5
  <2> HIDE DEF c, f
  <2>8. Moved(p) /\ ChainsGrow /\ ~InBody(Top(p))
    BY <1>1, <1>2, <2>3, <2>4, <2>6, <2>7, AwaitAside
  <2> QED
    BY <1>1, <1>2, <2>8 DEF Aside, CancelGoes, Executing
<1> QED
  BY <1>4, <1>5 DEF Loop

LEMMA AsideWakeInsert ==
  ASSUME StartState, NEW p \in Procs, WakeInsert(p) PROVE Aside(p)
<1> DEFINE a == Top(p).agent
<1>1. stack[p] # <<>> /\ Top(p).fn = "wake" /\ Top(p).pc = "checked"
  BY DEF WakeInsert, In
<1>2. a \in Agents
  BY <1>1, TopCall DEF Sensible
<1>3. CASE Queue(a) /\ Await(p, <<StartCall(a)>>)
  <2>1. RowsMove
    BY <1>2, <1>3, RunQueued DEF StartState
  <2>2. Moved(p) /\ ChainsGrow /\ ~InBody(Top(p))
    BY <1>1, <1>2, <1>3, <2>1, TailAside
  <2> QED
    BY <1>1, <2>1, <2>2 DEF Aside, CancelGoes, Executing
<1>4. CASE Return(p) /\ UNCHANGED runRows
  <2>1. RowsMove
    BY <1>4, RowsStay DEF StartState
  <2> QED
    BY <1>1, <1>4, <2>1, ReturnsAside DEF Aside, CancelGoes, Executing
<1> QED
  BY <1>3, <1>4 DEF WakeInsert

\* A process that is no run's receives a call.
LEMMA AsideReceive ==
  ASSUME StartState, NEW p \in Callers \cup {Driver}, NEW f \in Frames, Sensible(f), ~InBody(f),
         Receive(p, f), UNCHANGED runRows
  PROVE  Aside(p)
<1>1. p \in Procs /\ p \notin RunIds
  BY RunIdsProcs DEF Procs
<1>2. RowsMove
  BY RowsStay DEF StartState
<1>3. Sensible(f)'
  BY <1>2, AllStaySensible DEF StartState
<1>4. Moved(p) /\ UNCHANGED chain /\ stack[p] = <<>>
  BY <1>1, <1>3, MovedUp DEF StartState
<1>5. ChainsGrow
  BY <1>4, ChainsStay DEF StartState
<1> QED
  BY <1>1, <1>2, <1>4, <1>5 DEF Aside, CancelGoes

\* The steps of requests and of the interval.
LEMMA AsideRequests ==
  ASSUME StartState, NEW c \in Callers,
         \/ \E a \in Agents : Wake(c, a) \/ PauseAgent(c, a)
         \/ \E r \in RunIds : CancelRun(c, r)
         \/ RequestStops(c)
  PROVE  Aside(c)
<1>1. ASSUME NEW a \in Agents, Wake(c, a) PROVE Aside(c)
  BY <1>1, AsideReceive, NewFrames, NewSensible DEF Wake
<1>2. ASSUME NEW a \in Agents, PauseAgent(c, a) PROVE Aside(c)
  BY <1>2, AsideReceive, NewFrames, NewSensible DEF PauseAgent
<1>3. ASSUME NEW r \in RunIds, CancelRun(c, r) PROVE Aside(c)
  <2>1. r \in 1..nRuns
    BY <1>3, LockBounds DEF CancelRun, Active, StartState, RowsOK, NoRunBeyond, RunIds
  <2> QED
    BY <1>3, <2>1, AsideReceive, NewFrames, NewSensible DEF CancelRun
<1>4. CASE RequestStops(c)
  BY <1>4, AsideReceive, NewFrames, NewSensible DEF RequestStops
<1> QED
  BY <1>1, <1>2, <1>3, <1>4

LEMMA AsideTick == ASSUME StartState, Tick PROVE Aside(Driver)
BY AsideReceive, NewFrames, NewSensible DEF Tick

\* Every step but those of a start is aside.
LEMMA Asides ==
  ASSUME StartState, LockNext
  PROVE  \/ \E p \in Procs : Look(p) \/ Check(p) \/ Claim(p) \/ Done(p)
         \/ \E p \in Procs : Aside(p)
         \/ UNCHANGED <<runRows, chain, stack>>
<1>1. ASSUME NEW p \in Procs, Step(p)
      PROVE  Look(p) \/ Check(p) \/ Claim(p) \/ Done(p) \/ Aside(p)
  BY <1>1, AsideExecBegin, AsideAdapterEnds, AsideCancelRead, AsideCancelSet, AsideRelease,
     AsideStartNext, AsideDropEnds, AsideScan, AsideLoop, AsideWakeInsert DEF Step
<1>2. Callers \subseteq Procs /\ Driver \in Procs
  BY DEF Procs
<1>3. ASSUME NEW a \in Agents, ResumeAgent(a) PROVE UNCHANGED <<runRows, chain, stack>>
  BY <1>3 DEF ResumeAgent
<1>4. ASSUME BudgetRaised PROVE UNCHANGED <<runRows, chain, stack>>
  BY <1>4 DEF BudgetRaised
<1>5. ASSUME NEW c \in Callers,
             \/ \E a \in Agents : Wake(c, a) \/ PauseAgent(c, a)
             \/ \E r \in RunIds : CancelRun(c, r)
             \/ RequestStops(c)
      PROVE  \E p \in Procs : Aside(p)
  BY <1>2, <1>5, AsideRequests
<1> QED
  BY <1>1, <1>2, <1>3, <1>4, <1>5, AsideCostStops, AsideTick DEF LockNext

-----------------------------------------------------------------------------
(* A step aside keeps what bodies rely on *)

LockInv ==
  /\ StartState
  /\ BodyHasTurn /\ BodyHasSlots /\ OldestFirst
  /\ RunsExecuted /\ ClaimedOnce /\ RunningHeld

\* Every call in progress is of its type, and makes sense.
LEMMA Calling ==
  ASSUME StartState, NEW p \in Procs, NEW d \in Depths(p)
  PROVE  CallAt(p, d) \in Frames /\ Sensible(CallAt(p, d))
<1>1. stack[p] \in Seq(Frames) /\ d \in 1..Len(stack[p])
  BY DEF StartState, Stacks, Depths
<1>2. Len(stack[p]) + 1 - d \in 1..Len(stack[p])
  BY <1>1
<1> QED
  BY <1>1, <1>2 DEF StartState, CallsSensible, CallAt, AtDepth

LEMMA AsideStart == ASSUME StartState, NEW p \in Procs, Aside(p) PROVE StartState'
<1>1. \A g \in Frames : Sensible(g) => Sensible(g)'
  BY AllStaySensible DEF StartState, Aside
<1>2. ASSUME NEW q \in Procs, NEW d \in Depths(q)' PROVE Sensible(CallAt(q, d))'
  <2>1. CASE Kept(q, d)
    <3>1. CallAt(q, d)' = CallAt(q, d) /\ CallAt(q, d) \in Frames /\ Sensible(CallAt(q, d))
      BY <2>1, Calling DEF Kept
    <3>2. PICK g \in Frames : g = CallAt(q, d)
      BY <3>1
    <3>3. Sensible(g)'
      BY <1>1, <3>1, <3>2
    <3> QED
      BY <3>1, <3>2, <3>3 DEF Sensible, InBody, AtHand, ToClaim
  <2>2. CASE q = p /\ d >= Len(stack[p])
    BY <2>2, <1>2 DEF Aside, Moved
  <2> QED
    BY <2>1, <2>2 DEF Aside, Moved, OnlyTop
<1> QED
  BY <1>2 DEF StartState, CallsSensible, Aside, Moved, ChainsGrow, RowsMove

\* Every body is where it was.
LEMMA AsideBodies ==
  ASSUME StartState, NEW p \in Procs, Aside(p), NEW q \in Procs, NEW d \in Depths(q)', InBody(CallAt(q, d))'
  PROVE  /\ Kept(q, d) /\ InBody(CallAt(q, d)) /\ ~(q = p /\ d = Len(stack[p]))
         /\ CallAt(q, d).agent \in Agents /\ ToClaim(CallAt(q, d)) \subseteq 1..nRuns
<1>1. Kept(q, d)
  BY DEF Aside, Moved, OnlyTop
<1>2. InBody(CallAt(q, d)) /\ d \in Depths(q)
  BY <1>1 DEF Kept, InBody
<1>3. ~(q = p /\ d = Len(stack[p]))
  <2> SUFFICES ASSUME q = p, d = Len(stack[p]) PROVE FALSE
    OBVIOUS
  <2>1. stack[p] # <<>>
    BY <1>2 DEF Depths, StartState, Stacks
  <2>2. Top(p) = CallAt(p, Len(stack[p]))
    BY <2>1, TopCall
  <2> QED
    BY <1>2, <2>1, <2>2 DEF Aside
<1>4. CallAt(q, d) \in Frames /\ Sensible(CallAt(q, d))
  BY <1>2, Calling
<1> QED
  BY <1>1, <1>2, <1>3, <1>4 DEF Sensible, ToClaim, InBody

LEMMA AsideTurn ==
  ASSUME StartState, BodyHasTurn, NEW p \in Procs, Aside(p) PROVE BodyHasTurn'
<1>1. ASSUME NEW q \in Procs, NEW d \in Depths(q)', InBody(CallAt(q, d))'
      PROVE  /\ chain'[CallAt(q, d)'.agent] # <<>>
             /\ Head(chain'[CallAt(q, d)'.agent]) = [proc |-> q, depth |-> d]
  <2>1. Kept(q, d) /\ InBody(CallAt(q, d)) /\ CallAt(q, d).agent \in Agents
    BY <1>1, AsideBodies
  <2>2. /\ chain[CallAt(q, d).agent] # <<>>
        /\ Head(chain[CallAt(q, d).agent]) = [proc |-> q, depth |-> d]
    BY <2>1 DEF BodyHasTurn, Kept
  <2> QED
    BY <2>1, <2>2 DEF Aside, ChainsGrow, Kept
<1> QED
  BY <1>1 DEF BodyHasTurn

LEMMA RunIdsFinite ==
  \A S \in SUBSET RunIds : IsFiniteSet(S) /\ Cardinality(S) \in Nat
<1>1. IsFiniteSet(RunIds)
  BY FS_Interval, LockBounds DEF RunIds
<1> QED
  BY <1>1, FS_Subset, FS_CardinalityType

LEMMA RunningFinite ==
  \A a : IsFiniteSet(RunningOf(a)) /\ RunningOf(a) \subseteq RunIds /\ Cardinality(RunningOf(a)) \in Nat
BY RunIdsFinite DEF RunningOf

LEMMA FewerRunning ==
  ASSUME RowsOK, RowsMove, NEW a
  PROVE  RunningOf(a)' \subseteq RunningOf(a) /\ Cardinality(RunningOf(a)') <= Cardinality(RunningOf(a))
<1>1. \A r \in RunIds : r \in 1..nRuns \/ r > nRuns
  BY LockBounds DEF RowsOK, RunIds
<1>2. RunningOf(a)' \subseteq RunningOf(a)
  BY <1>1 DEF RowsMove, RunningOf
<1> QED
  BY <1>2, RunningFinite, FS_Subset

LEMMA AsideSlots ==
  ASSUME StartState, BodyHasSlots, NEW p \in Procs, Aside(p) PROVE BodyHasSlots'
<1>1. ASSUME NEW q \in Procs, NEW d \in Depths(q)', InBody(CallAt(q, d))'
      PROVE  (LET f == CallAt(q, d)
              IN InBody(f) => Cardinality(RunningOf(f.agent)) + Cardinality(ToClaim(f)) <= MaxSlots)'
  <2>1. Kept(q, d) /\ InBody(CallAt(q, d)) /\ CallAt(q, d).agent \in Agents
    BY <1>1, AsideBodies
  <2>2. CallAt(q, d) \in Frames /\ CallAt(q, d)' = CallAt(q, d)
    BY <2>1, Calling DEF Kept
  <2>3. PICK f \in Frames : f = CallAt(q, d)
    BY <2>2
  <2>4. PICK a \in Agents : a = f.agent
    BY <2>1, <2>3
  <2>5. Cardinality(RunningOf(a)) + Cardinality(ToClaim(f)) <= MaxSlots
    BY <2>1, <2>3, <2>4 DEF BodyHasSlots, Kept
  <2>6. Cardinality(RunningOf(a)') <= Cardinality(RunningOf(a)) /\ Cardinality(RunningOf(a)) \in Nat
    BY FewerRunning, RunningFinite DEF StartState, Aside
  <2>7. Cardinality(RunningOf(a)') \in Nat
    BY FewerRunning, RunningFinite, RunIdsFinite DEF StartState, Aside
  <2>8. ToClaim(f) \in SUBSET RunIds
    <3>1. ToClaim(f) \subseteq 1..nRuns
      BY <1>1, <2>3, AsideBodies
    <3> QED
      BY <3>1, LockBounds DEF StartState, RowsOK, RunIds
  <2>9. Cardinality(ToClaim(f)) \in Nat
    BY <2>8, RunIdsFinite
  <2>10. Cardinality(RunningOf(a)') + Cardinality(ToClaim(f)) <= MaxSlots
    BY <2>5, <2>6, <2>7, <2>9, LockBounds
  <2> QED
    BY <2>2, <2>3, <2>4, <2>10 DEF ToClaim, AtHand
<1> QED
  BY <1>1 DEF BodyHasSlots

LEMMA AsideOrder ==
  ASSUME StartState, OldestFirst, NEW p \in Procs, Aside(p) PROVE OldestFirst'
<1>1. ASSUME NEW q \in Procs, NEW d \in Depths(q)', InBody(CallAt(q, d))'
      PROVE  (LET f == CallAt(q, d)
              IN /\ \A r \in ToClaim(f) : \A x \in QueuedOf(f.agent) :
                      x < r => x \in ToClaim(f) \cup Cancelling(q, d)
                 /\ \A r \in AtHand(f) : \A x \in f.todo : r <= x
                 /\ f.pc = "update" => d = Len(stack[q]))'
  <2>1. /\ Kept(q, d) /\ InBody(CallAt(q, d)) /\ CallAt(q, d).agent \in Agents
        /\ ToClaim(CallAt(q, d)) \subseteq 1..nRuns /\ ~(q = p /\ d = Len(stack[p]))
    BY <1>1, AsideBodies
  <2>2. CallAt(q, d) \in Frames /\ CallAt(q, d)' = CallAt(q, d)
    BY <2>1, Calling DEF Kept
  <2>3. PICK f \in Frames : f = CallAt(q, d)
    BY <2>2
  <2>4. PICK a \in Agents : a = f.agent
    BY <2>1, <2>3
  <2>5. /\ \A r \in ToClaim(f) : \A x \in QueuedOf(a) :
             x < r => x \in ToClaim(f) \cup Cancelling(q, d)
        /\ \A r \in AtHand(f) : \A x \in f.todo : r <= x
        /\ f.pc = "update" => d = Len(stack[q])
    BY <2>1, <2>3, <2>4 DEF OldestFirst, Kept
  <2>6. ASSUME NEW r \in ToClaim(f), NEW x \in QueuedOf(a)', x < r
        PROVE  x \in ToClaim(f) \cup Cancelling(q, d)'
    <3>1. x \in RunIds /\ status'[x] = "queued" /\ r \in 1..nRuns
      BY <2>1, <2>3, <2>6 DEF QueuedOf
    <3>2. x \in 1..nRuns
      BY <2>6, <3>1, LockBounds DEF StartState, RowsOK, RunIds
    <3>3. x \in QueuedOf(a)
      BY <2>6, <3>1, <3>2 DEF Aside, RowsMove, QueuedOf
    <3>4. CASE x \in Cancelling(q, d)
      <4>1. /\ d + 1 \in Depths(q) /\ x = CallAt(q, d + 1).run
            /\ CallAt(q, d + 1).fn = "cancel" /\ CallAt(q, d + 1).pc \in {"read", "set"}
        BY <3>4 DEF Cancelling
      <4>2. CASE Kept(q, d + 1)
        BY <4>1, <4>2 DEF Kept, Cancelling
      <4>3. CASE q = p /\ d + 1 = Len(stack[p])
        <5>1. stack[p] # <<>> /\ Len(stack[p]) \in Nat \ {0}
          BY <4>1, <4>3 DEF Depths, StartState, Stacks
        <5>2. Top(p) = CallAt(p, d + 1)
          BY <4>3, <5>1, TopCall
        <5>3. /\ Len(stack'[p]) = Len(stack[p])
              /\ Top(p)'.fn = "cancel" /\ Top(p)'.pc = "set" /\ Top(p)'.run = Top(p).run
          BY <3>1, <4>1, <4>3, <5>1, <5>2 DEF Aside, CancelGoes
        <5>4. stack'[p] \in Seq(Frames)
          BY DEF Aside, Moved, Stacks
        <5>5. stack'[p] # <<>> /\ Head(stack'[p]) = AtDepth(stack'[p], Len(stack'[p]))
          BY <5>1, <5>3, <5>4 DEF AtDepth
        <5>6. d + 1 \in Depths(p)' /\ CallAt(p, d + 1)' = Top(p)'
          BY <4>3, <5>1, <5>3, <5>5 DEF Depths, CallAt, Top
        <5> QED
          BY <4>1, <4>3, <5>2, <5>3, <5>6 DEF Cancelling
      <4> QED
        BY <4>1, <4>2, <4>3 DEF Aside, Moved, OnlyTop
    <3> QED
      BY <2>5, <2>6, <3>3, <3>4
  <2>7. f.pc = "update" => d = Len(stack'[q])
    <3>1. CASE q # p
      BY <2>5, <3>1 DEF Aside, Moved, OnlyTop
    <3>2. CASE q = p
      BY <2>1, <2>5, <3>2
    <3> QED
      BY <3>1, <3>2
  <2> QED
    BY <2>2, <2>3, <2>4, <2>5, <2>6, <2>7 DEF ToClaim, AtHand
<1> QED
  BY <1>1 DEF OldestFirst

\* Nobody gives a run that is idle a call.
LEMMA AsideIdle ==
  ASSUME NEW p \in Procs, Aside(p), NEW r \in RunIds, stack[r] = <<>>
  PROVE  stack'[r] = <<>>
BY RunIdsProcs DEF Aside, Moved, OnlyTop

LEMMA StatusMoves ==
  ASSUME RowsOK, RowsMove, NEW r \in RunIds
  PROVE  /\ status'[r] = "running" => status[r] = "running"
         /\ status[r] = "running" => status'[r] \in {"running", "ended"}
         /\ status[r] = "ended" => status'[r] = "ended"
<1>1. r \in 1..nRuns \/ r > nRuns
  BY LockBounds DEF RowsOK, RunIds
<1> QED
  BY <1>1 DEF RowsMove, RowsOK, NoRunBeyond

LEMMA AsideExecuted ==
  ASSUME StartState, RunsExecuted, NEW p \in Procs, Aside(p) PROVE RunsExecuted'
<1>1. ASSUME NEW r \in RunIds
      PROVE  (stack[r] = <<>> \/ status[r] = "ended" \/ Executing(r))'
  <2>1. r \in Procs
    BY RunIdsProcs
  <2>2. CASE stack[r] = <<>>
    BY <2>2, AsideIdle
  <2>3. CASE status[r] = "ended"
    BY <2>3, StatusMoves DEF Aside, StartState
  <2>4. CASE Executing(r) /\ r # p
    <3>1. stack'[r] = stack[r]
      BY <2>1, <2>4 DEF Aside, Moved, OnlyTop
    <3>2. status'[r] \in {"running", "ended"}
      BY <2>4, StatusMoves DEF Aside, StartState, Executing
    <3> QED
      BY <2>4, <3>1, <3>2 DEF Executing, Top
  <2>5. CASE Executing(r) /\ r = p
    BY <2>5 DEF Aside
  <2> QED
    BY <2>2, <2>3, <2>4, <2>5 DEF RunsExecuted
<1> QED
  BY <1>1 DEF RunsExecuted

\* A call that holds claimed runs is a body, where it was.
LEMMA AsideHolders ==
  ASSUME StartState, NEW p \in Procs, Aside(p), NEW q \in Procs, NEW d \in Depths(q)',
         CallAt(q, d)'.got # {}
  PROVE  Kept(q, d)
<1>1. CASE q = p /\ d >= Len(stack[p])
  <2>1. Sensible(CallAt(p, d))' /\ ~InBody(CallAt(p, d))'
    BY <1>1 DEF Aside, Moved
  <2> QED
    BY <1>1, <2>1 DEF Sensible
<1> QED
  BY <1>1 DEF Aside, Moved, OnlyTop

LEMMA AsideClaimed ==
  ASSUME StartState, ClaimedOnce, NEW p \in Procs, Aside(p) PROVE ClaimedOnce'
<1>1. ASSUME NEW q \in Procs, NEW d \in Depths(q)', NEW r \in CallAt(q, d)'.got
      PROVE  /\ stack'[r] = <<>> /\ status'[r] \in {"running", "ended"}
             /\ \A y \in Procs : \A e \in Depths(y)' : r \in CallAt(y, e)'.got => y = q /\ e = d
  <2>1. Kept(q, d)
    BY AsideHolders
  <2>2. r \in CallAt(q, d).got /\ CallAt(q, d) \in Frames
    BY <2>1, Calling DEF Kept
  <2>3. r \in RunIds
    BY <2>2 DEF Frames
  <2>4. stack[r] = <<>> /\ status[r] \in {"running", "ended"}
    BY <2>1, <2>2 DEF ClaimedOnce, Kept
  <2>5. stack'[r] = <<>> /\ status'[r] \in {"running", "ended"}
    BY <2>3, <2>4, AsideIdle, StatusMoves DEF Aside, StartState
  <2>6. ASSUME NEW y \in Procs, NEW e \in Depths(y)', r \in CallAt(y, e)'.got
        PROVE  y = q /\ e = d
    <3>1. Kept(y, e)
      BY <2>6, AsideHolders
    <3>2. r \in CallAt(y, e).got /\ e \in Depths(y) /\ d \in Depths(q)
      BY <2>1, <2>6, <3>1 DEF Kept
    <3> QED
      BY <2>2, <3>2 DEF ClaimedOnce
  <2> QED
    BY <2>5, <2>6
<1> QED
  BY <1>1 DEF ClaimedOnce

LEMMA AsideHeld ==
  ASSUME StartState, RunsExecuted, RunningHeld, NEW p \in Procs, Aside(p) PROVE RunningHeld'
<1>1. ASSUME NEW r \in RunIds, status'[r] = "running"
      PROVE  stack'[r] # <<>> \/ \E q \in Procs : \E d \in Depths(q)' : r \in CallAt(q, d)'.got
  <2>1. status[r] = "running" /\ r \in Procs
    BY <1>1, StatusMoves, RunIdsProcs DEF Aside, StartState
  <2>2. CASE stack[r] # <<>>
    <3>1. Executing(r)
      BY <2>1, <2>2 DEF RunsExecuted
    <3>2. CASE r # p
      BY <2>1, <2>2, <3>2 DEF Aside, Moved, OnlyTop
    <3>3. CASE r = p
      <4>1. Executing(p)'
        BY <1>1, <3>1, <3>3 DEF Aside
      <4> QED
        BY <3>3, <4>1 DEF Executing
    <3> QED
      BY <3>2, <3>3
  <2>3. ASSUME NEW q \in Procs, NEW d \in Depths(q), r \in CallAt(q, d).got
        PROVE  \E y \in Procs : \E e \in Depths(y)' : r \in CallAt(y, e)'.got
    <3>1. InBody(CallAt(q, d))
      BY <2>3, Calling DEF Sensible
    <3>2. ~(q = p /\ d = Len(stack[p]))
      <4> SUFFICES ASSUME q = p, d = Len(stack[p]) PROVE FALSE
        OBVIOUS
      <4>1. stack[p] # <<>>
        BY <2>3 DEF Depths, StartState, Stacks
      <4> QED
        BY <3>1, <4>1, TopCall DEF Aside
    <3>3. Kept(q, d)
      BY <3>2 DEF Aside, Moved, OnlyTop
    <3> QED
      BY <2>3, <3>3 DEF Kept
  <2> QED
    BY <2>1, <2>2, <2>3 DEF RunningHeld
<1> QED
  BY <1>1 DEF RunningHeld

LEMMA AsideInv == ASSUME LockInv, NEW p \in Procs, Aside(p) PROVE LockInv'
BY AsideStart, AsideTurn, AsideSlots, AsideOrder, AsideExecuted, AsideClaimed, AsideHeld DEF LockInv

-----------------------------------------------------------------------------
(* The steps of a body *)

\* p's innermost call has the first place in its agent's chain.
Turn(p) ==
  /\ stack[p] # <<>> /\ Top(p).fn = "start" /\ Top(p).agent \in Agents
  /\ chain[Top(p).agent] # <<>>
  /\ Head(chain[Top(p).agent]) = [proc |-> p, depth |-> Len(stack[p])]

\* p goes on in the body as f, with the runs of new claimed.
Stays(p, f, new) ==
  /\ Stacks' /\ OnlyTop(p) /\ UNCHANGED <<nRuns, agentOf, chain>>
  /\ Turn(p)
  /\ f \in Frames /\ InBody(f) /\ f.agent = Top(p).agent /\ Sensible(f)
  /\ f.got = Top(p).got \cup new
  /\ new \subseteq QueuedOf(f.agent)
  /\ status' = [r \in RunIds |-> IF r \in new THEN "running" ELSE status[r]]
  /\ Len(stack[p]) <= Len(stack'[p]) /\ AtDepth(stack'[p], Len(stack[p])) = f
  /\ f.pc = "update" => Len(stack'[p]) = Len(stack[p])
  /\ \A d \in Depths(p)' : d > Len(stack[p]) => Sensible(CallAt(p, d))' /\ ~InBody(CallAt(p, d))'

\* Every call afterwards: one that is where it was, the body, or the one it awaits.
LEMMA StaysPlaces ==
  ASSUME StartState, NEW p \in Procs, NEW f \in Frames, NEW new, Stays(p, f, new),
         NEW q \in Procs, NEW d \in Depths(q)'
  PROVE  \/ q = p /\ d = Len(stack[p]) /\ CallAt(q, d)' = f
         \/ q = p /\ d > Len(stack[p]) /\ Sensible(CallAt(p, d))' /\ ~InBody(CallAt(p, d))'
         \/ Kept(q, d) /\ ~(q = p /\ d = Len(stack[p]))
<1>1. Len(stack[p]) \in Nat /\ (q = p => d \in Nat)
  BY DEF StartState, Stacks, Stays, Depths
<1>2. CASE q = p /\ d = Len(stack[p])
  <2>1. CallAt(q, d)' = AtDepth(stack'[q], d)
    BY DEF CallAt
  <2> QED
    BY <1>2, <2>1 DEF Stays
<1>3. CASE q = p /\ d > Len(stack[p])
  BY <1>3 DEF Stays
<1>4. CASE ~(q = p /\ d >= Len(stack[p]))
  BY <1>1, <1>4 DEF Stays, OnlyTop
<1> QED
  BY <1>1, <1>2, <1>3, <1>4

\* A body elsewhere is another agent's.
LEMMA StaysAlone ==
  ASSUME StartState, BodyHasTurn, NEW p \in Procs, Turn(p), NEW q \in Procs, NEW d \in Depths(q),
         InBody(CallAt(q, d)), ~(q = p /\ d = Len(stack[p]))
  PROVE  CallAt(q, d).agent # Top(p).agent
<1> SUFFICES ASSUME CallAt(q, d).agent = Top(p).agent PROVE FALSE
  OBVIOUS
<1>1. Head(chain[Top(p).agent]) = [proc |-> q, depth |-> d]
  BY DEF BodyHasTurn
<1> QED
  BY <1>1 DEF Turn

LEMMA StaysSensible ==
  ASSUME UNCHANGED <<nRuns, agentOf>> PROVE \A f : Sensible(f) <=> Sensible(f)'
BY DEF Sensible, ToClaim, AtHand

LEMMA StaysStart ==
  ASSUME StartState, NEW p \in Procs, NEW f \in Frames, NEW new, Stays(p, f, new)
  PROVE  StartState'
<1>1. \A g : Sensible(g) <=> Sensible(g)'
  BY StaysSensible DEF Stays
<1>2. ASSUME NEW q \in Procs, NEW d \in Depths(q)' PROVE Sensible(CallAt(q, d))'
  <2>1. CASE Kept(q, d)
    <3>1. CallAt(q, d)' = CallAt(q, d) /\ CallAt(q, d) \in Frames /\ Sensible(CallAt(q, d))
      BY <2>1, Calling DEF Kept
    <3>2. PICK g \in Frames : g = CallAt(q, d)
      BY <3>1
    <3> QED
      BY <1>1, <3>1, <3>2 DEF Sensible, InBody, AtHand, ToClaim
  <2>2. CASE CallAt(q, d)' = f
    <3>1. Sensible(f)'
      BY <1>1 DEF Stays
    <3> QED
      BY <2>2, <3>1 DEF Sensible, InBody, AtHand, ToClaim
  <2>3. CASE q = p /\ Sensible(CallAt(p, d))'
    BY <2>3
  <2> QED
    BY <2>1, <2>2, <2>3, StaysPlaces
<1>3. RowsOK'
  <2>1. \A r \in new : r \in RunIds /\ status[r] = "queued"
    BY DEF Stays, QueuedOf
  <2> QED
    BY <2>1 DEF StartState, RowsOK, NoRunBeyond, Stays
<1>4. CallsSensible'
  BY <1>2 DEF CallsSensible
<1> QED
  BY <1>3, <1>4 DEF StartState, ChainsOK, Stays

LEMMA StaysTurn ==
  ASSUME StartState, BodyHasTurn, NEW p \in Procs, NEW f \in Frames, NEW new, Stays(p, f, new)
  PROVE  BodyHasTurn'
<1>1. ASSUME NEW q \in Procs, NEW d \in Depths(q)', InBody(CallAt(q, d))'
      PROVE  /\ chain[CallAt(q, d)'.agent] # <<>>
             /\ Head(chain[CallAt(q, d)'.agent]) = [proc |-> q, depth |-> d]
  <2>1. CASE Kept(q, d)
    BY <1>1, <2>1 DEF BodyHasTurn, Kept, InBody
  <2>2. CASE q = p /\ d = Len(stack[p]) /\ CallAt(q, d)' = f
    BY <2>2 DEF Stays, Turn
  <2> QED
    BY <1>1, <2>1, <2>2, StaysPlaces
<1> QED
  BY <1>1 DEF BodyHasTurn, Stays

\* The body has slots left for what it may still claim.
SlotsFor(a, f) == Cardinality(RunningOf(a)) + Cardinality(ToClaim(f)) <= MaxSlots

LEMMA StaysSlots ==
  ASSUME StartState, BodyHasTurn, BodyHasSlots, NEW p \in Procs, NEW f \in Frames, NEW new,
         Stays(p, f, new), NEW b \in Agents, b = f.agent, SlotsFor(b, f)'
  PROVE  BodyHasSlots'
<1>1. ASSUME NEW q \in Procs, NEW d \in Depths(q)', InBody(CallAt(q, d))'
      PROVE  (LET g == CallAt(q, d)
              IN InBody(g) => Cardinality(RunningOf(g.agent)) + Cardinality(ToClaim(g)) <= MaxSlots)'
  <2>1. CASE Kept(q, d) /\ ~(q = p /\ d = Len(stack[p]))
    <3>1. InBody(CallAt(q, d)) /\ d \in Depths(q) /\ CallAt(q, d)' = CallAt(q, d)
      BY <1>1, <2>1 DEF Kept, InBody
    <3>2. CallAt(q, d) \in Frames /\ Sensible(CallAt(q, d))
      BY <3>1, Calling
    <3>3. PICK g \in Frames : g = CallAt(q, d)
      BY <3>2
    <3>4. g.agent \in Agents
      BY <3>1, <3>2, <3>3 DEF Sensible, InBody
    <3>5. PICK a \in Agents : a = g.agent
      BY <3>4
    <3>6. a # f.agent
      BY <2>1, <3>1, <3>3, <3>5, StaysAlone DEF Stays
    <3>7. Cardinality(RunningOf(a)) + Cardinality(ToClaim(g)) <= MaxSlots
      BY <3>1, <3>3, <3>5 DEF BodyHasSlots
    <3>8. RunningOf(a)' = RunningOf(a)
      BY <3>6 DEF Stays, RunningOf, QueuedOf
    <3> QED
      BY <3>1, <3>3, <3>5, <3>7, <3>8 DEF ToClaim, AtHand
  <2>2. CASE CallAt(q, d)' = f
    BY <2>2 DEF SlotsFor, ToClaim, AtHand
  <2> QED
    BY <1>1, <2>1, <2>2, StaysPlaces
<1> QED
  BY <1>1 DEF BodyHasSlots

\* What is older than a run of f is f's as well, or in the set set aside.
InOrder(a, f, aside) ==
  /\ \A r \in ToClaim(f) : \A q \in QueuedOf(a) : q < r => q \in ToClaim(f) \cup aside
  /\ \A r \in AtHand(f) : \A q \in f.todo : r <= q

LEMMA StaysOrder ==
  ASSUME StartState, BodyHasTurn, OldestFirst, NEW p \in Procs, NEW f \in Frames, NEW new,
         Stays(p, f, new), NEW b \in Agents, b = f.agent, NEW n \in Nat, n = Len(stack[p]),
         NEW aside, aside \subseteq Cancelling(p, n)', InOrder(b, f, aside)'
  PROVE  OldestFirst'
<1>1. ASSUME NEW q \in Procs, NEW d \in Depths(q)', InBody(CallAt(q, d))'
      PROVE  (LET g == CallAt(q, d)
              IN /\ \A r \in ToClaim(g) : \A x \in QueuedOf(g.agent) :
                      x < r => x \in ToClaim(g) \cup Cancelling(q, d)
                 /\ \A r \in AtHand(g) : \A x \in g.todo : r <= x
                 /\ g.pc = "update" => d = Len(stack[q]))'
  <2>1. CASE Kept(q, d) /\ ~(q = p /\ d = Len(stack[p]))
    <3>1. InBody(CallAt(q, d)) /\ d \in Depths(q) /\ CallAt(q, d)' = CallAt(q, d)
      BY <1>1, <2>1 DEF Kept, InBody
    <3>2. CallAt(q, d) \in Frames /\ Sensible(CallAt(q, d))
      BY <3>1, Calling
    <3>3. PICK g \in Frames : g = CallAt(q, d)
      BY <3>2
    <3>4. g.agent \in Agents
      BY <3>1, <3>2, <3>3 DEF Sensible, InBody
    <3>5. PICK a \in Agents : a = g.agent
      BY <3>4
    <3>6. /\ \A r \in ToClaim(g) : \A x \in QueuedOf(a) :
               x < r => x \in ToClaim(g) \cup Cancelling(q, d)
          /\ \A r \in AtHand(g) : \A x \in g.todo : r <= x
          /\ g.pc = "update" => d = Len(stack[q])
      BY <3>1, <3>3, <3>5 DEF OldestFirst
    <3>7. QueuedOf(a)' \subseteq QueuedOf(a)
      BY DEF Stays, QueuedOf
    <3>8. Cancelling(q, d) \subseteq Cancelling(q, d)'
      <4>1. CASE d + 1 \in Depths(q) /\ Kept(q, d + 1)
        BY <4>1 DEF Cancelling, Kept
      <4>2. CASE q = p /\ d + 1 = Len(stack[p])
        <5>1. CallAt(q, d + 1) = Top(p)
          BY <4>2, TopCall DEF Stays, Turn
        <5> QED
          BY <5>1 DEF Cancelling, Stays, Turn
      <4>3. CASE d + 1 \notin Depths(q)
        BY <4>3 DEF Cancelling
      <4> QED
        BY <4>1, <4>2, <4>3 DEF Stays, OnlyTop
    <3>9. g.pc = "update" => d = Len(stack'[q])
      <4>1. CASE q # p
        BY <3>6, <4>1 DEF Stays, OnlyTop
      <4>2. CASE q = p
        BY <2>1, <3>6, <4>2
      <4> QED
        BY <4>1, <4>2
    <3> QED
      BY <3>1, <3>3, <3>5, <3>6, <3>7, <3>8, <3>9 DEF ToClaim, AtHand
  <2>2. CASE q = p /\ d = Len(stack[p]) /\ CallAt(q, d)' = f
    <3>1. f.pc = "update" => Len(stack'[p]) = d
      BY <2>2 DEF Stays
    <3>2. d = n
      BY <2>2
    <3> QED
      BY <2>2, <3>1, <3>2 DEF InOrder, ToClaim, AtHand
  <2> QED
    BY <1>1, <2>1, <2>2, StaysPlaces
<1> QED
  BY <1>1 DEF OldestFirst

\* The process of a run that is idle, or executes, is not in a body.
LEMMA StaysIdle ==
  ASSUME NEW p \in Procs, NEW f \in Frames, NEW new, Stays(p, f, new),
         NEW r \in RunIds, stack[r] = <<>> \/ Executing(r)
  PROVE  r # p /\ stack'[r] = stack[r]
<1>1. r # p
  BY DEF Stays, Turn, Executing
<1> QED
  BY <1>1, RunIdsProcs DEF Stays, OnlyTop

LEMMA StaysExecuted ==
  ASSUME StartState, RunsExecuted, NEW p \in Procs, NEW f \in Frames, NEW new, Stays(p, f, new)
  PROVE  RunsExecuted'
<1>1. ASSUME NEW r \in RunIds
      PROVE  (stack[r] = <<>> \/ status[r] = "ended" \/ Executing(r))'
  <2>1. CASE stack[r] = <<>>
    BY <2>1, StaysIdle
  <2>2. CASE status[r] = "ended"
    BY <2>2 DEF Stays, QueuedOf
  <2>3. CASE Executing(r)
    <3>1. stack'[r] = stack[r]
      BY <2>3, StaysIdle
    <3>2. status'[r] = "running"
      BY <2>3 DEF Stays, Executing
    <3> QED
      BY <2>3, <3>1, <3>2 DEF Executing, Top
  <2> QED
    BY <2>1, <2>2, <2>3 DEF RunsExecuted
<1> QED
  BY <1>1 DEF RunsExecuted

\* Who holds a claimed run held it before, or is the body and has just claimed it.
LEMMA StaysHolders ==
  ASSUME StartState, NEW p \in Procs, NEW f \in Frames, NEW new, Stays(p, f, new),
         NEW q \in Procs, NEW d \in Depths(q)', NEW r \in CallAt(q, d)'.got
  PROVE  /\ d \in Depths(q)
         /\ \/ r \in CallAt(q, d).got
            \/ q = p /\ d = Len(stack[p]) /\ r \in new
<1>1. CASE q = p /\ d = Len(stack[p]) /\ CallAt(q, d)' = f
  BY <1>1, TopCall DEF Stays, Turn
<1>2. CASE q = p /\ d > Len(stack[p]) /\ Sensible(CallAt(p, d))' /\ ~InBody(CallAt(p, d))'
  BY <1>2 DEF Sensible
<1>3. CASE Kept(q, d)
  BY <1>3 DEF Kept
<1> QED
  BY <1>1, <1>2, <1>3, StaysPlaces

LEMMA StaysClaimed ==
  ASSUME StartState, RunsExecuted, ClaimedOnce,
         NEW p \in Procs, NEW f \in Frames, NEW new, Stays(p, f, new)
  PROVE  ClaimedOnce'
<1>0. \A r \in new : r \in RunIds /\ status[r] = "queued" /\ stack[r] = <<>>
  BY DEF Stays, QueuedOf, RunsExecuted, Executing
<1>1. ASSUME NEW q \in Procs, NEW d \in Depths(q)', NEW r \in CallAt(q, d)'.got
      PROVE  /\ stack'[r] = <<>> /\ status'[r] \in {"running", "ended"}
             /\ \A y \in Procs : \A e \in Depths(y)' : r \in CallAt(y, e)'.got => y = q /\ e = d
  <2>1. /\ d \in Depths(q)
        /\ \/ r \in CallAt(q, d).got
           \/ q = p /\ d = Len(stack[p]) /\ r \in new
    BY StaysHolders
  <2>2. r \in RunIds /\ stack[r] = <<>>
    BY <1>0, <2>1, Calling DEF Frames, ClaimedOnce
  <2>3. r \in new \/ status[r] \in {"running", "ended"}
    BY <2>1 DEF ClaimedOnce
  <2>4. stack'[r] = <<>> /\ status'[r] \in {"running", "ended"}
    BY <2>2, <2>3, StaysIdle DEF Stays
  <2>5. ASSUME NEW y \in Procs, NEW e \in Depths(y)', r \in CallAt(y, e)'.got
        PROVE  y = q /\ e = d
    <3>1. /\ e \in Depths(y)
          /\ \/ r \in CallAt(y, e).got
             \/ y = p /\ e = Len(stack[p]) /\ r \in new
      BY <2>5, StaysHolders
    <3>2. r \in new => r \notin CallAt(y, e).got /\ r \notin CallAt(q, d).got
      BY <1>0, <2>1, <3>1 DEF ClaimedOnce
    <3> QED
      BY <2>1, <3>1, <3>2 DEF ClaimedOnce
  <2> QED
    BY <2>4, <2>5
<1> QED
  BY <1>1 DEF ClaimedOnce

LEMMA StaysHeld ==
  ASSUME StartState, RunsExecuted, RunningHeld,
         NEW p \in Procs, NEW f \in Frames, NEW new, Stays(p, f, new)
  PROVE  RunningHeld'
<1>0. Len(stack[p]) \in Depths(p)' /\ (\A d \in Depths(p)' : d = Len(stack[p]) => CallAt(p, d)' = f)
  <2>1. Len(stack[p]) \in 1..Len(stack'[p])
    BY DEF Stays, Turn, StartState, Stacks
  <2> QED
    BY <2>1, StaysPlaces DEF Depths, Stays, CallAt
<1>1. ASSUME NEW r \in RunIds, status'[r] = "running"
      PROVE  stack'[r] # <<>> \/ \E q \in Procs : \E d \in Depths(q)' : r \in CallAt(q, d)'.got
  <2>1. CASE r \in new
    BY <1>0, <2>1 DEF Stays
  <2>2. CASE r \notin new /\ stack[r] # <<>>
    <3>1. Executing(r)
      BY <1>1, <2>2 DEF Stays, RunsExecuted
    <3> QED
      BY <2>2, <3>1, StaysIdle
  <2>3. ASSUME NEW q \in Procs, NEW d \in Depths(q), r \in CallAt(q, d).got
        PROVE  \E y \in Procs : \E e \in Depths(y)' : r \in CallAt(y, e)'.got
    <3>1. CASE Kept(q, d)
      BY <2>3, <3>1 DEF Kept
    <3>2. CASE q = p /\ d = Len(stack[p])
      <4>1. CallAt(q, d) = Top(p)
        BY <3>2, TopCall DEF Stays, Turn
      <4> QED
        BY <1>0, <2>3, <3>2, <4>1 DEF Stays
    <3> QED
      BY <2>3, <3>1, <3>2 DEF Stays, OnlyTop
  <2> QED
    BY <1>1, <2>1, <2>2, <2>3 DEF RunningHeld, Stays
<1> QED
  BY <1>1 DEF RunningHeld

LEMMA StaysInv ==
  ASSUME LockInv, NEW p \in Procs, NEW f \in Frames, NEW new, Stays(p, f, new),
         NEW b \in Agents, b = f.agent, NEW n \in Nat, n = Len(stack[p]), NEW aside,
         SlotsFor(b, f)', aside \subseteq Cancelling(p, n)', InOrder(b, f, aside)'
  PROVE  LockInv'
BY StaysStart, StaysTurn, StaysSlots, StaysOrder, StaysExecuted, StaysClaimed, StaysHeld DEF LockInv

-----------------------------------------------------------------------------
(* The oldest n of a set of runs are at most n *)

Older(S, r) == {q \in S : q < r}

LEMMA OlderGrows ==
  ASSUME NEW S \in SUBSET RunIds, NEW x \in S, NEW y \in S, x < y
  PROVE  /\ Cardinality(Older(S, x)) < Cardinality(Older(S, y))
         /\ Cardinality(Older(S, x)) \in Nat
<1>1. x \in Nat /\ y \in Nat /\ \A q \in S : q \in Nat
  BY LockBounds DEF RunIds
<1>2. Older(S, x) \in SUBSET RunIds /\ Older(S, y) \in SUBSET RunIds
  BY DEF Older
<1>3. IsFiniteSet(Older(S, x)) /\ IsFiniteSet(Older(S, y))
      /\ Cardinality(Older(S, x)) \in Nat /\ Cardinality(Older(S, y)) \in Nat
  BY <1>2, RunIdsFinite
<1>4. Older(S, x) \subseteq Older(S, y) /\ x \in Older(S, y) /\ x \notin Older(S, x)
  <2>1. \A q \in S : q < x => q < y
    BY <1>1
  <2>2. ~(x < x)
    BY <1>1
  <2> QED
    BY <2>1, <2>2 DEF Older
<1>5. /\ Cardinality(Older(S, x)) <= Cardinality(Older(S, y))
      /\ Cardinality(Older(S, y)) # Cardinality(Older(S, x))
  BY <1>3, <1>4, FS_Subset
<1> QED
  BY <1>3, <1>5

LEMMA OldestAreFew ==
  ASSUME NEW S \in SUBSET RunIds, NEW n \in Nat
  PROVE  Cardinality({r \in S : Cardinality(Older(S, r)) < n}) <= n
<1> DEFINE P == {r \in S : Cardinality(Older(S, r)) < n}
           f == [r \in P |-> Cardinality(Older(S, r))]
<1>1. IsFiniteSet(P) /\ Cardinality(P) \in Nat
  BY RunIdsFinite
<1>2. IsFiniteSet(0..n-1) /\ Cardinality(0..n-1) = n
  BY FS_Interval
<1>3. \A r \in S : Cardinality(Older(S, r)) \in Nat
  BY RunIdsFinite DEF Older
<1>4. f \in [P -> 0..n-1]
  BY <1>3
<1> SUFFICES ASSUME Cardinality(P) > n PROVE FALSE
  BY <1>1
<1>5. Cardinality(0..n-1) < Cardinality(P)
  BY <1>1, <1>2
<1>6. \E x, y \in P : x # y /\ f[x] = f[y]
  <2> HIDE DEF P, f
  <2> QED
    BY <1>1, <1>2, <1>4, <1>5, FS_PigeonHole
<1>7. PICK x \in P, y \in P : x # y /\ f[x] = f[y]
  BY <1>6
<1>8. x < y \/ y < x
  BY <1>7, LockBounds DEF RunIds
<1>9. Cardinality(Older(S, x)) = Cardinality(Older(S, y)) /\ x \in S /\ y \in S
  BY <1>7
<1>10. ASSUME NEW u \in S, NEW v \in S, u < v
       PROVE  Cardinality(Older(S, u)) # Cardinality(Older(S, v))
  <2>1. Cardinality(Older(S, u)) < Cardinality(Older(S, v))
    BY <1>10, OlderGrows
  <2>2. Cardinality(Older(S, u)) \in Nat /\ Cardinality(Older(S, v)) \in Nat
    BY <1>3
  <2> QED
    BY <2>1, <2>2
<1> QED
  BY <1>8, <1>9, <1>10

\* What a look at the queue picks fits the free slots, and nothing older is left.
LEMMA Picking ==
  ASSUME RowsOK, NEW a, FreeSlots(a) # 0
  PROVE  /\ Picks(a) \subseteq QueuedOf(a) /\ Picks(a) \in SUBSET RunIds
         /\ Cardinality(RunningOf(a)) + Cardinality(Picks(a)) <= MaxSlots
         /\ \A r \in Picks(a) : \A q \in QueuedOf(a) : q < r => q \in Picks(a)
<1> DEFINE S == QueuedOf(a)
<1>1. S \in SUBSET RunIds /\ Cardinality(RunningOf(a)) \in Nat
  BY RunningFinite DEF QueuedOf
<1>2. /\ FreeSlots(a) \in Nat
      /\ Cardinality(RunningOf(a)) + FreeSlots(a) = MaxSlots
  BY <1>1, LockBounds DEF FreeSlots
<1>3. Picks(a) = {r \in S : Cardinality(Older(S, r)) < FreeSlots(a)}
  BY DEF Picks, Older
<1>4. Picks(a) \subseteq S /\ Picks(a) \in SUBSET RunIds
  BY <1>1, <1>3
<1>5. Cardinality(Picks(a)) <= FreeSlots(a) /\ Cardinality(Picks(a)) \in Nat
  BY <1>1, <1>2, <1>3, <1>4, OldestAreFew, RunIdsFinite
<1>6. ASSUME NEW r \in Picks(a), NEW q \in S, q < r PROVE q \in Picks(a)
  <2>1. Cardinality(Older(S, q)) < Cardinality(Older(S, r)) /\ Cardinality(Older(S, q)) \in Nat
    BY <1>1, <1>4, <1>6, OlderGrows
  <2>2. Cardinality(Older(S, r)) \in Nat
    BY <1>1, RunIdsFinite DEF Older
  <2> QED
    BY <1>2, <1>3, <1>6, <2>1, <2>2
<1> QED
  BY <1>1, <1>2, <1>4, <1>5, <1>6

-----------------------------------------------------------------------------
(* The body: its look at the queue, its checks, its claims *)

LEMMA LookInv ==
  ASSUME LockInv, NEW p \in Procs, Look(p), NEW a \in Agents, a = Top(p).agent,
         ~(~invokable[a] \/ FreeSlots(a) = 0 \/ QueuedOf(a) = {})
  PROVE  LockInv'
<1> DEFINE f == [Top(p) EXCEPT !.pc = "check", !.todo = Picks(a)]
           n == Len(stack[p])
<1>1. stack[p] # <<>> /\ Top(p).fn = "start" /\ Top(p).pc = "wait" /\ HasTurn(p)
  BY DEF Look, In
<1>2. Top(p) \in Frames /\ Sensible(Top(p)) /\ n \in Nat \ {0}
  BY <1>1, TopCall, Innermost DEF LockInv, StartState, Stacks
<1>3. /\ Picks(a) \subseteq QueuedOf(a) /\ Picks(a) \in SUBSET RunIds
      /\ Cardinality(RunningOf(a)) + Cardinality(Picks(a)) <= MaxSlots
      /\ \A r \in Picks(a) : \A q \in QueuedOf(a) : q < r => q \in Picks(a)
  BY Picking DEF LockInv, StartState
<1>4. /\ f \in Frames /\ f.fn = "start" /\ f.pc = "check" /\ f.agent = a
      /\ f.run = Top(p).run /\ f.todo = Picks(a) /\ f.got = Top(p).got
  BY <1>1, <1>2, <1>3 DEF Frames
<1>5. InBody(f) /\ AtHand(f) = {} /\ ToClaim(f) = Picks(a) /\ f.got = {}
  BY <1>1, <1>2, <1>4 DEF InBody, AtHand, ToClaim, Sensible
<1>6. \A r \in QueuedOf(a) : r \in 1..nRuns /\ agentOf[r] = a
  BY LockBounds DEF QueuedOf, LockInv, StartState, RowsOK, NoRunBeyond, RunIds
<1>7. Sensible(f)
  BY <1>3, <1>4, <1>5, <1>6 DEF Sensible
<1>8. GoOn(p, f) /\ UNCHANGED <<nRuns, status, agentOf, chain>>
  BY DEF Look, GoOn, runRows
<1> HIDE DEF f
<1>9. /\ Stacks' /\ OnlyTop(p)
      /\ Len(stack'[p]) = n /\ AtDepth(stack'[p], n) = f
  BY <1>1, <1>4, <1>8, GoingOn DEF GoOn, LockInv, StartState
<1>10. Turn(p)
  BY <1>1 DEF Turn, HasTurn, Ticket
<1>11. status' = [r \in RunIds |-> IF r \in {} THEN "running" ELSE status[r]]
  BY <1>8 DEF LockInv, StartState, RowsOK
<1>12. \A d \in Depths(p)' : ~(d > n)
  BY <1>2, <1>9 DEF Depths
<1>13. Stays(p, f, {})
  BY <1>2, <1>4, <1>5, <1>7, <1>8, <1>9, <1>10, <1>11, <1>12 DEF Stays
<1>14. QueuedOf(a)' = QueuedOf(a) /\ RunningOf(a)' = RunningOf(a)
  BY <1>8 DEF QueuedOf, RunningOf
<1>15. ASSUME NEW g \in Frames, g = f
       PROVE  SlotsFor(a, g)' /\ InOrder(a, g, {})' /\ Stays(p, g, {}) /\ g.agent = a
  BY <1>3, <1>4, <1>5, <1>13, <1>14, <1>15 DEF SlotsFor, InOrder, ToClaim, AtHand
<1> QED
  BY <1>2, <1>4, <1>15, StaysInv

\* A body frame of p, with the facts every step of the body begins with.
LEMMA BodyTop ==
  ASSUME LockInv, NEW p \in Procs, stack[p] # <<>>, InBody(Top(p))
  PROVE  /\ Top(p) \in Frames /\ Sensible(Top(p)) /\ Len(stack[p]) \in Nat \ {0}
         /\ Turn(p)
         /\ SlotsFor(Top(p).agent, Top(p)) /\ InOrder(Top(p).agent, Top(p), {})
<1> DEFINE n == Len(stack[p])
<1>1. /\ Top(p) \in Frames /\ Sensible(Top(p)) /\ n \in Nat \ {0} /\ n \in Depths(p)
      /\ Top(p) = CallAt(p, n)
  BY TopCall, Innermost DEF LockInv, StartState, Stacks
<1>2. Turn(p)
  BY <1>1 DEF Turn, LockInv, BodyHasTurn, InBody, Sensible
<1>3. SlotsFor(Top(p).agent, Top(p))
  BY <1>1 DEF LockInv, BodyHasSlots, SlotsFor
<1>4. Cancelling(p, n) = {}
  BY <1>1 DEF Cancelling, Depths
<1>5. InOrder(Top(p).agent, Top(p), {})
  BY <1>1, <1>4 DEF LockInv, OldestFirst, InOrder
<1> QED
  BY <1>1, <1>2, <1>3, <1>5

\* A body that goes on by itself.
LEMMA BodyGoesOn ==
  ASSUME LockInv, NEW p \in Procs, NEW f \in Frames, NEW new, NEW a \in Agents,
         Turn(p), GoOn(p, f), UNCHANGED <<nRuns, agentOf>>,
         InBody(f), Sensible(f), a = Top(p).agent, f.agent = a,
         f.got = Top(p).got \cup new, new \subseteq QueuedOf(a),
         status' = [r \in RunIds |-> IF r \in new THEN "running" ELSE status[r]],
         SlotsFor(a, f)', InOrder(a, f, {})'
  PROVE  LockInv'
<1> DEFINE n == Len(stack[p])
<1>1. n \in Nat \ {0} /\ stack[p] # <<>>
  BY Innermost DEF Turn, LockInv, StartState, Stacks
<1>2. /\ Stacks' /\ OnlyTop(p)
      /\ Len(stack'[p]) = n /\ AtDepth(stack'[p], n) = f
  BY <1>1, GoingOn DEF GoOn, LockInv, StartState
<1>3. \A d \in Depths(p)' : ~(d > n)
  BY <1>1, <1>2 DEF Depths
<1>4. UNCHANGED chain
  BY DEF GoOn
<1>5. Stays(p, f, new)
  BY <1>1, <1>2, <1>3, <1>4 DEF Stays
<1> QED
  BY <1>1, <1>5, StaysInv

LEMMA ClaimInv == ASSUME LockInv, NEW p \in Procs, Claim(p) PROVE LockInv'
<1> DEFINE x == Top(p).run
<1>1. stack[p] # <<>> /\ Top(p).fn = "start" /\ Top(p).pc = "update" /\ InBody(Top(p))
  BY DEF Claim, In, InBody
<1>2. /\ Top(p) \in Frames /\ Sensible(Top(p)) /\ Turn(p)
      /\ SlotsFor(Top(p).agent, Top(p)) /\ InOrder(Top(p).agent, Top(p), {})
  BY <1>1, BodyTop
<1>3. PICK a \in Agents : a = Top(p).agent
  BY <1>2 DEF Turn
<1>4. x \in 1..nRuns /\ x \in RunIds /\ x \notin Top(p).todo /\ agentOf[x] = a
  BY <1>1, <1>2, <1>3, LockBounds DEF Sensible, AtHand, ToClaim, LockInv, StartState, RowsOK, RunIds
<1>5. Top(p).todo \in SUBSET RunIds /\ Top(p).got \in SUBSET RunIds
  BY <1>2 DEF Frames
<1>6. /\ ToClaim(Top(p)) = Top(p).todo \cup {x}
      /\ Cardinality(Top(p).todo \cup {x}) = Cardinality(Top(p).todo) + 1
      /\ Cardinality(Top(p).todo) \in Nat
  BY <1>1, <1>4, <1>5, RunIdsFinite, FS_AddElement DEF ToClaim, AtHand
<1>7. /\ UNCHANGED <<nRuns, agentOf>>
      /\ \A r \in Top(p).todo : agentOf[r] = a /\ r \in 1..nRuns
  BY <1>1, <1>2, <1>3 DEF Claim, Sensible, ToClaim
<1>8. Cardinality(RunningOf(a)) + Cardinality(Top(p).todo) + 1 <= MaxSlots
      /\ Cardinality(RunningOf(a)) \in Nat
  BY <1>2, <1>3, <1>6, RunningFinite, LockBounds DEF SlotsFor
<1>9. CASE /\ Claimable(x)
           /\ status' = [status EXCEPT ![x] = "running"]
           /\ GoOn(p, [Top(p) EXCEPT !.pc = "check", !.run = 0, !.got = @ \cup {x}])
  <2> DEFINE f == [Top(p) EXCEPT !.pc = "check", !.run = 0, !.got = @ \cup {x}]
  <2>0. 0 \in 0..MaxRuns /\ Top(p).got \cup {x} \in SUBSET RunIds
    BY <1>4, <1>5, LockBounds
  <2>1. /\ f \in Frames /\ f.fn = "start" /\ f.pc = "check" /\ f.agent = a
        /\ f.todo = Top(p).todo /\ f.got = Top(p).got \cup {x}
    BY <1>1, <1>2, <1>3, <2>0 DEF Frames
  <2>2. GoOn(p, f)
    BY <1>9
  <2> HIDE DEF f
  <2>3. InBody(f) /\ ToClaim(f) = Top(p).todo /\ AtHand(f) = {}
    BY <2>1 DEF InBody, ToClaim, AtHand
  <2>4. Sensible(f)
    BY <1>7, <2>1, <2>3 DEF Sensible
  <2>5. {x} \subseteq QueuedOf(a)
    BY <1>4, <1>9 DEF Claimable, QueuedOf
  <2>6. status' = [r \in RunIds |-> IF r \in {x} THEN "running" ELSE status[r]]
    BY <1>9 DEF LockInv, StartState, RowsOK
  <2>7. RunningOf(a)' = RunningOf(a) \cup {x}
    BY <1>4, <1>7, <2>6 DEF RunningOf
  <2>8. Cardinality(RunningOf(a)') <= Cardinality(RunningOf(a)) + 1 /\ Cardinality(RunningOf(a)') \in Nat
    <3>1. IsFiniteSet(RunningOf(a))
      BY RunningFinite
    <3>2. /\ Cardinality(RunningOf(a) \cup {x}) =
               IF x \in RunningOf(a) THEN Cardinality(RunningOf(a)) ELSE Cardinality(RunningOf(a)) + 1
      BY <3>1, FS_AddElement
    <3> QED
      BY <1>8, <2>7, <3>2
  <2>9. Cardinality(RunningOf(a)') + Cardinality(Top(p).todo) <= MaxSlots
    BY <1>6, <1>8, <2>8, LockBounds
  <2>10. \A r \in Top(p).todo : \A q \in QueuedOf(a)' : q < r => q \in Top(p).todo
    <3>1. \A q \in QueuedOf(a)' : q # x /\ q \in QueuedOf(a)
      BY <1>7, <2>6 DEF QueuedOf
    <3> QED
      BY <1>2, <1>3, <1>6, <3>1 DEF InOrder
  <2>11. ASSUME NEW g \in Frames, g = f PROVE SlotsFor(a, g)' /\ InOrder(a, g, {})'
    BY <2>3, <2>9, <2>10, <2>11 DEF SlotsFor, InOrder, ToClaim, AtHand
  <2> QED
    BY <1>2, <1>3, <1>7, <2>1, <2>2, <2>3, <2>4, <2>5, <2>6, <2>11, BodyGoesOn
<1>10. CASE /\ ~Claimable(x)
            /\ UNCHANGED status
            /\ GoOn(p, [Top(p) EXCEPT !.pc = "check", !.run = 0])
  <2> DEFINE f == [Top(p) EXCEPT !.pc = "check", !.run = 0]
  <2>0. 0 \in 0..MaxRuns
    BY LockBounds
  <2>1. /\ f \in Frames /\ f.fn = "start" /\ f.pc = "check" /\ f.agent = a
        /\ f.todo = Top(p).todo /\ f.got = Top(p).got
    BY <1>1, <1>2, <1>3, <2>0 DEF Frames
  <2>2. GoOn(p, f)
    BY <1>10
  <2> HIDE DEF f
  <2>3. InBody(f) /\ ToClaim(f) = Top(p).todo /\ AtHand(f) = {} /\ f.got = Top(p).got \cup {}
    BY <2>1 DEF InBody, ToClaim, AtHand
  <2>4. Sensible(f)
    BY <1>7, <2>1, <2>3 DEF Sensible
  <2>5. status' = [r \in RunIds |-> IF r \in {} THEN "running" ELSE status[r]]
    BY <1>10 DEF LockInv, StartState, RowsOK
  <2>6. RunningOf(a)' = RunningOf(a) /\ QueuedOf(a)' = QueuedOf(a) /\ x \notin QueuedOf(a)
    BY <1>7, <1>10 DEF RunningOf, QueuedOf, Claimable
  <2>7. Cardinality(RunningOf(a)') + Cardinality(Top(p).todo) <= MaxSlots
    BY <1>6, <1>8, <2>6, LockBounds
  <2>8. \A r \in Top(p).todo : \A q \in QueuedOf(a)' : q < r => q \in Top(p).todo
    BY <1>2, <1>3, <1>6, <2>6 DEF InOrder
  <2>9. ASSUME NEW g \in Frames, g = f PROVE SlotsFor(a, g)' /\ InOrder(a, g, {})'
    BY <2>3, <2>7, <2>8, <2>9 DEF SlotsFor, InOrder, ToClaim, AtHand
  <2> QED
    BY <1>2, <1>3, <1>7, <2>1, <2>2, <2>3, <2>4, <2>5, <2>9, BodyGoesOn
<1> QED
  BY <1>9, <1>10 DEF Claim

LEMMA CheckInv == ASSUME LockInv, NEW p \in Procs, Check(p) PROVE LockInv'
<1>1. stack[p] # <<>> /\ Top(p).fn = "start" /\ Top(p).pc = "check" /\ InBody(Top(p))
  BY DEF Check, In, InBody
<1>2. /\ Top(p) \in Frames /\ Sensible(Top(p)) /\ Turn(p) /\ Len(stack[p]) \in Nat \ {0}
      /\ SlotsFor(Top(p).agent, Top(p)) /\ InOrder(Top(p).agent, Top(p), {})
  BY <1>1, BodyTop
<1>3. PICK a \in Agents : a = Top(p).agent
  BY <1>2 DEF Turn
<1>4. ToClaim(Top(p)) = Top(p).todo
  BY <1>1 DEF ToClaim, AtHand
<1>5. UNCHANGED <<nRuns, status, agentOf>>
  BY DEF Check, runRows
<1>6. /\ \A x \in Top(p).todo : x \in RunIds /\ x \in 1..nRuns /\ agentOf[x] = a
      /\ Cardinality(RunningOf(a)) + Cardinality(Top(p).todo) <= MaxSlots
  <2>1. Top(p).todo \subseteq RunIds
    BY <1>2 DEF Frames
  <2>2. Top(p).todo \subseteq 1..nRuns /\ \A x \in Top(p).todo : agentOf[x] = a
    BY <1>1, <1>2, <1>3, <1>4 DEF Sensible
  <2>3. Cardinality(RunningOf(a)) + Cardinality(Top(p).todo) <= MaxSlots
    BY <1>2, <1>3, <1>4 DEF SlotsFor
  <2> QED
    BY <2>1, <2>2, <2>3
<1>7. status' = [r \in RunIds |-> IF r \in {} THEN "running" ELSE status[r]]
  BY <1>5 DEF LockInv, StartState, RowsOK
<1>8. RunningOf(a)' = RunningOf(a) /\ QueuedOf(a)' = QueuedOf(a)
  BY <1>5 DEF RunningOf, QueuedOf
<1>9. ASSUME NEW x \in Top(p).todo, \A q \in Top(p).todo : x <= q,
             GoOn(p, [Top(p) EXCEPT !.todo = @ \ {x}, !.pc = "update", !.run = x])
      PROVE  LockInv'
  <2> DEFINE f == [Top(p) EXCEPT !.todo = @ \ {x}, !.pc = "update", !.run = x]
  <2>1. /\ f \in Frames /\ f.fn = "start" /\ f.pc = "update" /\ f.agent = a /\ f.run = x
        /\ f.todo = Top(p).todo \ {x} /\ f.got = Top(p).got
    <3>1. x \in 0..MaxRuns /\ Top(p).todo \ {x} \in SUBSET RunIds
      BY <1>6, LockBounds DEF RunIds
    <3> QED
      BY <1>1, <1>2, <1>3, <3>1 DEF Frames
  <2>2. GoOn(p, f)
    BY <1>9
  <2> HIDE DEF f
  <2>3. /\ InBody(f) /\ ToClaim(f) = Top(p).todo /\ AtHand(f) = {x} /\ f.got = Top(p).got \cup {}
    BY <2>1 DEF InBody, ToClaim, AtHand
  <2>4. Sensible(f)
    BY <1>6, <2>1, <2>3 DEF Sensible
  <2>5. ASSUME NEW g \in Frames, g = f PROVE SlotsFor(a, g)' /\ InOrder(a, g, {})'
    <3>1. SlotsFor(a, g)'
      BY <1>6, <1>8, <2>3, <2>5 DEF SlotsFor, ToClaim, AtHand
    <3>2. InOrder(a, g, {})'
      BY <1>2, <1>3, <1>4, <1>8, <1>9, <2>1, <2>3, <2>5 DEF InOrder, ToClaim, AtHand
    <3> QED
      BY <3>1, <3>2
  <2>6. UNCHANGED <<nRuns, agentOf>> /\ {} \subseteq QueuedOf(a)
    BY <1>5
  <2>7. f.agent = a /\ f \in Frames
    BY <2>1
  <2> QED
    <3>1. PICK g \in Frames : g = f
      BY <2>7
    <3>2. SlotsFor(a, g)' /\ InOrder(a, g, {})'
      BY <2>5, <3>1
    <3>3. Turn(p) /\ a = Top(p).agent /\ GoOn(p, g) /\ InBody(g) /\ Sensible(g) /\ g.agent = a
          /\ g.got = Top(p).got \cup {}
      BY <1>2, <1>3, <2>2, <2>3, <2>4, <2>7, <3>1
    <3> QED
      BY <1>7, <2>6, <3>2, <3>3, BodyGoesOn
<1>10. ASSUME NEW x \in Top(p).todo,
              Await(p, <<CancelCall(x), [Top(p) EXCEPT !.todo = @ \ {x}]>>)
       PROVE  LockInv'
  <2> DEFINE f == [Top(p) EXCEPT !.todo = @ \ {x}]
             n == Len(stack[p])
  <2>1. /\ f \in Frames /\ f.fn = "start" /\ f.pc = "check" /\ f.agent = a
        /\ f.todo = Top(p).todo \ {x} /\ f.got = Top(p).got
    BY <1>1, <1>2, <1>3, FrameLoses
  <2>2. Await(p, <<CancelCall(x), f>>)
    BY <1>10
  <2> HIDE DEF f
  <2>3. /\ InBody(f) /\ ToClaim(f) = Top(p).todo \ {x} /\ AtHand(f) = {} /\ f.got = Top(p).got \cup {}
    BY <2>1 DEF InBody, ToClaim, AtHand
  <2>4. Sensible(f)
    BY <1>6, <2>1, <2>3 DEF Sensible
  <2>5. /\ CancelCall(x) \in Frames /\ Sensible(CancelCall(x)) /\ ~InBody(CancelCall(x))
        /\ CancelCall(x).fn = "cancel" /\ CancelCall(x).pc = "read" /\ CancelCall(x).run = x
    BY <1>6, NewFrames, NewSensible DEF CancelCall, Frame
  <2>6. PICK c \in Frames : c = CancelCall(x)
    BY <2>5
  <2>7. /\ stack' = [stack EXCEPT ![p] = <<c, f>> \o Tail(stack[p])]
        /\ chain' = chain
    BY <2>2, <2>5, <2>6 DEF Await
  <2>8. /\ Stacks' /\ OnlyTop(p) /\ Len(stack'[p]) = n + 1
        /\ AtDepth(stack'[p], n) = f /\ AtDepth(stack'[p], n + 1) = c
    BY <1>1, <2>1, <2>7, CallingOn DEF LockInv, StartState
  <2>9. Sensible(c)'
    BY <1>5, <2>5, <2>6 DEF Sensible, ToClaim, AtHand
  <2>10. \A d \in Depths(p)' : d > n => d = n + 1
    BY <1>2, <2>8 DEF Depths
  <2>11. \A d \in Depths(p)' : d > n => Sensible(CallAt(p, d))' /\ ~InBody(CallAt(p, d))'
    BY <2>5, <2>6, <2>8, <2>9, <2>10 DEF CallAt, Sensible, InBody, ToClaim, AtHand
  <2>12. Stays(p, f, {})
    BY <1>2, <1>3, <1>5, <1>7, <2>1, <2>3, <2>4, <2>7, <2>8, <2>11 DEF Stays
  <2>13. PICK m \in Nat : m = n
    BY <1>2
  <2>14. {x} \subseteq Cancelling(p, m)'
    <3>1. m + 1 \in Depths(p)' /\ CallAt(p, m + 1)' = c
      BY <1>2, <2>8, <2>13 DEF Depths, CallAt
    <3> QED
      BY <2>5, <2>6, <3>1 DEF Cancelling
  <2>15. /\ Cardinality(Top(p).todo \ {x}) <= Cardinality(Top(p).todo)
         /\ Cardinality(Top(p).todo \ {x}) \in Nat /\ Cardinality(Top(p).todo) \in Nat
    <3>1. Top(p).todo \in SUBSET RunIds /\ Top(p).todo \ {x} \in SUBSET Top(p).todo
      BY <1>6
    <3> QED
      BY <3>1, RunIdsFinite, FS_Subset
  <2>16. Cardinality(RunningOf(a)) + Cardinality(Top(p).todo \ {x}) <= MaxSlots
    BY <1>6, <2>15, RunningFinite, LockBounds
  <2>17. ASSUME NEW g \in Frames, g = f PROVE SlotsFor(a, g)' /\ InOrder(a, g, {x})'
    <3>1. SlotsFor(a, g)'
      BY <1>8, <2>3, <2>16, <2>17 DEF SlotsFor, ToClaim, AtHand
    <3>2. InOrder(a, g, {x})'
      BY <1>2, <1>3, <1>4, <1>8, <2>3, <2>17 DEF InOrder, ToClaim, AtHand
    <3> QED
      BY <3>1, <3>2
  <2> QED
    BY <1>3, <2>1, <2>12, <2>13, <2>14, <2>17, StaysInv
<1> QED
  BY <1>9, <1>10 DEF Check

-----------------------------------------------------------------------------
(* The end of a body: the next call has its turn, the claimed runs execute *)

\* Every call afterwards is where it was, or executes a run that was claimed.
LEMMA LeavePlaces ==
  ASSUME LockInv, NEW p \in Procs, Leave(p), Turn(p)
  PROVE  /\ Stacks'
         /\ \A r \in Top(p).got : r \in RunIds /\ r # p /\ stack'[r] = <<ExecCall(r)>>
         /\ \A q \in Procs : q # p /\ q \notin Top(p).got => stack'[q] = stack[q]
         /\ \A q \in Procs : \A d \in Depths(q) : Kept(q, d) \/ (q = p /\ d = Len(stack[p]))
         /\ \A q \in Procs : \A d \in Depths(q)' :
              \/ Kept(q, d) /\ ~(q = p /\ d = Len(stack[p]))
              \/ q \in Top(p).got /\ CallAt(q, d)' = ExecCall(q)
<1> DEFINE n == Len(stack[p])
           got == Top(p).got
<1>1. /\ Top(p) \in Frames /\ n \in Nat \ {0} /\ n \in Depths(p) /\ Top(p) = CallAt(p, n)
      /\ stack[p] # <<>> /\ stack[p] \in Seq(Frames)
  BY TopCall, Innermost DEF LockInv, StartState, Stacks, Turn
<1>2. got \subseteq RunIds /\ \A r \in got : stack[r] = <<>> /\ r # p
  BY <1>1 DEF Frames, LockInv, ClaimedOnce
<1>3. /\ stack'[p] = Tail(stack[p])
      /\ \A r \in got : stack'[r] = <<ExecCall(r)>>
      /\ \A q \in Procs : q # p /\ q \notin got => stack'[q] = stack[q]
  BY <1>2, RunIdsProcs DEF Leave
<1>4. /\ Tail(stack[p]) \in Seq(Frames) /\ Len(Tail(stack[p])) = n - 1
      /\ \A d \in 1..n - 1 : AtDepth(Tail(stack[p]), d) = AtDepth(stack[p], d)
  BY <1>1, NoCall
<1>5. \A r \in RunIds : /\ <<ExecCall(r)>> \in Seq(Frames) /\ Len(<<ExecCall(r)>>) = 1
                        /\ AtDepth(<<ExecCall(r)>>, 1) = ExecCall(r)
  BY NewFrames DEF AtDepth
<1>6. Stacks'
  BY <1>2, <1>3, <1>4, <1>5 DEF Stacks, Leave, LockInv, StartState
<1>7. ASSUME NEW q \in Procs, NEW d \in Depths(q)
      PROVE  Kept(q, d) \/ (q = p /\ d = n)
  <2>1. CASE q \in got
    BY <1>2, <1>7, <2>1 DEF Depths
  <2>2. CASE q = p
    <3>1. d \in 1..n - 1 \/ d = n
      BY <1>1, <1>7, <2>2 DEF Depths
    <3> QED
      BY <1>3, <1>4, <1>7, <2>2, <3>1 DEF Kept, Depths, CallAt
  <2>3. CASE q # p /\ q \notin got
    BY <1>3, <2>3 DEF Kept, Depths, CallAt
  <2> QED
    BY <2>1, <2>2, <2>3
<1>8. ASSUME NEW q \in Procs, NEW d \in Depths(q)'
      PROVE  \/ Kept(q, d) /\ ~(q = p /\ d = n)
             \/ q \in got /\ CallAt(q, d)' = ExecCall(q)
  <2>1. CASE q \in got
    <3>1. d = 1
      <4>1. Len(stack'[q]) = 1
        BY <1>2, <1>3, <1>5, <2>1
      <4> QED
        BY <1>8, <4>1 DEF Depths
    <3> QED
      BY <1>2, <1>3, <1>5, <2>1, <3>1 DEF CallAt
  <2>2. CASE q = p
    <3>1. d \in 1..n - 1 /\ d \in Depths(p) /\ d # n
      <4>1. Len(stack'[p]) = n - 1
        BY <1>3, <1>4
      <4>2. d \in 1..n - 1
        BY <1>8, <2>2, <4>1 DEF Depths
      <4> QED
        BY <1>1, <4>2 DEF Depths
    <3> QED
      BY <1>7, <2>2, <3>1
  <2>3. CASE q # p /\ q \notin got
    BY <1>3, <2>3 DEF Kept, Depths, CallAt
  <2> QED
    BY <2>1, <2>2, <2>3
<1> QED
  BY <1>2, <1>3, <1>6, <1>7, <1>8

LEMMA LeaveInv ==
  ASSUME LockInv, NEW p \in Procs, Leave(p), Turn(p), UNCHANGED runRows
  PROVE  LockInv'
<1> DEFINE n == Len(stack[p])
           got == Top(p).got
<1>1. /\ Stacks'
      /\ \A r \in got : r \in RunIds /\ r # p /\ stack'[r] = <<ExecCall(r)>>
      /\ \A q \in Procs : q # p /\ q \notin got => stack'[q] = stack[q]
  BY LeavePlaces
<1>2. \A q \in Procs : \A d \in Depths(q) : Kept(q, d) \/ (q = p /\ d = n)
  BY LeavePlaces
<1>3. \A q \in Procs : \A d \in Depths(q)' :
        \/ Kept(q, d) /\ ~(q = p /\ d = n)
        \/ q \in got /\ CallAt(q, d)' = ExecCall(q)
  BY LeavePlaces
<1>4. /\ Top(p) \in Frames /\ n \in Nat \ {0} /\ n \in Depths(p) /\ Top(p) = CallAt(p, n)
      /\ stack[p] # <<>>
  BY TopCall, Innermost DEF LockInv, StartState, Stacks, Turn
<1>5. nRuns' = nRuns /\ status' = status /\ agentOf' = agentOf
  BY DEF runRows
<1>6. \A r \in got : stack[r] = <<>> /\ status[r] \in {"running", "ended"} /\ r \in 1..nRuns
  <2>1. \A r \in got : stack[r] = <<>> /\ status[r] \in {"running", "ended"}
    BY <1>4 DEF LockInv, ClaimedOnce
  <2> QED
    BY <1>1, <2>1, LockBounds DEF LockInv, StartState, RowsOK, NoRunBeyond, RunIds
<1>7. \A r \in got : Sensible(ExecCall(r)) /\ ~InBody(ExecCall(r)) /\ ExecCall(r).got = {}
  BY <1>6, NewSensible DEF ExecCall, Frame
<1>8. ASSUME NEW q \in Procs, NEW d \in Depths(q)', InBody(CallAt(q, d))' \/ CallAt(q, d)'.got # {}
      PROVE  Kept(q, d) /\ ~(q = p /\ d = n)
  BY <1>3, <1>7, <1>8 DEF InBody
<1>9. StartState'
  <2>1. ASSUME NEW q \in Procs, NEW d \in Depths(q)' PROVE Sensible(CallAt(q, d))'
    <3>1. CASE Kept(q, d)
      <4>1. CallAt(q, d)' = CallAt(q, d) /\ Sensible(CallAt(q, d))
        BY <3>1, Calling DEF Kept, LockInv
      <4> QED
        BY <1>5, <4>1 DEF Sensible, InBody, AtHand, ToClaim
    <3>2. CASE q \in got /\ CallAt(q, d)' = ExecCall(q)
      BY <1>5, <1>7, <3>2 DEF Sensible, InBody, AtHand, ToClaim
    <3> QED
      BY <1>3, <3>1, <3>2
  <2>2. ChainsOK'
    BY DEF Leave, Turn, LockInv, StartState, ChainsOK
  <2>3. RowsOK'
    BY <1>5 DEF LockInv, StartState, RowsOK, NoRunBeyond
  <2> QED
    BY <1>1, <2>1, <2>2, <2>3 DEF StartState, CallsSensible
<1>10. BodyHasTurn'
  <2>1. ASSUME NEW q \in Procs, NEW d \in Depths(q)', InBody(CallAt(q, d))'
        PROVE  /\ chain'[CallAt(q, d)'.agent] # <<>>
               /\ Head(chain'[CallAt(q, d)'.agent]) = [proc |-> q, depth |-> d]
    <3>1. Kept(q, d) /\ ~(q = p /\ d = n)
      BY <1>8, <2>1
    <3>2. InBody(CallAt(q, d)) /\ d \in Depths(q) /\ CallAt(q, d)' = CallAt(q, d)
      BY <2>1, <3>1 DEF Kept, InBody
    <3>3. CallAt(q, d).agent # Top(p).agent
      BY <3>1, <3>2, StaysAlone DEF LockInv
    <3>4. CallAt(q, d).agent \in Agents
      BY <3>2, Calling DEF LockInv, Sensible, InBody
    <3>5. chain'[CallAt(q, d).agent] = chain[CallAt(q, d).agent]
      BY <3>3, <3>4 DEF Leave, LockInv, StartState, ChainsOK
    <3> QED
      BY <3>2, <3>5 DEF LockInv, BodyHasTurn
  <2> QED
    BY <2>1 DEF BodyHasTurn
<1>11. BodyHasSlots'
  <2>1. ASSUME NEW q \in Procs, NEW d \in Depths(q)', InBody(CallAt(q, d))'
        PROVE  (LET g == CallAt(q, d)
                IN InBody(g) => Cardinality(RunningOf(g.agent)) + Cardinality(ToClaim(g)) <= MaxSlots)'
    <3>1. InBody(CallAt(q, d)) /\ d \in Depths(q) /\ CallAt(q, d)' = CallAt(q, d)
      BY <1>8, <2>1 DEF Kept, InBody
    <3>2. PICK g : g = CallAt(q, d)
      OBVIOUS
    <3>3. Cardinality(RunningOf(g.agent)) + Cardinality(ToClaim(g)) <= MaxSlots
      BY <3>1, <3>2 DEF LockInv, BodyHasSlots
    <3> QED
      BY <1>5, <3>1, <3>2, <3>3 DEF ToClaim, AtHand, RunningOf
  <2> QED
    BY <2>1 DEF BodyHasSlots
<1>12. OldestFirst'
  <2>1. ASSUME NEW q \in Procs, NEW d \in Depths(q)', InBody(CallAt(q, d))'
        PROVE  (LET g == CallAt(q, d)
                IN /\ \A r \in ToClaim(g) : \A x \in QueuedOf(g.agent) :
                        x < r => x \in ToClaim(g) \cup Cancelling(q, d)
                   /\ \A r \in AtHand(g) : \A x \in g.todo : r <= x
                   /\ g.pc = "update" => d = Len(stack[q]))'
    <3>1. /\ InBody(CallAt(q, d)) /\ d \in Depths(q) /\ CallAt(q, d)' = CallAt(q, d)
          /\ ~(q = p /\ d = n)
      BY <1>8, <2>1 DEF Kept, InBody
    <3>2. PICK g : g = CallAt(q, d)
      OBVIOUS
    <3>3. /\ \A r \in ToClaim(g) : \A x \in QueuedOf(g.agent) :
               x < r => x \in ToClaim(g) \cup Cancelling(q, d)
          /\ \A r \in AtHand(g) : \A x \in g.todo : r <= x
          /\ g.pc = "update" => d = Len(stack[q])
      BY <3>1, <3>2 DEF LockInv, OldestFirst
    <3>4. Cancelling(q, d) \subseteq Cancelling(q, d)'
      <4>1. CASE d + 1 \in Depths(q) /\ Kept(q, d + 1)
        BY <4>1 DEF Cancelling, Kept
      <4>2. CASE q = p /\ d + 1 = n
        BY <1>4, <4>2 DEF Cancelling, Turn
      <4>3. CASE d + 1 \notin Depths(q)
        BY <4>3 DEF Cancelling
      <4> QED
        BY <1>2, <4>1, <4>2, <4>3
    <3>5. g.pc = "update" => d = Len(stack'[q])
      <4>1. CASE q # p
        <5>1. q \notin got
          BY <1>6, <3>1 DEF Depths
        <5> QED
          BY <1>1, <3>3, <4>1, <5>1
      <4>2. CASE q = p
        BY <3>1, <3>3, <4>2
      <4> QED
        BY <4>1, <4>2
    <3> QED
      BY <1>5, <3>1, <3>2, <3>3, <3>4, <3>5 DEF ToClaim, AtHand, QueuedOf
  <2> QED
    BY <2>1 DEF OldestFirst
<1>13. RunsExecuted'
  <2>1. ASSUME NEW r \in RunIds
        PROVE  (stack[r] = <<>> \/ status[r] = "ended" \/ Executing(r))'
    <3>1. CASE r \in got
      <4>1. stack'[r] = <<ExecCall(r)>> /\ status'[r] \in {"running", "ended"}
        BY <1>1, <1>5, <1>6, <3>1
      <4>2. Len(stack'[r]) = 1 /\ Head(stack'[r]) = ExecCall(r)
        BY <4>1
      <4> QED
        BY <4>1, <4>2 DEF Executing, Top, ExecCall, Frame
    <3>2. CASE r = p
      BY <1>4, <1>5, <3>2 DEF LockInv, RunsExecuted, Executing, Turn
    <3>3. CASE r # p /\ r \notin got
      BY <1>1, <1>5, <3>3, RunIdsProcs DEF LockInv, RunsExecuted, Executing, Top
    <3> QED
      BY <3>1, <3>2, <3>3
  <2> QED
    BY <2>1 DEF RunsExecuted
<1>14. ClaimedOnce'
  <2>1. ASSUME NEW q \in Procs, NEW d \in Depths(q)', NEW r \in CallAt(q, d)'.got
        PROVE  /\ stack'[r] = <<>> /\ status'[r] \in {"running", "ended"}
               /\ \A y \in Procs : \A e \in Depths(y)' : r \in CallAt(y, e)'.got => y = q /\ e = d
    <3>1. d \in Depths(q) /\ r \in CallAt(q, d).got /\ ~(q = p /\ d = n)
      BY <1>8, <2>1 DEF Kept
    <3>2. r \in RunIds /\ stack[r] = <<>> /\ status[r] \in {"running", "ended"}
      BY <3>1, Calling DEF LockInv, ClaimedOnce, Frames
    <3>3. r \notin got
      BY <1>4, <3>1 DEF LockInv, ClaimedOnce
    <3>4. r # p
      BY <1>4, <3>2
    <3>5. stack'[r] = <<>>
      BY <1>1, <3>2, <3>3, <3>4, RunIdsProcs
    <3>6. ASSUME NEW y \in Procs, NEW e \in Depths(y)', r \in CallAt(y, e)'.got
          PROVE  y = q /\ e = d
      <4>1. e \in Depths(y) /\ r \in CallAt(y, e).got
        BY <1>8, <3>6 DEF Kept
      <4> QED
        BY <3>1, <4>1 DEF LockInv, ClaimedOnce
    <3> QED
      BY <1>5, <3>2, <3>5, <3>6
  <2> QED
    BY <2>1 DEF ClaimedOnce
<1>15. RunningHeld'
  <2>1. ASSUME NEW r \in RunIds, status'[r] = "running"
        PROVE  stack'[r] # <<>> \/ \E q \in Procs : \E d \in Depths(q)' : r \in CallAt(q, d)'.got
    <3>1. CASE r \in got
      BY <1>1, <3>1
    <3>2. CASE r \notin got /\ stack[r] # <<>>
      <4>1. Executing(r)
        BY <1>5, <2>1, <3>2 DEF LockInv, RunsExecuted
      <4>2. r # p
        BY <4>1 DEF Executing, Turn
      <4> QED
        BY <1>1, <3>2, <4>2, RunIdsProcs
    <3>3. ASSUME r \notin got, NEW q \in Procs, NEW d \in Depths(q), r \in CallAt(q, d).got
          PROVE  \E y \in Procs : \E e \in Depths(y)' : r \in CallAt(y, e)'.got
      <4>1. Kept(q, d)
        BY <1>2, <1>4, <3>3
      <4> QED
        BY <3>3, <4>1 DEF Kept
    <3> QED
      BY <1>5, <2>1, <3>1, <3>2, <3>3 DEF LockInv, RunningHeld
  <2> QED
    BY <2>1 DEF RunningHeld
<1> QED
  BY <1>9, <1>10, <1>11, <1>12, <1>13, <1>14, <1>15 DEF LockInv

-----------------------------------------------------------------------------
(* Invariance *)

LEMMA LockInvInit == LockInit => LockInv
<1> SUFFICES ASSUME LockInit PROVE LockInv
  OBVIOUS
<1>1. RowsOK
  BY LockBounds DEF LockInit, RowsOK, NoRunBeyond, RunIds
<1>2. ChainsOK /\ Stacks
  BY DEF LockInit, ChainsOK, Stacks
<1>3. \A p \in Procs : Depths(p) = {}
  BY DEF LockInit, Depths
<1>4. \A r \in RunIds : stack[r] = <<>> /\ status[r] = "absent"
  BY RunIdsProcs DEF LockInit
<1> QED
  BY <1>1, <1>2, <1>3, <1>4 DEF LockInv, StartState, CallsSensible, BodyHasTurn, BodyHasSlots,
    OldestFirst, RunsExecuted, ClaimedOnce, RunningHeld

LEMMA UnchangedInv == ASSUME LockInv, UNCHANGED <<runRows, chain, stack>> PROVE LockInv'
<1>1. nRuns' = nRuns /\ status' = status /\ agentOf' = agentOf /\ chain' = chain /\ stack' = stack
  BY DEF runRows
<1>2. StartState'
  BY <1>1 DEF LockInv, StartState, RowsOK, NoRunBeyond, ChainsOK, Stacks, CallsSensible, Sensible,
    ToClaim, AtHand, Depths, CallAt
<1>3. BodyHasTurn'
  BY <1>1 DEF LockInv, BodyHasTurn, Depths, CallAt
<1>4. BodyHasSlots'
  BY <1>1 DEF LockInv, BodyHasSlots, Depths, CallAt, RunningOf
<1>5. OldestFirst'
  BY <1>1 DEF LockInv, OldestFirst, Depths, CallAt, QueuedOf, Cancelling
<1>6. RunsExecuted'
  BY <1>1 DEF LockInv, RunsExecuted, Executing, Top
<1>7. ClaimedOnce' /\ RunningHeld'
  BY <1>1 DEF LockInv, ClaimedOnce, RunningHeld, Depths, CallAt
<1> QED
  BY <1>2, <1>3, <1>4, <1>5, <1>6, <1>7 DEF LockInv

LEMMA LookStep == ASSUME LockInv, NEW p \in Procs, Look(p) PROVE LockInv'
<1>1. stack[p] # <<>> /\ Top(p).fn = "start" /\ Top(p).pc = "wait" /\ HasTurn(p)
  BY DEF Look, In
<1>2. Top(p).agent \in Agents
  BY <1>1, TopCall DEF LockInv, Sensible
<1>3. PICK a \in Agents : a = Top(p).agent
  BY <1>2
<1>4. CASE Leave(p)
  <2>1. Turn(p)
    BY <1>1, <1>2 DEF Turn, HasTurn, Ticket
  <2> QED
    BY <1>4, <2>1, LeaveInv DEF Look
<1>5. CASE ~(~invokable[a] \/ FreeSlots(a) = 0 \/ QueuedOf(a) = {})
  BY <1>3, <1>5, LookInv
<1> QED
  BY <1>3, <1>4, <1>5 DEF Look

LEMMA DoneStep == ASSUME LockInv, NEW p \in Procs, Done(p) PROVE LockInv'
<1>1. stack[p] # <<>> /\ InBody(Top(p))
  BY DEF Done, In, InBody
<1> QED
  BY <1>1, BodyTop, LeaveInv DEF Done

LEMMA LockInvStep == LockInv /\ [LockNext]_lockVars => LockInv'
<1> SUFFICES ASSUME LockInv, [LockNext]_lockVars PROVE LockInv'
  OBVIOUS
<1>1. CASE LockNext
  BY <1>1, Asides, AsideInv, UnchangedInv, LookStep, CheckInv, ClaimInv, DoneStep DEF LockInv
<1>2. CASE UNCHANGED lockVars
  BY <1>2, UnchangedInv DEF lockVars, runRows
<1> QED
  BY <1>1, <1>2

LEMMA LockInvariance == LockSpec => []LockInv
BY LockInvInit, LockInvStep, PTL DEF LockSpec

\* What a step does to the runs: it claims one, at the head of a body's list, or
\* queues and ends some.
LEMMA RunsStep ==
  ASSUME LockInv, [LockNext]_lockVars
  PROVE  \/ \E p \in Procs : Claim(p)
         \/ RowsMove
         \/ UNCHANGED runRows
<1>1. ASSUME NEW p \in Procs, Look(p) \/ Check(p) \/ Done(p) PROVE UNCHANGED runRows
  BY <1>1 DEF Look, Check, Done
<1>2. CASE LockNext
  BY <1>1, <1>2, Asides DEF LockInv, Aside
<1>3. CASE UNCHANGED lockVars
  BY <1>3 DEF lockVars, runRows
<1> QED
  BY <1>2, <1>3

\* A claim: the run is the body's oldest, of its agent, and has a slot.
LEMMA ClaimStep ==
  ASSUME LockInv, NEW p \in Procs, Claim(p), status' # status
  PROVE  LET x == Top(p).run
             a == agentOf[x]
         IN /\ x \in RunIds /\ a \in Agents /\ status[x] = "queued"
            /\ status' = [status EXCEPT ![x] = "running"]
            /\ agentOf' = agentOf
            /\ Cardinality(RunningOf(a)) + 1 <= MaxSlots
            /\ \A q \in QueuedOf(a) : x <= q
<1> DEFINE x == Top(p).run
           a == Top(p).agent
<1>1. stack[p] # <<>> /\ Top(p).pc = "update" /\ InBody(Top(p))
  BY DEF Claim, In, InBody
<1>2. /\ Top(p) \in Frames /\ Sensible(Top(p)) /\ Turn(p)
      /\ SlotsFor(a, Top(p)) /\ InOrder(a, Top(p), {})
  BY <1>1, BodyTop
<1>3. AtHand(Top(p)) = {x} /\ ToClaim(Top(p)) = Top(p).todo \cup {x}
  BY <1>1 DEF AtHand, ToClaim
<1>4. x \in 1..nRuns /\ agentOf[x] = a /\ a \in Agents /\ ToClaim(Top(p)) \subseteq 1..nRuns
  BY <1>1, <1>2, <1>3 DEF Sensible, Turn
<1>5. 1..nRuns \subseteq RunIds /\ x \in RunIds
  BY <1>4, LockBounds DEF LockInv, StartState, RowsOK, RunIds
<1>6. Claimable(x) /\ status' = [status EXCEPT ![x] = "running"] /\ agentOf' = agentOf
  BY DEF Claim
<1>7. Cardinality(ToClaim(Top(p))) \in Nat \ {0}
  <2>1. IsFiniteSet(ToClaim(Top(p))) /\ Cardinality(ToClaim(Top(p))) \in Nat
    BY <1>4, <1>5, RunIdsFinite
  <2> QED
    BY <1>3, <2>1, FS_EmptySet
<1>8. Cardinality(RunningOf(a)) + 1 <= MaxSlots
  BY <1>2, <1>7, RunningFinite, LockBounds DEF SlotsFor
<1>9. ASSUME NEW q \in QueuedOf(a) PROVE x <= q
  <2>1. x \in Nat /\ q \in Nat
    BY <1>5, LockBounds DEF QueuedOf, RunIds
  <2>2. q < x => q \in Top(p).todo \cup {x}
    BY <1>2, <1>3 DEF InOrder
  <2>3. q \in Top(p).todo => x <= q
    BY <1>2, <1>3 DEF InOrder
  <2> QED
    BY <2>1, <2>2, <2>3
<1> QED
  BY <1>4, <1>5, <1>6, <1>8, <1>9 DEF Claimable

LEMMA SlotStep == LockInv /\ SlotLimit /\ [LockNext]_lockVars => SlotLimit'
<1> SUFFICES ASSUME LockInv, SlotLimit, [LockNext]_lockVars, NEW a \in Agents
             PROVE  Cardinality(RunningOf(a)') <= MaxSlots
  BY DEF SlotLimit
<1>0. Cardinality(RunningOf(a)) <= MaxSlots /\ Cardinality(RunningOf(a)) \in Nat
  BY RunningFinite DEF SlotLimit
<1>1. CASE RowsMove
  <2>1. Cardinality(RunningOf(a)') <= Cardinality(RunningOf(a))
    BY <1>1, FewerRunning DEF LockInv, StartState
  <2>2. RunningOf(a)' \in SUBSET RunIds
    BY DEF RunningOf
  <2>3. Cardinality(RunningOf(a)') \in Nat
    BY <2>2, RunIdsFinite
  <2> QED
    BY <1>0, <2>1, <2>3, LockBounds
<1>2. CASE UNCHANGED <<status, agentOf>>
  BY <1>0, <1>2 DEF RunningOf
<1>3. ASSUME NEW p \in Procs, Claim(p), status' # status
      PROVE  Cardinality(RunningOf(a)') <= MaxSlots
  <2> DEFINE x == Top(p).run
  <2>1. /\ x \in RunIds /\ status[x] = "queued"
        /\ status' = [status EXCEPT ![x] = "running"] /\ agentOf' = agentOf
        /\ Cardinality(RunningOf(agentOf[x])) + 1 <= MaxSlots
    BY <1>3, ClaimStep
  <2>2. RunningOf(a)' = IF agentOf[x] = a THEN RunningOf(a) \cup {x} ELSE RunningOf(a)
    BY <2>1 DEF RunningOf, LockInv, StartState, RowsOK
  <2>3. x \notin RunningOf(a) /\ IsFiniteSet(RunningOf(a))
    BY <2>1, RunningFinite DEF RunningOf
  <2>4. Cardinality(RunningOf(a) \cup {x}) = Cardinality(RunningOf(a)) + 1
    BY <2>3, FS_AddElement
  <2> QED
    BY <1>0, <2>1, <2>2, <2>4
<1> QED
  BY <1>1, <1>2, <1>3, RunsStep DEF runRows, Claim

-----------------------------------------------------------------------------
(* Theorems *)

\* Runs, chains and call stacks have their types in every reachable state.
THEOREM LockTypes == LockSpec => []LockTypeOK
<1> DEFINE Gates == invokable \in [Agents -> BOOLEAN] /\ blocked \in BOOLEAN
<1>1. LockInit => Gates
  BY DEF LockInit
<1>2. Gates /\ [LockNext]_lockVars => Gates'
  BY DEF LockNext, Step, lockVars, gates, Look, Check, Claim, Done, ExecBegin, AdapterEnds,
    CancelRead, CancelSet, Release, StartNext, DropEnds, Scan, Loop, WakeInsert, CostStops, Wake,
    PauseAgent, CancelRun, RequestStops, ResumeAgent, BudgetRaised, Tick
<1>3. LockInv /\ Gates => LockTypeOK
  BY DEF LockInv, StartState, RowsOK, ChainsOK, Stacks, LockTypeOK, Tickets
<1> QED
  BY <1>1, <1>2, <1>3, LockInvariance, PTL DEF LockSpec

\* However many calls race to start an agent's runs, whatever is cancelled, promoted
\* or stopped meanwhile, no agent has more running runs than maxConcurrentRuns.
THEOREM Slots == LockSpec => []SlotLimit
<1>1. LockInit => SlotLimit
  <2> SUFFICES ASSUME LockInit, NEW a \in Agents PROVE Cardinality(RunningOf(a)) <= MaxSlots
    BY DEF SlotLimit
  <2>1. RunningOf(a) = {}
    BY DEF LockInit, RunningOf
  <2> QED
    BY <2>1, FS_EmptySet, LockBounds
<1> QED
  BY <1>1, SlotStep, LockInvariance, PTL DEF LockSpec

\* A run that was claimed is executed, or in the hands of the call that claimed it.
THEOREM Executed == LockSpec => []ClaimedIsExecuted
<1>1. LockInv => ClaimedIsExecuted
  <2> SUFFICES ASSUME LockInv, NEW r \in RunIds, status[r] = "running", stack[r] = <<>>
               PROVE  \E p \in Procs : \E k \in DOMAIN stack[p] : r \in stack[p][k].got
    BY DEF ClaimedIsExecuted
  <2>0. PICK p \in Procs : \E d \in Depths(p) : r \in CallAt(p, d).got
    BY DEF LockInv, RunningHeld
  <2>1. PICK d \in Depths(p) : r \in CallAt(p, d).got
    BY <2>0
  <2>2. stack[p] \in Seq(Frames) /\ d \in 1..Len(stack[p])
    BY DEF LockInv, StartState, Stacks, Depths
  <2>3. Len(stack[p]) + 1 - d \in DOMAIN stack[p]
    BY <2>2
  <2> QED
    BY <2>1, <2>3 DEF CallAt, AtDepth
<1> QED
  BY <1>1, LockInvariance, PTL

\* A run that ended, however late its claim comes, has ended for good.
THEOREM Ended == LockSpec => NeverRevived
<1>1. LockInv /\ [LockNext]_lockVars =>
        [\A r \in RunIds : status[r] = "ended" => status'[r] = "ended"]_lockVars
  <2> SUFFICES ASSUME LockInv, [LockNext]_lockVars, NEW r \in RunIds, status[r] = "ended"
               PROVE  status'[r] = "ended"
    OBVIOUS
  <2>1. CASE RowsMove
    BY <2>1, StatusMoves DEF LockInv, StartState
  <2>2. CASE status' = status
    BY <2>2
  <2>3. ASSUME NEW p \in Procs, Claim(p), status' # status PROVE status'[r] = "ended"
    BY <2>3, ClaimStep DEF LockInv, StartState, RowsOK
  <2> QED
    BY <2>1, <2>2, <2>3, RunsStep DEF runRows
<1> QED
  BY <1>1, LockInvariance, PTL DEF LockSpec, NeverRevived

\* The run that starts is the oldest its agent has queued at that moment, whatever
\* was queued, claimed or cancelled since the look at the queue.
THEOREM Ordered == LockSpec => StartsInOrder
<1>1. LockInv /\ [LockNext]_lockVars =>
        [\A r \in RunIds : status[r] # "running" /\ status'[r] = "running" =>
           \A q \in QueuedOf(agentOf[r]) : r <= q]_lockVars
  <2> SUFFICES ASSUME LockInv, [LockNext]_lockVars, NEW r \in RunIds,
                      status[r] # "running", status'[r] = "running"
               PROVE  \A q \in QueuedOf(agentOf[r]) : r <= q
    OBVIOUS
  <2>1. ~RowsMove
    BY StatusMoves DEF LockInv, StartState
  <2>2. status' # status
    OBVIOUS
  <2>3. PICK p \in Procs : Claim(p)
    BY <2>1, <2>2, RunsStep DEF runRows
  <2> QED
    BY <2>2, <2>3, ClaimStep DEF LockInv, StartState, RowsOK
<1> QED
  BY <1>1, LockInvariance, PTL DEF LockSpec, StartsInOrder

=============================================================================
