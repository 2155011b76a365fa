------------------------ MODULE RoutineDispatchProofs ------------------------
(* Invariants of RoutineDispatch, for any processes, keys, schedule and      *)
(* policy, and any pool with more connections than processes.                *)
EXTENDS RoutineDispatch, FiniteSetTheorems, TLAPS

CallRecord ==
  [pc : Pcs, seen : 0..Never, left : 0..Cap, trig : BOOLEAN, key : Keys \cup {None},
   run : 0..MaxRuns, at : 0..MaxTime]

\* What TypeOK says of the rows and the schedule, and of the calls.
RowsTyped ==
  /\ now \in 0..MaxTime /\ nextRun \in 0..Never /\ armed \in BOOLEAN
  /\ nRuns \in 0..MaxRuns
  /\ run \in [Runs -> {"absent", "skipped", "coalesced", "issue_created", "failed"}]
  /\ keyOf \in [Runs -> Keys \cup {None}]
  /\ issue \in [Runs -> {"absent", "todo", "done", "deleted"}]
  /\ exec \in [Runs -> {"none", "live", "ended"}]
  /\ rowLock \in Procs \cup {None}
CallsTyped == call \in [Procs -> CallRecord]

\* Calls that hold no connection between two steps.
Outside == {"idle", "claim", "connect"}
InTransaction == {p \in Procs : call[p].pc \notin Outside}
Pooled == free \in Nat /\ free + Cardinality(InTransaction) = Connections

\* Who holds the routine's row has a run that is not committed, and a key that no
\* committed run has.
Holding == {"find", "create", "wake", "finish", "undo"}
Holds(p) == call[p].pc \in Holding
Unsettled(p) ==
  /\ call[p].run \in 1..nRuns
  /\ run[call[p].run] = "absent" /\ ~Known(call[p].key)
  /\ call[p].pc \in {"find", "create"} => issue[call[p].run] = "absent"
  /\ call[p].pc = "wake" => issue[call[p].run] # "absent"
RowHolder ==
  \A p \in Procs : /\ Holds(p) <=> rowLock = p
                   /\ Holds(p) => Unsettled(p)

\* Rows are inserted in turn, and an issue is executed after its creation.
Numbered ==
  \A r \in Runs : /\ r > nRuns => run[r] = "absent" /\ issue[r] = "absent"
                  /\ issue[r] = "absent" => exec[r] = "none"

\* The index holds an issue at most.
OneIndexed == \A i, j \in Runs : Indexed(i) /\ Indexed(j) => i = j

\* A tick claims what was due when it read it.
TicksAreDue ==
  \A p \in Procs : At(p, "claim") => call[p].seen <= call[p].at /\ call[p].at <= now

Inv ==
  /\ RowsTyped /\ CallsTyped /\ Pooled /\ RowHolder /\ Numbered /\ OneIndexed
  /\ OneRunPerKey /\ TicksAreDue

-----------------------------------------------------------------------------
(* The schedule *)

\* The schedule goes on to a later minute, or to none.
LEMMA TicksLater ==
  ASSUME NEW t \in 0..MaxTime, NEW n \in Nat, n # 0
  PROVE  TickAfter(t, n) \in 0..Never /\ TickAfter(t, n) > t
<1> DEFINE later == {f \in Fires : f > t /\ f <= MaxTime}
           nth == {f \in later : Cardinality({g \in later : g <= f}) = n}
<1>1. later \subseteq 0..Never /\ \A f \in later : f > t
  <2> SUFFICES ASSUME NEW f \in later PROVE f \in 0..Never /\ f > t
    OBVIOUS
  <2>1. f \in Nat /\ MaxTime \in Nat /\ f > t /\ f <= MaxTime
    BY BoundsAssumption
  <2> QED BY <2>1 DEF Never
<1>2. TickAfter(t, n) = IF nth = {} THEN Never ELSE CHOOSE f \in nth : TRUE
  BY DEF TickAfter
<1>3. nth \subseteq later
  OBVIOUS
<1> HIDE DEF nth, later
<1>4. CASE nth = {}
  BY <1>2, <1>4, BoundsAssumption DEF Never
<1>5. CASE nth # {}
  BY <1>1, <1>2, <1>3, <1>5
<1> QED BY <1>4, <1>5

LEMMA NextTickLater ==
  ASSUME NEW t \in 0..MaxTime
  PROVE  NextTick(t) \in 0..Never /\ NextTick(t) > t
BY TicksLater DEF NextTick

\* A tick dispatches at least one run, and Cap at most.
LEMMA MissedTyped ==
  ASSUME NEW from \in 0..Never, NEW to \in 0..MaxTime, from <= to
  PROVE  Missed(from, to) \in 1..Cap
<1> DEFINE due == {k \in 1..Cap : TickAfter(from, k - 1) <= to}
<1>1. IsFiniteSet(1..Cap) /\ Cardinality(1..Cap) = Cap
  BY FS_Interval, BoundsAssumption
<1>2. IsFiniteSet(due) /\ Cardinality(due) <= Cap /\ Cardinality(due) \in Nat
  BY <1>1, FS_Subset, FS_CardinalityType
<1>3. 1 \in due
  <2>1. TickAfter(from, 1 - 1) = from
    BY DEF TickAfter
  <2> QED BY <2>1, BoundsAssumption
<1>4. Cardinality(due) # 0
  BY <1>2, <1>3, FS_EmptySet
<1>5. Missed(from, to) = IF CatchUp = "skip_missed" THEN 1 ELSE Cardinality(due)
  BY DEF Missed
<1> HIDE DEF due
<1> QED BY <1>2, <1>4, <1>5, BoundsAssumption

LEMMA ClaimedNextLater ==
  ASSUME NEW from \in 0..Never, NEW to \in 0..MaxTime, from <= to
  PROVE  ClaimedNext(from, to) \in 0..Never /\ ClaimedNext(from, to) > from
<1>1. from \in 0..MaxTime /\ MaxTime \in Nat
  BY BoundsAssumption
<1>2. CASE CatchUp = "skip_missed"
  <2>1. ClaimedNext(from, to) = NextTick(to)
    BY <1>2 DEF ClaimedNext
  <2>2. NextTick(to) \in 0..Never /\ NextTick(to) > to
    BY NextTickLater
  <2> QED BY <1>1, <2>1, <2>2
<1>3. CASE CatchUp # "skip_missed"
  <2>1. Missed(from, to) \in Nat /\ Missed(from, to) # 0
    BY MissedTyped, BoundsAssumption
  <2>2. ClaimedNext(from, to) = TickAfter(from, Missed(from, to))
    BY <1>3 DEF ClaimedNext
  <2> QED BY <1>1, <2>1, <2>2, TicksLater
<1> QED BY <1>2, <1>3

-----------------------------------------------------------------------------
(* The pool *)

LEMMA PoolTyped ==
  ASSUME Pooled
  PROVE  /\ IsFiniteSet(InTransaction) /\ Cardinality(InTransaction) \in Nat
         /\ Connections \in Nat /\ free > 0
<1>1. InTransaction \subseteq Procs
  BY DEF InTransaction
<1>2. /\ IsFiniteSet(InTransaction) /\ Cardinality(InTransaction) \in Nat
      /\ Cardinality(InTransaction) <= Cardinality(Procs) /\ Cardinality(Procs) \in Nat
  BY <1>1, PoolAssumption, FS_Subset, FS_CardinalityType
<1> QED BY <1>2, PoolAssumption DEF Pooled

\* A call that begins or ends its transaction takes or gives back a connection.
LEMMA PoolMoves ==
  ASSUME Pooled, CallsTyped, NEW p \in Procs, NEW f, call' = [call EXCEPT ![p] = f],
         \/ call[p].pc \in Outside /\ f.pc \in Outside /\ free' = free
         \/ call[p].pc \notin Outside /\ f.pc \notin Outside /\ free' = free
         \/ call[p].pc \in Outside /\ f.pc \notin Outside /\ free' = free - 1
         \/ call[p].pc \notin Outside /\ f.pc \in Outside /\ free' = free + 1
  PROVE  Pooled'
<1>1. \A q \in Procs : call'[q].pc = IF q = p THEN f.pc ELSE call[q].pc
  BY DEF CallsTyped
<1>2. InTransaction' = IF f.pc \in Outside THEN InTransaction \ {p} ELSE InTransaction \cup {p}
  BY <1>1 DEF InTransaction
<1>3. p \in InTransaction <=> call[p].pc \notin Outside
  BY DEF InTransaction
<1>4. /\ IsFiniteSet(InTransaction) /\ Cardinality(InTransaction) \in Nat
      /\ Connections \in Nat /\ free > 0
  BY PoolTyped
<1>5. /\ Cardinality(InTransaction \cup {p})
           = IF p \in InTransaction THEN Cardinality(InTransaction)
             ELSE Cardinality(InTransaction) + 1
      /\ Cardinality(InTransaction \ {p})
           = IF p \in InTransaction THEN Cardinality(InTransaction) - 1
             ELSE Cardinality(InTransaction)
  BY <1>4, FS_AddElement, FS_RemoveElement
<1>6. Cardinality(InTransaction') =
        IF call[p].pc \in Outside /\ f.pc \notin Outside THEN Cardinality(InTransaction) + 1
        ELSE IF call[p].pc \notin Outside /\ f.pc \in Outside
        THEN Cardinality(InTransaction) - 1
        ELSE Cardinality(InTransaction)
  BY <1>2, <1>3, <1>5
<1> QED BY <1>4, <1>6 DEF Pooled

-----------------------------------------------------------------------------
(* Steps of one call *)

LEMMA RecordsTyped ==
  /\ Idle \in CallRecord
  /\ \A f \in CallRecord : /\ After(f) \in CallRecord
                           /\ After(f).pc \in {"idle", "connect"}
<1>1. Idle \in CallRecord
  BY BoundsAssumption DEF Idle, CallRecord, Pcs, Never
<1>2. ASSUME NEW f \in CallRecord
      PROVE  After(f) \in CallRecord /\ After(f).pc \in {"idle", "connect"}
  <2>1. CASE f.left <= 1
    BY <1>1, <2>1 DEF After, Idle
  <2>2. CASE ~(f.left <= 1)
    <3>1. f.left - 1 \in 0..Cap
      BY <2>2, BoundsAssumption DEF CallRecord
    <3>2. After(f) = [pc |-> "connect", seen |-> f.seen, left |-> f.left - 1, trig |-> f.trig,
                      key |-> f.key, run |-> 0, at |-> 0]
      BY <2>2 DEF After, CallRecord
    <3>3. 0 \in 0..MaxRuns /\ 0 \in 0..MaxTime
      BY BoundsAssumption
    <3> QED BY <3>1, <3>2, <3>3 DEF CallRecord, Pcs
  <2> QED BY <2>1, <2>2
<1> QED BY <1>1, <1>2

LEMMA UpdatesTyped ==
  /\ \A g \in CallRecord, n \in 0..Cap :
       [g EXCEPT !.pc = "connect", !.left = n, !.seen = 0, !.at = 0] \in CallRecord
  /\ \A g \in CallRecord, r \in 0..MaxRuns, t \in 0..MaxTime :
       [g EXCEPT !.pc = "find", !.run = r, !.at = t] \in CallRecord
  /\ \A key \in Keys \cup {None}, trig \in BOOLEAN :
       [Idle EXCEPT !.pc = "connect", !.left = 1, !.key = key, !.trig = trig] \in CallRecord
<1>1. 0 \in 0..Never /\ 0 \in 0..MaxTime /\ 0 \in 0..MaxRuns /\ 0 \in 0..Cap /\ 1 \in 0..Cap
  BY BoundsAssumption DEF Never
<1>2. ASSUME NEW g \in CallRecord, NEW n \in 0..Cap
      PROVE  [g EXCEPT !.pc = "connect", !.left = n, !.seen = 0, !.at = 0] \in CallRecord
  BY <1>1 DEF CallRecord, Pcs
<1>3. ASSUME NEW g \in CallRecord, NEW r \in 0..MaxRuns, NEW t \in 0..MaxTime
      PROVE  [g EXCEPT !.pc = "find", !.run = r, !.at = t] \in CallRecord
  BY DEF CallRecord, Pcs
<1>4. ASSUME NEW key \in Keys \cup {None}, NEW trig \in BOOLEAN
      PROVE  [Idle EXCEPT !.pc = "connect", !.left = 1, !.key = key, !.trig = trig] \in CallRecord
  BY <1>1 DEF Idle, CallRecord, Pcs
<1> QED BY <1>2, <1>3, <1>4

\* A call that takes a step without the row: the rows stay what they are.
LEMMA FreeStep ==
  ASSUME Inv, NEW p \in Procs, NEW f \in CallRecord, call' = [call EXCEPT ![p] = f],
         ~Holds(p), f.pc \notin Holding,
         f.pc = "claim" => f.seen <= f.at /\ f.at <= now,
         UNCHANGED <<now, runRows, issues, rowLock>>
  PROVE  /\ CallsTyped' /\ RowHolder' /\ Numbered' /\ OneIndexed' /\ OneRunPerKey'
         /\ TicksAreDue'
<1> USE DEF Inv
<1>1. CallsTyped'
  BY DEF CallsTyped
<1>2. \A q \in Procs : call'[q] = IF q = p THEN f ELSE call[q]
  BY DEF CallsTyped
<1>3. RowHolder'
  <2>1. ASSUME NEW q \in Procs PROVE (Holds(q) <=> rowLock = q)'
    BY <1>2 DEF RowHolder, Holds
  <2>2. ASSUME NEW q \in Procs, Holds(q)' PROVE Unsettled(q)'
    <3>1. q # p /\ call'[q] = call[q] /\ Holds(q)
      BY <1>2, <2>2 DEF Holds
    <3>2. Unsettled(q)
      BY <3>1 DEF RowHolder
    <3> QED BY <3>1, <3>2 DEF Unsettled, Known, runRows, issues
  <2> QED BY <2>1, <2>2 DEF RowHolder
<1>4. Numbered' /\ OneIndexed' /\ OneRunPerKey'
  BY DEF Numbered, OneIndexed, OneRunPerKey, Indexed, Open, runRows, issues
<1>5. TicksAreDue'
  BY <1>2 DEF TicksAreDue, At
<1> QED BY <1>1, <1>3, <1>4, <1>5

LEMMA TickReadStep == ASSUME Inv, NEW p \in Procs, TickRead(p) PROVE Inv'
<1> DEFINE f == [Idle EXCEPT !.pc = "claim", !.seen = nextRun, !.at = now, !.trig = TRUE]
<1>1. f \in CallRecord /\ f.pc = "claim" /\ f.seen = nextRun /\ f.at = now
  BY RecordsTyped DEF Inv, RowsTyped, CallRecord, Pcs, Idle
<1>2. call' = [call EXCEPT ![p] = f] /\ call[p].pc = "idle" /\ nextRun <= now
  BY DEF TickRead, Go, At
<1>3. UNCHANGED <<now, schedule, runRows, issues, locks>>
  BY DEF TickRead
<1> HIDE DEF f
<1>4. /\ CallsTyped' /\ RowHolder' /\ Numbered' /\ OneIndexed' /\ OneRunPerKey'
      /\ TicksAreDue'
  <2>1. now \in Nat
    BY BoundsAssumption DEF Inv, RowsTyped
  <2>2. ~Holds(p) /\ f.pc \notin Holding
    BY <1>1, <1>2 DEF Holds, Holding
  <2>3. f.seen <= f.at /\ f.at <= now
    BY <1>1, <1>2, <2>1
  <2>4. UNCHANGED <<now, runRows, issues, rowLock>>
    BY <1>3 DEF locks
  <2> QED BY <1>1, <1>2, <2>2, <2>3, <2>4, FreeStep
<1>5. Pooled'
  BY <1>1, <1>2, <1>3, PoolMoves DEF Inv, Outside, locks
<1>6. RowsTyped'
  BY <1>3 DEF Inv, RowsTyped, schedule, runRows, issues, locks
<1> QED BY <1>4, <1>5, <1>6 DEF Inv

\* The claim's effect on the schedule, on which TickConsumesInstant rests.
LEMMA ClaimLater ==
  ASSUME Inv, NEW p \in Procs, Claims(p)
  PROVE  /\ call[p].at \in 0..MaxTime /\ nextRun = call[p].seen
         /\ nextRun <= now /\ ClaimedNext(call[p].seen, call[p].at) \in 0..Never
         /\ ClaimedNext(call[p].seen, call[p].at) > nextRun
         /\ Missed(call[p].seen, call[p].at) \in 1..Cap
<1>1. /\ call[p].seen \in 0..Never /\ call[p].at \in 0..MaxTime /\ now \in 0..MaxTime
      /\ nextRun = call[p].seen
      /\ call[p].seen <= call[p].at /\ call[p].at <= now
  BY DEF Inv, Claims, CallsTyped, CallRecord, TicksAreDue, RowsTyped
<1>2. call[p].seen <= now
  BY <1>1, BoundsAssumption DEF Never
<1> QED BY <1>1, <1>2, ClaimedNextLater, MissedTyped

LEMMA ClaimStep == ASSUME Inv, NEW p \in Procs, Claim(p) PROVE Inv'
<1>1. CASE Claims(p)
  <2> DEFINE f == [call[p] EXCEPT !.pc = "connect",
                                  !.left = Missed(call[p].seen, call[p].at), !.seen = 0, !.at = 0]
  <2>1. f \in CallRecord /\ f.pc = "connect" /\ call[p].pc = "claim"
    <3>1. Missed(call[p].seen, call[p].at) \in 0..Cap
      BY <1>1, ClaimLater, BoundsAssumption
    <3>2. call[p] \in CallRecord /\ call[p].pc = "claim"
      BY <1>1 DEF Inv, CallsTyped, Claims, At
    <3>3. f.pc = "connect"
      BY <3>2 DEF CallRecord
    <3>4. f \in CallRecord
      BY <3>1, <3>2, UpdatesTyped
    <3> QED BY <3>2, <3>3, <3>4
  <2>2. call' = [call EXCEPT ![p] = f]
    BY <1>1 DEF Claim, Go
  <2>3. UNCHANGED <<now, armed, runRows, issues, locks>> /\ nextRun' \in 0..Never
    BY <1>1, ClaimLater DEF Claim
  <2> HIDE DEF f
  <2>4. /\ CallsTyped' /\ RowHolder' /\ Numbered' /\ OneIndexed' /\ OneRunPerKey'
        /\ TicksAreDue'
    BY <2>1, <2>2, <2>3, FreeStep DEF Holds, Holding, locks
  <2>5. Pooled'
    BY <2>1, <2>2, <2>3, PoolMoves DEF Inv, Outside, locks
  <2>6. RowsTyped'
    BY <2>3 DEF Inv, RowsTyped, runRows, issues, locks
  <2> QED BY <2>4, <2>5, <2>6 DEF Inv
<1>2. CASE ~Claims(p)
  <2>1. call' = [call EXCEPT ![p] = Idle] /\ call[p].pc = "claim"
    BY <1>2 DEF Claim, Go, At
  <2>2. UNCHANGED <<now, schedule, runRows, issues, locks>>
    BY <1>2 DEF Claim, schedule
  <2>3. Idle \in CallRecord /\ Idle.pc = "idle"
    BY RecordsTyped DEF Idle
  <2>4. /\ CallsTyped' /\ RowHolder' /\ Numbered' /\ OneIndexed' /\ OneRunPerKey'
        /\ TicksAreDue'
    BY <2>1, <2>2, <2>3, FreeStep DEF Holds, Holding, locks
  <2>5. Pooled'
    BY <2>1, <2>2, <2>3, PoolMoves DEF Inv, Outside, locks
  <2>6. RowsTyped'
    BY <2>2 DEF Inv, RowsTyped, schedule, runRows, issues, locks
  <2> QED BY <2>4, <2>5, <2>6 DEF Inv
<1> QED BY <1>1, <1>2

LEMMA RequestStep ==
  ASSUME Inv, NEW p \in Procs, NEW key \in Keys \cup {None}, NEW trig \in BOOLEAN,
         Request(p, key, trig)
  PROVE  Inv'
<1> DEFINE f == [Idle EXCEPT !.pc = "connect", !.left = 1, !.key = key, !.trig = trig]
<1>1. f \in CallRecord /\ f.pc = "connect" /\ call[p].pc = "idle"
  <2>1. f \in CallRecord
    BY UpdatesTyped
  <2>2. f.pc = "connect"
    BY DEF Idle
  <2> QED BY <2>1, <2>2 DEF Request, At
<1>2. call' = [call EXCEPT ![p] = f]
  BY DEF Request, Go
<1>3. UNCHANGED <<now, schedule, runRows, issues, locks>>
  BY DEF Request
<1> HIDE DEF f
<1>4. /\ CallsTyped' /\ RowHolder' /\ Numbered' /\ OneIndexed' /\ OneRunPerKey'
      /\ TicksAreDue'
  BY <1>1, <1>2, <1>3, FreeStep DEF Holds, Holding, locks
<1>5. Pooled'
  BY <1>1, <1>2, <1>3, PoolMoves DEF Inv, Outside, locks
<1>6. RowsTyped'
  BY <1>3 DEF Inv, RowsTyped, schedule, runRows, issues, locks
<1> QED BY <1>4, <1>5, <1>6 DEF Inv

LEMMA ConnectStep == ASSUME Inv, NEW p \in Procs, Connect(p) PROVE Inv'
<1> DEFINE f == [call[p] EXCEPT !.pc = "lock"]
<1>1. f \in CallRecord /\ f.pc = "lock" /\ call[p].pc = "connect"
  BY DEF Inv, CallsTyped, CallRecord, Pcs, Connect, At
<1>2. call' = [call EXCEPT ![p] = f]
  BY DEF Connect, To, Go
<1>3. UNCHANGED <<now, schedule, runRows, issues, rowLock>> /\ free' = free - 1
  BY DEF Connect
<1> HIDE DEF f
<1>4. /\ CallsTyped' /\ RowHolder' /\ Numbered' /\ OneIndexed' /\ OneRunPerKey'
      /\ TicksAreDue'
  BY <1>1, <1>2, <1>3, FreeStep DEF Holds, Holding
<1>5. Pooled'
  BY <1>1, <1>2, <1>3, PoolMoves DEF Inv, Outside
<1>6. RowsTyped'
  BY <1>3 DEF Inv, RowsTyped, schedule, runRows, issues
<1> QED BY <1>4, <1>5, <1>6 DEF Inv

-----------------------------------------------------------------------------
(* Steps of the dispatch that has the row                                     *)

LEMMA OnlyHolder ==
  ASSUME Inv, NEW p \in Procs, Holds(p)
  PROVE  /\ rowLock = p /\ Unsettled(p) /\ call[p].pc \notin Outside
         /\ call[p] \in CallRecord /\ call[p].run \in Runs
         /\ \A q \in Procs \ {p} : ~Holds(q)
<1>1. rowLock = p /\ Unsettled(p) /\ \A q \in Procs \ {p} : ~Holds(q)
  BY DEF Inv, RowHolder
<1>2. call[p].run \in Runs
  BY <1>1, BoundsAssumption DEF Unsettled, Runs, Inv, RowsTyped
<1> QED BY <1>1, <1>2 DEF Inv, CallsTyped, Holds, Holding, Outside

LEMMA LockStep == ASSUME Inv, NEW p \in Procs, Lock(p) PROVE Inv'
<1> USE DEF Inv
<1>1. /\ call[p].pc = "lock" /\ rowLock = None /\ call[p] \in CallRecord
      /\ UNCHANGED <<now, schedule, run, keyOf, issues>>
  BY DEF Lock, At, RowFree, CallsTyped
<1>2. CASE Known(call[p].key) /\ Commit(p) /\ UNCHANGED nRuns
  <2>1. /\ call' = [call EXCEPT ![p] = After(call[p])] /\ free' = free + 1
        /\ UNCHANGED <<now, schedule, runRows, issues, rowLock>>
    BY <1>1, <1>2 DEF Commit, Go, runRows
  <2>2. After(call[p]) \in CallRecord /\ After(call[p]).pc \in {"idle", "connect"}
    BY <1>1, RecordsTyped
  <2>3. /\ CallsTyped' /\ RowHolder' /\ Numbered' /\ OneIndexed' /\ OneRunPerKey'
        /\ TicksAreDue'
    BY <1>1, <2>1, <2>2, FreeStep DEF Holds, Holding
  <2>4. Pooled'
    BY <1>1, <2>1, <2>2, PoolMoves DEF Outside
  <2>5. RowsTyped'
    BY <2>1 DEF RowsTyped, schedule, runRows, issues
  <2> QED BY <2>3, <2>4, <2>5
<1>3. CASE Go(p, Idle) /\ free' = free + 1 /\ UNCHANGED <<nRuns, rowLock>>
  <2>1. /\ call' = [call EXCEPT ![p] = Idle] /\ free' = free + 1
        /\ UNCHANGED <<now, schedule, runRows, issues, rowLock>>
    BY <1>1, <1>3 DEF Go, runRows
  <2>2. Idle \in CallRecord /\ Idle.pc = "idle"
    BY RecordsTyped DEF Idle
  <2>3. /\ CallsTyped' /\ RowHolder' /\ Numbered' /\ OneIndexed' /\ OneRunPerKey'
        /\ TicksAreDue'
    BY <1>1, <2>1, <2>2, FreeStep DEF Holds, Holding
  <2>4. Pooled'
    BY <1>1, <2>1, <2>2, PoolMoves DEF Outside
  <2>5. RowsTyped'
    BY <2>1 DEF RowsTyped, schedule, runRows, issues
  <2> QED BY <2>3, <2>4, <2>5
<1>4. ASSUME ~Known(call[p].key), nRuns < MaxRuns, nRuns' = nRuns + 1, rowLock' = p,
             Go(p, [call[p] EXCEPT !.pc = "find", !.run = nRuns + 1,
                             !.at = IF call[p].trig THEN now ELSE 0]),
             UNCHANGED free
      PROVE  Inv'
  <2> DEFINE f == [call[p] EXCEPT !.pc = "find", !.run = nRuns + 1,
                                  !.at = IF call[p].trig THEN now ELSE 0]
  <2>1. nRuns + 1 \in Runs /\ nRuns \in Nat
    BY <1>4, BoundsAssumption DEF RowsTyped, Runs
  <2>2. /\ f \in CallRecord /\ f.pc = "find" /\ f.run = nRuns + 1 /\ f.key = call[p].key
    <3>1. nRuns + 1 \in 0..MaxRuns /\ (IF call[p].trig THEN now ELSE 0) \in 0..MaxTime
      BY <2>1, BoundsAssumption DEF RowsTyped, Runs
    <3>2. f \in CallRecord
      BY <1>1, <3>1, UpdatesTyped
    <3>3. f.pc = "find" /\ f.run = nRuns + 1 /\ f.key = call[p].key
      BY <1>1 DEF CallRecord
    <3> QED BY <3>2, <3>3
  <2>3. call' = [call EXCEPT ![p] = f]
    BY <1>4 DEF Go
  <2> HIDE DEF f
  <2>4. \A q \in Procs : call'[q] = IF q = p THEN f ELSE call[q]
    BY <2>3 DEF CallsTyped
  <2>5. CallsTyped'
    BY <2>2, <2>3 DEF CallsTyped
  <2>6. Pooled'
    BY <1>1, <1>4, <2>2, <2>3, PoolMoves DEF Outside
  <2>7. RowsTyped'
    BY <1>1, <1>4, <2>1, BoundsAssumption DEF RowsTyped, schedule, issues, Runs
  <2>8. RowHolder'
    <3>1. \A q \in Procs : ~Holds(q)
      BY <1>1, NamesAssumption DEF RowHolder
    <3>2. ASSUME NEW q \in Procs PROVE Holds(q)' <=> q = p
      BY <2>2, <2>4, <3>1 DEF Holds, Holding
    <3>3. Unsettled(p)'
      <4>1. run[nRuns + 1] = "absent" /\ issue[nRuns + 1] = "absent"
        BY <2>1 DEF Numbered
      <4>2. call'[p] = f
        BY <2>4
      <4>3. ~Known(call[p].key)'
        BY <1>1, <1>4 , <2>2, <2>4 DEF Known
      <4> QED BY <1>1, <1>4, <2>1, <2>2, <4>1, <4>2, <4>3 DEF Unsettled, issues
    <3> QED BY <1>4, <3>2, <3>3 DEF RowHolder
  <2>9. Numbered' /\ OneIndexed' /\ OneRunPerKey'
    BY <1>1, <1>4, <2>1 DEF Numbered, OneIndexed, OneRunPerKey, Indexed, Open, issues, Runs
  <2>10. TicksAreDue'
    BY <1>1, <2>2, <2>4 DEF TicksAreDue, At
  <2> QED BY <2>5, <2>6, <2>7, <2>8, <2>9, <2>10
<1> QED BY <1>2, <1>3, <1>4 DEF Lock

\* The dispatch goes on, holding the row; its issue may be created or executed.
LEMMA HolderStep ==
  ASSUME Inv, NEW p \in Procs, Holds(p), NEW pc \in Holding, To(p, pc),
         UNCHANGED <<now, schedule, runRows, locks>>,
         issue' \in [Runs -> {"absent", "todo", "done", "deleted"}],
         exec' \in [Runs -> {"none", "live", "ended"}],
         \A r \in Runs \ {call[p].run} : issue'[r] = issue[r] /\ exec'[r] = exec[r],
         issue'[call[p].run] = "absent" => exec'[call[p].run] = "none",
         pc \in {"find", "create"} => issue'[call[p].run] = "absent",
         pc = "wake" => issue'[call[p].run] # "absent",
         OneIndexed'
  PROVE  Inv'
<1> USE DEF Inv
<1> DEFINE f == [call[p] EXCEPT !.pc = pc]
<1>1. /\ rowLock = p /\ Unsettled(p) /\ call[p].pc \notin Outside
      /\ call[p] \in CallRecord /\ call[p].run \in Runs
      /\ \A q \in Procs \ {p} : ~Holds(q)
  BY OnlyHolder
<1>2. /\ f \in CallRecord /\ f.pc = pc /\ f.run = call[p].run /\ f.key = call[p].key
  BY <1>1 DEF CallRecord, Holding, Pcs
<1>3. call' = [call EXCEPT ![p] = f]
  BY DEF To, Go
<1> HIDE DEF f
<1>4. \A q \in Procs : call'[q] = IF q = p THEN f ELSE call[q]
  BY <1>3 DEF CallsTyped
<1>5. CallsTyped'
  BY <1>2, <1>3 DEF CallsTyped
<1>6. Pooled'
  BY <1>1, <1>2, <1>3, PoolMoves DEF Outside, Holding, locks
<1>7. RowsTyped'
  BY DEF RowsTyped, schedule, runRows, locks
<1>8. RowHolder'
  <2>1. ASSUME NEW q \in Procs PROVE Holds(q)' <=> q = p
    BY <1>1, <1>2, <1>4 DEF Holds
  <2>2. Unsettled(p)'
    BY <1>1, <1>2, <1>4 DEF Unsettled, Known, runRows
  <2> QED BY <1>1, <2>1, <2>2 DEF RowHolder, locks
<1>9. Numbered'
  <2>1. ASSUME NEW r \in Runs, r > nRuns
        PROVE  issue'[r] = issue[r] /\ exec'[r] = exec[r]
    BY <1>1, <2>1, BoundsAssumption DEF Unsettled, RowsTyped, Runs
  <2> QED BY <1>1, <2>1 DEF Numbered, runRows
<1>10. OneRunPerKey'
  BY DEF OneRunPerKey, runRows
<1>11. TicksAreDue'
  BY <1>2, <1>4 DEF TicksAreDue, At, Holding
<1> QED BY <1>5, <1>6, <1>7, <1>8, <1>9, <1>10, <1>11

\* The end of a dispatch: its run is committed, with its key.
LEMMA FinalizeStep ==
  ASSUME Inv, NEW p \in Procs, Holds(p),
         NEW status \in {"skipped", "coalesced", "issue_created", "failed"},
         Finalize(p, status), UNCHANGED <<now, armed, nRuns, exec>>,
         issue' \in [Runs -> {"absent", "todo", "done", "deleted"}],
         \A r \in Runs : issue'[r] = issue[r] \/ (issue[r] # "absent" /\ issue'[r] = "deleted")
  PROVE  Inv'
<1> USE DEF Inv
<1> DEFINE i == call[p].run
           f == After(call[p])
<1>1. /\ rowLock = p /\ Unsettled(p) /\ call[p].pc \notin Outside
      /\ call[p] \in CallRecord /\ i \in Runs
      /\ \A q \in Procs \ {p} : ~Holds(q)
  BY OnlyHolder
<1>2. f \in CallRecord /\ f.pc \in {"idle", "connect"}
  BY <1>1, RecordsTyped
<1>3. /\ call' = [call EXCEPT ![p] = f] /\ rowLock' = None /\ free' = free + 1
      /\ run' = [run EXCEPT ![i] = status] /\ keyOf' = [keyOf EXCEPT ![i] = call[p].key]
      /\ nextRun' = IF call[p].trig THEN NextTick(call[p].at) ELSE nextRun
  BY DEF Finalize, Touch, Commit, Go
<1> HIDE DEF f
<1>4. \A q \in Procs : call'[q] = IF q = p THEN f ELSE call[q]
  BY <1>3 DEF CallsTyped
<1>5. CallsTyped'
  BY <1>2, <1>3 DEF CallsTyped
<1>6. Pooled'
  BY <1>1, <1>2, <1>3, PoolMoves DEF Outside
<1>7. RowsTyped'
  <2>1. nextRun' \in 0..Never
    BY <1>1, <1>3, NextTickLater DEF RowsTyped, CallRecord
  <2>2. /\ run' \in [Runs -> {"absent", "skipped", "coalesced", "issue_created", "failed"}]
        /\ keyOf' \in [Runs -> Keys \cup {None}]
    BY <1>1, <1>3 DEF RowsTyped, CallRecord
  <2> QED BY <1>3, <2>1, <2>2 DEF RowsTyped
<1>8. RowHolder'
  <2>1. ASSUME NEW q \in Procs PROVE ~Holds(q)'
    BY <1>1, <1>2, <1>4 DEF Holds, Holding
  <2> QED BY <1>3, <2>1, NamesAssumption DEF RowHolder
<1>9. Numbered'
  <2>1. i \in 1..nRuns /\ nRuns \in Nat
    BY <1>1, BoundsAssumption DEF Unsettled, RowsTyped
  <2>2. ASSUME NEW r \in Runs, r > nRuns PROVE run'[r] = run[r]
    BY <1>3, <2>1, <2>2 DEF RowsTyped, Runs
  <2> QED BY <2>2 DEF Numbered
<1>10. OneIndexed'
  BY DEF OneIndexed, Indexed, Open
<1>11. OneRunPerKey'
  <2>1. ASSUME NEW r \in Runs
        PROVE  /\ run'[r] = IF r = i THEN status ELSE run[r]
               /\ keyOf'[r] = IF r = i THEN call[p].key ELSE keyOf[r]
    BY <1>1, <1>3 DEF RowsTyped
  <2>2. ASSUME NEW r \in Runs, run[r] # "absent", keyOf[r] = call[p].key,
               call[p].key # None
        PROVE  FALSE
    BY <1>1, <2>2 DEF Unsettled, Known
  <2> QED BY <2>1, <2>2 DEF OneRunPerKey
<1>12. TicksAreDue'
  BY <1>2, <1>4 DEF TicksAreDue, At
<1> QED BY <1>5, <1>6, <1>7, <1>8, <1>9, <1>10, <1>11, <1>12

LEMMA FindStep == ASSUME Inv, NEW p \in Procs, Find(p) PROVE Inv'
<1>1. Holds(p) /\ call[p].pc = "find" /\ UNCHANGED <<now, armed, nRuns, issues>>
  BY DEF Find, At, Holds, Holding
<1>2. CASE Finalize(p, IF Policy = "skip_if_active" THEN "skipped" ELSE "coalesced")
  <2>1. /\ issue' = issue /\ exec' = exec
        /\ issue \in [Runs -> {"absent", "todo", "done", "deleted"}]
    BY <1>1 DEF issues, Inv, RowsTyped
  <2>2. /\ issue' \in [Runs -> {"absent", "todo", "done", "deleted"}]
        /\ \A r \in Runs : issue'[r] = issue[r]
        /\ UNCHANGED <<now, armed, nRuns, exec>>
    BY <1>1, <2>1
  <2>3. CASE Policy = "skip_if_active"
    BY <1>1, <1>2, <2>1, <2>2, <2>3, FinalizeStep
  <2>4. CASE Policy # "skip_if_active"
    BY <1>1, <1>2, <2>1, <2>2, <2>4, FinalizeStep
  <2> QED BY <2>3, <2>4
<1>3. CASE To(p, "create") /\ UNCHANGED <<nextRun, run, keyOf, locks>>
  <2>1. Unsettled(p) /\ call[p].run \in Runs
    BY <1>1, OnlyHolder
  <2>2. OneIndexed'
    BY <1>1 DEF Inv, OneIndexed, Indexed, Open, issues
  <2>3. exec[call[p].run] = "none" /\ issue[call[p].run] = "absent"
    BY <1>1, <2>1 DEF Inv, Numbered, Unsettled
  <2>4. "create" \in Holding
    BY DEF Holding
  <2> QED
    BY <1>1, <1>3, <2>1, <2>2, <2>3, <2>4, HolderStep
       DEF issues, Inv, RowsTyped, schedule, runRows
<1> QED BY <1>2, <1>3 DEF Find

LEMMA CreateStep == ASSUME Inv, NEW p \in Procs, Create(p) PROVE Inv'
<1> DEFINE i == call[p].run
<1>1. /\ Holds(p) /\ call[p].pc = "create"
      /\ UNCHANGED <<now, schedule, runRows, exec, locks>>
  BY DEF Create, At, Holds, Holding
<1>2. Unsettled(p) /\ i \in Runs /\ issue[i] = "absent" /\ exec[i] = "none"
  BY <1>1, OnlyHolder DEF Inv, Numbered, Unsettled
<1>3. issue \in [Runs -> {"absent", "todo", "done", "deleted"}]
      /\ exec \in [Runs -> {"none", "live", "ended"}]
  BY DEF Inv, RowsTyped
<1>4. "wake" \in Holding /\ "undo" \in Holding
  BY DEF Holding
<1>5. CASE issue' = [issue EXCEPT ![i] = "todo"] /\ To(p, "wake")
  <2>1. \A r \in Runs : issue'[r] = IF r = i THEN "todo" ELSE issue[r]
    BY <1>3, <1>5
  <2>2. OneIndexed'
    BY <1>1, <1>2, <2>1 DEF Inv, OneIndexed, Indexed, Open
  <2>3. issue' \in [Runs -> {"absent", "todo", "done", "deleted"}]
    BY <1>3, <1>5
  <2> QED BY <1>1, <1>2, <1>3, <1>4, <1>5, <2>1, <2>2, <2>3, HolderStep
<1>6. CASE To(p, "undo") /\ UNCHANGED issue
  <2>1. OneIndexed'
    BY <1>1, <1>6 DEF Inv, OneIndexed, Indexed, Open
  <2> QED BY <1>1, <1>2, <1>3, <1>4, <1>6, <2>1, HolderStep
<1> QED BY <1>5, <1>6 DEF Create

LEMMA WakeStep == ASSUME Inv, NEW p \in Procs, Wake(p) PROVE Inv'
<1> DEFINE i == call[p].run
<1>1. /\ Holds(p) /\ call[p].pc = "wake"
      /\ UNCHANGED <<now, schedule, runRows, issue, locks>>
  BY DEF Wake, At, Holds, Holding
<1>2. Unsettled(p) /\ i \in Runs /\ issue[i] # "absent"
  BY <1>1, OnlyHolder DEF Unsettled
<1>3. issue \in [Runs -> {"absent", "todo", "done", "deleted"}]
      /\ exec \in [Runs -> {"none", "live", "ended"}]
  BY DEF Inv, RowsTyped
<1>4. PICK pc \in {"finish", "undo"} : To(p, pc)
  BY DEF Wake
<1>5. pc \in Holding /\ pc \notin {"find", "create", "wake"}
  BY DEF Holding
<1>6. CASE (Open(i) => IndexFree(i)) /\ exec' = [exec EXCEPT ![i] = "live"]
  <2>1. \A r \in Runs : exec'[r] = IF r = i THEN "live" ELSE exec[r]
    BY <1>3, <1>6
  <2>2. OneIndexed'
    BY <1>1, <1>2, <1>6, <2>1 DEF Inv, OneIndexed, Indexed, Open, IndexFree
  <2>3. exec' \in [Runs -> {"none", "live", "ended"}]
    BY <1>3, <1>6
  <2> QED BY <1>1, <1>2, <1>3, <1>4, <1>5, <2>1, <2>2, <2>3, HolderStep
<1>7. CASE UNCHANGED exec
  <2>1. OneIndexed'
    BY <1>1, <1>7 DEF Inv, OneIndexed, Indexed, Open
  <2> QED BY <1>1, <1>2, <1>3, <1>4, <1>5, <1>7, <2>1, HolderStep
<1> QED BY <1>6, <1>7 DEF Wake

LEMMA EndStep == ASSUME Inv, NEW p \in Procs, Finish(p) \/ Undo(p) PROVE Inv'
<1>1. CASE Finish(p)
  <2>1. /\ Holds(p) /\ Finalize(p, "issue_created")
        /\ UNCHANGED <<now, armed, nRuns, issue, exec>>
    BY <1>1 DEF Finish, At, Holds, Holding, issues
  <2>2. /\ issue' \in [Runs -> {"absent", "todo", "done", "deleted"}]
        /\ \A r \in Runs : issue'[r] = issue[r]
        /\ UNCHANGED <<now, armed, nRuns, exec>>
    BY <2>1 DEF Inv, RowsTyped
  <2> QED BY <2>1, <2>2, FinalizeStep
<1>2. CASE Undo(p)
  <2>1. /\ Holds(p) /\ Finalize(p, "failed") /\ UNCHANGED <<now, armed, nRuns, exec>>
        /\ issue' = [issue EXCEPT ![call[p].run] = IF issue[call[p].run] = "absent"
                                                   THEN issue[call[p].run] ELSE "deleted"]
    BY <1>2 DEF Undo, At, Holds, Holding
  <2>2. call[p].run \in Runs
    BY <2>1, OnlyHolder
  <2>3. /\ issue' \in [Runs -> {"absent", "todo", "done", "deleted"}]
        /\ \A r \in Runs :
             issue'[r] = issue[r] \/ (issue[r] # "absent" /\ issue'[r] = "deleted")
    <3>1. issue \in [Runs -> {"absent", "todo", "done", "deleted"}]
      BY DEF Inv, RowsTyped
    <3>2. PICK v : /\ issue' = [issue EXCEPT ![call[p].run] = v]
                   /\ \/ v = issue[call[p].run]
                      \/ issue[call[p].run] # "absent" /\ v = "deleted"
      BY <2>1
    <3>3. v \in {"absent", "todo", "done", "deleted"}
      BY <2>2, <3>1, <3>2
    <3>4. issue' \in [Runs -> {"absent", "todo", "done", "deleted"}]
      BY <3>1, <3>2, <3>3
    <3>5. \A r \in Runs : issue'[r] = IF r = call[p].run THEN v ELSE issue[r]
      BY <3>1, <3>2
    <3> QED BY <3>2, <3>4, <3>5
  <2> QED BY <2>1, <2>3, FinalizeStep
<1> QED BY <1>1, <1>2

-----------------------------------------------------------------------------
(* Steps of issues, time and the server                                       *)

LEMMA IssueStep ==
  ASSUME Inv, UNCHANGED <<now, schedule, runRows, locks, call>>,
         issue' \in [Runs -> {"absent", "todo", "done", "deleted"}],
         exec' \in [Runs -> {"none", "live", "ended"}],
         \A r \in Runs : /\ issue'[r] = "absent" <=> issue[r] = "absent"
                         /\ issue'[r] = "absent" => exec'[r] = "none",
         OneIndexed'
  PROVE  Inv'
<1> USE DEF Inv
<1>1. RowsTyped' /\ CallsTyped' /\ Pooled' /\ TicksAreDue' /\ OneRunPerKey'
  BY DEF RowsTyped, CallsTyped, Pooled, InTransaction, TicksAreDue, At, OneRunPerKey,
         schedule, runRows, locks
<1>2. Numbered'
  BY DEF Numbered, runRows
<1>3. RowHolder'
  <2>1. ASSUME NEW q \in Procs, Holds(q) PROVE Unsettled(q)'
    BY <2>1, OnlyHolder DEF Unsettled, Known, runRows
  <2> QED BY <2>1 DEF RowHolder, Holds, locks
<1> QED BY <1>1, <1>2, <1>3

LEMMA IssueSteps ==
  ASSUME Inv, NEW i \in Runs,
         \/ RunEnds(i) \/ Release(i) \/ Revive(i)
         \/ \E status \in {"todo", "done"} : IssueMoves(i, status)
  PROVE  Inv'
<1>1. /\ issue \in [Runs -> {"absent", "todo", "done", "deleted"}]
      /\ exec \in [Runs -> {"none", "live", "ended"}]
      /\ \A r \in Runs : issue[r] = "absent" => exec[r] = "none"
      /\ OneIndexed
  BY DEF Inv, RowsTyped, Numbered
<1>2. CASE RunEnds(i)
  <2>1. /\ exec[i] = "live" /\ exec' = [exec EXCEPT ![i] = "ended"]
        /\ UNCHANGED <<now, schedule, runRows, issue, locks, call>>
    BY <1>2 DEF RunEnds
  <2>2. \A r \in Runs : exec'[r] = IF r = i THEN "ended" ELSE exec[r]
    BY <1>1, <2>1
  <2>3. OneIndexed'
    BY <1>1, <2>1, <2>2 DEF OneIndexed, Indexed, Open
  <2> QED BY <1>1, <2>1, <2>2, <2>3, IssueStep
<1>3. CASE Release(i)
  <2>1. PICK next \in {"none", "live"} : exec' = [exec EXCEPT ![i] = next]
    BY <1>3 DEF Release
  <2>2. exec[i] = "ended" /\ UNCHANGED <<now, schedule, runRows, issue, locks, call>>
    BY <1>3 DEF Release
  <2>3. \A r \in Runs : exec'[r] = IF r = i THEN next ELSE exec[r]
    BY <1>1, <2>1
  <2>4. OneIndexed'
    BY <1>1, <2>2, <2>3 DEF OneIndexed, Indexed, Open
  <2>5. exec' \in [Runs -> {"none", "live", "ended"}]
    BY <1>1, <2>1
  <2> QED BY <1>1, <2>2, <2>3, <2>4, <2>5, IssueStep
<1>4. CASE Revive(i)
  <2>1. /\ issue[i] = "todo" /\ IndexFree(i) /\ exec' = [exec EXCEPT ![i] = "live"]
        /\ UNCHANGED <<now, schedule, runRows, issue, locks, call>>
    BY <1>4 DEF Revive, Open
  <2>2. \A r \in Runs : exec'[r] = IF r = i THEN "live" ELSE exec[r]
    BY <1>1, <2>1
  <2>3. OneIndexed'
    BY <1>1, <2>1, <2>2 DEF OneIndexed, Indexed, Open, IndexFree
  <2> QED BY <1>1, <2>1, <2>2, <2>3, IssueStep
<1>5. ASSUME NEW status \in {"todo", "done"}, IssueMoves(i, status) PROVE Inv'
  <2>1. /\ issue[i] \in {"todo", "done"} /\ issue' = [issue EXCEPT ![i] = status]
        /\ status = "todo" /\ exec[i] # "none" => IndexFree(i)
        /\ UNCHANGED <<now, schedule, runRows, exec, locks, call>>
    BY <1>5 DEF IssueMoves
  <2>2. \A r \in Runs : issue'[r] = IF r = i THEN status ELSE issue[r]
    BY <1>1, <2>1
  <2>3. OneIndexed'
    BY <1>1, <2>1, <2>2 DEF OneIndexed, Indexed, Open, IndexFree
  <2>4. issue' \in [Runs -> {"absent", "todo", "done", "deleted"}]
    BY <1>1, <2>1
  <2> QED BY <1>1, <2>1, <2>2, <2>3, <2>4, IssueStep
<1> QED BY <1>2, <1>3, <1>4, <1>5

LEMMA TimeStep ==
  ASSUME Inv, Minute \/ \E enabled \in BOOLEAN : UpdateTrigger(enabled)
  PROVE  Inv'
<1> USE DEF Inv
<1>1. /\ UNCHANGED <<runRows, issues, locks, call>>
      /\ now' \in 0..MaxTime /\ now <= now' /\ now \in 0..MaxTime
  BY BoundsAssumption DEF Minute, UpdateTrigger, RowsTyped
<1>2. nextRun' \in 0..Never /\ armed' \in BOOLEAN
  BY NextTickLater DEF Minute, UpdateTrigger, RowsTyped, schedule
<1>3. RowsTyped'
  BY <1>1, <1>2 DEF RowsTyped, runRows, issues, locks
<1>4. CallsTyped' /\ Pooled' /\ RowHolder' /\ Numbered' /\ OneIndexed' /\ OneRunPerKey'
  BY <1>1 DEF CallsTyped, Pooled, InTransaction, RowHolder, Holds, Unsettled, Known, Numbered,
              OneIndexed, Indexed, Open, OneRunPerKey, runRows, issues, locks
<1>5. TicksAreDue'
  <2>1. ASSUME NEW p \in Procs, At(p, "claim")
        PROVE  call[p].seen <= call[p].at /\ call[p].at <= now'
    <3>1. call[p].at \in 0..MaxTime /\ call[p].seen <= call[p].at /\ call[p].at <= now
      BY <2>1 DEF TicksAreDue, CallsTyped, CallRecord
    <3> QED BY <1>1, <3>1, BoundsAssumption
  <2> QED BY <1>1, <2>1 DEF TicksAreDue, At
<1> QED BY <1>3, <1>4, <1>5

LEMMA CrashStep == ASSUME Inv, Crash PROVE Inv'
<1> USE DEF Inv
<1>1. /\ call' = [p \in Procs |-> Idle] /\ rowLock' = None /\ free' = Connections
      /\ UNCHANGED <<now, schedule, runRows, issue, exec>>
  BY DEF Crash
<1>2. \A p \in Procs : call'[p] = Idle /\ Idle.pc = "idle"
  BY <1>1 DEF Idle
<1>3. CallsTyped'
  BY <1>1, RecordsTyped DEF CallsTyped
<1>4. Pooled'
  <2>1. InTransaction' = {}
    BY <1>2 DEF InTransaction, Outside
  <2> QED BY <1>1, <2>1, FS_EmptySet, PoolAssumption DEF Pooled
<1>5. RowHolder' /\ TicksAreDue'
  BY <1>1, <1>2, NamesAssumption DEF RowHolder, Holds, Holding, TicksAreDue, At
<1>6. RowsTyped' /\ Numbered' /\ OneIndexed' /\ OneRunPerKey'
  BY <1>1 DEF RowsTyped, Numbered, OneIndexed, Indexed, Open, OneRunPerKey, runRows, schedule
<1> QED BY <1>3, <1>4, <1>5, <1>6

LEMMA InvInit == Init => Inv
<1> SUFFICES ASSUME Init PROVE Inv
  OBVIOUS
<1>1. \A p \in Procs : call[p] = Idle /\ Idle.pc = "idle"
  BY DEF Init, Idle
<1>2. CallsTyped
  BY RecordsTyped DEF Init, CallsTyped
<1>3. Pooled
  <2>1. InTransaction = {}
    BY <1>1 DEF InTransaction, Outside
  <2> QED BY <2>1, FS_EmptySet, PoolAssumption DEF Pooled, Init
<1>4. RowHolder /\ TicksAreDue
  BY <1>1, NamesAssumption DEF Init, RowHolder, Holds, Holding, TicksAreDue, At
<1>5. RowsTyped
  BY NextTickLater, BoundsAssumption DEF Init, RowsTyped
<1>6. Numbered /\ OneIndexed /\ OneRunPerKey
  BY DEF Init, Numbered, OneIndexed, Indexed, Open, OneRunPerKey
<1> QED BY <1>2, <1>3, <1>4, <1>5, <1>6 DEF Inv

LEMMA InvNext == Inv /\ [Next]_vars => Inv'
<1> SUFFICES ASSUME Inv, [Next]_vars PROVE Inv'
  OBVIOUS
<1>1. ASSUME NEW p \in Procs, TickRead(p) \/ Dispatch(p) PROVE Inv'
  BY <1>1, TickReadStep, ClaimStep, ConnectStep, LockStep, FindStep, CreateStep, WakeStep,
     EndStep DEF Dispatch
<1>2. ASSUME NEW p \in Procs, NEW key \in Keys \cup {None}, NEW trig \in BOOLEAN,
             Request(p, key, trig)
      PROVE  Inv'
  BY <1>2, RequestStep
<1>3. CASE UNCHANGED vars
  BY <1>3 DEF vars, Inv, RowsTyped, CallsTyped, Pooled, InTransaction, RowHolder, Holds,
              Unsettled, Known, Numbered, OneIndexed, Indexed, Open, OneRunPerKey, TicksAreDue,
              At, schedule, runRows, issues, locks
<1> QED BY <1>1, <1>2, <1>3, IssueSteps, TimeStep, CrashStep DEF Next

LEMMA Invariance == Spec => []Inv
BY InvInit, InvNext, PTL DEF Spec

-----------------------------------------------------------------------------
(* Theorems *)

\* Every reachable state is well typed, and every connection is free or in the hands of one
\* dispatch.
THEOREM TypeCorrect == Spec => []TypeOK
<1>1. Inv => TypeOK
  BY DEF Inv, RowsTyped, CallsTyped, CallRecord, Pooled, InTransaction, Outside, TypeOK
<1> QED BY <1>1, Invariance, PTL

\* Of the routine's open issues one at most is being executed.
THEOREM OneExecution == Spec => []OneLiveExecution
<1>1. Inv => OneLiveExecution
  BY DEF Inv, OneIndexed, Indexed, OneLiveExecution, Live
<1> QED BY <1>1, Invariance, PTL

\* An idempotency key is used by one run.
THEOREM OneKey == Spec => []OneRunPerKey
<1>1. Inv => OneRunPerKey
  BY DEF Inv
<1> QED BY <1>1, Invariance, PTL

\* With a pool larger than the number of dispatches, dispatches never wait for each other.
THEOREM NoDispatchDeadlock == Spec => []DispatchesGoOn
<1>1. Inv => DispatchesGoOn
  <2> SUFFICES ASSUME Inv, NEW p \in Procs, call[p].pc \notin {"idle", "claim"}
               PROVE  \E q \in Procs : CanGo(q)
    BY DEF DispatchesGoOn
  <2>1. free > 0
    BY PoolTyped DEF Inv
  <2>2. CASE \E q \in Procs : Holds(q)
    <3>1. PICK q \in Procs : Holds(q)
      BY <2>2
    <3>2. CanGo(q)
      BY <2>1, <3>1 DEF Holds, Holding, CanGo
    <3> QED BY <3>2
  <2>3. CASE \A q \in Procs : ~Holds(q)
    <3>1. rowLock = None
      BY <2>3 DEF Inv, RowHolder, RowsTyped
    <3>2. call[p].pc \in {"connect", "lock"}
      BY <2>3 DEF Inv, CallsTyped, CallRecord, Pcs, Holds, Holding
    <3>3. CanGo(p)
      BY <2>1, <3>1, <3>2 DEF CanGo, At, RowFree
    <3> QED BY <3>3
  <2> QED BY <2>2, <2>3
<1> QED BY <1>1, Invariance, PTL

\* Whoever dispatches for an instant takes the schedule past it.
THEOREM InstantConsumed == Spec => TickConsumesInstant
<1>1. Inv /\ [Next]_vars =>
        [\A p \in Procs : At(p, "claim") /\ call'[p].pc = "connect"
                            => nextRun <= now /\ nextRun' > nextRun]_vars
  <2> SUFFICES ASSUME Inv, Next, NEW p \in Procs, At(p, "claim"), call'[p].pc = "connect"
               PROVE  nextRun <= now /\ nextRun' > nextRun
    OBVIOUS
  <2>1. call \in [Procs -> CallRecord] /\ call[p].pc = "claim" /\ call'[p] # call[p]
    BY DEF Inv, CallsTyped, At
  <2>2. CASE Claim(p)
    <3>1. Claims(p)
      BY <2>1, <2>2 DEF Claim, Go, Idle
    <3>2. nextRun' = ClaimedNext(call[p].seen, call[p].at)
      BY <2>2, <3>1 DEF Claim
    <3> QED BY <3>1, <3>2, ClaimLater
  <2>3. ASSUME NEW q \in Procs, q # p,
               \/ TickRead(q) \/ Dispatch(q)
               \/ \E key \in Keys \cup {None}, trig \in BOOLEAN : Request(q, key, trig)
        PROVE  FALSE
    <3>1. PICK f : call' = [call EXCEPT ![q] = f]
      BY <2>3 DEF TickRead, Dispatch, Request, Claim, Connect, Lock, Find, Create, Wake, Finish,
                  Undo, Finalize, Commit, To, Go
    <3> QED BY <2>1, <2>3, <3>1
  <2>4. CASE \/ TickRead(p) \/ Dispatch(p)
             \/ \E key \in Keys \cup {None}, trig \in BOOLEAN : Request(p, key, trig)
    BY <2>1, <2>2, <2>4 DEF TickRead, Dispatch, Request, Connect, Lock, Find, Create, Wake,
                            Finish, Undo, At
  <2>5. CASE Crash
    BY <2>1, <2>5 DEF Crash, Idle
  <2>6. CASE \/ \E i \in Runs : \/ RunEnds(i) \/ Release(i) \/ Revive(i)
                                \/ \E status \in {"todo", "done"} : IssueMoves(i, status)
             \/ Minute \/ \E enabled \in BOOLEAN : UpdateTrigger(enabled)
    BY <2>1, <2>6 DEF RunEnds, Release, Revive, IssueMoves, Minute, UpdateTrigger
  <2> QED BY <2>2, <2>3, <2>4, <2>5, <2>6 DEF Next
<1> QED BY <1>1, Invariance, PTL DEF Spec, TickConsumesInstant

=============================================================================
