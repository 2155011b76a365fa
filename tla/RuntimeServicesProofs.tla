----------------------- MODULE RuntimeServicesProofs -----------------------
(***************************************************************************)
(* RuntimeServices for every set of runs, configuration, stop policy and   *)
(* number of faults.                                                       *)
(***************************************************************************)
EXTENDS RuntimeServices, TLAPS

\* The service was started for its run and that start is over: a start that succeeds
\* registers a service that nobody has leased, timed or listed yet.
Past(s) ==
  \/ s[2] < position[s[1]]
  \/ s[2] = position[s[1]] /\ pc[s[1]] \notin {"next", "starting"}

OnlyPast ==
  /\ \A s \in byId \cup idleTimer : Past(s)
  /\ \A r \in Runs : \A s \in Held(r) : Past(s)

\* What the handler of a run has at hand while it waits.
AtHand ==
  \A r \in Runs :
    /\ At(r, "starting") => position[r] \in DOMAIN Wants[r] /\ current[r] = InHand(r)
    /\ At(r, "persisting") =>
         /\ current[r] \in Services /\ Past(current[r])
         /\ current[r] \in byId => r \in leases[current[r]]
    /\ At(r, "released") => current[r] \in Services /\ Past(current[r])

\* Leasing a service clears its timer, which is armed only when nobody leases it.
TimersUnleased == \A s \in byId \cap idleTimer : leases[s] = {}

\* A start of a key that was never raced is the only one and finds no service.
NoRival ==
  \A r \in Runs :
    At(r, "starting") /\ Wanted(r) \in Shared \ raced =>
      /\ \A q \in Starting(Wanted(r)) : q = r
      /\ \A s \in byId : Kind(s) # Wanted(r)

Inv == /\ TypeOK
       /\ OnlyPast
       /\ AtHand
       /\ TimersUnleased
       /\ NoRival
       /\ LeasesAgree
       /\ SharedIsFound
       /\ ProcessesAreHeld

-----------------------------------------------------------------------------
(* Services and lists *)

LEMMA ServiceFacts ==
  ASSUME NEW s \in Services
  PROVE  s[1] \in Runs /\ s[2] \in Nat /\ Kind(s) \in Specs
BY SpecsAssumption DEF Services, Kind

LEMMA InHandFacts ==
  ASSUME TypeOK, NEW r \in Runs, position[r] \in DOMAIN Wants[r]
  PROVE  /\ InHand(r) \in Services /\ Kind(InHand(r)) = Wanted(r)
         /\ InHand(r)[1] = r /\ InHand(r)[2] = position[r] /\ Wanted(r) \in Specs
<1>1. InHand(r) \in {r} \X DOMAIN Wants[r]
  BY DEF InHand
<1>2. InHand(r) \in Services
  BY <1>1 DEF Services
<1>3. InHand(r)[1] = r /\ InHand(r)[2] = position[r]
  BY DEF InHand
<1>4. Wanted(r) \in Specs
  BY SpecsAssumption DEF Wanted
<1> QED
  BY <1>2, <1>3, <1>4 DEF Kind, Wanted

LEMMA Appended ==
  ASSUME NEW S, NEW q \in Seq(S), NEW e \in S
  PROVE  LET a == Append(q, e) IN
           a \in Seq(S) /\ {a[i] : i \in DOMAIN a} = {q[i] : i \in DOMAIN q} \cup {e}
<1> DEFINE a == Append(q, e)
<1>1. a \in Seq(S) /\ Len(a) = Len(q) + 1 /\ a[Len(q) + 1] = e
      /\ \A i \in 1..Len(q) : a[i] = q[i]
  OBVIOUS
<1>2. DOMAIN a = 1..(Len(q) + 1) /\ DOMAIN q = 1..Len(q) /\ Len(q) \in Nat
  BY <1>1
<1> HIDE DEF a
<1> QED
  <2>1. ASSUME NEW x \in {a[i] : i \in DOMAIN a} PROVE x \in {q[i] : i \in DOMAIN q} \cup {e}
    BY <1>1, <1>2
  <2>2. ASSUME NEW x \in {q[i] : i \in DOMAIN q} PROVE x \in {a[i] : i \in DOMAIN a}
    BY <1>1, <1>2
  <2>3. e \in {a[i] : i \in DOMAIN a}
    BY <1>1, <1>2
  <2> QED
    BY <1>1, <2>1, <2>2, <2>3 DEF a

LEMMA Split ==
  ASSUME NEW S, NEW q \in Seq(S), q # <<>>
  PROVE  /\ Head(q) \in S /\ Tail(q) \in Seq(S)
         /\ {q[i] : i \in DOMAIN q} = {Head(q)} \cup {Tail(q)[i] : i \in DOMAIN Tail(q)}
<1> DEFINE t == Tail(q)
<1>1. Len(q) \in Nat \ {0} /\ t \in Seq(S) /\ Len(t) = Len(q) - 1 /\ Head(q) = q[1]
      /\ \A i \in 1..(Len(q) - 1) : t[i] = q[i + 1]
  OBVIOUS
<1>2. DOMAIN t = 1..(Len(q) - 1) /\ DOMAIN q = 1..Len(q)
  BY <1>1
<1>3. Head(q) \in S
  BY <1>1, <1>2
<1> HIDE DEF t
<1>4. ASSUME NEW i \in DOMAIN q PROVE q[i] = Head(q) \/ q[i] \in {t[j] : j \in DOMAIN t}
  <2>1. CASE i = 1
    BY <2>1, <1>1
  <2>2. CASE i # 1
    <3>1. i - 1 \in DOMAIN t /\ t[i - 1] = q[i]
      BY <2>2, <1>1, <1>2
    <3> QED
      BY <3>1
  <2> QED
    BY <2>1, <2>2
<1>5. ASSUME NEW j \in DOMAIN t PROVE t[j] \in {q[i] : i \in DOMAIN q}
  <2>1. j + 1 \in DOMAIN q /\ t[j] = q[j + 1]
    BY <1>1, <1>2
  <2> QED
    BY <2>1
<1>6. Head(q) \in {q[i] : i \in DOMAIN q}
  BY <1>1, <1>2
<1> QED
  BY <1>1, <1>3, <1>4, <1>5, <1>6 DEF t

-----------------------------------------------------------------------------
(* Records that go *)

\* Services are stopped, some that nobody leases are timed.
Yields ==
  /\ byId' \subseteq byId /\ up' \subseteq up
  /\ idleTimer' \subseteq idleTimer \cup {s \in Services : Past(s) /\ leases[s] = {}}
  /\ leases' = leases
  /\ byReuseKey' \in [Shared -> Services \cup {None}]
  /\ \A s \in byId \ byId' : s \notin up'
  /\ \A s \in byId' : Kind(s) \in Shared \ raced => byReuseKey'[Kind(s)] = s

\* A shared service that was never raced is the only one of its key, so that another
\* service that stops does not take its key.
LEMMA StopYields ==
  ASSUME Inv, NEW s \in Services, Stop(s), leases' = leases
  PROVE  Yields /\ byId' = byId \ {s}
<1>1. Kind(s) \in Specs
  BY ServiceFacts
<1>3. CASE s \in byId
  <2>1. ASSUME NEW x \in byId \ {s}, Kind(x) \in Shared \ raced
        PROVE  Kind(x) # Kind(s) /\ byReuseKey[Kind(x)] = x
    BY <2>1, <1>3 DEF Inv, SharedIsFound
  <2>2. byReuseKey' \in [Shared -> Services \cup {None}]
    BY <1>3 DEF Stop, Inv, TypeOK
  <2>3. \A x \in byId \ {s} : Kind(x) \in Shared \ raced => byReuseKey'[Kind(x)] = x
    BY <1>3, <2>1 DEF Stop, Inv, TypeOK
  <2> QED
    BY <1>3, <2>2, <2>3 DEF Yields, Stop, ClearIdleTimer, Terminate
<1>4. CASE s \notin byId
  BY <1>4 DEF Yields, Stop, Inv, TypeOK, SharedIsFound
<1> QED
  BY <1>3, <1>4

LEMMA NothingYields ==
  ASSUME Inv, UNCHANGED records
  PROVE  Yields
BY DEF Yields, records, Inv, TypeOK, SharedIsFound

\* Whoever makes the records shrink, the handlers of runs keep what they have.
LEMMA YieldingKeeps ==
  ASSUME Inv, Yields, UNCHANGED <<position, current, acquired, raced, lost>>,
         faults' \in 0..MaxFaults, toStop' \in [Stoppers -> SUBSET Services],
         pc' \in [Runs \cup Stoppers -> Stages], \A r \in Runs : pc'[r] = pc[r]
  PROVE  Inv'
<1> USE DEF Inv
<1>1. TypeOK'
  BY DEF TypeOK, Yields
<1>2. OnlyPast'
  <2>1. \A x \in Services : Past(x) => Past(x)'
    BY ServiceFacts DEF Past
  <2>2. \A r \in Runs : Held(r)' = Held(r)
    BY DEF Held
  <2>3. \A r \in Runs : Held(r) \subseteq Services
    BY DEF Held, TypeOK
  <2> QED
    BY <2>1, <2>2, <2>3 DEF OnlyPast, Yields, TypeOK
<1>3. AtHand'
  BY ServiceFacts DEF AtHand, At, InHand, Past, Yields, TypeOK
<1>4. TimersUnleased'
  BY DEF TimersUnleased, Yields
<1>5. NoRival'
  <2>1. \A k \in Specs : Starting(k)' = Starting(k)
    BY DEF Starting, At, Wanted
  <2> QED
    BY <2>1 DEF NoRival, Starting, At, Wanted, Yields, Kind, Shared
<1>6. LeasesAgree'
  BY DEF LeasesAgree, Held, At, Yields
<1>7. SharedIsFound'
  BY DEF SharedIsFound, Yields, Kind, Shared
<1>8. ProcessesAreHeld'
  BY DEF ProcessesAreHeld, Yields, At, TypeOK
<1> QED
  BY <1>1, <1>2, <1>3, <1>4, <1>5, <1>6, <1>7, <1>8

LEMMA RecordSteps ==
  ASSUME Inv, NEW s \in Services, IdleTimeout(s) \/ Dies(s) \/ Exit(s)
  PROVE  Inv'
<1>1. Yields
  <2>1. CASE IdleTimeout(s)
    <3>1. CASE s \in byId
      BY <2>1, <3>1, StopYields DEF IdleTimeout
    <3>2. CASE s \notin byId
      BY <2>1, <3>2 DEF IdleTimeout, Yields, Inv, TypeOK, SharedIsFound
    <3> QED
      BY <3>1, <3>2
  <2>2. CASE Dies(s)
    BY <2>2 DEF Dies, Yields, Inv, TypeOK, SharedIsFound
  <2>3. CASE Exit(s)
    <3>1. byReuseKey' \in [Shared -> Services \cup {None}]
      BY <2>3 DEF Exit, Inv, TypeOK
    <3>2. \A x \in byId \ {s} :
            Kind(x) \in Shared \ raced => byReuseKey'[Kind(x)] = byReuseKey[Kind(x)]
      BY <2>3 DEF Exit, Inv, TypeOK, SharedIsFound
    <3> QED
      BY <2>3, <3>1, <3>2 DEF Exit, Yields, ClearIdleTimer, Inv, SharedIsFound
  <2> QED
    BY <2>1, <2>2, <2>3
<1>2. UNCHANGED <<handlers, raced, lost>> /\ faults' \in 0..MaxFaults
  BY BoundAssumption DEF IdleTimeout, Dies, Exit, Fault, Inv, TypeOK
<1> QED
  BY <1>1, <1>2, YieldingKeeps DEF handlers, Inv, TypeOK

LEMMA RequestSteps ==
  ASSUME Inv, NEW w \in Stoppers,
         \/ ListServices(w) \/ StopListed(w) \/ StopGoesOn(w) \/ StopFails(w)
         \/ StopEnds(w)
  PROVE  Inv'
<1>1. Yields
  <2>1. CASE StopListed(w)
    BY <2>1, StopYields DEF StopListed, Inv, TypeOK
  <2> QED
    BY <2>1, NothingYields DEF ListServices, StopGoesOn, StopFails, StopEnds
<1>2. faults' \in 0..MaxFaults
  BY BoundAssumption DEF ListServices, StopListed, StopGoesOn, StopFails, StopEnds, Fault,
                         Inv, TypeOK
<1>5. toStop' \in [Stoppers -> SUBSET Services]
  <2>1. CASE ListServices(w)
    <3>1. {s \in byId : s[1] \in Inside} \in SUBSET Services
      BY DEF Inv, TypeOK
    <3> QED
      BY <2>1, <3>1 DEF ListServices, Inv, TypeOK
  <2>2. CASE StopListed(w)
    <3>1. PICK s \in toStop[w] : toStop' = [toStop EXCEPT ![w] = @ \ {s}]
      BY <2>2 DEF StopListed
    <3>2. toStop[w] \ {s} \in SUBSET Services
      BY DEF Inv, TypeOK
    <3> QED
      BY <3>1, <3>2 DEF Inv, TypeOK
  <2>3. CASE StopFails(w)
    BY <2>3 DEF StopFails, Inv, TypeOK
  <2> QED
    BY <2>1, <2>2, <2>3 DEF StopGoesOn, StopEnds, Inv, TypeOK
<1>3. UNCHANGED <<position, current, acquired, raced, lost>>
  BY DEF ListServices, StopListed, StopGoesOn, StopFails, StopEnds
<1>4. pc' \in [Runs \cup Stoppers -> Stages] /\ \A r \in Runs : pc'[r] = pc[r]
  BY NamesAssumption DEF ListServices, StopListed, StopGoesOn, StopFails, StopEnds, Go,
                         Stages, Inv, TypeOK
<1> QED
  BY <1>1, <1>2, <1>3, <1>4, <1>5, YieldingKeeps

-----------------------------------------------------------------------------
(* Handlers of runs *)

\* A handler goes on without touching the records: its list and the leases agree.
LEMMA HandlerKeeps ==
  ASSUME Inv, NEW r \in Runs, NEW to \in Stages \ {"starting", "persisting", "released"},
         Go(r, to), Yields, UNCHANGED <<toStop, raced>>,
         pc[r] = "starting" => current[r] \notin up',
         faults' \in 0..MaxFaults,
         position' \in [Runs -> Nat], current' \in [Runs -> Services \cup {None}],
         acquired' \in [Runs -> Seq(Services)], lost \subseteq lost', lost' \subseteq Services,
         \A q \in Runs \ {r} : /\ position'[q] = position[q] /\ current'[q] = current[q]
                               /\ acquired'[q] = acquired[q],
         \A s \in Services : s[1] = r /\ Past(s) => Past(s)',
         \A s \in Held(r)' : s \in Services /\ Past(s),
         \A s \in byId :
           /\ r \in leases[s] => s \in Held(r)' \/ s \in lost'
           /\ s \in Held(r)' /\ to \notin {"releasing", "stopping"} => r \in leases[s]
  PROVE  Inv'
<1> USE DEF Inv
<1>0. /\ pc' \in [Runs \cup Stoppers -> Stages] /\ pc'[r] = to
      /\ \A q \in Runs \ {r} : pc'[q] = pc[q]
  BY DEF Go, TypeOK
<1>1. TypeOK'
  BY <1>0 DEF TypeOK, Yields
<1>2. \A s \in Services : Past(s) => Past(s)'
  BY <1>0, ServiceFacts DEF Past
<1>3. \A q \in Runs \ {r} : Held(q)' = Held(q)
  BY DEF Held
<1>4. OnlyPast'
  <2>1. \A q \in Runs : Held(q) \subseteq Services
    BY DEF Held, TypeOK
  <2> QED
    BY <1>2, <1>3, <2>1 DEF OnlyPast, Yields, TypeOK
<1>5. AtHand'
  <2>1. ASSUME NEW q \in Runs \ {r}
        PROVE  /\ At(q, "starting")' => position'[q] \in DOMAIN Wants[q] /\ current'[q] = InHand(q)'
               /\ At(q, "persisting")' =>
                    /\ current'[q] \in Services /\ Past(current[q])'
                    /\ current'[q] \in byId' => q \in leases'[current'[q]]
               /\ At(q, "released")' => current'[q] \in Services /\ Past(current[q])'
    <3>1. /\ pc'[q] = pc[q] /\ position'[q] = position[q] /\ current'[q] = current[q]
          /\ byId' \subseteq byId /\ leases' = leases
      BY <1>0 DEF Yields
    <3>2. current[q] \in Services /\ Past(current[q]) => Past(current[q])'
      BY <3>1, <1>2
    <3> QED
      BY <3>1, <3>2 DEF AtHand, At, InHand
  <2>2. pc'[r] \notin {"starting", "persisting", "released"}
    BY <1>0
  <2> QED
    BY <2>1, <2>2 DEF AtHand, At
<1>6. TimersUnleased'
  BY DEF TimersUnleased, Yields
<1>7. NoRival'
  <2>1. \A k \in Specs : Starting(k)' \subseteq Starting(k)
    BY <1>0 DEF Starting, At, Wanted
  <2>2. ASSUME NEW q \in Runs, At(q, "starting")', Wanted(q)' \in Shared \ raced
        PROVE  /\ At(q, "starting") /\ Wanted(q)' = Wanted(q) /\ Wanted(q) \in Specs
    BY <2>2, <1>0, InHandFacts DEF At, Wanted, AtHand
  <2> QED
    BY <2>1, <2>2 DEF NoRival, Yields, Kind, Shared
<1>8. LeasesAgree'
  <2>1. ASSUME NEW q \in Runs, q # r, NEW s \in byId
        PROVE  /\ r \in Runs
               /\ q \in leases[s] => \/ s \in Held(q)'
                                     \/ At(q, "persisting")' /\ current'[q] = s
                                     \/ s \in lost'
               /\ s \in Held(q)' /\ ~(pc'[q] \in {"releasing", "released", "stopping"})
                    => q \in leases[s]
    BY <2>1, <1>0, <1>3 DEF LeasesAgree, At
  <2>2. byId' \subseteq byId /\ leases' = leases
    BY DEF Yields
  <2>3. ASSUME NEW s \in byId
        PROVE  /\ r \in leases[s] => s \in Held(r)' \/ s \in lost'
               /\ s \in Held(r)' /\ ~(pc'[r] \in {"releasing", "released", "stopping"})
                    => r \in leases[s]
    BY <1>0
  <2> QED
    BY <2>1, <2>2, <2>3 DEF LeasesAgree
<1>9. SharedIsFound'
  BY DEF SharedIsFound, Yields, Kind, Shared
<1>10. ProcessesAreHeld'
  <2>1. ASSUME NEW s \in up'
        PROVE  s \in byId' \/ \E q \in Runs : At(q, "starting")' /\ current'[q] = s
    <3>1. s \in up /\ (s \in byId => s \in byId')
      BY DEF Yields
    <3>2. CASE s \notin byId
      <4>1. PICK q \in Runs : pc[q] = "starting" /\ current[q] = s
        BY <3>1, <3>2 DEF ProcessesAreHeld, At
      <4>2. q # r
        BY <4>1
      <4> QED
        BY <4>1, <4>2, <1>0 DEF At
    <3> QED
      BY <3>1, <3>2
  <2> QED
    BY <2>1 DEF ProcessesAreHeld
<1> QED
  BY <1>1, <1>4, <1>5, <1>6, <1>7, <1>8, <1>9, <1>10

LEMMA HeldTyped ==
  ASSUME Inv, NEW r \in Runs
  PROVE  acquired[r] \in Seq(Services) /\ \A s \in Held(r) : s \in Services /\ Past(s)
BY DEF Inv, TypeOK, OnlyPast, Held

LEMMA PersistedStep ==
  ASSUME Inv, NEW r \in Runs, Persisted(r)
  PROVE  Inv'
<1> DEFINE s == current[r]
<1>1. /\ s \in Services /\ Past(s)
      /\ s \in byId => r \in leases[s]
      /\ pc[r] = "persisting"
  BY DEF Persisted, Inv, AtHand, At
<1>8. Append(acquired[r], s) \in Seq(Services)
  BY <1>1, HeldTyped, Appended
<1>2. /\ Append(acquired[r], s) \in Seq(Services)
      /\ acquired'[r] = Append(acquired[r], s)
      /\ acquired' \in [Runs -> Seq(Services)]
      /\ \A q \in Runs \ {r} : acquired'[q] = acquired[q]
  BY <1>8 DEF Persisted, Acquire, Inv, TypeOK
<1>3. Held(r)' = Held(r) \cup {s}
  BY <1>1, <1>2, HeldTyped, Appended DEF Held
<1>4. /\ position' \in [Runs -> Nat] /\ position'[r] = position[r] + 1
      /\ position[r] \in Nat /\ pc'[r] = "next"
      /\ \A q \in Runs \ {r} : position'[q] = position[q]
      /\ current' \in [Runs -> Services \cup {None}]
      /\ \A q \in Runs \ {r} : current'[q] = current[q]
  BY DEF Persisted, Go, Inv, TypeOK
<1>5. \A x \in Services : x[1] = r /\ Past(x) => Past(x)'
  BY <1>4, ServiceFacts DEF Past
<1>6. /\ Go(r, "next") /\ UNCHANGED <<records, toStop, raced, lost>>
      /\ faults' \in 0..MaxFaults /\ lost' \subseteq Services
  BY DEF Persisted, Inv, TypeOK
<1>7. ASSUME NEW x \in byId
      PROVE  /\ r \in leases[x] => x \in Held(r)' \/ x \in lost'
             /\ x \in Held(r)' => r \in leases[x]
  <2>1. r \in leases[x] => x \in Held(r) \/ x = s \/ x \in lost
    BY DEF Inv, LeasesAgree
  <2>2. x \in Held(r) => r \in leases[x]
    BY <1>1 DEF Inv, LeasesAgree
  <2> QED
    BY <2>1, <2>2, <1>1, <1>3, <1>6
<1> QED
  BY <1>1, <1>2, <1>3, <1>4, <1>5, <1>6, <1>7, HeldTyped, HandlerKeeps, NothingYields DEF Stages

\* Steps that leave position and list alone.
LEMMA WaitingKeeps ==
  ASSUME Inv, NEW r \in Runs, NEW to \in {"using", "releasing", "done"}, Go(r, to),
         pc[r] \notin {"starting", "idle"},
         UNCHANGED <<position, current, acquired, toStop, records, raced>>,
         faults' \in 0..MaxFaults, lost \subseteq lost', lost' \subseteq Services,
         to = "using" => pc[r] = "next", to = "done" => acquired[r] = <<>>,
         pc[r] = "persisting" => current[r] \in lost'
  PROVE  Inv'
<1>1. Held(r)' = Held(r)
  BY DEF Held
<1>2. \A s \in Services : s[1] = r /\ Past(s) => Past(s)'
  BY ServiceFacts DEF Past, Go, Inv, TypeOK
<1>3. ASSUME NEW s \in byId
      PROVE  /\ r \in leases[s] => s \in Held(r)' \/ s \in lost'
             /\ s \in Held(r)' /\ to \notin {"releasing", "stopping"} => r \in leases[s]
  <2>1. r \in leases[s] => s \in Held(r)' \/ s \in lost'
    BY <1>1 DEF Inv, LeasesAgree, At
  <2>2. CASE to = "done"
    BY <2>1, <2>2, <1>1 DEF Held
  <2>3. CASE to = "using"
    BY <2>1, <2>3, <1>1 DEF Inv, LeasesAgree
  <2> QED
    BY <2>1, <2>2, <2>3
<1>4. position' \in [Runs -> Nat] /\ current' \in [Runs -> Services \cup {None}]
      /\ acquired' \in [Runs -> Seq(Services)]
  BY DEF Inv, TypeOK
<1> QED
  BY <1>1, <1>2, <1>3, <1>4, HeldTyped, HandlerKeeps, NothingYields DEF Stages

LEMMA WaitingSteps ==
  ASSUME Inv, NEW r \in Runs,
         PersistFails(r) \/ Ensured(r) \/ AdapterEnds(r) \/ Stopped(r) \/ Released(r)
  PROVE  Inv'
<1> USE DEF At
<1>1. CASE PersistFails(r)
  <2>1. current[r] \in Services /\ faults' \in 0..MaxFaults
    BY <1>1, BoundAssumption DEF PersistFails, Fault, Inv, TypeOK, AtHand
  <2> QED
    BY <1>1, <2>1, WaitingKeeps DEF PersistFails, Inv, TypeOK
<1>2. CASE Ensured(r)
  BY <1>2, WaitingKeeps DEF Ensured, Inv, TypeOK
<1>3. CASE AdapterEnds(r)
  BY <1>3, WaitingKeeps DEF AdapterEnds, Inv, TypeOK
<1>4. CASE Stopped(r)
  BY <1>4, WaitingKeeps DEF Stopped, Inv, TypeOK
<1>5. CASE Released(r)
  BY <1>5, WaitingKeeps DEF Released, Inv, TypeOK
<1> QED
  BY <1>1, <1>2, <1>3, <1>4, <1>5

LEMMA ReleaseFailsStep ==
  ASSUME Inv, NEW r \in Runs, ReleaseFails(r)
  PROVE  Inv'
<1>1. /\ acquired' \in [Runs -> Seq(Services)] /\ acquired'[r] = <<>>
      /\ \A q \in Runs \ {r} : acquired'[q] = acquired[q]
  BY DEF ReleaseFails, Inv, TypeOK
<1>2. Held(r)' = {}
  BY <1>1 DEF Held
<1>3. Held(r) \subseteq lost' /\ lost \subseteq lost' /\ lost' \subseteq Services
  BY HeldTyped DEF ReleaseFails, Inv, TypeOK, AtHand
<1>4. faults' \in 0..MaxFaults
  BY BoundAssumption DEF ReleaseFails, Fault, Inv, TypeOK
<1>5. /\ pc[r] \in {"released", "stopping"} /\ Go(r, "releasing")
      /\ UNCHANGED <<position, current, toStop, records, raced>>
  BY DEF ReleaseFails
<1>6. \A s \in Services : s[1] = r /\ Past(s) => Past(s)'
  BY <1>5, ServiceFacts DEF Past, Go, Inv, TypeOK
<1>7. \A s \in byId : r \in leases[s] => s \in lost'
  BY <1>3, <1>5 DEF Inv, LeasesAgree, At
<1>8. position' \in [Runs -> Nat] /\ current' \in [Runs -> Services \cup {None}]
  BY <1>5 DEF Inv, TypeOK
<1> QED
  BY <1>1, <1>2, <1>3, <1>4, <1>5, <1>6, <1>7, <1>8, HandlerKeeps, NothingYields DEF Stages

LEMMA StartFailsStep ==
  ASSUME Inv, NEW r \in Runs, StartFails(r)
  PROVE  Inv'
<1>1. Yields
  BY DEF StartFails, Terminate, Yields, Inv, TypeOK, SharedIsFound
<1>2. /\ pc[r] = "starting" /\ Go(r, "releasing") /\ current[r] \notin up'
      /\ UNCHANGED <<position, current, acquired, toStop, faults, raced, lost>>
  BY DEF StartFails, Terminate, At
<1>3. Held(r)' = Held(r)
  BY <1>2 DEF Held
<1>4. \A s \in Services : s[1] = r /\ Past(s) => Past(s)'
  BY <1>2, ServiceFacts DEF Past, Go, Inv, TypeOK
<1>5. \A s \in byId : r \in leases[s] => s \in Held(r)' \/ s \in lost'
  BY <1>2, <1>3 DEF Inv, LeasesAgree, At
<1>6. /\ position' \in [Runs -> Nat] /\ current' \in [Runs -> Services \cup {None}]
      /\ acquired' \in [Runs -> Seq(Services)] /\ lost' \subseteq Services
      /\ faults' \in 0..MaxFaults
  BY <1>2 DEF Inv, TypeOK
<1> QED
  BY <1>1, <1>2, <1>3, <1>4, <1>5, <1>6, HeldTyped, HandlerKeeps DEF Stages

\* The decision is taken on the leases as they are after the write.
LEMMA UnleasedStep ==
  ASSUME Inv, NEW r \in Runs, Unleased(r)
  PROVE  Inv'
<1> DEFINE s == current[r]
<1>1. s \in Services /\ Past(s) /\ pc[r] = "released"
  BY DEF Unleased, Inv, AtHand, At
<1>2. UNCHANGED <<position, current, acquired, toStop, leases, faults, raced, lost>>
  BY DEF Unleased
<1>3. PICK to \in {"releasing", "stopping"} : Go(r, to)
  BY DEF Unleased
<1>4. Yields
  <2>1. CASE leases[s] # {}
    <3>1. UNCHANGED records
      BY <2>1, <1>2 DEF Unleased, records
    <3> QED
      BY <3>1, NothingYields
  <2>2. CASE leases[s] = {} /\ StopsAtOnce(Kind(s))
    BY <2>2, <1>1, <1>2, StopYields DEF Unleased
  <2>3. CASE leases[s] = {} /\ ~StopsAtOnce(Kind(s))
    <3>1. UNCHANGED <<byId, byReuseKey, up, leases>> /\ idleTimer' = ScheduleIdleStop(s)
      BY <2>3, <1>2 DEF Unleased
    <3>2. idleTimer' \subseteq idleTimer \cup {s}
      BY <3>1 DEF ScheduleIdleStop, ClearIdleTimer
    <3> QED
      BY <3>1, <3>2, <2>3, <1>1 DEF Yields, Inv, TypeOK, SharedIsFound
  <2> QED
    BY <2>1, <2>2, <2>3
<1>5. Held(r)' = Held(r)
  BY <1>2 DEF Held
<1>6. \A x \in Services : x[1] = r /\ Past(x) => Past(x)'
  BY <1>1, <1>2, <1>3, ServiceFacts DEF Past, Go, Inv, TypeOK
<1>7. \A x \in byId : r \in leases[x] => x \in Held(r)' \/ x \in lost'
  BY <1>1, <1>2, <1>5 DEF Inv, LeasesAgree, At
<1>8. /\ position' \in [Runs -> Nat] /\ current' \in [Runs -> Services \cup {None}]
      /\ acquired' \in [Runs -> Seq(Services)] /\ lost' \subseteq Services
      /\ faults' \in 0..MaxFaults
  BY <1>2 DEF Inv, TypeOK
<1> QED
  BY <1>1, <1>2, <1>3, <1>4, <1>5, <1>6, <1>7, <1>8, HeldTyped, HandlerKeeps DEF Stages

LEMMA ReuseStep ==
  ASSUME Inv, NEW r \in Runs, Reuse(r)
  PROVE  Inv'
<1> USE DEF Inv
<1> DEFINE k == Wanted(r)
           s == byReuseKey[k]
<1>1. /\ pc[r] = "next" /\ s \in byId /\ s \in Services /\ Past(s)
      /\ UNCHANGED <<position, acquired, toStop, byId, byReuseKey, up, faults, raced, lost>>
  BY DEF Reuse, Found, At, TypeOK, OnlyPast
<1>2. /\ pc' \in [Runs \cup Stoppers -> Stages] /\ pc'[r] = "persisting"
      /\ \A q \in Runs \ {r} : pc'[q] = pc[q]
  BY DEF Reuse, Go, TypeOK, Stages
<1>3. /\ current' \in [Runs -> Services \cup {None}] /\ current'[r] = s
      /\ \A q \in Runs \ {r} : current'[q] = current[q]
  BY <1>1 DEF Reuse, TypeOK
<1>4. /\ leases' \in [Services -> SUBSET Runs] /\ leases'[s] = leases[s] \cup {r}
      /\ \A x \in Services \ {s} : leases'[x] = leases[x]
  BY <1>1, <1>3 DEF Reuse, TypeOK
<1>5. idleTimer' = idleTimer \ {s}
  BY <1>3 DEF Reuse, ClearIdleTimer
<1>6. \A x \in Services : Past(x) => Past(x)'
  BY <1>1, <1>2, ServiceFacts DEF Past
<1>7. \A q \in Runs : Held(q)' = Held(q) /\ Held(q) \subseteq Services
  BY <1>1, HeldTyped DEF Held
<1>8. TypeOK'
  BY <1>1, <1>2, <1>3, <1>4, <1>5 DEF TypeOK
<1>9. OnlyPast'
  BY <1>1, <1>5, <1>6, <1>7 DEF OnlyPast, TypeOK
<1>10. AtHand'
  <2>1. PICK x \in Services : x = s
    BY <1>1
  <2>2. Past(current[r])'
    BY <2>1, <1>1, <1>3, <1>6 DEF Past
  <2>3. ASSUME NEW q \in Runs \ {r}
        PROVE  /\ At(q, "starting")' => position'[q] \in DOMAIN Wants[q] /\ current'[q] = InHand(q)'
               /\ At(q, "persisting")' =>
                    /\ current'[q] \in Services /\ Past(current[q])'
                    /\ current'[q] \in byId' => q \in leases'[current'[q]]
               /\ At(q, "released")' => current'[q] \in Services /\ Past(current[q])'
    <3>1. current[q] \in Services /\ Past(current[q]) => Past(current[q])'
      BY <1>1, <1>2, <1>3, ServiceFacts DEF Past
    <3> QED
      BY <3>1, <1>1, <1>2, <1>3, <1>4 DEF AtHand, At, InHand
  <2> QED
    BY <1>1, <1>2, <1>3, <1>4, <2>2, <2>3 DEF AtHand, At
<1>11. TimersUnleased'
  BY <1>1, <1>4, <1>5 DEF TimersUnleased, TypeOK
<1>12. NoRival'
  <2>1. \A j \in Specs : Starting(j)' \subseteq Starting(j)
    BY <1>1, <1>2 DEF Starting, At, Wanted
  <2>2. ASSUME NEW q \in Runs, At(q, "starting")', Wanted(q)' \in Shared \ raced
        PROVE  /\ At(q, "starting") /\ Wanted(q)' = Wanted(q) /\ Wanted(q) \in Specs
    BY <2>2, <1>1, <1>2, InHandFacts DEF At, Wanted, AtHand
  <2> QED
    BY <2>1, <2>2, <1>1 DEF NoRival, Kind, Shared
<1>13. LeasesAgree'
  <2>1. ASSUME NEW q \in Runs, NEW x \in byId
        PROVE  /\ q \in leases'[x] => \/ x \in Held(q)
                                      \/ pc'[q] = "persisting" /\ current'[q] = x
                                      \/ x \in lost
               /\ x \in Held(q) /\ ~(pc'[q] \in {"releasing", "released", "stopping"})
                    => q \in leases'[x]
    <3>1. x \in Services
      BY DEF TypeOK
    <3>2. CASE q = r
      BY <3>1, <3>2, <1>1, <1>2, <1>3, <1>4 DEF LeasesAgree, At
    <3>3. CASE q # r
      BY <3>1, <3>3, <1>1, <1>2, <1>3, <1>4 DEF LeasesAgree, At
    <3> QED
      BY <3>2, <3>3
  <2> QED
    BY <2>1, <1>1, <1>7 DEF LeasesAgree, At
<1>14. SharedIsFound'
  BY <1>1 DEF SharedIsFound, Kind, Shared
<1>15. ProcessesAreHeld'
  BY <1>1, <1>2, <1>3 DEF ProcessesAreHeld, At
<1> QED
  BY <1>8, <1>9, <1>10, <1>11, <1>12, <1>13, <1>14, <1>15

\* The key was looked up without an await before the start: nobody has a service of it
\* unless another start of it is under way.
LEMMA StartStep ==
  ASSUME Inv, NEW r \in Runs, StartLocalRuntimeService(r)
  PROVE  Inv'
<1> USE DEF Inv
<1> DEFINE k == Wanted(r)
           s == InHand(r)
<1>1. /\ pc[r] = "next" /\ position[r] \in DOMAIN Wants[r] /\ ~Found(k)
      /\ UNCHANGED <<position, acquired, toStop, byId, byReuseKey, leases, idleTimer, faults, lost>>
      /\ up' = up \cup {s}
      /\ raced' = IF Starting(k) = {} THEN raced ELSE raced \cup {k}
  BY DEF StartLocalRuntimeService, At
<1>2. s \in Services /\ Kind(s) = k /\ k \in Specs
  BY <1>1, InHandFacts
<1>3. /\ pc' \in [Runs \cup Stoppers -> Stages] /\ pc'[r] = "starting"
      /\ \A q \in Runs \ {r} : pc'[q] = pc[q]
  BY DEF StartLocalRuntimeService, Go, TypeOK, Stages
<1>4. /\ current' \in [Runs -> Services \cup {None}] /\ current'[r] = s
      /\ \A q \in Runs \ {r} : current'[q] = current[q]
  BY <1>2 DEF StartLocalRuntimeService, TypeOK
<1>5. \A x \in Services : Past(x) => Past(x)'
  BY <1>1, <1>3, ServiceFacts DEF Past
<1>6. \A q \in Runs : Held(q)' = Held(q) /\ Held(q) \subseteq Services
  BY <1>1, HeldTyped DEF Held
<1>7. TypeOK'
  BY <1>1, <1>2, <1>3, <1>4 DEF TypeOK
<1>8. OnlyPast'
  BY <1>1, <1>5, <1>6 DEF OnlyPast, TypeOK
<1>9. AtHand'
  <2>1. ASSUME NEW q \in Runs \ {r}
        PROVE  /\ At(q, "starting")' => position'[q] \in DOMAIN Wants[q] /\ current'[q] = InHand(q)'
               /\ At(q, "persisting")' =>
                    /\ current'[q] \in Services /\ Past(current[q])'
                    /\ current'[q] \in byId' => q \in leases'[current'[q]]
               /\ At(q, "released")' => current'[q] \in Services /\ Past(current[q])'
    <3>1. current[q] \in Services /\ Past(current[q]) => Past(current[q])'
      BY <1>1, <1>3, <1>4, ServiceFacts DEF Past
    <3> QED
      BY <3>1, <1>1, <1>3, <1>4 DEF AtHand, At, InHand
  <2>2. position'[r] \in DOMAIN Wants[r] /\ current'[r] = InHand(r)'
    BY <1>1, <1>4 DEF InHand
  <2> QED
    BY <2>1, <2>2, <1>3 DEF AtHand, At
<1>10. TimersUnleased'
  BY <1>1 DEF TimersUnleased
<1>11. NoRival'
  <2>1. /\ Shared' = Shared /\ \A q \in Runs : Wanted(q)' = Wanted(q)
        /\ \A x \in byId : Kind(x)' = Kind(x)
    BY <1>1 DEF Wanted, Shared, Kind
  <2>2. ASSUME NEW q \in Runs, pc'[q] = "starting", Wanted(q) \in Shared \ raced'
        PROVE  /\ \A p \in Runs : pc'[p] = "starting" /\ Wanted(p) = Wanted(q) => p = q
               /\ \A x \in byId : Kind(x) # Wanted(q)
    <3>1. CASE q = r
      <4>1. Starting(k) = {} /\ k \in Shared \ raced
        BY <3>1, <2>2, <1>1
      <4>2. \A x \in byId : Kind(x) # k
        BY <4>1, <1>1 DEF SharedIsFound, Found
      <4> QED
        BY <3>1, <4>1, <4>2, <1>3 DEF Starting, At
    <3>2. CASE q # r
      <4>1. pc[q] = "starting" /\ Wanted(q) \in Shared \ raced
        BY <3>2, <2>2, <1>1, <1>3
      <4>2. /\ \A p \in Runs : pc[p] = "starting" /\ Wanted(p) = Wanted(q) => p = q
            /\ \A x \in byId : Kind(x) # Wanted(q)
        BY <4>1 DEF NoRival, Starting, At
      <4>3. Wanted(q) # k
        <5>1. SUFFICES ASSUME Wanted(q) = k PROVE FALSE
          OBVIOUS
        <5>2. q \in Starting(k)
          BY <4>1, <5>1 DEF Starting, At
        <5> QED
          BY <5>1, <5>2, <2>2, <1>1
      <4> QED
        BY <3>2, <4>2, <4>3, <1>3
    <3> QED
      BY <3>1, <3>2
  <2> QED
    BY <2>1, <2>2, <1>1 DEF NoRival, Starting, At
<1>12. LeasesAgree'
  BY <1>1, <1>3, <1>4, <1>6 DEF LeasesAgree, At
<1>13. SharedIsFound'
  BY <1>1 DEF SharedIsFound, Kind, Shared
<1>14. ProcessesAreHeld'
  <2>1. ASSUME NEW x \in up PROVE x \in byId \/ \E q \in Runs : At(q, "starting")' /\ current'[q] = x
    BY <2>1, <1>1, <1>3, <1>4 DEF ProcessesAreHeld, At
  <2> QED
    BY <2>1, <1>1, <1>3, <1>4 DEF ProcessesAreHeld, At
<1> QED
  BY <1>7, <1>8, <1>9, <1>10, <1>11, <1>12, <1>13, <1>14

\* The new service is nobody's yet, so that no lease or timer is lost.
LEMMA ReadyStep ==
  ASSUME Inv, NEW r \in Runs, Ready(r)
  PROVE  Inv'
<1> USE DEF Inv
<1>0. PICK s \in Services : s = current[r] /\ s = InHand(r) /\ Kind(s) = Wanted(r)
                            /\ s[1] = r /\ s[2] = position[r]
  BY InHandFacts DEF Ready, AtHand
<1>1. /\ pc[r] = "starting" /\ s \in up /\ byId' = byId \cup {s}
      /\ UNCHANGED <<position, current, acquired, toStop, idleTimer, up, faults, raced, lost>>
  BY <1>0 DEF Ready, At
<1>2. /\ pc' \in [Runs \cup Stoppers -> Stages] /\ pc'[r] = "persisting"
      /\ \A q \in Runs \ {r} : pc'[q] = pc[q]
  BY DEF Ready, Go, TypeOK, Stages
<1>3. /\ leases' \in [Services -> SUBSET Runs] /\ leases'[s] = {r}
      /\ \A x \in Services \ {s} : leases'[x] = leases[x]
  BY <1>0 DEF Ready, TypeOK
<1>4. ~Past(s) /\ Past(s)'
  BY <1>0, <1>1, <1>2 DEF Past, TypeOK
<1>5. s \notin byId /\ s \notin idleTimer /\ \A q \in Runs : s \notin Held(q)
  BY <1>4 DEF OnlyPast
<1>6. \A x \in Services : Past(x) => Past(x)'
  BY <1>1, <1>2, ServiceFacts DEF Past
<1>7. \A q \in Runs : Held(q)' = Held(q) /\ Held(q) \subseteq Services
  BY <1>1, HeldTyped DEF Held
<1>8. /\ byReuseKey' \in [Shared -> Services \cup {None}]
      /\ Kind(s) \in Shared => byReuseKey'[Kind(s)] = s
      /\ \A k \in Shared \ {Kind(s)} : byReuseKey'[k] = byReuseKey[k]
  BY <1>0 DEF Ready, TypeOK
<1>9. TypeOK'
  BY <1>1, <1>2, <1>3, <1>8 DEF TypeOK
<1>10. OnlyPast'
  BY <1>1, <1>4, <1>6, <1>7 DEF OnlyPast, TypeOK
<1>11. AtHand'
  <2>1. ASSUME NEW q \in Runs \ {r}
        PROVE  /\ At(q, "starting")' => position'[q] \in DOMAIN Wants[q] /\ current'[q] = InHand(q)'
               /\ At(q, "persisting")' =>
                    /\ current'[q] \in Services /\ Past(current[q])'
                    /\ current'[q] \in byId' => q \in leases'[current'[q]]
               /\ At(q, "released")' => current'[q] \in Services /\ Past(current[q])'
    <3>1. current[q] \in Services /\ Past(current[q]) => Past(current[q])'
      BY <1>1, <1>2, ServiceFacts DEF Past
    <3>2. Past(current[q]) => current[q] # s
      BY <1>4
    <3> QED
      BY <3>1, <3>2, <1>1, <1>2, <1>3 DEF AtHand, At, InHand
  <2>2. current'[r] = s /\ Past(current[r])'
    BY <1>0, <1>1, <1>4 DEF Past
  <2> QED
    BY <2>1, <2>2, <1>1, <1>2, <1>3 DEF AtHand, At
<1>12. TimersUnleased'
  BY <1>1, <1>3, <1>5 DEF TimersUnleased, TypeOK
<1>13. NoRival'
  <2>1. /\ Shared' = Shared /\ \A q \in Runs : Wanted(q)' = Wanted(q)
        /\ \A x \in byId' : Kind(x)' = Kind(x)
    BY <1>1 DEF Wanted, Shared, Kind
  <2>2. ASSUME NEW q \in Runs, pc'[q] = "starting", Wanted(q) \in Shared \ raced
        PROVE  /\ \A p \in Runs : pc'[p] = "starting" /\ Wanted(p) = Wanted(q) => p = q
               /\ \A x \in byId' : Kind(x) # Wanted(q)
    <3>1. q # r /\ pc[q] = "starting"
      BY <2>2, <1>2
    <3>2. /\ \A p \in Runs : pc[p] = "starting" /\ Wanted(p) = Wanted(q) => p = q
          /\ \A x \in byId : Kind(x) # Wanted(q)
      BY <2>2, <3>1 DEF NoRival, Starting, At
    <3>3. Kind(s) # Wanted(q)
      BY <3>1, <3>2, <1>0, <1>1
    <3> QED
      BY <3>2, <3>3, <1>1, <1>2
  <2> QED
    BY <2>1, <2>2, <1>1 DEF NoRival, Starting, At
<1>14. LeasesAgree'
  <2>1. ASSUME NEW q \in Runs, NEW x \in byId'
        PROVE  /\ q \in leases'[x] => \/ x \in Held(q)
                                      \/ pc'[q] = "persisting" /\ current'[q] = x
                                      \/ x \in lost
               /\ x \in Held(q) /\ ~(pc'[q] \in {"releasing", "released", "stopping"})
                    => q \in leases'[x]
    <3>1. CASE x = s
      BY <3>1, <1>0, <1>1, <1>2, <1>3, <1>5
    <3>2. CASE x # s
      <4>1. x \in byId /\ x \in Services /\ leases'[x] = leases[x]
        BY <3>2, <1>1, <1>3 DEF TypeOK
      <4> QED
        BY <4>1, <1>1, <1>2 DEF LeasesAgree, At
    <3> QED
      BY <3>1, <3>2
  <2> QED
    BY <2>1, <1>1, <1>7 DEF LeasesAgree, At
<1>15. SharedIsFound'
  <2>1. ASSUME NEW x \in byId, Kind(x) \in Shared \ raced PROVE byReuseKey'[Kind(x)] = x
    <3>1. Kind(s) # Kind(x)
      BY <2>1, <1>0, <1>1 DEF NoRival, At
    <3> QED
      BY <3>1, <2>1, <1>8 DEF SharedIsFound
  <2> QED
    BY <2>1, <1>1, <1>8 DEF SharedIsFound, Kind, Shared
<1>16. ProcessesAreHeld'
  <2>1. ASSUME NEW x \in up
        PROVE  x \in byId' \/ \E q \in Runs : At(q, "starting")' /\ current'[q] = x
    <3>1. CASE x = s
      BY <3>1, <1>1
    <3>2. CASE x # s
      BY <3>2, <1>0, <1>1, <1>2 DEF ProcessesAreHeld, At
    <3> QED
      BY <3>1, <3>2
  <2> QED
    BY <2>1, <1>1 DEF ProcessesAreHeld
<1> QED
  BY <1>9, <1>10, <1>11, <1>12, <1>13, <1>14, <1>15, <1>16

LEMMA DropLeaseStep ==
  ASSUME Inv, NEW r \in Runs, DropLease(r)
  PROVE  Inv'
<1> USE DEF Inv
<1>0. PICK s \in Services : s = Head(acquired[r]) /\ s \in Held(r)
  BY HeldTyped, Split DEF DropLease, Held
<1>1. /\ pc[r] = "releasing" /\ acquired[r] # <<>>
      /\ UNCHANGED <<position, toStop, byId, byReuseKey, idleTimer, up, faults, raced, lost>>
      /\ Past(s)
  BY <1>0 DEF DropLease, At, OnlyPast
<1>2. /\ acquired' \in [Runs -> Seq(Services)] /\ acquired'[r] = Tail(acquired[r])
      /\ \A q \in Runs \ {r} : acquired'[q] = acquired[q]
  <2>1. Tail(acquired[r]) \in Seq(Services)
    BY <1>1, HeldTyped, Split
  <2> QED
    BY <2>1 DEF DropLease, TypeOK
<1>3. Held(r) = Held(r)' \cup {s} /\ \A q \in Runs \ {r} : Held(q)' = Held(q)
  <2>1. {acquired[r][i] : i \in DOMAIN acquired[r]}
          = {Head(acquired[r])} \cup {Tail(acquired[r])[i] : i \in DOMAIN Tail(acquired[r])}
    <3>1. acquired[r] \in Seq(Services)
      BY HeldTyped
    <3> QED
      BY <3>1, <1>1, Split
  <2>2. Held(r) = {s} \cup Held(r)'
    BY <2>1, <1>0, <1>2, Zenon DEF Held
  <2>3. ASSUME NEW q \in Runs \ {r} PROVE Held(q)' = Held(q)
    BY <1>2, Zenon DEF Held
  <2> QED
    BY <2>2, <2>3
<1>4. /\ current' \in [Runs -> Services \cup {None}] /\ current'[r] = s
      /\ \A q \in Runs \ {r} : current'[q] = current[q]
  BY <1>0 DEF DropLease, TypeOK
<1>5. CASE s \notin byId
  <2>1. UNCHANGED <<leases, pc>> /\ UNCHANGED records
    BY <1>0, <1>1, <1>5 DEF DropLease, records
  <2>2. Go(r, "releasing")
    BY <2>1, <1>1 DEF Go, TypeOK
  <2>3. \A x \in byId : r \in leases[x] => x \in Held(r)' \/ x \in lost'
    BY <1>1, <1>3, <1>5 DEF LeasesAgree, At
  <2>4. \A x \in Services : x[1] = r /\ Past(x) => Past(x)'
    BY <2>1, <1>1 DEF Past
  <2>5. \A x \in Held(r)' : x \in Services /\ Past(x)
    BY <1>3, HeldTyped
  <2>6. position' \in [Runs -> Nat] /\ lost' \subseteq Services /\ faults' \in 0..MaxFaults
    BY <1>1 DEF TypeOK
  <2> QED
    BY <2>1, <2>2, <2>3, <2>4, <2>5, <2>6, <1>1, <1>2, <1>4, NothingYields, HandlerKeeps DEF Stages
<1>6. CASE s \in byId
  <2>1. /\ pc' \in [Runs \cup Stoppers -> Stages] /\ pc'[r] = "released"
        /\ \A q \in Runs \ {r} : pc'[q] = pc[q]
    BY <1>0, <1>6 DEF DropLease, Go, TypeOK, Stages
  <2>2. /\ leases' \in [Services -> SUBSET Runs] /\ leases'[s] = leases[s] \ {r}
        /\ \A x \in Services \ {s} : leases'[x] = leases[x]
    BY <1>0, <1>6 DEF DropLease, TypeOK
  <2>3. \A x \in Services : Past(x) => Past(x)'
    BY <2>1, <1>1, ServiceFacts DEF Past
  <2>4. TypeOK'
    BY <2>1, <2>2, <1>1, <1>2, <1>4 DEF TypeOK
  <2>5. OnlyPast'
    <3>1. \A q \in Runs : Held(q)' \subseteq Held(q) /\ Held(q) \subseteq Services
      BY <1>3, HeldTyped
    <3> QED
      BY <3>1, <2>3, <1>1 DEF OnlyPast, TypeOK
  <2>6. AtHand'
    <3>1. ASSUME NEW q \in Runs \ {r}
          PROVE  /\ At(q, "starting")' => position'[q] \in DOMAIN Wants[q] /\ current'[q] = InHand(q)'
                 /\ At(q, "persisting")' =>
                      /\ current'[q] \in Services /\ Past(current[q])'
                      /\ current'[q] \in byId' => q \in leases'[current'[q]]
                 /\ At(q, "released")' => current'[q] \in Services /\ Past(current[q])'
      <4>1. current[q] \in Services /\ Past(current[q]) => Past(current[q])'
        BY <2>1, <1>1, <1>4, ServiceFacts DEF Past
      <4>2. current[q] \in Services /\ q \in leases[current[q]] => q \in leases'[current[q]]
        BY <2>2
      <4> QED
        BY <4>1, <4>2, <2>1, <1>1, <1>4 DEF AtHand, At, InHand
    <3>2. Past(current[r])'
      BY <2>3, <1>1, <1>4 DEF Past
    <3> QED
      BY <3>1, <3>2, <2>1, <1>4 DEF AtHand, At
  <2>7. TimersUnleased'
    BY <2>2, <1>1 DEF TimersUnleased, TypeOK
  <2>8. NoRival'
    <3>1. \A j \in Specs : Starting(j)' \subseteq Starting(j)
      BY <2>1, <1>1 DEF Starting, At, Wanted
    <3>2. ASSUME NEW q \in Runs, At(q, "starting")', Wanted(q)' \in Shared \ raced
          PROVE  /\ At(q, "starting") /\ Wanted(q)' = Wanted(q) /\ Wanted(q) \in Specs
      BY <3>2, <2>1, <1>1, InHandFacts DEF At, Wanted, AtHand
    <3> QED
      BY <3>1, <3>2, <1>1 DEF NoRival, Kind, Shared
  <2>9. LeasesAgree'
    <3>1. ASSUME NEW q \in Runs, NEW x \in byId
          PROVE  /\ q \in leases'[x] => \/ x \in Held(q)'
                                        \/ pc'[q] = "persisting" /\ current'[q] = x
                                        \/ x \in lost
                 /\ x \in Held(q)' /\ ~(pc'[q] \in {"releasing", "released", "stopping"})
                      => q \in leases'[x]
      <4>1. x \in Services /\ leases'[x] \subseteq leases[x]
            /\ (q # r => (q \in leases'[x] <=> q \in leases[x]))
        BY <2>2 DEF TypeOK
      <4>2. CASE q = r
        BY <4>1, <4>2, <2>1, <2>2, <1>1, <1>3 DEF LeasesAgree, At
      <4>3. CASE q # r
        BY <4>1, <4>3, <2>1, <1>1, <1>3, <1>4 DEF LeasesAgree, At
      <4> QED
        BY <4>2, <4>3
    <3> QED
      BY <3>1, <1>1 DEF LeasesAgree, At
  <2>10. SharedIsFound'
    BY <1>1 DEF SharedIsFound, Kind, Shared
  <2>11. ProcessesAreHeld'
    BY <2>1, <1>1, <1>4 DEF ProcessesAreHeld, At
  <2> QED
    BY <2>4, <2>5, <2>6, <2>7, <2>8, <2>9, <2>10, <2>11
<1> QED
  BY <1>5, <1>6

-----------------------------------------------------------------------------
(* Theorems *)

LEMMA InitInv == Init => Inv
<1> SUFFICES ASSUME Init PROVE Inv
  OBVIOUS
<1>1. TypeOK
  BY NamesAssumption, BoundAssumption DEF Init, TypeOK, Stages
<1>2. ASSUME NEW r \in Runs PROVE pc[r] = "next" /\ Held(r) = {}
  <2>1. pc[r] = "next"
    BY DEF Init
  <2>2. acquired[r] = <<>>
    BY DEF Init
  <2>3. DOMAIN acquired[r] = {}
    BY <2>2
  <2> QED
    BY <2>1, <2>3 DEF Held
<1>3. OnlyPast /\ TimersUnleased /\ LeasesAgree /\ SharedIsFound /\ ProcessesAreHeld
  BY <1>2 DEF Init, OnlyPast, TimersUnleased, LeasesAgree, SharedIsFound, ProcessesAreHeld
<1>4. AtHand /\ NoRival
  BY <1>2 DEF AtHand, NoRival, At
<1> QED
  BY <1>1, <1>3, <1>4 DEF Inv

LEMMA NextInv == Inv /\ [Next]_vars => Inv'
<1> SUFFICES ASSUME Inv, [Next]_vars PROVE Inv'
  OBVIOUS
<1>1. ASSUME NEW r \in Runs,
             \/ Reuse(r) \/ StartLocalRuntimeService(r) \/ Ready(r) \/ StartFails(r)
             \/ Persisted(r) \/ PersistFails(r) \/ Ensured(r) \/ AdapterEnds(r)
             \/ ReleaseStep(r)
      PROVE  Inv'
  BY <1>1, ReuseStep, StartStep, ReadyStep, StartFailsStep, PersistedStep, WaitingSteps,
     DropLeaseStep, UnleasedStep, ReleaseFailsStep DEF ReleaseStep
<1>2. CASE UNCHANGED vars
  <2>1. /\ UNCHANGED <<position, current, acquired, toStop, faults, raced, lost, pc>>
        /\ UNCHANGED records
    BY <1>2 DEF vars, handlers
  <2>2. /\ faults' \in 0..MaxFaults /\ toStop' \in [Stoppers -> SUBSET Services]
        /\ pc' \in [Runs \cup Stoppers -> Stages]
    BY <2>1 DEF Inv, TypeOK
  <2> QED
    BY <2>1, <2>2, NothingYields, YieldingKeeps
<1> QED
  BY <1>1, <1>2, RecordSteps, RequestSteps DEF Next

LEMMA Invariant == Spec => []Inv
BY InitInv, NextInv, PTL DEF Spec

\* The records, the lists of the runs and the handlers stay well-typed.
THEOREM TypeCorrect == Spec => []TypeOK
<1>1. Inv => TypeOK
  BY DEF Inv
<1> QED
  BY <1>1, Invariant, PTL

\* Who leases a service has it on its list, and the other way round.
THEOREM Agreement == Spec => []LeasesAgree
<1>1. Inv => LeasesAgree
  BY DEF Inv
<1> QED
  BY <1>1, Invariant, PTL

\* Unless two starts of a key overlapped, later runs find the service that runs.
THEOREM Sharing == Spec => []SharedIsFound
<1>1. Inv => SharedIsFound
  BY DEF Inv
<1> QED
  BY <1>1, Invariant, PTL

\* Every process that runs is registered or waited for.
THEOREM NoStrayProcess == Spec => []ProcessesAreHeld
<1>1. Inv => ProcessesAreHeld
  BY DEF Inv
<1> QED
  BY <1>1, Invariant, PTL

\* Timers and finished runs leave leased services alone.
THEOREM LeaseProtects == Spec => LeasedIsNotStopped
<1> DEFINE Kept == \A s \in byId \ byId' :
             leases[s] = {} \/ s \notin up \/ (\E w \in Stoppers : s \in toStop[w])
<1>1. Inv /\ [Next]_vars => [Kept]_vars
  <2> SUFFICES ASSUME Inv, Next, NEW s \in byId \ byId'
               PROVE  \/ leases[s] = {} \/ s \notin up
                      \/ \E w \in Stoppers : s \in toStop[w]
    OBVIOUS
  <2>1. ASSUME NEW x, Stop(x) PROVE x = s
    BY <2>1 DEF Stop
  <2>2. ASSUME NEW r \in Runs, Unleased(r) PROVE leases[s] = {}
    <3>1. leases[current[r]] = {} /\ Stop(current[r])
      BY <2>2 DEF Unleased
    <3> QED
      BY <3>1, <2>1
  <2>3. ASSUME NEW x \in Services, IdleTimeout(x) PROVE leases[s] = {}
    <3>1. x \in idleTimer /\ x \in byId /\ Stop(x)
      BY <2>3 DEF IdleTimeout
    <3> QED
      BY <3>1, <2>1 DEF Inv, TimersUnleased
  <2>4. ASSUME NEW w \in Stoppers, StopListed(w) PROVE s \in toStop[w]
    BY <2>4, <2>1 DEF StopListed
  <2>5. ASSUME NEW x \in Services, Exit(x) PROVE s \notin up
    BY <2>5 DEF Exit
  <2>6. ASSUME NEW r \in Runs, Ready(r) PROVE FALSE
    BY <2>6 DEF Ready
  <2>7. ASSUME byId' = byId PROVE FALSE
    BY <2>7
  <2>8. ASSUME NEW r \in Runs,
               \/ Reuse(r) \/ StartLocalRuntimeService(r) \/ StartFails(r)
               \/ Persisted(r) \/ PersistFails(r) \/ Ensured(r) \/ AdapterEnds(r)
               \/ DropLease(r) \/ Stopped(r) \/ ReleaseFails(r) \/ Released(r)
        PROVE  FALSE
    BY <2>7, <2>8 DEF Reuse, StartLocalRuntimeService, StartFails, Persisted, PersistFails,
         Ensured, AdapterEnds, DropLease, Stopped, ReleaseFails, Released, records
  <2>9. ASSUME NEW w \in Stoppers,
               ListServices(w) \/ StopGoesOn(w) \/ StopFails(w) \/ StopEnds(w)
        PROVE  FALSE
    BY <2>7, <2>9 DEF ListServices, StopGoesOn, StopFails, StopEnds, records
  <2>10. ASSUME NEW x \in Services, Dies(x) PROVE FALSE
    BY <2>7, <2>10 DEF Dies
  <2> QED
    BY <2>2, <2>3, <2>4, <2>5, <2>6, <2>8, <2>9, <2>10 DEF Next, ReleaseStep
<1> QED
  BY <1>1, Invariant, PTL DEF Spec, LeasedIsNotStopped

=============================================================================
