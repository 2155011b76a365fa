--------------------------- MODULE ExclusiveLease ---------------------------
(***************************************************************************)
(* What atomic ownership of a task promises (doc/SPEC.md, Concurrency      *)
(* Model: Atomic Task Checkout): one run at a time has the task, and a run *)
(* gets it only when nobody has it or the run that has it is finished.     *)
(***************************************************************************)
CONSTANTS
  Holders,  \* the runs that may have the task
  Nobody

VARIABLES
  holder,   \* the run that has the task, or Nobody
  finished  \* the runs that are finished for good

lease == <<holder, finished>>

Init ==
  /\ holder = Nobody
  /\ finished = {}

Take(h) ==
  /\ holder \in finished \cup {Nobody}
  /\ holder' = h
  /\ UNCHANGED finished

GiveUp ==
  /\ holder' = Nobody
  /\ UNCHANGED finished

Finish(h) ==
  /\ finished' = finished \cup {h}
  /\ UNCHANGED holder

Next ==
  \/ \E h \in Holders : Take(h) \/ Finish(h)
  \/ GiveUp

Spec == Init /\ [][Next]_lease

=============================================================================
