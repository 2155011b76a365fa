----------------------------- MODULE RpcChannel -----------------------------
(***************************************************************************)
(* What callers of a plugin rely on: a slot that holds one process at a    *)
(* time, and calls that are settled once, by an answer of the very process *)
(* they were sent to or by a failure, and never outlive that process.      *)
(***************************************************************************)
EXTENDS Naturals

CONSTANTS Procs, \* numbers of processes, in the order they are started
          Calls

VARIABLES up,   \* the process in the slot, 0 for none
          call

Fresh == [st |-> "new", on |-> 0]
InFlight(c) == call[c].st = "sent"
Settle(c, st) == call' = [call EXCEPT ![c] = [@ EXCEPT !.st = st]]

Init == up = 0 /\ call = [c \in Calls |-> Fresh]

Start(p) ==
  /\ up = 0 /\ \A c \in Calls : call[c].on < p
  /\ up' = p
  /\ UNCHANGED call

End ==
  /\ up # 0
  /\ up' = 0
  /\ call' = [c \in Calls |-> IF InFlight(c) THEN [call[c] EXCEPT !.st = "failed"] ELSE call[c]]

Send(c) ==
  /\ call[c] = Fresh /\ up # 0
  /\ call' = [call EXCEPT ![c] = [st |-> "sent", on |-> up]]
  /\ UNCHANGED up

Refuse(c) == call[c] = Fresh /\ Settle(c, "failed") /\ UNCHANGED up

Answer(c) == InFlight(c) /\ call[c].on = up /\ Settle(c, "ok") /\ UNCHANGED up

TimeOut(c) == InFlight(c) /\ Settle(c, "failed") /\ UNCHANGED up

Next ==
  \/ \E p \in Procs : Start(p)
  \/ End
  \/ \E c \in Calls : Send(c) \/ Refuse(c) \/ Answer(c) \/ TimeOut(c)

Spec == Init /\ [][Next]_<<up, call>>

=============================================================================
