------------------------- MODULE MCRuntimeServices --------------------------
(* Instances of RuntimeServices for TLC.                                    *)
EXTENDS RuntimeServices, TLC

CONSTANTS r1, r2, web, preview, tool

SomePolicy == web :> "idle_timeout" @@ preview :> "on_run_finish" @@ tool :> "manual"
SomeWants  == r1 :> <<web, preview>> @@ r2 :> <<preview, web, tool>>

=============================================================================
