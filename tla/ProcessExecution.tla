------------------------- MODULE ProcessExecution -------------------------
(***************************************************************************)
(* What run_process promises its caller, whatever happens inside           *)
(* (docs/architecture/PROCESS_EXECUTION_MODEL.md, 31, 32, 38 and 39): a    *)
(* request launches at most once and not at all after a cancellation; the  *)
(* first terminal cause wins; the caller gets one verdict, a result of     *)
(* that cause or an exception.                                             *)
(***************************************************************************)

CONSTANT Causes   \* of a launched process

VARIABLES phase, cause, verdict

vars == <<phase, cause, verdict>>

StateOf(c) == IF c = "output_limit" THEN "cancelled" ELSE c

Init == phase = "requested" /\ cause = "none" /\ verdict = "none"

\* Cancelled before the launch, or the launch failed.
NotLaunched ==
    /\ phase = "requested"
    /\ phase' = "settled"
    /\ cause' \in {"cancelled", "launch_failed"}
    /\ UNCHANGED verdict

Launch ==
    /\ phase = "requested"
    /\ phase' = "running"
    /\ UNCHANGED <<cause, verdict>>

Settle ==
    /\ phase = "running"
    /\ phase' = "settled"
    /\ cause' \in Causes
    /\ UNCHANGED verdict

Deliver ==
    /\ phase = "settled"
    /\ phase' = "delivered"
    /\ verdict' \in {StateOf(cause), "raised"}
    /\ UNCHANGED cause

\* An exception leaves the request before any cause was observed.
Abandon ==
    /\ phase \in {"requested", "running"}
    /\ phase' = "delivered"
    /\ verdict' = "raised"
    /\ UNCHANGED cause

Next == NotLaunched \/ Launch \/ Settle \/ Deliver \/ Abandon

Spec == Init /\ [][Next]_vars /\ WF_vars(Next)

=============================================================================
