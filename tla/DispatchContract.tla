-------------------------- MODULE DispatchContract --------------------------
(***************************************************************************)
(* What the caller of dispatch_run_attempt relies on: one RunAttempt at a  *)
(* time is open, at most MaxContinuations follow the first, every one is   *)
(* closed, and the dispatch ends converged, failed, or exhausted, the last *)
(* only when no continuation is left.  RequestLifecycle takes a dispatch   *)
(* for this.                                                               *)
(***************************************************************************)
EXTENDS Naturals

CONSTANT MaxContinuations

VARIABLES open, used, outcome

vars == <<open, used, outcome>>

Init == ~open /\ used = 0 /\ outcome = "none"

Open == ~open /\ outcome = "none" /\ open' /\ UNCHANGED <<used, outcome>>

Close == open /\ ~open'

Continue == Close /\ used < MaxContinuations /\ used' = used + 1 /\ UNCHANGED outcome

End == Close /\ outcome' \in {"converged", "failed"} /\ UNCHANGED used

Exhaust == Close /\ used = MaxContinuations /\ outcome' = "exhausted" /\ UNCHANGED used

Next == Open \/ Continue \/ End \/ Exhaust

Spec == Init /\ [][Next]_vars

(* A dispatch ends.                                                        *)
Ends == <>(outcome # "none" /\ ~open)
=============================================================================
