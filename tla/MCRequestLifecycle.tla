------------------------- MODULE MCRequestLifecycle -------------------------
(* The instances of the Request lifecycle that TLC checks.                 *)
EXTENDS RequestLifecycleProperties


=============================================================================
