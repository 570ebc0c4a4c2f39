------------------------ MODULE VerificationContract ------------------------
(***************************************************************************)
(* The verification contract of core/verification_contract.py: what a work   *)
(* phase declares by a tool call, and what the verification takes up.  A raw *)
(* check is what the model wrote, as far as the parser looks at it.         *)
(***************************************************************************)
EXTENDS SequencesExt

RawChecks == {"command", "judge", "unusable"}

\* A raw check is usable if it is a command with a text or a judge with at
\* least one criterion.
ParseCheck(raw) == raw \in {"command", "judge"}

\* Unusable checks are dropped; a contract with none left is no contract.
ParseVerificationContract(raw) ==
    FlattenSeq([i \in DOMAIN raw |-> IF ParseCheck(raw[i]) THEN <<raw[i]>> ELSE <<>>])

=============================================================================
