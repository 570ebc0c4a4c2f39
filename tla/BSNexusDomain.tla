--------------------------- MODULE BSNexusDomain ---------------------------
(***************************************************************************)
(* The status vocabularies of core/domain.py and the transition tables of  *)
(* core/state_machines.py.  Every component's module takes its statuses    *)
(* and the legality of a status change from here.                          *)
(***************************************************************************)
EXTENDS Naturals, Sequences

RequestStatuses ==
    {"open", "running", "needs_decision", "review_ready", "shipped", "abandoned"}

WorkStepStatuses ==
    {"pending", "running", "needs_decision", "verifying", "review_ready", "failed", "skipped"}

ProofStates ==
    {"verification_missing", "verifying", "verified", "verification_failed",
     "human_review_required"}

RUN_ATTEMPT_PHASE_ORDER == <<"prepare", "work", "verify", "summarize", "terminal">>

RunAttemptStatuses == {"running", "completed", "failed", "timed_out"}
-----------------------------------------------------------------------------
REQUEST_TRANSITIONS ==
    [open           |-> {"running", "abandoned"},
     running        |-> {"needs_decision", "review_ready", "abandoned"},
     needs_decision |-> {"running", "abandoned"},
     review_ready   |-> {"running", "shipped"},
     shipped        |-> {},
     abandoned      |-> {}]

WORK_STEP_TRANSITIONS ==
    [pending        |-> {"running", "skipped"},
     running        |-> {"needs_decision", "verifying", "failed"},
     needs_decision |-> {"running", "skipped"},
     verifying      |-> {"review_ready", "failed"},
     review_ready   |-> {},
     failed         |-> {"running"},
     skipped        |-> {}]

PROOF_TRANSITIONS ==
    [verification_missing  |-> {"verifying", "human_review_required"},
     verifying             |-> {"verified", "verification_failed", "human_review_required"},
     verification_failed   |-> {"verifying"},
     human_review_required |-> {"verified"},
     verified              |-> {}]

CanTransitionRequest(current, target) == target \in REQUEST_TRANSITIONS[current]

CanTransitionWorkStep(current, target) == target \in WORK_STEP_TRANSITIONS[current]

CanTransitionProof(current, target) == target \in PROOF_TRANSITIONS[current]

(* A RunAttempt advances exactly one phase at a time. *)
CanAdvanceRunAttemptPhase(current, target) ==
    \E i \in 1 .. Len(RUN_ATTEMPT_PHASE_ORDER) - 1 :
        /\ RUN_ATTEMPT_PHASE_ORDER[i] = current
        /\ RUN_ATTEMPT_PHASE_ORDER[i + 1] = target
=============================================================================
