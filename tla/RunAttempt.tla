----------------------------- MODULE RunAttempt -----------------------------
(***************************************************************************)
(* dispatch_run_attempt: the RunAttempts one WorkStep is driven through.   *)
(* An attempt is a loop of LLM turns, each of them a number of tool calls; *)
(* every call is a round on the attempt's row.  Rounds, turns, nudges,     *)
(* aspect retries and continuations have a cap each, and whatever ends an  *)
(* attempt closes its row first.                                           *)
(*                                                                         *)
(* The model's answers and the verifiers' are choices.  A tool call is its *)
(* signature (the hash of its arguments): a member of Files is a file_write*)
(* of that file, a member of Looks any other tool.  The conversation, the  *)
(* text of a handoff record and the telemetry no code reads are left out.  *)
(***************************************************************************)
EXTENDS BSNexusDomain, FiniteSets

CONSTANTS
    Files,              \* files a file_write or file_edit may name
    Looks,              \* signatures of calls of the other tools
    WorkBudget,         \* PHASE_ROUND_BUDGETS[work]
    CatastrophicCap,    \* CATASTROPHIC_ROUND_CAP
    RepetitionCount,    \* REPETITION_WINDOW and REPETITION_TERMINATION_COUNT
    MaxIterations,      \* MAX_WORK_LOOP_ITERATIONS
    MaxNudges,          \* MAX_NO_WORK_NUDGES
    MaxAspectRetries,   \* MAX_ASPECT_RETRIES
    RetryIterations,    \* MAX_ASPECT_RETRY_ROUNDS
    RetryFloor,         \* ASPECT_RETRY_BUDGET_FLOOR
    MaxContinuations,   \* MAX_BUDGET_CONTINUATIONS
    SoftHeadroom,       \* SOFT_PRESSURE_HEADROOM
    MaxCalls            \* bound: tool calls in one turn

ASSUME CapsAssumption ==
    {WorkBudget, CatastrophicCap, RepetitionCount, MaxIterations, MaxNudges, MaxAspectRetries,
     RetryIterations, RetryFloor, MaxContinuations, SoftHeadroom, MaxCalls} \subseteq Nat

(* What the comments on the constants ask of their values.                 *)
ASSUME HeadroomAssumption ==
    /\ WorkBudget + 1 < CatastrophicCap
    /\ WorkBudget + MaxNudges < MaxIterations
    /\ 0 < SoftHeadroom /\ SoftHeadroom < WorkBudget
    /\ Files \cap Looks = {}

VARIABLES
    attempt,    \* the RunAttempt row: phase, status, terminal_reason
    rounds,     \* its round_count
    workRounds, \* its phase_rounds[work]
    recent,     \* its last ToolEvents, oldest first
    pc,         \* where dispatch_run_attempt is
    loop,       \* _run_work_phase: turns, their cap, nudges, calls left in the turn, and
                \* the list of files it knows to be written
    retries,    \* aspect retries of this attempt
    used,       \* continuations of this dispatch
    landed,     \* files this attempt wrote
    before,     \* files the attempts before it wrote
    pressed,    \* soft-pressure messages of this attempt
    workspace,  \* the dispatch has a workspace directory, and so tools
    carried     \* artifact_refs of the Deliverable the dispatch ends with

vars == <<attempt, rounds, workRounds, recent, pc, loop, retries, used, landed, before, pressed,
          workspace, carried>>

row == <<attempt, rounds, workRounds, recent>>

Calls == Files \cup Looks

BudgetReasons ==
    {"phase_round_budget_exceeded", "work_loop_iteration_cap",
     "catastrophic_round_budget_exceeded", "aspect_retry_budget_exhausted",
     "no_workspace_write"}

OtherReasons == {"repeated_tool_call", "tool_event_error", "executor_error", "summarized"}

Running == attempt.status = "running"

Pass(cap, written) == [turn |-> 0, cap |-> cap, nudges |-> 0, calls |-> 0, written |-> written]

Init ==
    /\ attempt = [phase |-> "terminal", status |-> "failed", reason |-> "none"]
    /\ rounds = 0 /\ workRounds = 0 /\ recent = <<>>
    /\ pc = "create"
    /\ loop = Pass(0, {})
    /\ retries = 0 /\ used = 0
    /\ landed = {} /\ before = {}
    /\ pressed = 0
    /\ workspace \in BOOLEAN
    /\ carried = {}

(* finish_run_attempt.                                                     *)
Finish(status, reason) ==
    attempt' = [phase |-> "terminal", status |-> status, reason |-> reason]

Advance(target) ==
    /\ Running /\ CanAdvanceRunAttemptPhase(attempt.phase, target)
    /\ attempt' = [attempt EXCEPT !.phase = target]

CreateRunAttempt ==
    /\ pc = "create"
    /\ attempt' = [phase |-> "prepare", status |-> "running", reason |-> "none"]
    /\ rounds' = 0 /\ workRounds' = 0 /\ recent' = <<>>
    /\ loop' = Pass(MaxIterations, {})
    /\ retries' = 0 /\ pressed' = 0
    /\ landed' = {} /\ before' = before \cup landed
    /\ pc' = "start"
    /\ UNCHANGED <<used, workspace, carried>>

AdvanceToWork ==
    /\ pc = "start"
    /\ Advance("work")
    /\ pc' = "llm"
    /\ UNCHANGED <<rounds, workRounds, recent, loop, retries, used, landed, before, pressed,
                   workspace, carried>>

-----------------------------------------------------------------------------
(* _run_work_phase                                                         *)

(* An LLM call or a tool that raises leaves the loop, and the retry loop   *)
(* around it.                                                              *)
ExecutorError ==
    /\ \/ pc = "llm" /\ loop.turn < loop.cap
       \/ pc = "tools"
    /\ Finish("failed", "executor_error")
    /\ pc' = "failed"
    /\ UNCHANGED <<rounds, workRounds, recent, loop, retries, used, landed, before, pressed,
                   workspace, carried>>

Turn(calls) == loop' = [loop EXCEPT !.turn = @ + 1, !.calls = calls]

ToolTurn ==
    /\ pc = "llm" /\ loop.turn < loop.cap
    /\ workspace
    /\ \E n \in 1 .. MaxCalls : Turn(n)
    /\ pc' = "tools"
    /\ UNCHANGED <<row, retries, used, landed, before, pressed, workspace, carried>>

(* A turn without tool calls ends the loop when a file has been written    *)
(* (or there are no tools); otherwise the model is nudged, then given up.  *)
PlainTurn ==
    /\ pc = "llm" /\ loop.turn < loop.cap
    /\ \/ /\ ~workspace \/ loop.written # {}
          /\ Turn(0)
          /\ pc' = IF workspace THEN "probe" ELSE "converged"
          /\ UNCHANGED attempt
       \/ /\ workspace /\ loop.written = {}
          /\ loop.nudges < MaxNudges
          /\ loop' = [loop EXCEPT !.turn = @ + 1, !.nudges = @ + 1]
          /\ UNCHANGED <<attempt, pc>>
       \/ /\ workspace /\ loop.written = {}
          /\ loop.nudges = MaxNudges
          /\ Turn(0)
          /\ Finish("failed", "no_workspace_write")
          /\ pc' = "terminated"
    /\ UNCHANGED <<rounds, workRounds, recent, retries, used, landed, before, pressed, workspace,
                   carried>>

IterationCap ==
    /\ pc = "llm" /\ loop.turn = loop.cap
    /\ Finish("timed_out", "work_loop_iteration_cap")
    /\ pc' = "terminated"
    /\ UNCHANGED <<rounds, workRounds, recent, loop, retries, used, landed, before, pressed,
                   workspace, carried>>

(* The tool runs before its event is recorded.                             *)
Wrote(call, succeeds) == IF succeeds THEN {call} \cap Files ELSE {}

(* A tool the work phase does not allow runs and is refused afterwards.    *)
RefusedCall ==
    /\ pc = "tools"
    /\ Finish("failed", "tool_event_error")
    /\ pc' = "terminated"
    /\ UNCHANGED <<rounds, workRounds, recent, loop, retries, used, landed, before, pressed,
                   workspace, carried>>

LastEvents(events) == IF Len(events) > RepetitionCount THEN Tail(events) ELSE events

RepeatedBy(events, call) ==
    Cardinality({i \in 1 .. Len(events) : events[i] = call}) >= RepetitionCount

(* Mutant: the work phase has no budget of its own.                        *)
TerminalReasonUnbudgeted(call) ==
    IF rounds' >= CatastrophicCap THEN "catastrophic_round_budget_exceeded"
    ELSE IF RepeatedBy(recent', call) THEN "repeated_tool_call"
    ELSE "none"

(* _terminal_reason_after_event                                            *)
TerminalReason(call) ==
    IF rounds' >= CatastrophicCap THEN "catastrophic_round_budget_exceeded"
    ELSE IF workRounds' > WorkBudget THEN "phase_round_budget_exceeded"
    ELSE IF RepeatedBy(recent', call) THEN "repeated_tool_call"
    ELSE "none"

(* Mutant: the message is sent from the threshold on.                      *)
NearBudgetOnward == workRounds' >= WorkBudget - SoftHeadroom

NearBudget == workRounds' = WorkBudget - SoftHeadroom

(* record_tool_event, and what the loop makes of it.                       *)
ToolCall ==
    /\ pc = "tools"
    /\ rounds' = rounds + 1 /\ workRounds' = workRounds + 1
    /\ \E call \in Calls, succeeds \in BOOLEAN :
          LET wrote == Wrote(call, succeeds)
              reason == TerminalReason(call)
          IN  /\ recent' = LastEvents(Append(recent, call))
              /\ landed' = landed \cup wrote
              /\ loop' = [loop EXCEPT !.calls = @ - 1, !.written = @ \cup wrote]
              /\ \/ /\ reason # "none"
                    /\ Finish(IF reason = "repeated_tool_call" THEN "failed" ELSE "timed_out",
                              reason)
                    /\ pc' = "terminated"
                    /\ UNCHANGED pressed
                 \/ /\ reason = "none"
                    /\ pressed' = IF NearBudget THEN pressed + 1 ELSE pressed
                    /\ pc' = IF loop.calls = 1 THEN "llm" ELSE "tools"
                    /\ UNCHANGED attempt
    /\ UNCHANGED <<retries, used, before, workspace, carried>>

-----------------------------------------------------------------------------
(* _aspect_feedback_retry_loop                                             *)

(* The aspects pass, the probe raises, or the retries are spent.           *)
ProbeDone ==
    /\ pc = "probe"
    /\ pc' = "converged"
    /\ UNCHANGED <<row, loop, retries, used, landed, before, pressed, workspace, carried>>

Failing == pc = "probe" /\ retries < MaxAspectRetries

HasRoom == WorkBudget - workRounds >= RetryFloor

(* Mutant: the attempt is given a status no RunAttempt has.                *)
ProbeGiveUpExhausted ==
    /\ Failing /\ ~HasRoom
    /\ Finish("exhausted", "aspect_retry_budget_exhausted")
    /\ pc' = "terminated"
    /\ UNCHANGED <<rounds, workRounds, recent, loop, retries, used, landed, before, pressed,
                   workspace, carried>>

ProbeGiveUp ==
    /\ Failing /\ ~HasRoom
    /\ Finish("timed_out", "aspect_retry_budget_exhausted")
    /\ pc' = "terminated"
    /\ UNCHANGED <<rounds, workRounds, recent, loop, retries, used, landed, before, pressed,
                   workspace, carried>>

Reenter(written) ==
    /\ Failing /\ HasRoom
    /\ loop' = Pass(RetryIterations, written)
    /\ pc' = "llm"
    /\ UNCHANGED <<row, used, landed, before, pressed, workspace, carried>>

(* Mutant: the retry starts without the files written so far.              *)
ProbeRetryEmpty == Reenter({}) /\ retries' = retries + 1

(* Mutant: retries are not counted.                                        *)
ProbeRetryUncounted == Reenter(loop.written) /\ UNCHANGED retries

ProbeRetry == Reenter(loop.written) /\ retries' = retries + 1

-----------------------------------------------------------------------------
(* The end of _execute_one_attempt, and the continuation loop around it.   *)

Verify ==
    /\ pc = "converged"
    /\ Advance("verify")
    /\ pc' = "verified"
    /\ UNCHANGED <<rounds, workRounds, recent, loop, retries, used, landed, before, pressed,
                   workspace, carried>>

Summarize ==
    /\ pc = "verified"
    /\ Advance("summarize")
    /\ pc' = "summarized"
    /\ UNCHANGED <<rounds, workRounds, recent, loop, retries, used, landed, before, pressed,
                   workspace, carried>>

Complete ==
    /\ pc = "summarized"
    /\ Finish("completed", "summarized")
    /\ pc' = "deliver"
    /\ UNCHANGED <<rounds, workRounds, recent, loop, retries, used, landed, before, pressed,
                   workspace, carried>>

Exhaustion == attempt.reason \in BudgetReasons

(* Mutant: one continuation too many.                                      *)
CanContinueOnceMore == used <= MaxContinuations

CanContinue == used < MaxContinuations

(* The handoff record falls back to a minimal one, so a checkpoint always  *)
(* continues.                                                              *)
Handoff ==
    /\ pc = "terminated" /\ Exhaustion /\ CanContinue
    /\ used' = used + 1
    /\ pc' = "create"
    /\ UNCHANGED <<row, loop, retries, landed, before, pressed, workspace, carried>>

(* The Deliverable of converged work, or of what an attempt had written    *)
(* when it was terminated.                                                 *)
Deliver ==
    /\ \/ pc = "deliver"
       \/ pc = "terminated" /\ ~(Exhaustion /\ CanContinue)
    /\ carried' = loop.written
    /\ pc' = "done"
    /\ UNCHANGED <<row, loop, retries, used, landed, before, pressed, workspace>>

(* An executor error leaves no Deliverable.                                *)
GiveUp ==
    /\ pc = "failed"
    /\ pc' = "done"
    /\ UNCHANGED <<row, loop, retries, used, landed, before, pressed, workspace, carried>>

-----------------------------------------------------------------------------
WorkLoop == ExecutorError \/ ToolTurn \/ PlainTurn \/ IterationCap \/ RefusedCall \/ ToolCall

AspectLoop == ProbeDone \/ ProbeGiveUp \/ ProbeRetry

Ending == Verify \/ Summarize \/ Complete \/ Handoff \/ Deliver \/ GiveUp

Next == CreateRunAttempt \/ AdvanceToWork \/ WorkLoop \/ AspectLoop \/ Ending

Spec == Init /\ [][Next]_vars

(* One coroutine; an LLM call, a tool and a probe return or raise.         *)
FairSpec == Spec /\ WF_vars(Next)

-----------------------------------------------------------------------------
PCs == {"create", "start", "llm", "tools", "probe", "converged", "verified", "summarized",
        "deliver", "terminated", "failed", "done"}

(* The row holds statuses and phases of core/domain.py, the counters are   *)
(* natural numbers, the lists hold files.                                  *)
TypeOK ==
    /\ attempt \in [phase : {"prepare", "work", "verify", "summarize", "terminal"},
                    status : RunAttemptStatuses,
                    reason : {"none"} \cup BudgetReasons \cup OtherReasons]
    /\ rounds \in Nat /\ workRounds \in Nat
    /\ recent \in Seq(Calls)
    /\ pc \in PCs
    /\ loop \in [turn : Nat, cap : Nat, nudges : Nat, calls : Nat, written : SUBSET Files]
    /\ retries \in Nat /\ used \in Nat /\ pressed \in Nat
    /\ landed \subseteq Files /\ before \subseteq Files /\ carried \subseteq Files
    /\ workspace \in BOOLEAN

(* The work budget is the cap that ends a first pass: the catastrophic cap *)
(* never does, and the cap on turns only in an aspect retry, whose own cap *)
(* is smaller.                                                             *)
BudgetIsTheSignal ==
    /\ attempt.reason # "catastrophic_round_budget_exceeded"
    /\ attempt.reason = "work_loop_iteration_cap" => retries > 0

(* The model is told that its budget nearly is exhausted at most once per  *)
(* attempt, retries included, and always before the budget cuts it off.    *)
BudgetEndIsAnnounced ==
    /\ pressed <= 1
    /\ attempt.reason = "phase_round_budget_exceeded" => pressed = 1

(* Written work is not dropped: unless the executor failed, the Deliverable*)
(* a dispatch ends with names every file its last attempt wrote, through   *)
(* aspect retries and whatever ended the attempt.                          *)
WorkIsKept == pc = "done" /\ attempt.reason # "executor_error" => carried = landed

(* The Deliverable of a dispatch that converged names every file the       *)
(* dispatch wrote, also those of the attempts it continued from.           *)
DeliverableIsWhole ==
    pc = "done" /\ attempt.reason = "summarized" => carried = landed \cup before

(* How the attempt that has just been closed is taken further.             *)
Outcome ==
    IF pc \in {"deliver", "failed", "terminated", "done"} THEN
        IF attempt.reason = "summarized" THEN "converged"
        ELSE IF ~Exhaustion THEN "failed"
        ELSE IF pc = "terminated" /\ CanContinue THEN "none"
        ELSE "exhausted"
    ELSE "none"

Dispatch ==
    INSTANCE DispatchContract WITH
        open <- Running, outcome <- Outcome,
        used <- IF pc = "terminated" /\ Exhaustion /\ CanContinue THEN used + 1 ELSE used

(* A dispatch opens one attempt at a time, closes each, continues at most  *)
(* MaxContinuations times and is exhausted only then.                      *)
ImplementsDispatch == Dispatch!Spec

(* Whatever the model answers, a dispatch ends.                            *)
DispatchEnds == Dispatch!Ends
=============================================================================
