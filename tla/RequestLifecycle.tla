-------------------------- MODULE RequestLifecycle --------------------------
(***************************************************************************)
(* One Request from the founder's Direction to `shipped`: its row, its     *)
(* WorkSteps, RunAttempts, Deliverables and Decisions, the two Redis       *)
(* streams between the API, the RequestWorker and the VerifierWorker, and  *)
(* the reaper that runs when a process starts.                             *)
(*                                                                         *)
(* Variables without a process are committed rows: a step of a process is  *)
(* what it does between two commits.  A SQLAlchemy session keeps the       *)
(* attributes of every row it still refers to (expire_on_commit=False, no  *)
(* populate_existing): `view` is that identity map, a guard reads it, and  *)
(* an UPDATE writes the row whatever the row holds by then.  `verdict` is  *)
(* a proof_state flushed and not yet committed; it holds the row's lock.   *)
(*                                                                         *)
(* A second Request shares only the workers with this one, and they take   *)
(* one message at a time, so it is left out.                               *)
(***************************************************************************)
EXTENDS BSNexusDomain, FiniteSets

CONSTANTS
    MaxSteps,           \* longest plan the decomposer returns
    MaxContinuations,   \* MAX_BUDGET_CONTINUATIONS
    Outcomes,           \* how a RunAttempt may end: converged, exhausted, failed
    Handlers,           \* API calls that can be in flight at the same time
    MayBeUnconfigured,  \* whether the tenant may start without an ExecutorConfig
    EagerFounder,       \* whether a Decision may be answered before its Request waits
    MaxResolves,        \* bound: open Decisions the founder resolves
    MaxReresolves,      \* bound: resolve calls for a Decision already resolved
    MaxVerifies,        \* bound: POST /deliverables/{id}/verify calls
    MaxPosts,           \* bound: POST /deliverables calls
    MaxCrashes,         \* bound: process deaths (or stops, which cancel the workers)
    MaxFaults           \* bound: Redis or verifier calls that raise

ASSUME StepsAssumption == MaxSteps \in Nat \ {0}
ASSUME ContinuationsAssumption == MaxContinuations \in Nat
ASSUME OutcomesAssumption == Outcomes \subseteq {"converged", "exhausted", "failed"}
ASSUME EnvironmentAssumption == MayBeUnconfigured \in BOOLEAN /\ EagerFounder \in BOOLEAN
ASSUME BoundsAssumption ==
    {MaxResolves, MaxReresolves, MaxVerifies, MaxPosts, MaxCrashes, MaxFaults} \subseteq Nat

VARIABLES
    request,        \* Request.status, "absent" before the Direction is ingested
    step,           \* WorkStep.status by position, "absent" when not in the plan
    running,        \* by step: RunAttempt rows whose status is running
    deliverables,   \* by step: proof_state of its Deliverables, oldest first
    openDecisions,  \* by step: Decisions with resolved_at NULL
    closedDecisions,\* by step: resolved Decisions
    configured,     \* the tenant has an ExecutorConfig
    requestQueue,   \* undelivered entries of request:queue
    proofQueue,     \* undelivered entries of proof:queue
    mode,           \* the backend process
    session,        \* the workers' and the reaper's control state and session
    handler,        \* the API handlers' control state
    left            \* what is left of each bound

decisions == <<openDecisions, closedDecisions>>
queues == <<requestQueue, proofQueue>>

vars == <<request, step, running, deliverables, openDecisions, closedDecisions, configured,
          requestQueue, proofQueue, mode, session, handler, left>>

Steps == 1 .. MaxSteps
Sessions == {"worker", "verifier", "reaper"}
Stuck == {"failed", "needs_decision"}
(* Mutant: a parked step counts as work in flight.                         *)
TerminalButParked == {"review_ready", "failed", "skipped"}

Terminal == {"review_ready", "failed", "skipped", "needs_decision"}

PlanSteps == {s \in Steps : step[s] # "absent"}

IdleSession ==
    [pc |-> "idle", kind |-> "none", step |-> 1, nth |-> 0, cont |-> 0,
     view |-> [s \in Steps |-> "unread"], missing |-> {}, verdict |-> "none"]

IdleHandler == [pc |-> "idle", step |-> 1, nth |-> 0]

At(p, pc) == session[p].pc = pc

Become(p, new) == session' = [session EXCEPT ![p] = new]

Goto(p, pc) == Become(p, [session[p] EXCEPT !.pc = pc])

(* Leaving the session's context: whatever it flushed is rolled back.      *)
Close(p) == Become(p, IdleSession)

Up == mode = "up"

Spend(bound) ==
    /\ left[bound] > 0
    /\ left' = [left EXCEPT ![bound] = @ - 1]

Latest(ds) == ds[Len(ds)]

LatestVerified(ds) == Latest(ds) = "verified"

(* The Deliverable rows once p's flushed proof_state is committed.         *)
Flushed(p) ==
    LET self == session[p]
    IN  IF self.verdict = "none"
        THEN deliverables
        ELSE [deliverables EXCEPT ![self.step][self.nth] = self.verdict]

Locked(s, n) ==
    \E p \in Sessions :
        session[p].verdict # "none" /\ session[p].step = s /\ session[p].nth = n

Init ==
    /\ request = "absent"
    /\ step = [s \in Steps |-> "absent"]
    /\ running = [s \in Steps |-> 0]
    /\ deliverables = [s \in Steps |-> <<>>]
    /\ openDecisions = [s \in Steps |-> 0]
    /\ closedDecisions = [s \in Steps |-> 0]
    /\ configured \in (IF MayBeUnconfigured THEN BOOLEAN ELSE {TRUE})
    /\ requestQueue = <<>>
    /\ proofQueue = <<>>
    /\ mode = "up"
    /\ session = [p \in Sessions |-> IdleSession]
    /\ handler = [h \in Handlers |-> IdleHandler]
    /\ left = [resolve |-> MaxResolves, reresolve |-> MaxReresolves, verify |-> MaxVerifies,
               post |-> MaxPosts, crash |-> MaxCrashes, fault |-> MaxFaults]

-----------------------------------------------------------------------------
(* The API: api/directions.py, api/decisions.py, api/deliverables.py and   *)
(* the tenant's executor configuration.                                    *)

HandlerGoto(h, pc) == handler' = [handler EXCEPT ![h].pc = pc]

(* The Request row is committed before anything is enqueued.               *)
PostDirection(h) ==
    /\ Up /\ handler[h].pc = "idle"
    /\ request = "absent"
    /\ request' = "open"
    /\ HandlerGoto(h, "enqueueRequest")
    /\ UNCHANGED <<step, running, deliverables, decisions, configured,
                   queues, mode, session, left>>

(* A publish that raises answers 500 and leaves the committed rows behind. *)
EnqueueRequest(h) ==
    /\ Up /\ handler[h].pc = "enqueueRequest"
    /\ \/ /\ requestQueue' = Append(requestQueue, [kind |-> "plan", step |-> 1])
          /\ UNCHANGED left
       \/ /\ Spend("fault")
          /\ UNCHANGED requestQueue
    /\ handler' = [handler EXCEPT ![h] = IdleHandler]
    /\ UNCHANGED <<request, step, running, deliverables, decisions,
                   configured, proofQueue, mode, session>>

(* resolve_decision commits the resolution without looking at resolved_at  *)
(* or at the Request.                                                      *)
ResolveDecision(h, s) ==
    /\ Up /\ handler[h].pc = "idle"
    /\ EagerFounder \/ request = "needs_decision"
    /\ \/ /\ openDecisions[s] > 0
          /\ openDecisions' = [openDecisions EXCEPT ![s] = @ - 1]
          /\ closedDecisions' = [closedDecisions EXCEPT ![s] = @ + 1]
          /\ Spend("resolve")
       \/ /\ closedDecisions[s] > 0
          /\ Spend("reresolve")
          /\ UNCHANGED <<openDecisions, closedDecisions>>
    /\ handler' = [handler EXCEPT ![h] = [pc |-> "reEngage", step |-> s, nth |-> 0]]
    /\ UNCHANGED <<request, step, running, deliverables, configured, queues, mode, session>>

(* re_engage_request reads the Request and gives up unless it waits.       *)
ReEngageRead(h) ==
    /\ Up /\ handler[h].pc = "reEngage"
    /\ IF request = "needs_decision"
       THEN HandlerGoto(h, "reEngageRequest")
       ELSE handler' = [handler EXCEPT ![h] = IdleHandler]
    /\ UNCHANGED <<request, step, running, deliverables, decisions,
                   configured, queues, mode, session, left>>

ReEngageRequest(h) ==
    /\ Up /\ handler[h].pc = "reEngageRequest"
    /\ request' = "running"
    /\ HandlerGoto(h, "reEngageStep")
    /\ UNCHANGED <<step, running, deliverables, decisions, configured,
                   queues, mode, session, left>>

(* Only a stuck step moves: its row is read, then written.                 *)
ReEngageStepRead(h) ==
    /\ Up /\ handler[h].pc = "reEngageStep"
    /\ HandlerGoto(h, IF step[handler[h].step] \in Stuck THEN "reEngageMove"
                      ELSE "publishReEngage")
    /\ UNCHANGED <<request, step, running, deliverables, decisions, configured, queues, mode,
                   session, left>>

ReEngageStep(h) ==
    /\ Up /\ handler[h].pc = "reEngageMove"
    /\ step' = [step EXCEPT ![handler[h].step] = "running"]
    /\ HandlerGoto(h, "publishReEngage")
    /\ UNCHANGED <<request, running, deliverables, decisions, configured, queues, mode,
                   session, left>>

PublishReEngage(h) ==
    /\ Up /\ handler[h].pc = "publishReEngage"
    /\ \/ /\ requestQueue' =
                 Append(requestQueue, [kind |-> "re_engage", step |-> handler[h].step])
          /\ UNCHANGED left
       \/ /\ Spend("fault")
          /\ UNCHANGED requestQueue
    /\ handler' = [handler EXCEPT ![h] = IdleHandler]
    /\ UNCHANGED <<request, step, running, deliverables, decisions,
                   configured, proofQueue, mode, session>>

(* The manual re-verify stamps `verifying` on any Deliverable, whatever    *)
(* its state; its UPDATE waits for a session that flushed the same row.    *)
VerifyDeliverable(h, s, n) ==
    /\ Up /\ handler[h].pc = "idle"
    /\ n \in 1 .. Len(deliverables[s])
    /\ ~Locked(s, n)
    /\ Spend("verify")
    /\ deliverables' = [deliverables EXCEPT ![s][n] = "verifying"]
    /\ handler' = [handler EXCEPT ![h] = [pc |-> "enqueueProof", step |-> s, nth |-> n]]
    /\ UNCHANGED <<request, step, running, decisions, configured,
                   queues, mode, session>>

EnqueueProof(h) ==
    /\ Up /\ handler[h].pc = "enqueueProof"
    /\ \/ /\ proofQueue' =
                 Append(proofQueue, [step |-> handler[h].step, nth |-> handler[h].nth])
          /\ UNCHANGED left
       \/ /\ Spend("fault")
          /\ UNCHANGED proofQueue
    /\ handler' = [handler EXCEPT ![h] = IdleHandler]
    /\ UNCHANGED <<request, step, running, deliverables, decisions,
                   configured, requestQueue, mode, session>>

(* A client records work output of its own; nothing is enqueued for it.    *)
PostDeliverable(s) ==
    /\ Up /\ s \in PlanSteps
    /\ Spend("post")
    /\ deliverables' = [deliverables EXCEPT ![s] = Append(@, "verification_missing")]
    /\ UNCHANGED <<request, step, running, decisions, configured,
                   queues, mode, session, handler>>

UpsertExecutorConfig ==
    /\ Up /\ ~configured
    /\ configured' = TRUE
    /\ UNCHANGED <<request, step, running, deliverables, openDecisions, closedDecisions,
                   queues, mode, session, handler, left>>

-----------------------------------------------------------------------------
(* The RequestWorker: workers/request_worker.py, the forward half of       *)
(* core/orchestration.py, and dispatch_run_attempt.                        *)

Worker == session["worker"]

WorkerGoto(pc) == Goto("worker", pc)

(* consume() reads ">" only: an entry that is delivered and never          *)
(* acknowledged stays in the PEL, which no code reads again, so delivery   *)
(* removes it for good and an acknowledgement changes nothing here.        *)
ConsumeRequest ==
    /\ Up /\ At("worker", "idle")
    /\ requestQueue # <<>>
    /\ requestQueue' = Tail(requestQueue)
    /\ Become("worker", [IdleSession EXCEPT !.pc = "load", !.kind = Head(requestQueue).kind,
                                            !.step = Head(requestQueue).step])
    /\ UNCHANGED <<request, step, running, deliverables, decisions, configured, proofQueue,
                   mode, handler, left>>

(* A Request that is not `open` is skipped; otherwise one commit creates   *)
(* the plan, its pending steps and the running Request.  Provisioning,     *)
(* cloning or planning may raise first, and then the entry stays unacked.  *)
PlanRequest ==
    /\ Up /\ At("worker", "load") /\ Worker.kind = "plan"
    /\ \/ /\ request # "open"
          /\ Close("worker")
          /\ UNCHANGED <<request, step, left>>
       \/ /\ request = "open"
          /\ Spend("fault")
          /\ Close("worker")
          /\ UNCHANGED <<request, step>>
       \/ /\ request = "open"
          /\ \E n \in (IF configured THEN Steps ELSE {1}) :
                step' = [s \in Steps |-> IF s <= n THEN "pending" ELSE "absent"]
          /\ request' = "running"
          /\ Become("worker", [Worker EXCEPT !.pc = "dispatch", !.view = step'])
          /\ UNCHANGED left
    /\ UNCHANGED <<running, deliverables, decisions, configured, queues, mode, handler>>

(* re_dispatch_decision: a no-op unless the Request is running.  Loading   *)
(* the executor or the workspace may raise, which leaves the entry unacked.*)
ReDispatchDecision ==
    /\ Up /\ At("worker", "load") /\ Worker.kind = "re_engage"
    /\ \/ /\ request # "running"
          /\ Close("worker")
          /\ UNCHANGED left
       \/ /\ request = "running"
          /\ Spend("fault")
          /\ Close("worker")
       \/ /\ request = "running"
          /\ Become("worker", [Worker EXCEPT !.pc = "dispatch", !.view = step])
          /\ UNCHANGED left
    /\ UNCHANGED <<request, step, running, deliverables, decisions, configured, queues, mode,
                   handler>>

(* A RunAttempt row is committed `running` before the WorkStep moves.      *)
CreateRunAttempt ==
    LET s == Worker.step IN
    /\ Up /\ At("worker", "dispatch")
    /\ running' = [running EXCEPT ![s] = @ + 1]
    /\ WorkerGoto(IF configured \/ Worker.cont > 0 THEN "start" ELSE "startUnconfigured")
    /\ UNCHANGED <<request, step, deliverables, decisions, configured, queues, mode, handler,
                   left>>

(* The WorkStep's transition guard is on the session's view.  An illegal   *)
(* one raises out of dispatch_run_attempt: the entry is not acknowledged   *)
(* and the RunAttempt row stays `running`.                                 *)
StartStep ==
    LET s == Worker.step
        seen == Worker.view[s]
        mayStay == At("worker", "start") /\ seen = "running"
    IN  /\ Up
        /\ At("worker", "start") \/ At("worker", "startUnconfigured")
        /\ IF mayStay \/ CanTransitionWorkStep(seen, "running")
           THEN /\ step' = IF mayStay THEN step ELSE [step EXCEPT ![s] = "running"]
                /\ Become("worker", [Worker EXCEPT !.view[s] = "running",
                      !.pc = IF At("worker", "start") THEN "work" ELSE "unconfigured"])
           ELSE /\ Close("worker")
                /\ UNCHANGED step
        /\ UNCHANGED <<request, running, deliverables, decisions, configured, queues, mode,
                       handler, left>>

FinishAttempt == running' = [running EXCEPT ![Worker.step] = @ - 1]

(* The attempt ends: it converged, ran out of budget with a continuation   *)
(* left, ran out of budget at the cap, or failed.                          *)
WorkPhase ==
    /\ Up /\ At("worker", "work")
    /\ FinishAttempt
    /\ \/ /\ "converged" \in Outcomes
          /\ WorkerGoto("deliver")
       \/ /\ "exhausted" \in Outcomes
          /\ IF Worker.cont < MaxContinuations
             THEN Become("worker", [Worker EXCEPT !.pc = "dispatch", !.cont = @ + 1])
             ELSE WorkerGoto("park")
       \/ /\ "failed" \in Outcomes
          /\ WorkerGoto("fail")
    /\ UNCHANGED <<request, step, deliverables, decisions, configured, queues, mode, handler,
                   left>>

FinishUnconfigured ==
    /\ Up /\ At("worker", "unconfigured")
    /\ FinishAttempt
    /\ WorkerGoto("failUnconfigured")
    /\ UNCHANGED <<request, step, deliverables, decisions, configured, queues, mode, handler,
                   left>>

AppendDeliverable(s) ==
    deliverables' = [deliverables EXCEPT ![s] = Append(@, "verification_missing")]

CreateDeliverable ==
    LET s == Worker.step IN
    /\ Up /\ At("worker", "deliver")
    /\ AppendDeliverable(s)
    /\ Become("worker", [Worker EXCEPT !.pc = "markVerifying", !.nth = Len(deliverables[s]) + 1])
    /\ UNCHANGED <<request, step, running, decisions, configured, queues, mode, handler, left>>

(* transition_work_step out of `running`, which the session's view holds.  *)
MoveStep(target, pc) ==
    /\ step' = [step EXCEPT ![Worker.step] = target]
    /\ Become("worker", [Worker EXCEPT !.view[Worker.step] = target, !.pc = pc])

MarkVerifying ==
    /\ Up /\ At("worker", "markVerifying")
    /\ MoveStep("verifying", "publishProof")
    /\ UNCHANGED <<request, running, deliverables, decisions, configured, queues, mode, handler,
                   left>>

(* Mutant: a publish that is retried after it got through.                 *)
PublishProofTwice ==
    LET message == [step |-> Worker.step, nth |-> Worker.nth] IN
    /\ Up /\ At("worker", "publishProof")
    /\ proofQueue' = proofQueue \o <<message, message>>
    /\ WorkerGoto("next")
    /\ UNCHANGED <<request, step, running, deliverables, decisions, configured, requestQueue,
                   mode, handler, left>>

(* The proof message.  A publish that raises leaves dispatch_run_attempt.  *)
PublishProof ==
    /\ Up /\ At("worker", "publishProof")
    /\ \/ /\ proofQueue' = Append(proofQueue, [step |-> Worker.step, nth |-> Worker.nth])
          /\ WorkerGoto("next")
          /\ UNCHANGED left
       \/ /\ Spend("fault")
          /\ Close("worker")
          /\ UNCHANGED proofQueue
    /\ UNCHANGED <<request, step, running, deliverables, decisions, configured, requestQueue,
                   mode, handler>>

ParkStep ==
    /\ Up /\ At("worker", "park")
    /\ MoveStep("needs_decision", "raise")
    /\ UNCHANGED <<request, running, deliverables, decisions, configured, queues, mode, handler,
                   left>>

FailStep ==
    /\ Up
    /\ \/ At("worker", "fail") /\ MoveStep("failed", "surface")
       \/ At("worker", "failUnconfigured") /\ MoveStep("failed", "next")
    /\ UNCHANGED <<request, running, deliverables, decisions, configured, queues, mode, handler,
                   left>>

(* The continuation cap's Decision is flushed, and committed with the      *)
(* partial Deliverable when files were written, on its own otherwise.  A   *)
(* failed step has only the partial Deliverable to record.                 *)
SurfacePartial ==
    LET s == Worker.step IN
    /\ Up
    /\ At("worker", "raise") \/ At("worker", "surface")
    /\ IF At("worker", "raise")
       THEN openDecisions' = [openDecisions EXCEPT ![s] = @ + 1]
       ELSE UNCHANGED openDecisions
    /\ \/ /\ WorkerGoto("next")
          /\ UNCHANGED deliverables
       \/ /\ AppendDeliverable(s)
          /\ Become("worker", [Worker EXCEPT !.pc = "diagnose", !.nth = Len(deliverables[s]) + 1])
    /\ UNCHANGED <<request, step, running, closedDecisions, configured, queues, mode, handler,
                   left>>

(* The partial Deliverable's aspects run for diagnosis: `verified` is      *)
(* demoted, and a crash of the verifier leaves the `verifying` it flushed. *)
(* The flush waits for a session that holds the row.                       *)
DiagnosePartial ==
    /\ Up /\ At("worker", "diagnose")
    /\ ~Locked(Worker.step, Worker.nth)
    /\ \/ \E verdict \in {"verification_failed", "human_review_required"} :
             Become("worker", [Worker EXCEPT !.pc = "next", !.verdict = verdict])
          /\ UNCHANGED left
       \/ /\ Spend("fault")
          /\ Become("worker", [Worker EXCEPT !.pc = "next", !.verdict = "verifying"])
    /\ UNCHANGED <<request, step, running, deliverables, decisions, configured, queues, mode,
                   handler>>

(* The caller's commit, then the plan's next step or the finalization.     *)
NextStep ==
    LET s == Worker.step
        more == Worker.kind = "plan" /\ s + 1 \in Steps /\ Worker.view[s + 1] # "absent"
    IN  /\ Up /\ At("worker", "next")
        /\ deliverables' = Flushed("worker")
        /\ Become("worker", [Worker EXCEPT !.verdict = "none", !.nth = 0, !.cont = 0,
                                           !.pc = IF more THEN "dispatch" ELSE "finalize",
                                           !.step = IF more THEN s + 1 ELSE s])
        /\ UNCHANGED <<request, step, running, decisions, configured, queues, mode, handler,
                       left>>

-----------------------------------------------------------------------------
(* The VerifierWorker: workers/verifier.py and advance_request_after_proof *)

Verifier == session["verifier"]

ConsumeProof ==
    /\ Up /\ At("verifier", "idle")
    /\ proofQueue # <<>>
    /\ proofQueue' = Tail(proofQueue)
    /\ Become("verifier", [IdleSession EXCEPT !.pc = "verify", !.step = Head(proofQueue).step,
                                              !.nth = Head(proofQueue).nth])
    /\ UNCHANGED <<request, step, running, deliverables, decisions, configured, requestQueue,
                   mode, handler, left>>

(* Mutant: the roll-up runs before every aspect has finished.              *)
RunVerificationUndrained ==
    /\ Up /\ At("verifier", "verify")
    /\ \E verdict \in {"verified", "verification_failed", "verifying"} :
          Become("verifier", [Verifier EXCEPT !.pc = "advance", !.verdict = verdict])
    /\ UNCHANGED <<request, step, running, deliverables, decisions, configured, queues, mode,
                   handler, left>>

(* run_verification only flushes its verdict.  An exception that leaves    *)
(* process_one (anything but a CommitOpError) closes the session.          *)
RunVerification ==
    /\ Up /\ At("verifier", "verify")
    /\ ~Locked(Verifier.step, Verifier.nth)
    /\ \/ /\ \E verdict \in {"verified", "verification_failed", "human_review_required"} :
                Become("verifier", [Verifier EXCEPT !.pc = "advance", !.verdict = verdict])
          /\ UNCHANGED left
       \/ /\ Spend("fault")
          /\ Close("verifier")
    /\ UNCHANGED <<request, step, running, deliverables, decisions, configured, queues, mode,
                   handler>>

(* Mutant: only `verified` and `verification_failed` move the step.        *)
AdvanceReadWithoutReview ==
    LET s == Verifier.step
        moves == step[s] = "verifying" /\ Verifier.verdict # "human_review_required"
    IN  /\ Up /\ At("verifier", "advance")
        /\ Become("verifier", [Verifier EXCEPT !.view[s] = step[s],
                                               !.pc = IF moves THEN "move" ELSE "finalize"])
        /\ UNCHANGED <<request, step, running, deliverables, decisions, configured, queues, mode,
                       handler, left>>

(* Mutant: a verdict moves its step whatever the step's status.            *)
AdvanceReadUnguarded ==
    /\ Up /\ At("verifier", "advance")
    /\ Goto("verifier", "move")
    /\ UNCHANGED <<request, step, running, deliverables, decisions, configured, queues, mode,
                   handler, left>>

(* Only a step that is read `verifying` moves, and only that commits.      *)
AdvanceRead ==
    LET s == Verifier.step IN
    /\ Up /\ At("verifier", "advance")
    /\ Become("verifier", [Verifier EXCEPT
          !.view[s] = step[s], !.pc = IF step[s] = "verifying" THEN "move" ELSE "finalize"])
    /\ UNCHANGED <<request, step, running, deliverables, decisions, configured, queues, mode,
                   handler, left>>

AdvanceTo(target) ==
    LET s == Verifier.step IN
    /\ Up /\ At("verifier", "move")
    /\ step' = [step EXCEPT ![s] = target]
    /\ deliverables' = Flushed("verifier")
    /\ Become("verifier", [Verifier EXCEPT !.view[s] = target, !.verdict = "none",
                                           !.pc = "finalize"])
    /\ UNCHANGED <<request, running, decisions, configured, queues, mode, handler, left>>

(* Mutant: the step is given the Deliverable's proof_state.                *)
AdvanceStepToVerdict == AdvanceTo(Verifier.verdict)

(* Mutant: a Deliverable that awaits human review advances its step.       *)
AdvanceStepUnlessFailed ==
    AdvanceTo(IF Verifier.verdict = "verification_failed" THEN "failed" ELSE "review_ready")

AdvanceStep == AdvanceTo(IF Verifier.verdict = "verified" THEN "review_ready" ELSE "failed")

-----------------------------------------------------------------------------
(* _maybe_finalize_request, run by the RequestWorker after its dispatches, *)
(* by the VerifierWorker after a verdict and by the reaper.                *)

(* Mutant: the finalization does not look at the Request's status.         *)
RequestSeenRunning(p) == "running"

(* The worker holds the Request it put, or found, at `running`; the others *)
(* load it here.                                                           *)
RequestSeen(p) == IF p = "worker" THEN "running" ELSE request

(* Mutant: a step that has not started is not counted.                     *)
StepsSeenStarted(p) ==
    [s \in Steps |-> IF step[s] = "pending" THEN "absent" ELSE step[s]]

(* A row the session already holds keeps the attributes it was loaded with.*)
StepsSeen(p) ==
    [s \in Steps |-> IF session[p].view[s] = "unread" THEN step[s] ELSE session[p].view[s]]

FinalizeRead(p) ==
    LET seen == StepsSeen(p)
        plan == {s \in Steps : seen[s] # "absent"}
        settled == RequestSeen(p) = "running" /\ \A s \in plan : seen[s] \in Terminal
        allReady == \A s \in plan : seen[s] = "review_ready"
    IN  /\ mode # "down" /\ At(p, "finalize")
        /\ Become(p, [session[p] EXCEPT
              !.view = seen,
              !.pc = IF settled /\ \E s \in plan : seen[s] \in Stuck THEN "stuck"
                     ELSE IF settled /\ allReady THEN "ready" ELSE "done"])
        /\ UNCHANGED <<request, step, running, deliverables, decisions, configured, queues,
                       mode, handler, left>>

Asking(p, missing) ==
    /\ mode # "down" /\ At(p, "stuck")
    /\ Become(p, [session[p] EXCEPT !.missing = missing, !.pc = "decide"])
    /\ UNCHANGED <<request, step, running, deliverables, decisions, configured, queues, mode,
                   handler, left>>

(* Mutant: every stuck step is taken to have the Decision of the cap.      *)
FinalizeStuckAsked(p) == Asking(p, {})

(* Mutant: every stuck step is asked about again.                          *)
FinalizeStuckAgain(p) == Asking(p, {s \in Steps : session[p].view[s] \in Stuck})

(* Which stuck steps have no open Decision is a second query.              *)
FinalizeStuck(p) ==
    Asking(p, {s \in Steps : session[p].view[s] \in Stuck /\ openDecisions[s] = 0})

(* The missing Decisions and the Request's transition are one commit.      *)
FinalizeDecide(p) ==
    /\ mode # "down" /\ At(p, "decide")
    /\ openDecisions' = [s \in Steps |->
           openDecisions[s] + (IF s \in session[p].missing THEN 1 ELSE 0)]
    /\ request' = "needs_decision"
    /\ deliverables' = Flushed(p)
    /\ Become(p, [session[p] EXCEPT !.pc = "done", !.verdict = "none"])
    /\ UNCHANGED <<step, running, closedDecisions, configured, queues, mode, handler, left>>

FinalizeReady(p) ==
    /\ mode # "down" /\ At(p, "ready")
    /\ request' = "review_ready"
    /\ deliverables' = Flushed(p)
    /\ Become(p, [session[p] EXCEPT !.pc = "gate", !.verdict = "none"])
    /\ UNCHANGED <<step, running, decisions, configured, queues, mode, handler, left>>

(* _request_has_verified_deliverable_proof: the latest Deliverable of each *)
(* WorkStep that has one, and at least one.                                *)
HasVerifiedProof ==
    LET delivered == {s \in Steps : deliverables[s] # <<>>}
    IN  delivered # {} /\ \A s \in delivered : LatestVerified(deliverables[s])

(* A gate that fails raises, and the callers log it.                       *)
ShipGate(p) ==
    /\ mode # "down" /\ At(p, "gate")
    /\ Goto(p, IF HasVerifiedProof THEN "ship" ELSE "done")
    /\ UNCHANGED <<request, step, running, deliverables, decisions, configured, queues, mode,
                   handler, left>>

FinalizeShip(p) ==
    /\ mode # "down" /\ At(p, "ship")
    /\ request' = "shipped"
    /\ Goto(p, "done")
    /\ UNCHANGED <<step, running, deliverables, decisions, configured, queues, mode, handler,
                   left>>

(* The message is acknowledged, or the reaper goes on to its next row; a   *)
(* flushed verdict that nothing committed is rolled back.                  *)
CloseSession(p) ==
    /\ mode # "down" /\ At(p, "done")
    /\ Close(p)
    /\ UNCHANGED <<request, step, running, deliverables, decisions, configured, queues, mode,
                   handler, left>>

-----------------------------------------------------------------------------
(* Process death, and reap_orphaned_run_attempts at the next start, before *)
(* the workers and the API run.                                            *)

Reaping == mode = "reaping"

Crash ==
    /\ mode # "down"
    /\ Spend("crash")
    /\ mode' = "down"
    /\ session' = [p \in Sessions |-> IdleSession]
    /\ handler' = [h \in Handlers |-> IdleHandler]
    /\ UNCHANGED <<request, step, running, deliverables, decisions, configured, queues>>

Restart ==
    /\ mode = "down"
    /\ mode' = "reaping"
    /\ UNCHANGED <<request, step, running, deliverables, decisions, configured, queues, session,
                   handler, left>>

ReapAttempt(s) ==
    /\ Reaping /\ At("reaper", "idle")
    /\ running[s] > 0
    /\ running' = [running EXCEPT ![s] = @ - 1]
    /\ Become("reaper", [session["reaper"] EXCEPT !.pc = "reapStep", !.step = s])
    /\ UNCHANGED <<request, step, deliverables, decisions, configured, queues, mode, handler,
                   left>>

ReapStepTo(target, from) ==
    LET s == session["reaper"].step IN
    /\ Reaping /\ At("reaper", "reapStep")
    /\ step' = IF step[s] \in from THEN [step EXCEPT ![s] = target] ELSE step
    /\ Goto("reaper", "finalize")
    /\ UNCHANGED <<request, running, deliverables, decisions, configured, queues, mode, handler,
                   left>>

(* Mutant: a step in its work phase is left running.                       *)
ReapStepVerifying == ReapStepTo("failed", {"verifying"})

ReapStep == ReapStepTo("failed", {"running", "verifying"})

(* Mutant: the workers start before the sweep has finished.                *)
StartWorkersUnreaped ==
    /\ Reaping /\ At("reaper", "idle")
    /\ mode' = "up"
    /\ UNCHANGED <<request, step, running, deliverables, decisions, configured, queues, session,
                   handler, left>>

StartWorkers ==
    /\ Reaping /\ At("reaper", "idle")
    /\ \A s \in Steps : running[s] = 0
    /\ mode' = "up"
    /\ UNCHANGED <<request, step, running, deliverables, decisions, configured, queues, session,
                   handler, left>>

-----------------------------------------------------------------------------
WorkerNext ==
    \/ ConsumeRequest \/ PlanRequest \/ ReDispatchDecision
    \/ CreateRunAttempt \/ StartStep \/ WorkPhase \/ FinishUnconfigured
    \/ CreateDeliverable \/ MarkVerifying \/ PublishProof
    \/ ParkStep \/ FailStep \/ SurfacePartial \/ DiagnosePartial \/ NextStep

VerifierNext == ConsumeProof \/ RunVerification \/ AdvanceRead \/ AdvanceStep

FinalizeNext(p) ==
    \/ FinalizeRead(p) \/ FinalizeStuck(p) \/ FinalizeDecide(p) \/ FinalizeReady(p)
    \/ ShipGate(p) \/ FinalizeShip(p) \/ CloseSession(p)

(* A handler that has started goes on; the founder's calls are free.       *)
HandlerNext(h) ==
    \/ EnqueueRequest(h) \/ ReEngageRead(h) \/ ReEngageRequest(h) \/ ReEngageStepRead(h)
    \/ ReEngageStep(h) \/ PublishReEngage(h) \/ EnqueueProof(h)

FounderNext ==
    \/ \E h \in Handlers : PostDirection(h)
    \/ \E h \in Handlers, s \in Steps : ResolveDecision(h, s)
    \/ \E h \in Handlers, s \in Steps :
          \E n \in 1 .. Len(deliverables[s]) : VerifyDeliverable(h, s, n)
    \/ \E s \in Steps : PostDeliverable(s)
    \/ UpsertExecutorConfig

ProcessNext ==
    \/ Crash \/ Restart \/ StartWorkers \/ ReapStep
    \/ \E s \in Steps : ReapAttempt(s)

Next ==
    \/ WorkerNext
    \/ VerifierNext
    \/ \E p \in Sessions : FinalizeNext(p)
    \/ \E h \in Handlers : HandlerNext(h)
    \/ FounderNext
    \/ ProcessNext

Spec == Init /\ [][Next]_vars

(* The asyncio loop runs every task that is ready, the process manager     *)
(* starts a dead process again, and a handler runs to its end.  Nothing is *)
(* assumed of the founder or of the outcome of any LLM call.               *)
Fairness ==
    /\ WF_vars(WorkerNext \/ FinalizeNext("worker"))
    /\ WF_vars(VerifierNext \/ FinalizeNext("verifier"))
    /\ WF_vars(FinalizeNext("reaper") \/ ReapStep \/ StartWorkers \/ Restart
               \/ \E s \in Steps : ReapAttempt(s))
    /\ \A h \in Handlers : WF_vars(HandlerNext(h))

FairSpec == Spec /\ Fairness
=============================================================================
