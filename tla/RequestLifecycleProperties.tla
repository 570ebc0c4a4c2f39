--------------------- MODULE RequestLifecycleProperties ---------------------
(***************************************************************************)
(* What the Request lifecycle promises: to the founder (work that ships is *)
(* proven, work that stalls asks), and to itself (status changes stay      *)
(* legal when several sessions write the same rows).                       *)
(***************************************************************************)
EXTENDS RequestLifecycle

SessionPCs ==
    {"idle", "load", "dispatch", "start", "startUnconfigured", "work", "unconfigured",
     "failUnconfigured", "deliver", "markVerifying", "publishProof", "park", "fail", "raise",
     "surface", "diagnose", "next", "verify", "advance", "move", "reapStep", "finalize", "stuck", "decide",
     "ready", "gate", "ship", "done"}

HandlerPCs ==
    {"idle", "enqueueRequest", "reEngage", "reEngageRequest", "reEngageStep",
     "reEngageMove", "publishReEngage", "enqueueProof"}

SessionType ==
    [pc : SessionPCs, kind : {"none", "plan", "re_engage"}, step : Steps, nth : Nat, cont : Nat,
     view : [Steps -> WorkStepStatuses \cup {"absent", "unread"}],
     missing : SUBSET Steps, verdict : ProofStates \cup {"none"}]

Bounds == [resolve : Nat, reresolve : Nat, verify : Nat, post : Nat, crash : Nat, fault : Nat]

(* Every variable holds a value of its kind: rows hold the statuses of     *)
(* core/domain.py, and the counts of running RunAttempts and of Decisions  *)
(* never go below zero.                                                    *)
TypeOK ==
    /\ request \in RequestStatuses \cup {"absent"}
    /\ step \in [Steps -> WorkStepStatuses \cup {"absent"}]
    /\ running \in [Steps -> Nat]
    /\ deliverables \in [Steps -> Seq(ProofStates)]
    /\ openDecisions \in [Steps -> Nat]
    /\ closedDecisions \in [Steps -> Nat]
    /\ configured \in BOOLEAN
    /\ requestQueue \in Seq([kind : {"plan", "re_engage"}, step : Steps])
    /\ proofQueue \in Seq([step : Steps, nth : Nat])
    /\ mode \in {"up", "down", "reaping"}
    /\ session \in [Sessions -> SessionType]
    /\ handler \in [Handlers -> [pc : HandlerPCs, step : Steps, nth : Nat]]
    /\ left \in Bounds

-----------------------------------------------------------------------------
(* The RequestWorker drives a RunAttempt that is `running`, and no attempt *)
(* outlives the process unless the reaper is on its way.                   *)
AttemptPCs == {"start", "startUnconfigured", "work", "unconfigured"}

AttemptIsOpen == Worker.pc \in AttemptPCs => running[Worker.step] > 0

IdleUnlessUp == ~Up => At("worker", "idle")

(* The Deliverables a proof message, the verifier or the worker's own      *)
(* diagnosis is to give its verdict to.                                    *)
Queued == {<<proofQueue[i].step, proofQueue[i].nth>> : i \in 1 .. Len(proofQueue)}

RowOf(p) == <<session[p].step, session[p].nth>>

HoldingPCs == {"markVerifying", "publishProof", "diagnose", "verify", "advance", "move"}

Holds(p) ==
    \/ session[p].verdict # "none"
    \/ session[p].pc \in HoldingPCs

Untouched(row) ==
    /\ row[2] \in 1 .. Len(deliverables[row[1]])
    /\ deliverables[row[1]][row[2]] = "verification_missing"

(* One verdict per Deliverable is under way: its row waits, untouched, in  *)
(* one place.                                                              *)
VerdictsAreApart ==
    /\ \A i, j \in 1 .. Len(proofQueue) : proofQueue[i] = proofQueue[j] => i = j
    /\ \A row \in Queued : Untouched(row)
    /\ \A p \in Sessions : Holds(p) => RowOf(p) \notin Queued /\ Untouched(RowOf(p))
    /\ \A p, q \in Sessions : Holds(p) /\ Holds(q) /\ RowOf(p) = RowOf(q) => p = q

NobodyReverifies == left.verify = 0 /\ \A h \in Handlers : handler[h].pc # "enqueueProof"

(* A verdict is final: while nobody asks for a re-verification, a          *)
(* Deliverable's proof_state is committed once and no session, message or  *)
(* restart changes it again, although no code consults PROOF_TRANSITIONS.  *)
KeepsVerdicts ==
    \A s \in Steps : \A n \in 1 .. Len(deliverables[s]) :
        deliverables[s][n] # "verification_missing" =>
            /\ n \in 1 .. Len(deliverables'[s])
            /\ deliverables'[s][n] = deliverables[s][n]

VerdictIsFinal == [][KeepsVerdicts]_vars

-----------------------------------------------------------------------------
(* The proof contract: while nobody re-stamps or adds a Deliverable by     *)
(* hand, a shipped Request has every WorkStep review_ready and the latest  *)
(* Deliverable of every WorkStep verified, whatever was retried, re-       *)
(* dispatched or interrupted on the way.                                   *)
ShippedIsProven ==
    request = "shipped" =>
        \A s \in PlanSteps : /\ step[s] = "review_ready"
                             /\ deliverables[s] # <<>>
                             /\ LatestVerified(deliverables[s])

(* A row of work_steps only changes along WORK_STEP_TRANSITIONS, although  *)
(* transition_work_step checks the session's copy and not the row.         *)
StepTransitionsLegal ==
    [][\A s \in Steps : step'[s] # step[s] =>
           \/ step[s] = "absent" /\ step'[s] = "pending"
           \/ step[s] # "absent" /\ CanTransitionWorkStep(step[s], step'[s])]_vars

(* The requests row only changes along REQUEST_TRANSITIONS; in particular  *)
(* a shipped Request stays shipped.                                        *)
RequestTransitionsLegal ==
    [][request' # request =>
           \/ request = "absent" /\ request' = "open"
           \/ request # "absent" /\ CanTransitionRequest(request, request')]_vars

(* While the process runs, a RunAttempt that is `running` is the one the   *)
(* RequestWorker is driving: none is left behind a failed step, and no     *)
(* step has two.                                                           *)
NoZombieAttempt ==
    Up => \A s \in Steps :
              running[s] = IF Worker.step = s /\ Worker.pc \in AttemptPCs THEN 1 ELSE 0

BeingResolved(s) == \E h \in Handlers : handler[h].pc # "idle" /\ handler[h].step = s

(* A waiting Request can be unblocked: each of its stuck WorkSteps has an  *)
(* open Decision, or one whose resolution is on its way.                   *)
StuckStepHasDecision ==
    request = "needs_decision" =>
        \A s \in PlanSteps : step[s] \in Stuck => openDecisions[s] > 0 \/ BeingResolved(s)

(* A stuck WorkStep is put to the founder once: neither the continuation   *)
(* cap nor a finalization adds a Decision to a step that has an open one.  *)
OneOpenDecisionPerStep == \A s \in Steps : openDecisions[s] <= 1

ProofMessages(s, n) == Cardinality({i \in 1 .. Len(proofQueue) :
                                        proofQueue[i] = [step |-> s, nth |-> n]})

BeingProven(s, n) ==
    \/ Verifier.pc \in {"verify", "advance", "move"} /\ Verifier.step = s /\ Verifier.nth = n
    \/ Worker.pc = "publishProof" /\ Worker.step = s /\ Worker.nth = n

(* A WorkStep in `verifying` has exactly one verdict coming, and it is the *)
(* verdict on its latest Deliverable: the proof message is about to be     *)
(* published, queued, or being worked on.                                  *)
VerdictInFlight ==
    \A s \in Steps : step[s] = "verifying" =>
        LET n == Len(deliverables[s])
        IN  ProofMessages(s, n) + (IF BeingProven(s, n) THEN 1 ELSE 0) = 1

(* Nothing is left to do: no entry undelivered, no message or call under   *)
(* way.                                                                    *)
Quiet ==
    /\ Up
    /\ requestQueue = <<>> /\ proofQueue = <<>>
    /\ \A p \in Sessions : At(p, "idle")
    /\ \A h \in Handlers : handler[h].pc = "idle"

(* There is no dead-end: when nothing is under way, the Request has        *)
(* shipped or waits for the founder on a Decision that is still open.      *)
NoDeadEnd ==
    Quiet => \/ request \in {"absent", "shipped"}
             \/ request = "needs_decision" /\ \E s \in Steps : openDecisions[s] > 0

(* A verification that was asked for reports back: no Deliverable is left  *)
(* at `verifying` when nothing is under way.                               *)
VerificationReportsBack ==
    Quiet => \A s \in Steps :
                 \A n \in 1 .. Len(deliverables[s]) : deliverables[s][n] # "verifying"

(* What the founder sees of the lifecycle, as RequestContract states it.   *)
Proven ==
    PlanSteps # {} /\ \A s \in PlanSteps : /\ step[s] = "review_ready"
                                          /\ deliverables[s] # <<>>
                                          /\ LatestVerified(deliverables[s])

Contract ==
    INSTANCE RequestContract WITH
        status <- request, proven <- Proven, asked <- \E s \in Steps : openDecisions[s] > 0

(* Every step of the processes, seen through the Request's status, its     *)
(* proof and its open Decisions, is a step of the contract or changes      *)
(* nothing the founder sees.                                               *)
ImplementsContract == Contract!Spec

(* A Request does not sit at `running`: it ships or asks the founder.      *)
RequestSettles == Contract!Settles

(* Work that a dead process was doing is not lost: its WorkStep fails and  *)
(* the founder is asked (reap_orphaned_run_attempts).                      *)
InterruptedWorkAsks ==
    \A s \in Steps :
        (mode = "down" /\ running[s] > 0 /\ step[s] = "running")
            ~> (request = "needs_decision" /\ step[s] = "failed" /\ openDecisions[s] > 0)
=============================================================================
