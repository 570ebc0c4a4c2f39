----------------------- MODULE RequestLifecycleProofs -----------------------
(***************************************************************************)
(* What holds of the Request lifecycle for every plan length, every number *)
(* of continuations, any set of API handlers and any bounds: TypeOK, and,  *)
(* while nobody re-verifies by hand, that one verdict per Deliverable is   *)
(* under way and that a committed verdict is final.  TypeInv and           *)
(* VerdictInv are the inductive invariants; there is one lemma per action  *)
(* and invariant, and lemmas for the moves several actions share.          *)
(***************************************************************************)
EXTENDS RequestLifecycleProperties, SequenceTheorems, TLAPS

(* The fields of a typed session, one by one: what the session of the      *)
(* worker, the verifier or the reaper may hold.                            *)
LEMMA Fields ==
    ASSUME TypeOK, NEW p \in Sessions
    PROVE  /\ session[p] \in SessionType
           /\ session[p].step \in Steps
           /\ session[p].nth \in Nat
           /\ session[p].cont \in Nat
           /\ session[p].missing \subseteq Steps
           /\ session[p].verdict \in ProofStates \cup {"none"}
           /\ session[p].view \in [Steps -> WorkStepStatuses \cup {"absent", "unread"}]
  BY DEF TypeOK, SessionType

(* A session that has been closed is typed.                                *)
LEMMA IdleType == IdleSession \in SessionType
  BY StepsAssumption DEF IdleSession, SessionType, SessionPCs, Steps, WorkStepStatuses, ProofStates

(* An API handler that has returned is typed.                              *)
LEMMA IdleHandlerType == IdleHandler \in [pc : HandlerPCs, step : Steps, nth : Nat]
  BY StepsAssumption DEF IdleHandler, HandlerPCs, Steps

(* Giving a session typed contents keeps the sessions typed.               *)
LEMMA BecomeType ==
    ASSUME TypeOK, NEW p \in Sessions, NEW new \in SessionType, Become(p, new)
    PROVE  session' \in [Sessions -> SessionType]
<1>1. session \in [Sessions -> SessionType]
  BY DEF TypeOK
<1> QED
  BY <1>1 DEF Become

(* Moving a session to its next program point keeps the sessions typed.    *)
LEMMA GotoType ==
    ASSUME TypeOK, NEW p \in Sessions, NEW pc \in SessionPCs, Goto(p, pc)
    PROVE  session' \in [Sessions -> SessionType]
<1>1. [session[p] EXCEPT !.pc = pc] \in SessionType
  BY Fields DEF SessionType
<1> QED
  BY <1>1, BecomeType DEF Goto

(* Leaving a session's context, with whatever it had flushed, keeps the    *)
(* sessions typed.                                                         *)
LEMMA CloseType ==
    ASSUME TypeOK, NEW p \in Sessions, Close(p)
    PROVE  session' \in [Sessions -> SessionType]
  BY IdleType, BecomeType DEF Close

(* Spending from a bound leaves natural numbers.                           *)
LEMMA SpendType ==
    ASSUME TypeOK,
           NEW bound \in {"resolve", "reresolve", "verify", "post", "crash", "fault"},
           Spend(bound)
    PROVE  left' \in Bounds
<1>1. left \in Bounds
  BY DEF TypeOK
<1> QED
  BY <1>1 DEF Spend, Bounds

(* Writing one WorkStep row keeps the rows typed.                          *)
LEMMA PutType ==
    ASSUME TypeOK, NEW s \in Steps, NEW status \in WorkStepStatuses
    PROVE  [step EXCEPT ![s] = status] \in [Steps -> WorkStepStatuses \cup {"absent"}]
  BY DEF TypeOK

(* Committing a flushed proof_state keeps the Deliverable rows typed.      *)
LEMMA FlushedType ==
    ASSUME TypeOK, NEW p \in Sessions
    PROVE  Flushed(p) \in [Steps -> Seq(ProofStates)]
<1> DEFINE s == session[p].step
           n == session[p].nth
           v == session[p].verdict
<1>1. s \in Steps /\ v \in ProofStates \cup {"none"} /\ deliverables \in [Steps -> Seq(ProofStates)]
  BY Fields DEF TypeOK
<1>2. CASE v = "none"
  BY <1>1, <1>2 DEF Flushed
<1>3. CASE v # "none" /\ n \in 1 .. Len(deliverables[s])
  <2>1. [deliverables[s] EXCEPT ![n] = v] \in Seq(ProofStates)
    BY <1>1, <1>3, ExceptSeq
  <2>2. Flushed(p) = [deliverables EXCEPT ![s] = [deliverables[s] EXCEPT ![n] = v]]
    BY <1>3 DEF Flushed
  <2> QED
    BY <1>1, <2>1, <2>2
<1>4. CASE v # "none" /\ n \notin 1 .. Len(deliverables[s])
  <2>1. [deliverables[s] EXCEPT ![n] = v] = deliverables[s]
    BY <1>1, <1>4
  <2>2. Flushed(p) = [deliverables EXCEPT ![s] = [deliverables[s] EXCEPT ![n] = v]]
    BY <1>4 DEF Flushed
  <2> QED
    BY <1>1, <2>1, <2>2
<1> QED
  BY <1>2, <1>3, <1>4

(* Recording a Deliverable keeps the Deliverable rows typed.               *)
LEMMA AppendType ==
    ASSUME TypeOK, NEW s \in Steps, AppendDeliverable(s)
    PROVE  deliverables' \in [Steps -> Seq(ProofStates)]
<1>1. Append(deliverables[s], "verification_missing") \in Seq(ProofStates)
  BY AppendProperties DEF TypeOK, ProofStates
<1> QED
  BY <1>1 DEF TypeOK, AppendDeliverable

(* Moving an API handler to its next program point keeps the handlers      *)
(* typed.                                                                  *)
LEMMA HandlerGotoType ==
    ASSUME TypeOK, NEW h \in Handlers, NEW pc \in HandlerPCs, HandlerGoto(h, pc)
    PROVE  handler' \in [Handlers -> [pc : HandlerPCs, step : Steps, nth : Nat]]
<1>1. handler \in [Handlers -> [pc : HandlerPCs, step : Steps, nth : Nat]]
  BY DEF TypeOK
<1> QED
  BY <1>1 DEF HandlerGoto

(* An API handler that returns keeps the handlers typed.                   *)
LEMMA HandlerCloseType ==
    ASSUME TypeOK, NEW h \in Handlers, handler' = [handler EXCEPT ![h] = IdleHandler]
    PROVE  handler' \in [Handlers -> [pc : HandlerPCs, step : Steps, nth : Nat]]
  BY IdleHandlerType DEF TypeOK

(* XADD to request:queue keeps the stream typed.                           *)
LEMMA RequestQueueType ==
    ASSUME TypeOK, NEW m \in [kind : {"plan", "re_engage"}, step : Steps]
    PROVE  Append(requestQueue, m) \in Seq([kind : {"plan", "re_engage"}, step : Steps])
  BY AppendProperties DEF TypeOK

(* XADD to proof:queue keeps the stream typed.                             *)
LEMMA ProofQueueType ==
    ASSUME TypeOK, NEW m \in [step : Steps, nth : Nat]
    PROVE  Append(proofQueue, m) \in Seq([step : Steps, nth : Nat])
  BY AppendProperties DEF TypeOK

-----------------------------------------------------------------------------
(* Every action keeps TypeOK.                                              *)

(* Ingesting the Direction keeps TypeOK.                                   *)
LEMMA PostDirectionType ==
    ASSUME TypeOK, NEW h \in Handlers, PostDirection(h)
    PROVE  TypeOK'
<1>1. handler' \in [Handlers -> [pc : HandlerPCs, step : Steps, nth : Nat]]
  BY HandlerGotoType DEF PostDirection, HandlerPCs
<1> QED
  BY <1>1 DEF TypeOK, PostDirection, RequestStatuses, queues, decisions

(* Enqueueing the Request, or failing to, keeps TypeOK.                    *)
LEMMA EnqueueRequestType ==
    ASSUME TypeOK, NEW h \in Handlers, EnqueueRequest(h)
    PROVE  TypeOK'
<1>1. handler' \in [Handlers -> [pc : HandlerPCs, step : Steps, nth : Nat]]
  BY HandlerCloseType DEF EnqueueRequest
<1>2. left' \in Bounds
  BY SpendType DEF EnqueueRequest, TypeOK
<1>3. requestQueue' \in Seq([kind : {"plan", "re_engage"}, step : Steps])
  <2>1. [kind |-> "plan", step |-> 1] \in [kind : {"plan", "re_engage"}, step : Steps]
    BY StepsAssumption DEF Steps
  <2> QED
    BY <2>1, RequestQueueType DEF EnqueueRequest, TypeOK
<1> QED
  BY <1>1, <1>2, <1>3 DEF TypeOK, EnqueueRequest, decisions

(* Resolving a Decision keeps TypeOK: only an open one is taken from the   *)
(* open count.                                                             *)
LEMMA ResolveDecisionType ==
    ASSUME TypeOK, NEW h \in Handlers, NEW s \in Steps, ResolveDecision(h, s)
    PROVE  TypeOK'
<1>1. handler' \in [Handlers -> [pc : HandlerPCs, step : Steps, nth : Nat]]
  BY DEF ResolveDecision, TypeOK, HandlerPCs
<1>2. left' \in Bounds
  BY SpendType DEF ResolveDecision
<1>3. openDecisions' \in [Steps -> Nat] /\ closedDecisions' \in [Steps -> Nat]
  <2>1. openDecisions \in [Steps -> Nat] /\ closedDecisions \in [Steps -> Nat]
    BY DEF TypeOK
  <2>2. CASE openDecisions[s] > 0 /\ openDecisions' = [openDecisions EXCEPT ![s] = @ - 1]
             /\ closedDecisions' = [closedDecisions EXCEPT ![s] = @ + 1]
    BY <2>1, <2>2
  <2>3. CASE UNCHANGED <<openDecisions, closedDecisions>>
    BY <2>1, <2>3
  <2> QED
    BY <2>2, <2>3 DEF ResolveDecision
<1> QED
  BY <1>1, <1>2, <1>3 DEF TypeOK, ResolveDecision, queues

(* The status guard of re_engage_request keeps TypeOK.                     *)
LEMMA ReEngageReadType ==
    ASSUME TypeOK, NEW h \in Handlers, ReEngageRead(h)
    PROVE  TypeOK'
<1>1. handler' \in [Handlers -> [pc : HandlerPCs, step : Steps, nth : Nat]]
  BY HandlerGotoType, HandlerCloseType DEF ReEngageRead, HandlerPCs
<1> QED
  BY <1>1 DEF TypeOK, ReEngageRead, queues, decisions

(* Moving the Request back to running keeps TypeOK.                        *)
LEMMA ReEngageRequestType ==
    ASSUME TypeOK, NEW h \in Handlers, ReEngageRequest(h)
    PROVE  TypeOK'
<1>1. handler' \in [Handlers -> [pc : HandlerPCs, step : Steps, nth : Nat]]
  BY HandlerGotoType, HandlerCloseType DEF ReEngageRequest, HandlerPCs
<1> QED
  BY <1>1 DEF TypeOK, ReEngageRequest, RequestStatuses, queues, decisions

(* Reading the stuck WorkStep keeps TypeOK.                                *)
LEMMA ReEngageStepReadType ==
    ASSUME TypeOK, NEW h \in Handlers, ReEngageStepRead(h)
    PROVE  TypeOK'
<1>1. handler' \in [Handlers -> [pc : HandlerPCs, step : Steps, nth : Nat]]
  BY HandlerGotoType, HandlerCloseType DEF ReEngageStepRead, HandlerPCs
<1> QED
  BY <1>1 DEF TypeOK, ReEngageStepRead, queues, decisions

(* Moving the stuck WorkStep back to running keeps TypeOK.                 *)
LEMMA ReEngageStepType ==
    ASSUME TypeOK, NEW h \in Handlers, ReEngageStep(h)
    PROVE  TypeOK'
<1>1. handler' \in [Handlers -> [pc : HandlerPCs, step : Steps, nth : Nat]]
  BY HandlerGotoType DEF ReEngageStep, HandlerPCs
<1>2. step' \in [Steps -> WorkStepStatuses \cup {"absent"}]
  <2>1. handler[h].step \in Steps /\ "running" \in WorkStepStatuses
    BY DEF TypeOK, WorkStepStatuses
  <2> QED
    BY <2>1, PutType DEF ReEngageStep
<1> QED
  BY <1>1, <1>2 DEF TypeOK, ReEngageStep, queues, decisions

(* Enqueueing the re-engagement, or failing to, keeps TypeOK.              *)
LEMMA PublishReEngageType ==
    ASSUME TypeOK, NEW h \in Handlers, PublishReEngage(h)
    PROVE  TypeOK'
<1>1. handler' \in [Handlers -> [pc : HandlerPCs, step : Steps, nth : Nat]]
  BY HandlerCloseType DEF PublishReEngage
<1>2. left' \in Bounds
  BY SpendType DEF PublishReEngage, TypeOK
<1>3. requestQueue' \in Seq([kind : {"plan", "re_engage"}, step : Steps])
  <2>1. [kind |-> "re_engage", step |-> handler[h].step]
            \in [kind : {"plan", "re_engage"}, step : Steps]
    BY DEF TypeOK
  <2> QED
    BY <2>1, RequestQueueType DEF PublishReEngage, TypeOK
<1> QED
  BY <1>1, <1>2, <1>3 DEF TypeOK, PublishReEngage, decisions

(* The manual re-verify keeps TypeOK.                                      *)
LEMMA VerifyDeliverableType ==
    ASSUME TypeOK, NEW h \in Handlers, NEW s \in Steps, NEW n \in 1 .. Len(deliverables[s]),
           VerifyDeliverable(h, s, n)
    PROVE  TypeOK'
<1>1. n \in Nat
  BY DEF TypeOK
<1>2. handler' \in [Handlers -> [pc : HandlerPCs, step : Steps, nth : Nat]]
  BY <1>1 DEF VerifyDeliverable, TypeOK, HandlerPCs
<1>3. left' \in Bounds
  BY SpendType DEF VerifyDeliverable
<1>4. deliverables' \in [Steps -> Seq(ProofStates)]
  <2>1. deliverables \in [Steps -> Seq(ProofStates)] /\ "verifying" \in ProofStates
    BY DEF TypeOK, ProofStates
  <2>2. [deliverables[s] EXCEPT ![n] = "verifying"] \in Seq(ProofStates)
    BY <2>1, ExceptSeq
  <2> QED
    BY <2>1, <2>2 DEF VerifyDeliverable
<1> QED
  BY <1>2, <1>3, <1>4 DEF TypeOK, VerifyDeliverable, queues, decisions

(* Enqueueing the manual re-verify, or failing to, keeps TypeOK.           *)
LEMMA EnqueueProofType ==
    ASSUME TypeOK, NEW h \in Handlers, EnqueueProof(h)
    PROVE  TypeOK'
<1>1. handler' \in [Handlers -> [pc : HandlerPCs, step : Steps, nth : Nat]]
  BY HandlerCloseType DEF EnqueueProof
<1>2. left' \in Bounds
  BY SpendType DEF EnqueueProof, TypeOK
<1>3. proofQueue' \in Seq([step : Steps, nth : Nat])
  <2>1. [step |-> handler[h].step, nth |-> handler[h].nth] \in [step : Steps, nth : Nat]
    BY DEF TypeOK
  <2> QED
    BY <2>1, ProofQueueType, ZenonT(40) DEF EnqueueProof, TypeOK
<1> QED
  BY <1>1, <1>2, <1>3 DEF TypeOK, EnqueueProof, decisions

(* A Deliverable that a client records keeps TypeOK.                       *)
LEMMA PostDeliverableType ==
    ASSUME TypeOK, NEW s \in Steps, PostDeliverable(s)
    PROVE  TypeOK'
<1>1. left' \in Bounds
  BY SpendType DEF PostDeliverable
<1>2. deliverables' \in [Steps -> Seq(ProofStates)]
  BY AppendType DEF PostDeliverable, AppendDeliverable
<1> QED
  BY <1>1, <1>2 DEF TypeOK, PostDeliverable, queues, decisions

(* Configuring the executor keeps TypeOK.                                  *)
LEMMA UpsertExecutorConfigType ==
    ASSUME TypeOK, UpsertExecutorConfig
    PROVE  TypeOK'
  BY DEF TypeOK, UpsertExecutorConfig, queues

-----------------------------------------------------------------------------
(* Reading request:queue keeps TypeOK: the session's fields come from a    *)
(* typed entry.                                                            *)
LEMMA ConsumeRequestType ==
    ASSUME TypeOK, ConsumeRequest
    PROVE  TypeOK'
<1> DEFINE Message == [kind : {"plan", "re_engage"}, step : Steps]
           new == [IdleSession EXCEPT !.pc = "load", !.kind = Head(requestQueue).kind,
                                      !.step = Head(requestQueue).step]
<1>1. requestQueue \in Seq(Message) /\ requestQueue # <<>>
  BY DEF ConsumeRequest, TypeOK
<1>2. Head(requestQueue) \in Message /\ Tail(requestQueue) \in Seq(Message)
  BY <1>1, HeadTailProperties
<1>3. new \in SessionType
  BY <1>2, IdleType DEF SessionType, SessionPCs
<1>4. session' \in [Sessions -> SessionType]
  BY <1>3, BecomeType DEF ConsumeRequest, Sessions
<1> QED
  BY <1>2, <1>4 DEF TypeOK, ConsumeRequest, decisions

(* plan_and_dispatch_request up to its first dispatch keeps TypeOK, for    *)
(* every plan length.                                                      *)
LEMMA PlanRequestType ==
    ASSUME TypeOK, PlanRequest
    PROVE  TypeOK'
<1>1. left' \in Bounds
  BY SpendType DEF PlanRequest, TypeOK
<1>2. step' \in [Steps -> WorkStepStatuses \cup {"absent"}]
  BY DEF PlanRequest, TypeOK, WorkStepStatuses
<1>3. session' \in [Sessions -> SessionType]
  <2>1. CASE Close("worker")
    BY <2>1, CloseType DEF Sessions
  <2>2. CASE Become("worker", [Worker EXCEPT !.pc = "dispatch", !.view = step'])
    <3>1. step' \in [Steps -> WorkStepStatuses \cup {"absent", "unread"}]
      BY <1>2
    <3>2. [Worker EXCEPT !.pc = "dispatch", !.view = step'] \in SessionType
      BY <3>1, Fields DEF SessionType, SessionPCs, Sessions, Worker
    <3> QED
      BY <2>2, <3>2, BecomeType DEF Sessions
  <2> QED
    BY <2>1, <2>2 DEF PlanRequest
<1>4. request' \in RequestStatuses \cup {"absent"}
  BY DEF PlanRequest, TypeOK, RequestStatuses
<1> QED
  BY <1>1, <1>2, <1>3, <1>4 DEF TypeOK, PlanRequest, decisions, queues

(* re_dispatch_decision up to its dispatch keeps TypeOK.                   *)
LEMMA ReDispatchDecisionType ==
    ASSUME TypeOK, ReDispatchDecision
    PROVE  TypeOK'
<1>1. left' \in Bounds
  BY SpendType DEF ReDispatchDecision, TypeOK
<1>2. session' \in [Sessions -> SessionType]
  <2>1. CASE Close("worker")
    BY <2>1, CloseType DEF Sessions
  <2>2. CASE Become("worker", [Worker EXCEPT !.pc = "dispatch", !.view = step])
    <3>1. step \in [Steps -> WorkStepStatuses \cup {"absent", "unread"}]
      BY DEF TypeOK
    <3>2. [Worker EXCEPT !.pc = "dispatch", !.view = step] \in SessionType
      BY <3>1, Fields DEF SessionType, SessionPCs, Sessions, Worker
    <3> QED
      BY <2>2, <3>2, BecomeType DEF Sessions
  <2> QED
    BY <2>1, <2>2 DEF ReDispatchDecision
<1> QED
  BY <1>1, <1>2 DEF TypeOK, ReDispatchDecision, decisions, queues

(* Opening a RunAttempt keeps TypeOK.                                      *)
LEMMA CreateRunAttemptType ==
    ASSUME TypeOK, CreateRunAttempt
    PROVE  TypeOK'
<1>1. PICK pc \in {"start", "startUnconfigured"} : Goto("worker", pc)
  BY DEF CreateRunAttempt, WorkerGoto
<1>2. session' \in [Sessions -> SessionType]
  BY <1>1, GotoType DEF Sessions, SessionPCs
<1>3. running' \in [Steps -> Nat]
  <2>1. running \in [Steps -> Nat] /\ Worker.step \in Steps
    BY Fields DEF TypeOK, Worker, Sessions
  <2> QED
    BY <2>1 DEF CreateRunAttempt
<1> QED
  BY <1>2, <1>3 DEF TypeOK, CreateRunAttempt, decisions, queues

(* Starting the WorkStep, or raising on an illegal transition, keeps       *)
(* TypeOK.                                                                 *)
LEMMA StartStepType ==
    ASSUME TypeOK, StartStep
    PROVE  TypeOK'
<1>1. Worker \in SessionType /\ Worker.step \in Steps
  BY Fields DEF Worker, Sessions
<1>2. session' \in [Sessions -> SessionType]
  <2>1. ASSUME NEW pc \in SessionPCs
        PROVE  [Worker EXCEPT !.view[Worker.step] = "running", !.pc = pc] \in SessionType
    BY <1>1 DEF SessionType, WorkStepStatuses
  <2> QED
    BY <2>1, BecomeType, CloseType DEF StartStep, Sessions, SessionPCs
<1>3. step' \in [Steps -> WorkStepStatuses \cup {"absent"}]
  <2>1. [step EXCEPT ![Worker.step] = "running"] \in [Steps -> WorkStepStatuses \cup {"absent"}]
    BY <1>1, PutType DEF WorkStepStatuses
  <2> QED
    BY <2>1 DEF StartStep, TypeOK
<1> QED
  BY <1>2, <1>3 DEF TypeOK, StartStep, decisions, queues

(* Closing a RunAttempt that is open keeps the counts natural.             *)
LEMMA FinishType ==
    ASSUME TypeOK, FinishAttempt, running[Worker.step] > 0
    PROVE  running' \in [Steps -> Nat]
<1>1. running \in [Steps -> Nat] /\ Worker.step \in Steps
  BY Fields DEF TypeOK, Worker, Sessions
<1> QED
  BY <1>1 DEF FinishAttempt

(* The end of a RunAttempt, however it ended, keeps TypeOK when an attempt *)
(* was open.                                                               *)
LEMMA WorkPhaseType ==
    ASSUME TypeOK, WorkPhase, running[Worker.step] > 0
    PROVE  TypeOK'
<1>1. session' \in [Sessions -> SessionType]
  <2>1. CASE \E pc \in {"deliver", "park", "fail"} : Goto("worker", pc)
    BY <2>1, GotoType DEF Sessions, SessionPCs
  <2>2. CASE Become("worker", [Worker EXCEPT !.pc = "dispatch", !.cont = @ + 1])
    <3>1. Worker \in SessionType /\ Worker.cont + 1 \in Nat
      BY Fields DEF Sessions, Worker
    <3>2. [Worker EXCEPT !.pc = "dispatch", !.cont = @ + 1] \in SessionType
      BY <3>1 DEF SessionType, SessionPCs
    <3> QED
      BY <2>2, <3>2, BecomeType DEF Sessions
  <2> QED
    BY <2>1, <2>2 DEF WorkPhase, WorkerGoto
<1>2. running' \in [Steps -> Nat]
  BY FinishType DEF WorkPhase
<1> QED
  BY <1>1, <1>2 DEF TypeOK, WorkPhase, decisions, queues

(* Closing the attempt of an unconfigured tenant keeps TypeOK when an      *)
(* attempt was open.                                                       *)
LEMMA FinishUnconfiguredType ==
    ASSUME TypeOK, FinishUnconfigured, running[Worker.step] > 0
    PROVE  TypeOK'
<1>1. session' \in [Sessions -> SessionType]
  BY GotoType DEF FinishUnconfigured, WorkerGoto, Sessions, SessionPCs
<1>2. running' \in [Steps -> Nat]
  BY FinishType DEF FinishUnconfigured
<1> QED
  BY <1>1, <1>2 DEF TypeOK, FinishUnconfigured, decisions, queues

(* Recording the converged work keeps TypeOK.                              *)
LEMMA CreateDeliverableType ==
    ASSUME TypeOK, CreateDeliverable
    PROVE  TypeOK'
<1>1. Worker \in SessionType /\ Worker.step \in Steps
  BY Fields DEF Worker, Sessions
<1>2. deliverables' \in [Steps -> Seq(ProofStates)]
  BY <1>1, AppendType DEF CreateDeliverable
<1>3. Len(deliverables[Worker.step]) + 1 \in Nat
  BY <1>1 DEF TypeOK
<1>4. [Worker EXCEPT !.pc = "markVerifying", !.nth = Len(deliverables[Worker.step]) + 1]
          \in SessionType
  BY <1>1, <1>3 DEF SessionType, SessionPCs
<1>5. session' \in [Sessions -> SessionType]
  BY <1>4, BecomeType DEF CreateDeliverable, Sessions
<1> QED
  BY <1>2, <1>5 DEF TypeOK, CreateDeliverable, decisions, queues

(* A WorkStep transition of the worker's keeps the rows and the sessions   *)
(* typed.                                                                  *)
LEMMA MoveStepType ==
    ASSUME TypeOK, NEW target \in WorkStepStatuses, NEW pc \in SessionPCs, MoveStep(target, pc)
    PROVE  /\ session' \in [Sessions -> SessionType]
           /\ step' \in [Steps -> WorkStepStatuses \cup {"absent"}]
<1>1. Worker \in SessionType /\ Worker.step \in Steps
  BY Fields DEF Worker, Sessions
<1>2. step' \in [Steps -> WorkStepStatuses \cup {"absent"}]
  BY <1>1, PutType DEF MoveStep
<1>3. [Worker EXCEPT !.view[Worker.step] = target, !.pc = pc] \in SessionType
  BY <1>1 DEF SessionType
<1> QED
  BY <1>2, <1>3, BecomeType DEF MoveStep, Sessions

(* Moving the WorkStep to verifying keeps TypeOK.                          *)
LEMMA MarkVerifyingType ==
    ASSUME TypeOK, MarkVerifying
    PROVE  TypeOK'
<1>1. MoveStep("verifying", "publishProof")
  BY DEF MarkVerifying
<1>2. session' \in [Sessions -> SessionType] /\ step' \in [Steps -> WorkStepStatuses \cup {"absent"}]
  BY <1>1, MoveStepType DEF WorkStepStatuses, SessionPCs
<1> QED
  BY <1>2 DEF TypeOK, MarkVerifying, decisions, queues

(* Parking the WorkStep at the continuation cap keeps TypeOK.              *)
LEMMA ParkStepType ==
    ASSUME TypeOK, ParkStep
    PROVE  TypeOK'
<1>1. MoveStep("needs_decision", "raise")
  BY DEF ParkStep
<1>2. session' \in [Sessions -> SessionType] /\ step' \in [Steps -> WorkStepStatuses \cup {"absent"}]
  BY <1>1, MoveStepType DEF WorkStepStatuses, SessionPCs
<1> QED
  BY <1>2 DEF TypeOK, ParkStep, decisions, queues

(* Failing the WorkStep keeps TypeOK.                                      *)
LEMMA FailStepType ==
    ASSUME TypeOK, FailStep
    PROVE  TypeOK'
<1>1. MoveStep("failed", "surface") \/ MoveStep("failed", "next")
  BY DEF FailStep
<1>2. session' \in [Sessions -> SessionType] /\ step' \in [Steps -> WorkStepStatuses \cup {"absent"}]
  BY <1>1, MoveStepType DEF WorkStepStatuses, SessionPCs
<1> QED
  BY <1>2 DEF TypeOK, FailStep, decisions, queues

(* Publishing the proof message, or failing to, keeps TypeOK.              *)
LEMMA PublishProofType ==
    ASSUME TypeOK, PublishProof
    PROVE  TypeOK'
<1>1. left' \in Bounds
  BY SpendType DEF PublishProof, TypeOK
<1>2. session' \in [Sessions -> SessionType]
  BY GotoType, CloseType DEF PublishProof, WorkerGoto, Sessions, SessionPCs
<1>3. proofQueue' \in Seq([step : Steps, nth : Nat])
  <2>1. [step |-> Worker.step, nth |-> Worker.nth] \in [step : Steps, nth : Nat]
    BY Fields DEF Worker, Sessions
  <2>2. proofQueue \in Seq([step : Steps, nth : Nat])
    BY DEF TypeOK
  <2> QED
    BY <2>1, <2>2, ProofQueueType DEF PublishProof
<1> QED
  BY <1>1, <1>2, <1>3 DEF TypeOK, PublishProof, decisions

(* Raising the cap's Decision and recording partial work keeps TypeOK.     *)
LEMMA SurfacePartialType ==
    ASSUME TypeOK, SurfacePartial
    PROVE  TypeOK'
<1>1. Worker \in SessionType /\ Worker.step \in Steps
  BY Fields DEF Worker, Sessions
<1>2. openDecisions' \in [Steps -> Nat]
  <2>1. openDecisions \in [Steps -> Nat]
    BY DEF TypeOK
  <2>2. [openDecisions EXCEPT ![Worker.step] = @ + 1] \in [Steps -> Nat]
    BY <1>1, <2>1
  <2> QED
    BY <2>1, <2>2 DEF SurfacePartial
<1>3. CASE WorkerGoto("next") /\ UNCHANGED deliverables
  <2>1. session' \in [Sessions -> SessionType]
    BY <1>3, GotoType DEF WorkerGoto, Sessions, SessionPCs
  <2> QED
    BY <1>2, <1>3, <2>1 DEF TypeOK, SurfacePartial, queues
<1>4. CASE /\ AppendDeliverable(Worker.step)
           /\ Become("worker", [Worker EXCEPT !.pc = "diagnose",
                                              !.nth = Len(deliverables[Worker.step]) + 1])
  <2>1. deliverables' \in [Steps -> Seq(ProofStates)]
    BY <1>1, <1>4, AppendType
  <2>2. Len(deliverables[Worker.step]) + 1 \in Nat
    BY <1>1 DEF TypeOK
  <2>3. [Worker EXCEPT !.pc = "diagnose", !.nth = Len(deliverables[Worker.step]) + 1]
            \in SessionType
    BY <1>1, <2>2 DEF SessionType, SessionPCs
  <2>4. session' \in [Sessions -> SessionType]
    BY <1>4, <2>3, BecomeType DEF Sessions
  <2> QED
    BY <1>2, <2>1, <2>4 DEF TypeOK, SurfacePartial, queues
<1> QED
  BY <1>3, <1>4 DEF SurfacePartial

(* Diagnosing partial work keeps TypeOK.                                   *)
LEMMA DiagnosePartialType ==
    ASSUME TypeOK, DiagnosePartial
    PROVE  TypeOK'
<1>1. left' \in Bounds
  BY SpendType DEF DiagnosePartial, TypeOK
<1>2. session' \in [Sessions -> SessionType]
  <2>1. PICK verdict \in ProofStates :
           Become("worker", [Worker EXCEPT !.pc = "next", !.verdict = verdict])
    BY DEF DiagnosePartial, ProofStates
  <2>2. [Worker EXCEPT !.pc = "next", !.verdict = verdict] \in SessionType
    BY Fields DEF Worker, Sessions, SessionType, SessionPCs
  <2> QED
    BY <2>1, <2>2, BecomeType DEF Sessions
<1> QED
  BY <1>1, <1>2 DEF TypeOK, DiagnosePartial, decisions, queues

(* The worker's commit and its move to the next WorkStep keep TypeOK.      *)
LEMMA NextStepType ==
    ASSUME TypeOK, NextStep
    PROVE  TypeOK'
<1> DEFINE s == Worker.step
           more == Worker.kind = "plan" /\ s + 1 \in Steps /\ Worker.view[s + 1] # "absent"
           new == [Worker EXCEPT !.verdict = "none", !.nth = 0, !.cont = 0,
                                 !.pc = IF more THEN "dispatch" ELSE "finalize",
                                 !.step = IF more THEN s + 1 ELSE s]
<1>1. Worker \in SessionType
  BY Fields DEF Worker, Sessions
<1>2. (IF more THEN s + 1 ELSE s) \in Steps
  BY Fields DEF Worker, Sessions
<1>3. new \in SessionType
  BY <1>1, <1>2 DEF SessionType, SessionPCs
<1>4. Become("worker", new)
  BY DEF NextStep
<1>5. session' \in [Sessions -> SessionType]
  BY <1>3, <1>4, BecomeType DEF Sessions
<1>6. deliverables' \in [Steps -> Seq(ProofStates)]
  BY FlushedType DEF NextStep, Sessions
<1> QED
  BY <1>5, <1>6 DEF TypeOK, NextStep, decisions, queues

-----------------------------------------------------------------------------
(* Reading proof:queue keeps TypeOK.                                       *)
LEMMA ConsumeProofType ==
    ASSUME TypeOK, ConsumeProof
    PROVE  TypeOK'
<1> DEFINE Message == [step : Steps, nth : Nat]
           new == [IdleSession EXCEPT !.pc = "verify", !.step = Head(proofQueue).step,
                                      !.nth = Head(proofQueue).nth]
<1>1. proofQueue \in Seq(Message) /\ proofQueue # <<>>
  BY DEF ConsumeProof, TypeOK
<1>2. Head(proofQueue) \in Message /\ Tail(proofQueue) \in Seq(Message)
  BY <1>1, HeadTailProperties
<1>3. new \in SessionType
  BY <1>2, IdleType DEF SessionType, SessionPCs
<1>4. session' \in [Sessions -> SessionType]
  BY <1>3, BecomeType DEF ConsumeProof, Sessions
<1> QED
  BY <1>2, <1>4 DEF TypeOK, ConsumeProof, decisions

(* The verification of a Deliverable keeps TypeOK.                         *)
LEMMA RunVerificationType ==
    ASSUME TypeOK, RunVerification
    PROVE  TypeOK'
<1>1. left' \in Bounds
  BY SpendType DEF RunVerification, TypeOK
<1>2. session' \in [Sessions -> SessionType]
  <2>1. CASE Close("verifier")
    BY <2>1, CloseType DEF Sessions
  <2>2. ASSUME NEW verdict \in ProofStates,
               Become("verifier", [Verifier EXCEPT !.pc = "advance", !.verdict = verdict])
        PROVE  session' \in [Sessions -> SessionType]
    <3>1. [Verifier EXCEPT !.pc = "advance", !.verdict = verdict] \in SessionType
      BY Fields DEF Verifier, Sessions, SessionType, SessionPCs
    <3> QED
      BY <2>2, <3>1, BecomeType DEF Sessions
  <2> QED
    BY <2>1, <2>2 DEF RunVerification, ProofStates
<1> QED
  BY <1>1, <1>2 DEF TypeOK, RunVerification, decisions, queues

(* Reading the WorkStep of a Deliverable that has its verdict keeps        *)
(* TypeOK.                                                                 *)
LEMMA AdvanceReadType ==
    ASSUME TypeOK, AdvanceRead
    PROVE  TypeOK'
<1>1. Verifier \in SessionType /\ Verifier.step \in Steps
  BY Fields DEF Verifier, Sessions
<1>2. step[Verifier.step] \in WorkStepStatuses \cup {"absent", "unread"}
  BY <1>1 DEF TypeOK
<1>3. ASSUME NEW pc \in SessionPCs
      PROVE  [Verifier EXCEPT !.view[Verifier.step] = step[Verifier.step], !.pc = pc]
                 \in SessionType
  BY <1>1, <1>2 DEF SessionType
<1>4. session' \in [Sessions -> SessionType]
  BY <1>3, BecomeType DEF AdvanceRead, Sessions, SessionPCs
<1> QED
  BY <1>4 DEF TypeOK, AdvanceRead, decisions, queues

(* Advancing the WorkStep on the verdict keeps TypeOK.                     *)
LEMMA AdvanceStepType ==
    ASSUME TypeOK, AdvanceStep
    PROVE  TypeOK'
<1>1. PICK target \in {"review_ready", "failed"} : AdvanceTo(target)
  BY DEF AdvanceStep
<1>2. Verifier \in SessionType /\ Verifier.step \in Steps
  BY Fields DEF Verifier, Sessions
<1>3. step' \in [Steps -> WorkStepStatuses \cup {"absent"}]
  BY <1>1, <1>2, PutType DEF AdvanceTo, WorkStepStatuses
<1>4. deliverables' \in [Steps -> Seq(ProofStates)]
  BY <1>1, FlushedType DEF AdvanceTo, Sessions
<1>5. [Verifier EXCEPT !.view[Verifier.step] = target, !.verdict = "none", !.pc = "finalize"]
          \in SessionType
  BY <1>2 DEF SessionType, SessionPCs, WorkStepStatuses
<1>6. session' \in [Sessions -> SessionType]
  BY <1>1, <1>5, BecomeType DEF AdvanceTo, Sessions
<1> QED
  BY <1>1, <1>3, <1>4, <1>6 DEF TypeOK, AdvanceTo, decisions, queues

-----------------------------------------------------------------------------
(* The status read of _maybe_finalize_request keeps TypeOK, whatever the   *)
(* identity map holds.                                                     *)
LEMMA FinalizeReadType ==
    ASSUME TypeOK, NEW p \in Sessions, FinalizeRead(p)
    PROVE  TypeOK'
<1>1. StepsSeen(p) \in [Steps -> WorkStepStatuses \cup {"absent", "unread"}]
  BY Fields DEF StepsSeen, TypeOK
<1>2. ASSUME NEW pc \in SessionPCs
      PROVE  [session[p] EXCEPT !.view = StepsSeen(p), !.pc = pc] \in SessionType
  BY <1>1, Fields, ZenonT(40) DEF SessionType
<1>3. PICK pc \in {"stuck", "ready", "done"} :
         Become(p, [session[p] EXCEPT !.view = StepsSeen(p), !.pc = pc])
  BY Zenon DEF FinalizeRead
<1>4. session' \in [Sessions -> SessionType]
  BY <1>2, <1>3, BecomeType DEF SessionPCs
<1> QED
  BY <1>4 DEF TypeOK, FinalizeRead, decisions, queues

(* Looking for stuck WorkSteps without a Decision keeps TypeOK.            *)
LEMMA FinalizeStuckType ==
    ASSUME TypeOK, NEW p \in Sessions, FinalizeStuck(p)
    PROVE  TypeOK'
<1>1. PICK missing \in SUBSET Steps : Asking(p, missing)
  BY DEF FinalizeStuck
<1>2. [session[p] EXCEPT !.missing = missing, !.pc = "decide"] \in SessionType
  BY Fields, ZenonT(40) DEF SessionType, SessionPCs
<1>3. session' \in [Sessions -> SessionType]
  BY <1>1, <1>2, BecomeType DEF Asking
<1> QED
  BY <1>1, <1>3 DEF TypeOK, Asking, decisions, queues

(* Asking the founder keeps TypeOK.                                        *)
LEMMA FinalizeDecideType ==
    ASSUME TypeOK, NEW p \in Sessions, FinalizeDecide(p)
    PROVE  TypeOK'
<1>1. openDecisions' \in [Steps -> Nat]
  <2>1. openDecisions \in [Steps -> Nat]
    BY DEF TypeOK
  <2> QED
    BY <2>1 DEF FinalizeDecide
<1>2. [session[p] EXCEPT !.pc = "done", !.verdict = "none"] \in SessionType
  BY Fields, ZenonT(40) DEF SessionType, SessionPCs
<1>3. session' \in [Sessions -> SessionType]
  BY <1>2, BecomeType DEF FinalizeDecide
<1>4. deliverables' \in [Steps -> Seq(ProofStates)]
  BY FlushedType DEF FinalizeDecide
<1> QED
  BY <1>1, <1>3, <1>4 DEF TypeOK, FinalizeDecide, RequestStatuses, queues

(* Moving the Request to review_ready keeps TypeOK.                        *)
LEMMA FinalizeReadyType ==
    ASSUME TypeOK, NEW p \in Sessions, FinalizeReady(p)
    PROVE  TypeOK'
<1>1. [session[p] EXCEPT !.pc = "gate", !.verdict = "none"] \in SessionType
  BY Fields, ZenonT(40) DEF SessionType, SessionPCs
<1>2. session' \in [Sessions -> SessionType]
  BY <1>1, BecomeType DEF FinalizeReady
<1>3. deliverables' \in [Steps -> Seq(ProofStates)]
  BY FlushedType DEF FinalizeReady
<1> QED
  BY <1>2, <1>3 DEF TypeOK, FinalizeReady, RequestStatuses, decisions, queues

(* The proof gate keeps TypeOK.                                            *)
LEMMA ShipGateType ==
    ASSUME TypeOK, NEW p \in Sessions, ShipGate(p)
    PROVE  TypeOK'
<1>1. PICK pc \in {"ship", "done"} : Goto(p, pc)
  BY DEF ShipGate
<1>2. session' \in [Sessions -> SessionType]
  BY <1>1, GotoType DEF SessionPCs
<1> QED
  BY <1>2 DEF TypeOK, ShipGate, decisions, queues

(* Shipping keeps TypeOK.                                                  *)
LEMMA FinalizeShipType ==
    ASSUME TypeOK, NEW p \in Sessions, FinalizeShip(p)
    PROVE  TypeOK'
<1>1. session' \in [Sessions -> SessionType]
  BY GotoType DEF FinalizeShip, SessionPCs
<1> QED
  BY <1>1 DEF TypeOK, FinalizeShip, RequestStatuses, decisions, queues

(* Acknowledging the message keeps TypeOK.                                 *)
LEMMA CloseSessionType ==
    ASSUME TypeOK, NEW p \in Sessions, CloseSession(p)
    PROVE  TypeOK'
  BY CloseType DEF TypeOK, CloseSession, decisions, queues

-----------------------------------------------------------------------------
(* A process death keeps TypeOK: every session and handler is gone.        *)
LEMMA CrashType ==
    ASSUME TypeOK, Crash
    PROVE  TypeOK'
<1>1. left' \in Bounds
  BY SpendType DEF Crash
<1> QED
  BY <1>1, IdleType, IdleHandlerType DEF TypeOK, Crash, decisions, queues

(* Starting the process again keeps TypeOK.                                *)
LEMMA RestartType ==
    ASSUME TypeOK, Restart
    PROVE  TypeOK'
  BY DEF TypeOK, Restart, decisions, queues

(* The end of the reaper's sweep keeps TypeOK.                             *)
LEMMA StartWorkersType ==
    ASSUME TypeOK, StartWorkers
    PROVE  TypeOK'
  BY DEF TypeOK, StartWorkers, decisions, queues

(* The reaper closing an orphaned RunAttempt keeps TypeOK.                 *)
LEMMA ReapAttemptType ==
    ASSUME TypeOK, NEW s \in Steps, ReapAttempt(s)
    PROVE  TypeOK'
<1>1. [session["reaper"] EXCEPT !.pc = "reapStep", !.step = s] \in SessionType
  BY Fields DEF Sessions, SessionType, SessionPCs
<1>2. session' \in [Sessions -> SessionType]
  BY <1>1, BecomeType DEF ReapAttempt, Sessions
<1>3. running' \in [Steps -> Nat]
  <2>1. running \in [Steps -> Nat]
    BY DEF TypeOK
  <2> QED
    BY <2>1 DEF ReapAttempt
<1> QED
  BY <1>2, <1>3 DEF TypeOK, ReapAttempt, decisions, queues

(* The reaper failing the orphan's WorkStep keeps TypeOK.                  *)
LEMMA ReapStepType ==
    ASSUME TypeOK, ReapStep
    PROVE  TypeOK'
<1>1. session["reaper"].step \in Steps
  BY Fields DEF Sessions
<1>2. step' \in [Steps -> WorkStepStatuses \cup {"absent"}]
  <2>1. [step EXCEPT ![session["reaper"].step] = "failed"]
            \in [Steps -> WorkStepStatuses \cup {"absent"}]
    BY <1>1, PutType DEF WorkStepStatuses
  <2> QED
    BY <2>1 DEF ReapStep, ReapStepTo, TypeOK
<1>3. session' \in [Sessions -> SessionType]
  BY GotoType DEF ReapStep, ReapStepTo, Sessions, SessionPCs
<1> QED
  BY <1>2, <1>3 DEF TypeOK, ReapStep, ReapStepTo, decisions, queues
-----------------------------------------------------------------------------
(* A RunAttempt is only finished by whoever opened it, so the counts of    *)
(* running RunAttempts stay natural numbers.                               *)

TypeInv == TypeOK /\ AttemptIsOpen /\ IdleUnlessUp

(* A process that changes its session leaves the other sessions as they    *)
(* are.                                                                    *)
LEMMA BecomeOthers ==
    ASSUME TypeOK, NEW p \in Sessions, NEW new, Become(p, new), NEW q \in Sessions
    PROVE  session'[q] = IF q = p THEN new ELSE session[q]
  BY DEF TypeOK, Become

(* A process other than the worker that opens and closes no RunAttempt     *)
(* keeps AttemptIsOpen and IdleUnlessUp.                                   *)
LEMMA OthersKeepAttempt ==
    ASSUME TypeInv, NEW p \in Sessions \ {"worker"}, NEW new, Become(p, new),
           UNCHANGED <<running, mode>>
    PROVE  AttemptIsOpen' /\ IdleUnlessUp'
<1>1. session'["worker"] = session["worker"]
  BY BecomeOthers DEF TypeInv, Sessions
<1> QED
  BY <1>1 DEF TypeInv, AttemptIsOpen, IdleUnlessUp, Worker, At, Up

(* A step of the worker that drives no attempt afterwards keeps both as    *)
(* well.                                                                   *)
LEMMA WorkerLeavesAttempt ==
    ASSUME TypeInv, Up, UNCHANGED mode, NEW new, Become("worker", new), new.pc \notin AttemptPCs
    PROVE  AttemptIsOpen' /\ IdleUnlessUp'
<1>1. session'["worker"] = new
  BY BecomeOthers DEF TypeInv, Sessions
<1> QED
  BY <1>1 DEF AttemptIsOpen, IdleUnlessUp, Worker, Up

(* Every step of the worker keeps a RunAttempt open while it drives one.   *)
LEMMA WorkerKeepsAttempt == TypeInv /\ WorkerNext => AttemptIsOpen' /\ IdleUnlessUp'
<1> SUFFICES ASSUME TypeInv, WorkerNext PROVE AttemptIsOpen' /\ IdleUnlessUp'
  OBVIOUS
<1> USE DEF AttemptPCs
<1>0. Worker \in SessionType /\ IdleSession \in SessionType
  BY Fields, IdleType DEF TypeInv, Worker, Sessions
<1>1. CASE ConsumeRequest
  BY <1>0, <1>1, WorkerLeavesAttempt DEF ConsumeRequest, SessionType
<1>2. CASE PlanRequest
  BY <1>0, <1>2, WorkerLeavesAttempt DEF PlanRequest, Close, IdleSession, SessionType
<1>3. CASE ReDispatchDecision
  BY <1>0, <1>3, WorkerLeavesAttempt DEF ReDispatchDecision, Close, IdleSession, SessionType
<1>4. CASE CreateRunAttempt
  <2>1. PICK pc \in SessionPCs : Become("worker", [Worker EXCEPT !.pc = pc])
    BY <1>4 DEF CreateRunAttempt, WorkerGoto, Goto, Worker, SessionPCs
  <2>2. session'["worker"].step = Worker.step
    BY <1>0, <2>1, BecomeOthers DEF TypeInv, Sessions, SessionType
  <2>3. running'[Worker.step] > 0
    <3>1. running \in [Steps -> Nat] /\ Worker.step \in Steps
      BY <1>0 DEF TypeInv, TypeOK, SessionType
    <3> QED
      BY <1>4, <3>1 DEF CreateRunAttempt
  <2> QED
    BY <1>4, <2>2, <2>3 DEF CreateRunAttempt, AttemptIsOpen, IdleUnlessUp, Worker, Up
<1>5. CASE StartStep
  <2>1. CASE Close("worker")
    BY <1>0, <1>5, <2>1, WorkerLeavesAttempt DEF StartStep, Close, IdleSession
  <2>2. CASE ~Close("worker")
    <3> DEFINE new == [Worker EXCEPT !.view[Worker.step] = "running",
                           !.pc = IF At("worker", "start") THEN "work" ELSE "unconfigured"]
    <3>1. Become("worker", new) /\ UNCHANGED <<running, mode>> /\ Up
      BY <1>5, <2>2 DEF StartStep
    <3>2. new.step = Worker.step
      BY <1>0 DEF SessionType
    <3>3. session'["worker"] = new
      BY <3>1, BecomeOthers DEF TypeInv, Sessions
    <3>4. running[Worker.step] > 0
      BY <1>5 DEF StartStep, At, TypeInv, AttemptIsOpen, Worker
    <3>5. AttemptIsOpen'
      BY <3>1, <3>2, <3>3, <3>4 DEF AttemptIsOpen, Worker
    <3> QED
      BY <3>1, <3>5 DEF IdleUnlessUp, Up
  <2> QED
    BY <2>1, <2>2
<1>6. CASE WorkPhase
  BY <1>0, <1>6, WorkerLeavesAttempt DEF WorkPhase, WorkerGoto, Goto, Worker, SessionType
<1>7. CASE FinishUnconfigured
  BY <1>0, <1>7, WorkerLeavesAttempt DEF FinishUnconfigured, WorkerGoto, Goto, Worker, SessionType
<1>8. CASE CreateDeliverable
  BY <1>0, <1>8, WorkerLeavesAttempt DEF CreateDeliverable, SessionType
<1>9. CASE MarkVerifying
  BY <1>0, <1>9, WorkerLeavesAttempt DEF MarkVerifying, MoveStep, SessionType
<1>10. CASE PublishProof
  BY <1>0, <1>10, WorkerLeavesAttempt DEF PublishProof, WorkerGoto, Goto, Close, Worker,
                                          IdleSession, SessionType
<1>11. CASE ParkStep
  BY <1>0, <1>11, WorkerLeavesAttempt DEF ParkStep, MoveStep, SessionType
<1>12. CASE FailStep
  BY <1>0, <1>12, WorkerLeavesAttempt DEF FailStep, MoveStep, SessionType
<1>13. CASE SurfacePartial
  BY <1>0, <1>13, WorkerLeavesAttempt DEF SurfacePartial, WorkerGoto, Goto, Worker, SessionType
<1>14. CASE DiagnosePartial
  BY <1>0, <1>14, WorkerLeavesAttempt DEF DiagnosePartial, SessionType
<1>15. CASE NextStep
  <2> DEFINE s == Worker.step
             more == Worker.kind = "plan" /\ s + 1 \in Steps /\ Worker.view[s + 1] # "absent"
             new == [Worker EXCEPT !.verdict = "none", !.nth = 0, !.cont = 0,
                                   !.pc = IF more THEN "dispatch" ELSE "finalize",
                                   !.step = IF more THEN s + 1 ELSE s]
  <2>1. new.pc \in {"dispatch", "finalize"}
    BY <1>0 DEF SessionType
  <2>2. Become("worker", new) /\ UNCHANGED mode /\ Up
    BY <1>15 DEF NextStep
  <2> HIDE DEF new
  <2> QED
    BY <2>1, <2>2, WorkerLeavesAttempt
<1> QED
  BY <1>1, <1>2, <1>3, <1>4, <1>5, <1>6, <1>7, <1>8, <1>9, <1>10, <1>11, <1>12, <1>13, <1>14,
     <1>15 DEF WorkerNext

(* Every step of the worker keeps TypeOK; the two that close an attempt    *)
(* need one to be open.                                                    *)
LEMMA WorkerType == TypeInv /\ WorkerNext => TypeOK'
<1> SUFFICES ASSUME TypeInv, WorkerNext PROVE TypeOK'
  OBVIOUS
<1> USE DEF TypeInv
<1>1. CASE ConsumeRequest
  BY <1>1, ConsumeRequestType
<1>2. CASE PlanRequest
  BY <1>2, PlanRequestType
<1>3. CASE ReDispatchDecision
  BY <1>3, ReDispatchDecisionType
<1>4. CASE CreateRunAttempt
  BY <1>4, CreateRunAttemptType
<1>5. CASE StartStep
  BY <1>5, StartStepType
<1>6. CASE WorkPhase
  <2>1. running[Worker.step] > 0
    BY <1>6 DEF WorkPhase, At, AttemptIsOpen, AttemptPCs, Worker
  <2> QED
    BY <1>6, <2>1, WorkPhaseType
<1>7. CASE FinishUnconfigured
  <2>1. running[Worker.step] > 0
    BY <1>7 DEF FinishUnconfigured, At, AttemptIsOpen, AttemptPCs, Worker
  <2> QED
    BY <1>7, <2>1, FinishUnconfiguredType
<1>8. CASE CreateDeliverable
  BY <1>8, CreateDeliverableType
<1>9. CASE MarkVerifying
  BY <1>9, MarkVerifyingType
<1>10. CASE PublishProof
  BY <1>10, PublishProofType
<1>11. CASE ParkStep
  BY <1>11, ParkStepType
<1>12. CASE FailStep
  BY <1>12, FailStepType
<1>13. CASE SurfacePartial
  BY <1>13, SurfacePartialType
<1>14. CASE DiagnosePartial
  BY <1>14, DiagnosePartialType
<1>15. CASE NextStep
  BY <1>15, NextStepType
<1> QED
  BY <1>1, <1>2, <1>3, <1>4, <1>5, <1>6, <1>7, <1>8, <1>9, <1>10, <1>11, <1>12, <1>13, <1>14,
     <1>15 DEF WorkerNext

(* Every step of the VerifierWorker keeps TypeInv.                         *)
LEMMA VerifierInv == TypeInv /\ VerifierNext => TypeInv'
<1> SUFFICES ASSUME TypeInv, VerifierNext PROVE TypeInv'
  OBVIOUS
<1>1. TypeOK'
  BY ConsumeProofType, RunVerificationType, AdvanceReadType, AdvanceStepType
     DEF VerifierNext, TypeInv
<1>2. PICK new : Become("verifier", new) /\ UNCHANGED <<running, mode>>
  BY DEF VerifierNext, ConsumeProof, RunVerification, AdvanceRead, AdvanceStep, AdvanceTo, Close
<1>3. AttemptIsOpen' /\ IdleUnlessUp'
  BY <1>2, OthersKeepAttempt DEF Sessions
<1> QED
  BY <1>1, <1>3 DEF TypeInv

(* Every step of _maybe_finalize_request, in any session, keeps TypeInv.   *)
LEMMA FinalizeInv == ASSUME TypeInv, NEW p \in Sessions, FinalizeNext(p) PROVE TypeInv'
<1>1. TypeOK'
  BY FinalizeReadType, FinalizeStuckType, FinalizeDecideType, FinalizeReadyType, ShipGateType,
     FinalizeShipType, CloseSessionType DEF FinalizeNext, TypeInv
<1>2. PICK new : Become(p, new) /\ new.pc \notin AttemptPCs /\ UNCHANGED <<running, mode>>
                   /\ session[p].pc # "idle"
  <2>1. session[p] \in SessionType
    BY Fields DEF TypeInv
  <2> USE <2>1 DEF AttemptPCs, At
  <2>2. CASE FinalizeRead(p)
    <3>1. PICK pc \in {"stuck", "ready", "done"} :
            Become(p, [session[p] EXCEPT !.view = StepsSeen(p), !.pc = pc])
      BY <2>2 DEF FinalizeRead
    <3> QED
      BY <2>2, <3>1 DEF FinalizeRead, SessionType
  <2>3. CASE FinalizeStuck(p)
    BY <2>3 DEF FinalizeStuck, Asking, SessionType
  <2>4. CASE FinalizeDecide(p)
    BY <2>4 DEF FinalizeDecide, SessionType
  <2>5. CASE FinalizeReady(p)
    BY <2>5 DEF FinalizeReady, SessionType
  <2>6. CASE ShipGate(p)
    BY <2>6 DEF ShipGate, Goto, SessionType
  <2>7. CASE FinalizeShip(p)
    BY <2>7 DEF FinalizeShip, Goto, SessionType
  <2>8. CASE CloseSession(p)
    BY <2>8 DEF CloseSession, Close, IdleSession
  <2> QED
    BY <2>2, <2>3, <2>4, <2>5, <2>6, <2>7, <2>8 DEF FinalizeNext
<1>3. AttemptIsOpen' /\ IdleUnlessUp'
  <2>1. CASE p = "worker"
    BY <1>2, <2>1, WorkerLeavesAttempt DEF TypeInv, IdleUnlessUp, At
  <2>2. CASE p # "worker"
    BY <1>2, <2>2, OthersKeepAttempt
  <2> QED
    BY <2>1, <2>2
<1> QED
  BY <1>1, <1>3 DEF TypeInv

(* Every step of an API call keeps TypeInv.                                *)
LEMMA ApiInv ==
    TypeInv /\ (FounderNext \/ \E h \in Handlers : HandlerNext(h)) => TypeInv'
<1> SUFFICES ASSUME TypeInv, FounderNext \/ \E h \in Handlers : HandlerNext(h) PROVE TypeInv'
  OBVIOUS
<1>1. TypeOK'
  <2>1. CASE FounderNext
    BY <2>1, PostDirectionType, ResolveDecisionType, VerifyDeliverableType, PostDeliverableType,
       UpsertExecutorConfigType DEF FounderNext, TypeInv
  <2>2. CASE \E h \in Handlers : HandlerNext(h)
    BY <2>2, EnqueueRequestType, ReEngageReadType, ReEngageRequestType, ReEngageStepReadType,
       ReEngageStepType, PublishReEngageType, EnqueueProofType DEF HandlerNext, TypeInv
  <2> QED
    BY <2>1, <2>2
<1>2. UNCHANGED <<running, mode, session>>
  BY DEF FounderNext, PostDirection, ResolveDecision, VerifyDeliverable, PostDeliverable,
         UpsertExecutorConfig, HandlerNext, EnqueueRequest, ReEngageRead, ReEngageRequest,
         ReEngageStepRead, ReEngageStep, PublishReEngage, EnqueueProof
<1> QED
  BY <1>1, <1>2 DEF TypeInv, AttemptIsOpen, IdleUnlessUp, Worker, At, Up

(* A process death, a restart and every step of the reaper keep TypeInv.   *)
LEMMA ProcessInv == TypeInv /\ ProcessNext => TypeInv'
<1> SUFFICES ASSUME TypeInv, ProcessNext PROVE TypeInv'
  OBVIOUS
<1>1. TypeOK'
  BY CrashType, RestartType, StartWorkersType, ReapStepType, ReapAttemptType
     DEF ProcessNext, TypeInv
<1>3. AttemptIsOpen' /\ IdleUnlessUp'
  <2>1. CASE Crash
    <3>1. session'["worker"] = IdleSession
      BY <2>1 DEF Crash, Sessions
    <3> QED
      BY <3>1 DEF AttemptIsOpen, IdleUnlessUp, Worker, At, IdleSession, AttemptPCs
  <2>2. CASE Restart \/ StartWorkers
    BY <2>2 DEF Restart, StartWorkers, TypeInv, AttemptIsOpen, IdleUnlessUp, Worker, At, Up,
                Reaping
  <2>3. CASE ReapStep
    <3>1. PICK new : Become("reaper", new) /\ UNCHANGED <<running, mode>>
      BY <2>3 DEF ReapStep, ReapStepTo, Goto
    <3> QED
      BY <3>1, OthersKeepAttempt DEF Sessions
  <2>4. ASSUME NEW s \in Steps, ReapAttempt(s) PROVE AttemptIsOpen' /\ IdleUnlessUp'
    <3>1. PICK new : Become("reaper", new)
      BY <2>4 DEF ReapAttempt
    <3>2. session'["worker"] = session["worker"]
      BY <3>1, BecomeOthers DEF TypeInv, Sessions
    <3>3. At("worker", "idle")
      BY <2>4 DEF ReapAttempt, Reaping, Up, TypeInv, IdleUnlessUp
    <3> QED
      BY <3>2, <3>3 DEF AttemptIsOpen, IdleUnlessUp, Worker, At, AttemptPCs
  <2> QED
    BY <2>1, <2>2, <2>3, <2>4 DEF ProcessNext
<1> QED
  BY <1>1, <1>3 DEF TypeInv

(* TypeInv is inductive: every step of the system keeps it.                *)
LEMMA TypeInvStep == TypeInv /\ [Next]_vars => TypeInv'
<1> SUFFICES ASSUME TypeInv, [Next]_vars PROVE TypeInv'
  OBVIOUS
<1>1. CASE WorkerNext
  BY <1>1, WorkerType, WorkerKeepsAttempt DEF TypeInv
<1>2. CASE VerifierNext
  BY <1>2, VerifierInv
<1>3. CASE \E p \in Sessions : FinalizeNext(p)
  BY <1>3, FinalizeInv
<1>4. CASE FounderNext \/ \E h \in Handlers : HandlerNext(h)
  BY <1>4, ApiInv
<1>5. CASE ProcessNext
  BY <1>5, ProcessInv
<1>6. CASE UNCHANGED vars
  BY <1>6 DEF TypeInv, TypeOK, AttemptIsOpen, IdleUnlessUp, Worker, At, Up, vars
<1> QED
  BY <1>1, <1>2, <1>3, <1>4, <1>5, <1>6 DEF Next

(* TypeInv holds before the founder's Direction.                           *)
LEMMA TypeInvInit == Init => TypeInv
<1> SUFFICES ASSUME Init PROVE TypeInv
  OBVIOUS
<1>1. 1 \in Steps
  BY StepsAssumption DEF Steps
<1>2. TypeOK
  <2>1. left \in Bounds
    BY BoundsAssumption DEF Init, Bounds
  <2>2. configured \in BOOLEAN
    BY DEF Init
  <2> QED
    BY <2>1, <2>2, IdleType, IdleHandlerType DEF Init, TypeOK, RequestStatuses, WorkStepStatuses
<1>3. AttemptIsOpen /\ IdleUnlessUp
  BY DEF Init, AttemptIsOpen, IdleUnlessUp, Worker, At, AttemptPCs, Sessions, IdleSession, Up
<1> QED
  BY <1>2, <1>3 DEF TypeInv

(* Whatever the plan's length, the outcomes of the attempts, the number of *)
(* concurrent API calls, crashes and faults, every variable keeps a value  *)
(* of its kind: the session that finishes a RunAttempt is the one that     *)
(* opened it, or the reaper's, which runs while no worker does.            *)
THEOREM TypeCorrect == Spec => []TypeOK
<1>1. TypeInv => TypeOK
  BY DEF TypeInv
<1> QED
  BY <1>1, TypeInvInit, TypeInvStep, PTL DEF Spec
-----------------------------------------------------------------------------
(* A verdict is final.  The invariant: the rows a verdict is under way for *)
(* wait untouched, each in one place, be it a message or a session.        *)

NotHeld(new) == new.verdict = "none" /\ new.pc \notin HoldingPCs

(* A flushed verdict is committed, or rolled back, before the session      *)
(* turns to another row.                                                   *)
VerdictHolders ==
    /\ session["reaper"].verdict = "none"
    /\ Worker.verdict # "none" => Worker.pc = "next"

VerdictInv == TypeInv /\ NobodyReverifies /\ VerdictHolders /\ VerdictsAreApart

(* Sessions that only let go of rows keep the verdicts apart.              *)
LEMMA ApartIfReleased ==
    ASSUME VerdictsAreApart, UNCHANGED <<deliverables, proofQueue>>,
           \A q \in Sessions : Holds(q)' => Holds(q) /\ RowOf(q)' = RowOf(q)
    PROVE  VerdictsAreApart' /\ KeepsVerdicts
<1>1. UNCHANGED Queued /\ \A row : Untouched(row)' = Untouched(row)
  BY DEF Queued, Untouched
<1>2. VerdictsAreApart'
  BY <1>1 DEF VerdictsAreApart
<1> QED
  BY <1>2 DEF KeepsVerdicts

(* A step of one session that commits nothing keeps the verdicts apart, if *)
(* it goes on holding its row or lets it go.                               *)
LEMMA ApartIfKept ==
    ASSUME TypeOK, VerdictsAreApart, UNCHANGED <<deliverables, proofQueue>>,
           NEW p \in Sessions, NEW new, Become(p, new),
           NotHeld(new) \/ (Holds(p) /\ new.step = session[p].step /\ new.nth = session[p].nth)
    PROVE  VerdictsAreApart' /\ KeepsVerdicts
<1>1. ASSUME NEW q \in Sessions, Holds(q)' PROVE Holds(q) /\ RowOf(q)' = RowOf(q)
  <2>1. session'[q] = IF q = p THEN new ELSE session[q]
    BY BecomeOthers
  <2>2. CASE q = p
    BY <1>1, <2>1, <2>2 DEF Holds, RowOf, NotHeld
  <2>3. CASE q # p
    BY <1>1, <2>1, <2>3 DEF Holds, RowOf
  <2> QED
    BY <2>2, <2>3
<1> QED
  BY <1>1, ApartIfReleased

(* Committing a verdict touches the row its session holds and no other.    *)
LEMMA FlushTouches ==
    ASSUME TypeOK, NEW p \in Sessions, session[p].verdict # "none", Untouched(RowOf(p)),
           deliverables' = Flushed(p)
    PROVE  /\ \A row \in Steps \X Nat : row # RowOf(p) /\ Untouched(row) => Untouched(row)'
           /\ KeepsVerdicts
<1> DEFINE s == session[p].step
           n == session[p].nth
           v == session[p].verdict
<1>1. s \in Steps /\ n \in Nat /\ v \in ProofStates /\ deliverables \in [Steps -> Seq(ProofStates)]
  BY Fields DEF TypeOK
<1>2. n \in 1 .. Len(deliverables[s]) /\ deliverables[s][n] = "verification_missing"
  BY DEF Untouched, RowOf
<1>3. deliverables' = [deliverables EXCEPT ![s] = [deliverables[s] EXCEPT ![n] = v]]
  BY DEF Flushed
<1>4. /\ [deliverables[s] EXCEPT ![n] = v] \in Seq(ProofStates)
      /\ Len([deliverables[s] EXCEPT ![n] = v]) = Len(deliverables[s])
  BY <1>1, <1>2, ExceptSeq
<1>5. \A t \in Steps : Len(deliverables'[t]) = Len(deliverables[t])
  BY <1>1, <1>3, <1>4
<1>6. \A t \in Steps : \A m \in 1 .. Len(deliverables[t]) :
          deliverables'[t][m] = IF <<t, m>> = <<s, n>> THEN v ELSE deliverables[t][m]
  BY <1>1, <1>2, <1>3
<1>7. ASSUME NEW row \in Steps \X Nat, row # RowOf(p), Untouched(row) PROVE Untouched(row)'
  <2>1. row = <<row[1], row[2]>> /\ row[1] \in Steps
    OBVIOUS
  <2> QED
    BY <1>5, <1>6, <1>7, <2>1 DEF Untouched, RowOf
<1>8. KeepsVerdicts
  BY <1>2, <1>5, <1>6 DEF KeepsVerdicts
<1> QED
  BY <1>7, <1>8

(* The rows that proof messages and sessions name are a WorkStep and an    *)
(* ordinal.                                                                *)
LEMMA QueuedRows ==
    ASSUME TypeOK
    PROVE  Queued \subseteq Steps \X Nat /\ \A p \in Sessions : RowOf(p) \in Steps \X Nat
<1>1. \A i \in 1 .. Len(proofQueue) : proofQueue[i] \in [step : Steps, nth : Nat]
  <2>1. proofQueue \in Seq([step : Steps, nth : Nat])
    BY DEF TypeOK
  <2> QED
    BY <2>1, ElementOfSeq
<1> QED
  BY <1>1, Fields DEF Queued, RowOf

(* A session that commits its verdict and lets the row go keeps the        *)
(* verdicts apart, and the verdict is the row's first.                     *)
LEMMA ApartIfSettled ==
    ASSUME TypeOK, VerdictsAreApart, UNCHANGED proofQueue,
           NEW p \in Sessions, NEW new, Become(p, new), NotHeld(new),
           deliverables' = Flushed(p)
    PROVE  VerdictsAreApart' /\ KeepsVerdicts
<1>1. CASE session[p].verdict = "none"
  BY <1>1, ApartIfKept DEF Flushed
<1>2. CASE session[p].verdict # "none"
  <2>1. Holds(p)
    BY <1>2 DEF Holds
  <2>2. /\ \A row \in Steps \X Nat : row # RowOf(p) /\ Untouched(row) => Untouched(row)'
        /\ KeepsVerdicts
    BY <1>2, <2>1, FlushTouches DEF VerdictsAreApart
  <2>3. ASSUME NEW q \in Sessions, Holds(q)'
        PROVE  q # p /\ Holds(q) /\ RowOf(q)' = RowOf(q)
    <3>1. session'[q] = IF q = p THEN new ELSE session[q]
      BY BecomeOthers
    <3> QED
      BY <2>3, <3>1 DEF Holds, RowOf, NotHeld
  <2>4. Queued' = Queued
    BY DEF Queued
  <2>5. \A row \in Queued : Untouched(row)'
    BY <2>1, <2>2, QueuedRows DEF VerdictsAreApart
  <2>6. \A q \in Sessions : Holds(q)' => RowOf(q)' \notin Queued' /\ Untouched(RowOf(q))'
    <3>1. SUFFICES ASSUME NEW q \in Sessions, Holds(q)'
                   PROVE  RowOf(q)' \notin Queued' /\ Untouched(RowOf(q))'
      OBVIOUS
    <3>2. q # p /\ Holds(q) /\ RowOf(q)' = RowOf(q)
      BY <2>3, <3>1
    <3>3. RowOf(q) # RowOf(p) /\ RowOf(q) \notin Queued /\ Untouched(RowOf(q))
      BY <2>1, <3>2 DEF VerdictsAreApart
    <3>4. RowOf(q) \in Steps \X Nat
      BY QueuedRows
    <3>5. /\ RowOf(q)'[2] \in 1 .. Len(deliverables'[RowOf(q)'[1]])
          /\ deliverables'[RowOf(q)'[1]][RowOf(q)'[2]] = "verification_missing"
      BY <2>2, <3>2, <3>3, <3>4 DEF Untouched
    <3> QED
      BY <2>4, <3>2, <3>3, <3>5 DEF Untouched
  <2>7. \A q, r \in Sessions : Holds(q)' /\ Holds(r)' /\ RowOf(q)' = RowOf(r)' => q = r
    BY <2>3 DEF VerdictsAreApart
  <2>8. VerdictsAreApart'
    BY <2>4, <2>5, <2>6, <2>7 DEF VerdictsAreApart
  <2> QED
    BY <2>2, <2>8
<1> QED
  BY <1>1, <1>2

(* A Deliverable that has just been recorded is nobody else's.             *)
LEMMA RecordTouches ==
    ASSUME TypeOK, NEW s \in Steps, NEW n, n = Len(deliverables[s]) + 1, AppendDeliverable(s)
    PROVE  /\ \A row \in Steps \X Nat : Untouched(row) => Untouched(row)'
           /\ n \in Nat /\ ~Untouched(<<s, n>>) /\ Untouched(<<s, n>>)'
           /\ KeepsVerdicts
<1> DEFINE ds == deliverables[s]
<1>1. ds \in Seq(ProofStates) /\ deliverables \in [Steps -> Seq(ProofStates)]
  BY DEF TypeOK
<1>2. n \in Nat /\ Len(ds) \in Nat
  BY <1>1, LenProperties
<1>3. deliverables'[s] = Append(ds, "verification_missing")
  BY <1>1 DEF AppendDeliverable
<1>4. \A t \in Steps : t # s => deliverables'[t] = deliverables[t]
  BY <1>1 DEF AppendDeliverable
<1>5. /\ Len(deliverables'[s]) = n
      /\ deliverables'[s][n] = "verification_missing"
      /\ \A m \in 1 .. Len(ds) : deliverables'[s][m] = ds[m] /\ m \in 1 .. n
  BY <1>1, <1>2, <1>3, AppendProperties
<1>6. ~Untouched(<<s, n>>) /\ Untouched(<<s, n>>)'
  <2>1. n \notin 1 .. Len(ds) /\ n \in 1 .. n
    BY <1>2
  <2> QED
    BY <1>5, <2>1 DEF Untouched
<1>7. ASSUME NEW row \in Steps \X Nat, Untouched(row) PROVE Untouched(row)'
  <2>1. row[1] \in Steps
    OBVIOUS
  <2>2. CASE row[1] = s
    BY <1>5, <1>7, <2>2 DEF Untouched
  <2>3. CASE row[1] # s
    BY <1>4, <1>7, <2>1, <2>3 DEF Untouched
  <2> QED
    BY <2>2, <2>3
<1>8. KeepsVerdicts
  BY <1>4, <1>5 DEF KeepsVerdicts
<1> QED
  BY <1>2, <1>6, <1>7, <1>8

(* Recording a Deliverable, and holding the new row, keeps the verdicts    *)
(* apart.                                                                  *)
LEMMA ApartIfRecorded ==
    ASSUME TypeOK, VerdictsAreApart, UNCHANGED proofQueue, NEW s \in Steps, AppendDeliverable(s),
           NEW n, n = Len(deliverables[s]) + 1,
           UNCHANGED session \/ \E new : Become("worker", new) /\ new.step = s /\ new.nth = n
    PROVE  VerdictsAreApart' /\ KeepsVerdicts
<1> DEFINE fresh == <<s, n>>
<1>1. /\ \A row \in Steps \X Nat : Untouched(row) => Untouched(row)'
      /\ fresh \in Steps \X Nat /\ ~Untouched(fresh) /\ Untouched(fresh)'
      /\ KeepsVerdicts
  BY RecordTouches
<1>2. Queued' = Queued /\ Queued \subseteq Steps \X Nat
  BY QueuedRows DEF Queued
<1>3. ASSUME NEW q \in Sessions, Holds(q)'
      PROVE  (Holds(q) /\ RowOf(q)' = RowOf(q)) \/ (q = "worker" /\ RowOf(q)' = fresh)
  <2>1. CASE UNCHANGED session
    BY <1>3, <2>1 DEF Holds, RowOf
  <2>2. ASSUME NEW new, Become("worker", new), new.step = s, new.nth = n
        PROVE  (Holds(q) /\ RowOf(q)' = RowOf(q)) \/ (q = "worker" /\ RowOf(q)' = fresh)
    <3>1. session'[q] = IF q = "worker" THEN new ELSE session[q]
      BY <2>2, BecomeOthers DEF Sessions
    <3> QED
      BY <1>3, <2>2, <3>1 DEF Holds, RowOf
  <2> QED
    BY <2>1, <2>2
<1>4. \A row \in Queued' : Untouched(row)'
  BY <1>1, <1>2 DEF VerdictsAreApart
<1>5. ASSUME NEW q \in Sessions, Holds(q)'
      PROVE  RowOf(q)' \notin Queued' /\ Untouched(RowOf(q))'
  <2>1. CASE Holds(q) /\ RowOf(q)' = RowOf(q)
    <3>1. RowOf(q) \in Steps \X Nat /\ RowOf(q) \notin Queued /\ Untouched(RowOf(q))
      BY <2>1, QueuedRows DEF VerdictsAreApart
    <3> QED
      BY <1>1, <1>2, <2>1, <3>1 DEF Untouched
  <2>2. CASE RowOf(q)' = fresh
    BY <1>1, <1>2, <2>2 DEF VerdictsAreApart, Untouched
  <2> QED
    BY <1>3, <1>5, <2>1, <2>2
<1>6. ASSUME NEW q \in Sessions, NEW r \in Sessions, Holds(q)', Holds(r)', RowOf(q)' = RowOf(r)'
      PROVE  q = r
  <2>1. \A t \in Sessions : Holds(t) => RowOf(t) # fresh
    BY <1>1 DEF VerdictsAreApart
  <2> QED
    BY <1>3, <1>6, <2>1 DEF VerdictsAreApart
<1> QED
  BY <1>1, <1>2, <1>4, <1>5, <1>6 DEF VerdictsAreApart

(* Publishing hands the row over from the worker to its message, and       *)
(* consuming from the message to the verifier.                             *)
LEMMA ApartIfPublished ==
    ASSUME TypeOK, VerdictsAreApart, UNCHANGED deliverables, Holds("worker"),
           proofQueue' = Append(proofQueue, [step |-> Worker.step, nth |-> Worker.nth]),
           NEW new, Become("worker", new), NotHeld(new)
    PROVE  VerdictsAreApart' /\ KeepsVerdicts
<1> DEFINE Message == [step : Steps, nth : Nat]
           m == [step |-> Worker.step, nth |-> Worker.nth]
           row == RowOf("worker")
<1>1. proofQueue \in Seq(Message) /\ m \in Message /\ Len(proofQueue) \in Nat
  <2>1. proofQueue \in Seq(Message)
    BY DEF TypeOK
  <2>2. m \in Message
    BY Fields DEF Worker, Sessions
  <2> QED
    BY <2>1, <2>2, LenProperties
<1>2. /\ Len(proofQueue') = Len(proofQueue) + 1
      /\ proofQueue'[Len(proofQueue) + 1] = m
      /\ \A i \in 1 .. Len(proofQueue) : proofQueue'[i] = proofQueue[i]
  BY <1>1, AppendProperties
<1>3. row \notin Queued /\ Untouched(row)
  BY DEF VerdictsAreApart, Sessions
<1>4. \A i \in 1 .. Len(proofQueue) : proofQueue[i] # m
  BY <1>3 DEF Queued, RowOf, Worker
<1>5. \A i, j \in 1 .. Len(proofQueue') : proofQueue'[i] = proofQueue'[j] => i = j
  <2>1. \A i \in 1 .. Len(proofQueue') : i \in 1 .. Len(proofQueue) \/ i = Len(proofQueue) + 1
    BY <1>1, <1>2
  <2> HIDE DEF m
  <2> QED
    BY <1>2, <1>4, <2>1 DEF VerdictsAreApart
<1>6. \A r \in Queued' : r \in Queued \/ r = row
  <2>1. SUFFICES ASSUME NEW i \in 1 .. Len(proofQueue')
                 PROVE  LET r == <<proofQueue'[i].step, proofQueue'[i].nth>>
                        IN  r \in Queued \/ r = row
    BY DEF Queued
  <2>2. i \in 1 .. Len(proofQueue) \/ i = Len(proofQueue) + 1
    BY <1>1, <1>2
  <2> QED
    BY <1>2, <2>2 DEF Queued, RowOf, Worker
<1>7. ASSUME NEW q \in Sessions, Holds(q)' PROVE q # "worker" /\ Holds(q) /\ RowOf(q)' = RowOf(q)
  <2>1. session'[q] = IF q = "worker" THEN new ELSE session[q]
    BY BecomeOthers DEF Sessions
  <2> QED
    BY <1>7, <2>1 DEF Holds, RowOf, NotHeld
<1>8. \A r : Untouched(r)' = Untouched(r)
  BY DEF Untouched
<1>9. \A q \in Sessions : Holds(q)' => RowOf(q)' \notin Queued' /\ Untouched(RowOf(q)')
  BY <1>3, <1>6, <1>7 DEF VerdictsAreApart, Sessions
<1>10. \A q, r \in Sessions : Holds(q)' /\ Holds(r)' /\ RowOf(q)' = RowOf(r)' => q = r
  BY <1>7 DEF VerdictsAreApart
<1>11. \A r \in Queued' : Untouched(r)
  BY <1>3, <1>6 DEF VerdictsAreApart
<1>12. KeepsVerdicts
  BY DEF KeepsVerdicts
<1> QED
  BY <1>5, <1>8, <1>9, <1>10, <1>11, <1>12 DEF VerdictsAreApart, Untouched

(* Reading a proof message hands its row from the stream to the verifier   *)
(* and keeps the verdicts apart.                                           *)
LEMMA ApartIfConsumed ==
    ASSUME TypeOK, VerdictsAreApart, UNCHANGED deliverables, proofQueue # <<>>,
           proofQueue' = Tail(proofQueue), NEW new, Become("verifier", new),
           new.step = Head(proofQueue).step, new.nth = Head(proofQueue).nth
    PROVE  VerdictsAreApart' /\ KeepsVerdicts
<1> DEFINE Message == [step : Steps, nth : Nat]
           row == <<proofQueue[1].step, proofQueue[1].nth>>
<1>1. proofQueue \in Seq(Message) /\ Len(proofQueue) \in Nat \ {0}
  BY EmptySeq DEF TypeOK
<1>2. /\ Head(proofQueue) = proofQueue[1]
      /\ Len(proofQueue') = Len(proofQueue) - 1
      /\ \A i \in 1 .. Len(proofQueue') :
             proofQueue'[i] = proofQueue[i + 1] /\ i + 1 \in 1 .. Len(proofQueue) /\ i + 1 # 1
  BY <1>1, HeadTailProperties
<1>3. row \in Queued
  BY <1>1 DEF Queued
<1>4. \A r \in Queued' : r \in Queued /\ r # row
  <2>1. SUFFICES ASSUME NEW i \in 1 .. Len(proofQueue')
                 PROVE  LET r == <<proofQueue'[i].step, proofQueue'[i].nth>>
                        IN  r \in Queued /\ r # row
    BY DEF Queued
  <2>2. proofQueue'[i] = proofQueue[i + 1] /\ i + 1 \in 1 .. Len(proofQueue) /\ i + 1 # 1
    BY <1>2
  <2>3. proofQueue[i + 1] # proofQueue[1]
    BY <1>1, <2>2 DEF VerdictsAreApart
  <2>4. proofQueue[i + 1] \in Message /\ proofQueue[1] \in Message
    <3>1. 1 \in 1 .. Len(proofQueue)
      BY <1>1
    <3> HIDE DEF Message
    <3> QED
      BY <1>1, <2>2, <3>1, ElementOfSeq
  <2> QED
    BY <2>2, <2>3, <2>4 DEF Queued
<1>5. \A i, j \in 1 .. Len(proofQueue') : proofQueue'[i] = proofQueue'[j] => i = j
  <2>1. SUFFICES ASSUME NEW i \in 1 .. Len(proofQueue'), NEW j \in 1 .. Len(proofQueue'),
                        proofQueue'[i] = proofQueue'[j]
                 PROVE  i = j
    OBVIOUS
  <2>2. i + 1 = j + 1
    BY <1>2, <2>1 DEF VerdictsAreApart
  <2> QED
    BY <2>2
<1>6. ASSUME NEW q \in Sessions, Holds(q)'
      PROVE  IF q = "verifier" THEN RowOf(q)' = row ELSE Holds(q) /\ RowOf(q)' = RowOf(q)
  <2>1. session'[q] = IF q = "verifier" THEN new ELSE session[q]
    BY BecomeOthers DEF Sessions
  <2> QED
    BY <1>2, <1>6, <2>1 DEF Holds, RowOf
<1>7. \A r : Untouched(r)' = Untouched(r)
  BY DEF Untouched
<1>8. \A q \in Sessions : Holds(q)' => RowOf(q)' \notin Queued' /\ Untouched(RowOf(q)')
  BY <1>3, <1>4, <1>6 DEF VerdictsAreApart
<1>9. \A q, r \in Sessions : Holds(q)' /\ Holds(r)' /\ RowOf(q)' = RowOf(r)' => q = r
  BY <1>3, <1>6 DEF VerdictsAreApart
<1>10. \A r \in Queued' : Untouched(r)
  BY <1>4 DEF VerdictsAreApart
<1>11. KeepsVerdicts
  BY DEF KeepsVerdicts
<1> QED
  BY <1>5, <1>7, <1>8, <1>9, <1>10, <1>11 DEF VerdictsAreApart, Untouched

-----------------------------------------------------------------------------
(* A step of the worker keeps VerdictHolders if a verdict it holds waits   *)
(* for its commit.                                                         *)
LEMMA WorkerHolders ==
    ASSUME TypeOK, VerdictHolders, NEW new, Become("worker", new),
           new.verdict = "none" \/ new.pc = "next"
    PROVE  VerdictHolders'
<1>1. session'["worker"] = new /\ session'["reaper"] = session["reaper"]
  BY BecomeOthers DEF Sessions
<1> QED
  BY <1>1 DEF VerdictHolders, Worker

(* A step of another process keeps VerdictHolders if the reaper flushes no *)
(* verdict.                                                                *)
LEMMA OtherHolders ==
    ASSUME TypeOK, VerdictHolders, NEW p \in Sessions \ {"worker"}, NEW new, Become(p, new),
           p = "reaper" => new.verdict = "none"
    PROVE  VerdictHolders'
<1>1. /\ session'["worker"] = session["worker"]
      /\ session'["reaper"] = IF p = "reaper" THEN new ELSE session["reaper"]
  BY BecomeOthers DEF Sessions
<1> QED
  BY <1>1 DEF VerdictHolders, Worker

(* Each action of the RequestWorker.                                       *)
LEMMA WorkerKeepsVerdicts ==
    VerdictInv /\ WorkerNext => VerdictsAreApart' /\ KeepsVerdicts /\ VerdictHolders'
<1> SUFFICES ASSUME VerdictInv, WorkerNext
             PROVE  VerdictsAreApart' /\ KeepsVerdicts /\ VerdictHolders'
  OBVIOUS
<1>0. /\ Worker \in SessionType /\ IdleSession \in SessionType /\ Worker.step \in Steps
      /\ TypeOK /\ VerdictsAreApart /\ VerdictHolders /\ "worker" \in Sessions
      /\ Worker = session["worker"]
      /\ IdleSession.verdict = "none" /\ IdleSession.pc = "idle"
  BY Fields, IdleType DEF VerdictInv, TypeInv, Worker, Sessions, IdleSession
<1>a. ASSUME NEW new, Become("worker", new), NotHeld(new), UNCHANGED <<deliverables, proofQueue>>
      PROVE  VerdictsAreApart' /\ KeepsVerdicts /\ VerdictHolders'
  BY <1>0, <1>a, ApartIfKept, WorkerHolders DEF NotHeld
<1>b. Worker.pc # "next" => Worker.verdict = "none"
  BY <1>0 DEF VerdictHolders
<1> USE DEF At
<1>1. CASE ConsumeRequest
  <2> DEFINE new == [IdleSession EXCEPT !.pc = "load", !.kind = Head(requestQueue).kind,
                                        !.step = Head(requestQueue).step]
  <2>1. NotHeld(new) /\ Become("worker", new) /\ UNCHANGED <<deliverables, proofQueue>>
    BY <1>0, <1>1 DEF ConsumeRequest, SessionType, NotHeld, HoldingPCs
  <2> QED
    BY <1>a, <2>1
<1>2. CASE PlanRequest
  <2>1. PICK new : NotHeld(new) /\ Become("worker", new) /\ UNCHANGED <<deliverables, proofQueue>>
    <3>1. NotHeld(IdleSession) /\ NotHeld([Worker EXCEPT !.pc = "dispatch", !.view = step'])
      BY <1>0, <1>2, <1>b DEF PlanRequest, SessionType, NotHeld, HoldingPCs
    <3> QED
      BY <1>2, <3>1 DEF PlanRequest, Close, queues
  <2> QED
    BY <1>a, <2>1
<1>3. CASE ReDispatchDecision
  <2>1. PICK new : NotHeld(new) /\ Become("worker", new) /\ UNCHANGED <<deliverables, proofQueue>>
    <3>1. NotHeld(IdleSession) /\ NotHeld([Worker EXCEPT !.pc = "dispatch", !.view = step])
      BY <1>0, <1>3, <1>b DEF ReDispatchDecision, SessionType, NotHeld, HoldingPCs
    <3> QED
      BY <1>3, <3>1 DEF ReDispatchDecision, Close, queues
  <2> QED
    BY <1>a, <2>1
<1>4. CASE CreateRunAttempt \/ WorkPhase \/ FinishUnconfigured
  <2>1. PICK pc \in {"start", "startUnconfigured", "deliver", "dispatch", "park", "fail",
                     "failUnconfigured"} :
            \/ Become("worker", [Worker EXCEPT !.pc = pc])
            \/ Become("worker", [Worker EXCEPT !.pc = pc, !.cont = @ + 1])
    BY <1>4 DEF CreateRunAttempt, WorkPhase, FinishUnconfigured, WorkerGoto, Goto, Worker
  <2>2. NotHeld([Worker EXCEPT !.pc = pc]) /\ NotHeld([Worker EXCEPT !.pc = pc, !.cont = @ + 1])
    BY <1>0, <1>4, <1>b DEF CreateRunAttempt, WorkPhase, FinishUnconfigured, SessionType, NotHeld,
                            HoldingPCs
  <2> QED
    BY <1>4, <1>a, <2>1, <2>2 DEF CreateRunAttempt, WorkPhase, FinishUnconfigured, queues
<1>5. CASE StartStep
  <2> DEFINE new == [Worker EXCEPT !.view[Worker.step] = "running",
                           !.pc = IF At("worker", "start") THEN "work" ELSE "unconfigured"]
  <2>1. NotHeld(new) /\ NotHeld(IdleSession)
    BY <1>0, <1>5, <1>b DEF StartStep, SessionType, NotHeld, HoldingPCs
  <2>2. UNCHANGED <<deliverables, proofQueue>> /\ (Become("worker", new) \/ Close("worker"))
    BY <1>5 DEF StartStep, queues
  <2> QED
    BY <1>a, <2>1, <2>2 DEF Close
<1>6. CASE CreateDeliverable
  <2> DEFINE new == [Worker EXCEPT !.pc = "markVerifying",
                                   !.nth = Len(deliverables[Worker.step]) + 1]
  <2>1. Become("worker", new) /\ AppendDeliverable(Worker.step) /\ UNCHANGED proofQueue
    BY <1>6 DEF CreateDeliverable, queues
  <2>2. /\ new.verdict = "none" /\ new.step = Worker.step
        /\ new.nth = Len(deliverables[Worker.step]) + 1
    BY <1>0, <1>6, <1>b DEF CreateDeliverable, SessionType
  <2> HIDE DEF new
  <2> QED
    BY <1>0, <2>1, <2>2, ApartIfRecorded, WorkerHolders
<1>7. CASE MarkVerifying
  <2> DEFINE new == [Worker EXCEPT !.view[Worker.step] = "verifying", !.pc = "publishProof"]
  <2>1. Become("worker", new) /\ UNCHANGED <<deliverables, proofQueue>>
    BY <1>7 DEF MarkVerifying, MoveStep, queues
  <2>2. /\ new.verdict = "none" /\ new.step = Worker.step /\ new.nth = Worker.nth
        /\ Holds("worker")
    BY <1>0, <1>7, <1>b DEF MarkVerifying, SessionType, Holds, HoldingPCs
  <2> HIDE DEF new
  <2> QED
    BY <1>0, <2>1, <2>2, ApartIfKept, WorkerHolders
<1>8. CASE PublishProof
  <2>1. CASE Close("worker") /\ UNCHANGED proofQueue
    <3>1. NotHeld(IdleSession)
      BY <1>0 DEF NotHeld, HoldingPCs
    <3> QED
      BY <1>8, <1>a, <2>1, <3>1 DEF PublishProof, Close
  <2>2. CASE /\ proofQueue' = Append(proofQueue, [step |-> Worker.step, nth |-> Worker.nth])
             /\ WorkerGoto("next")
    <3> DEFINE new == [Worker EXCEPT !.pc = "next"]
    <3>1. Become("worker", new) /\ UNCHANGED deliverables
      BY <1>8, <2>2 DEF PublishProof, WorkerGoto, Goto, Worker
    <3>2. NotHeld(new) /\ Holds("worker") /\ new.pc = "next"
      BY <1>0, <1>8, <1>b DEF PublishProof, SessionType, NotHeld, Holds, HoldingPCs
    <3> HIDE DEF new
    <3> QED
      BY <1>0, <2>2, <3>1, <3>2, ApartIfPublished, WorkerHolders
  <2> QED
    BY <1>8, <2>1, <2>2 DEF PublishProof
<1>9. CASE ParkStep \/ FailStep
  <2>1. PICK status \in WorkStepStatuses, pc \in {"raise", "surface", "next"} :
            Become("worker", [Worker EXCEPT !.view[Worker.step] = status, !.pc = pc])
    BY <1>9 DEF ParkStep, FailStep, MoveStep, WorkStepStatuses
  <2>2. NotHeld([Worker EXCEPT !.view[Worker.step] = status, !.pc = pc])
    BY <1>0, <1>9, <1>b DEF ParkStep, FailStep, SessionType, NotHeld, HoldingPCs
  <2> QED
    BY <1>9, <1>a, <2>1, <2>2 DEF ParkStep, FailStep, queues
<1>10. CASE SurfacePartial
  <2>1. UNCHANGED proofQueue /\ Worker.verdict = "none"
    BY <1>0, <1>10, <1>b DEF SurfacePartial, queues
  <2>2. CASE WorkerGoto("next") /\ UNCHANGED deliverables
    <3>1. NotHeld([Worker EXCEPT !.pc = "next"])
      BY <1>0, <2>1 DEF SessionType, NotHeld, HoldingPCs
    <3> QED
      BY <1>a, <2>1, <2>2, <3>1 DEF WorkerGoto, Goto, Worker
  <2>3. CASE /\ AppendDeliverable(Worker.step)
             /\ Become("worker", [Worker EXCEPT !.pc = "diagnose",
                                                !.nth = Len(deliverables[Worker.step]) + 1])
    <3> DEFINE new == [Worker EXCEPT !.pc = "diagnose",
                                     !.nth = Len(deliverables[Worker.step]) + 1]
    <3>1. /\ new.verdict = "none" /\ new.step = Worker.step
          /\ new.nth = Len(deliverables[Worker.step]) + 1
      BY <1>0, <2>1 DEF SessionType
    <3>2. Become("worker", new) /\ AppendDeliverable(Worker.step)
      BY <2>3
    <3> HIDE DEF new
    <3> QED
      BY <1>0, <2>1, <3>1, <3>2, ApartIfRecorded, WorkerHolders
  <2> QED
    BY <1>10, <2>2, <2>3 DEF SurfacePartial
<1>11. CASE DiagnosePartial
  <2>1. PICK verdict : Become("worker", [Worker EXCEPT !.pc = "next", !.verdict = verdict])
    BY <1>11 DEF DiagnosePartial
  <2> DEFINE new == [Worker EXCEPT !.pc = "next", !.verdict = verdict]
  <2>2. /\ new.pc = "next" /\ new.step = Worker.step /\ new.nth = Worker.nth
        /\ Holds("worker") /\ Become("worker", new) /\ UNCHANGED <<deliverables, proofQueue>>
    BY <1>0, <1>11, <2>1 DEF DiagnosePartial, SessionType, Holds, HoldingPCs, queues
  <2> HIDE DEF new
  <2> QED
    BY <1>0, <2>2, ApartIfKept, WorkerHolders
<1>12. CASE NextStep
  <2> DEFINE s == Worker.step
             more == Worker.kind = "plan" /\ s + 1 \in Steps /\ Worker.view[s + 1] # "absent"
             new == [Worker EXCEPT !.verdict = "none", !.nth = 0, !.cont = 0,
                                   !.pc = IF more THEN "dispatch" ELSE "finalize",
                                   !.step = IF more THEN s + 1 ELSE s]
  <2>1. NotHeld(new)
    BY <1>0 DEF SessionType, NotHeld, HoldingPCs
  <2>2. Become("worker", new) /\ deliverables' = Flushed("worker") /\ UNCHANGED proofQueue
    BY <1>12 DEF NextStep, queues
  <2> HIDE DEF new
  <2> QED
    BY <1>0, <2>1, <2>2, ApartIfSettled, WorkerHolders DEF NotHeld
<1> QED
  BY <1>1, <1>2, <1>3, <1>4, <1>5, <1>6, <1>7, <1>8, <1>9, <1>10, <1>11, <1>12 DEF WorkerNext

(* The VerifierWorker.                                                     *)
LEMMA VerifierKeepsVerdicts ==
    VerdictInv /\ VerifierNext => VerdictsAreApart' /\ KeepsVerdicts /\ VerdictHolders'
<1> SUFFICES ASSUME VerdictInv, VerifierNext
             PROVE  VerdictsAreApart' /\ KeepsVerdicts /\ VerdictHolders'
  OBVIOUS
<1>0. /\ Verifier \in SessionType /\ IdleSession \in SessionType
      /\ TypeOK /\ VerdictsAreApart /\ VerdictHolders /\ Verifier = session["verifier"]
      /\ "verifier" \in Sessions \ {"worker"} /\ IdleSession.verdict = "none"
      /\ IdleSession.pc = "idle"
  BY Fields, IdleType DEF VerdictInv, TypeInv, Verifier, Sessions, IdleSession
<1>1. CASE ConsumeProof
  <2> DEFINE new == [IdleSession EXCEPT !.pc = "verify", !.step = Head(proofQueue).step,
                                        !.nth = Head(proofQueue).nth]
  <2>1. Become("verifier", new) /\ UNCHANGED deliverables /\ proofQueue # <<>>
        /\ proofQueue' = Tail(proofQueue)
    BY <1>1 DEF ConsumeProof
  <2>2. new.step = Head(proofQueue).step /\ new.nth = Head(proofQueue).nth
    BY <1>0 DEF SessionType
  <2> HIDE DEF new
  <2> QED
    BY <1>0, <2>1, <2>2, ApartIfConsumed, OtherHolders
<1>2. CASE RunVerification
  <2>1. PICK new : /\ Become("verifier", new) /\ UNCHANGED <<deliverables, proofQueue>>
                   /\ NotHeld(new) \/ (new.step = Verifier.step /\ new.nth = Verifier.nth)
    <3>1. NotHeld(IdleSession)
      BY <1>0 DEF NotHeld, HoldingPCs
    <3>2. \A verdict : LET new == [Verifier EXCEPT !.pc = "advance", !.verdict = verdict]
                       IN  new.step = Verifier.step /\ new.nth = Verifier.nth
      BY <1>0 DEF SessionType
    <3> QED
      BY <1>2, <3>1, <3>2 DEF RunVerification, Close, queues
  <2>2. Holds("verifier")
    BY <1>2 DEF RunVerification, At, Holds, HoldingPCs
  <2> QED
    BY <1>0, <2>1, <2>2, ApartIfKept, OtherHolders
<1>3. CASE AdvanceRead
  <2> DEFINE new == [Verifier EXCEPT
                        !.view[Verifier.step] = step[Verifier.step],
                        !.pc = IF step[Verifier.step] = "verifying" THEN "move" ELSE "finalize"]
  <2>1. Become("verifier", new) /\ UNCHANGED <<deliverables, proofQueue>>
    BY <1>3 DEF AdvanceRead, queues
  <2>2. new.step = Verifier.step /\ new.nth = Verifier.nth /\ Holds("verifier")
    BY <1>0, <1>3 DEF AdvanceRead, At, SessionType, Holds, HoldingPCs
  <2> HIDE DEF new
  <2> QED
    BY <1>0, <2>1, <2>2, ApartIfKept, OtherHolders
<1>4. CASE AdvanceStep
  <2>1. PICK target : AdvanceTo(target)
    BY <1>4 DEF AdvanceStep
  <2> DEFINE new == [Verifier EXCEPT !.view[Verifier.step] = target, !.verdict = "none",
                                     !.pc = "finalize"]
  <2>2. Become("verifier", new) /\ deliverables' = Flushed("verifier") /\ UNCHANGED proofQueue
    BY <2>1 DEF AdvanceTo, queues
  <2>3. NotHeld(new)
    BY <1>0 DEF SessionType, NotHeld, HoldingPCs
  <2> HIDE DEF new
  <2> QED
    BY <1>0, <2>2, <2>3, ApartIfSettled, OtherHolders
<1> QED
  BY <1>1, <1>2, <1>3, <1>4 DEF VerifierNext

(* The finalization, whoever runs it: a flushed verdict is kept for the    *)
(* commit that is ahead, committed, or rolled back.                        *)
LEMMA FinalizeKeepsVerdicts ==
    ASSUME VerdictInv, NEW p \in Sessions, FinalizeNext(p)
    PROVE  VerdictsAreApart' /\ KeepsVerdicts /\ VerdictHolders'
<1>0. /\ session[p] \in SessionType /\ IdleSession \in SessionType
      /\ TypeOK /\ VerdictsAreApart /\ VerdictHolders
      /\ IdleSession.verdict = "none" /\ IdleSession.pc = "idle"
  BY Fields, IdleType DEF VerdictInv, TypeInv, IdleSession
<1> DEFINE Held(new) == Holds(p) /\ new.step = session[p].step /\ new.nth = session[p].nth
<1>1. p # "verifier" => session[p].verdict = "none"
  BY <1>0 DEF FinalizeNext, FinalizeRead, FinalizeStuck, Asking, FinalizeDecide, FinalizeReady,
              ShipGate, FinalizeShip, CloseSession, At, VerdictHolders, Worker, Sessions
<1>2. PICK new :
        /\ Become(p, new) /\ UNCHANGED proofQueue
        /\ new.verdict = "none" \/ new.verdict = session[p].verdict
        /\ \/ UNCHANGED deliverables /\ (NotHeld(new) \/ Held(new))
           \/ deliverables' = Flushed(p) /\ NotHeld(new)
  <2> DEFINE Keeps(new) == /\ new.verdict = session[p].verdict
                           /\ NotHeld(new) \/ Held(new)
  <2>1. ASSUME FinalizeRead(p) \/ FinalizeStuck(p)
        PROVE  \E new : Become(p, new) /\ Keeps(new) /\ UNCHANGED <<deliverables, proofQueue>>
    <3>1. CASE FinalizeRead(p)
      <4>1. PICK pc \in {"stuck", "ready", "done"} :
              Become(p, [session[p] EXCEPT !.view = StepsSeen(p), !.pc = pc])
        BY <3>1 DEF FinalizeRead
      <4>2. Keeps([session[p] EXCEPT !.view = StepsSeen(p), !.pc = pc])
        BY <1>0 DEF SessionType, NotHeld, Holds, HoldingPCs
      <4> HIDE DEF Keeps
      <4> QED
        BY <3>1, <4>1, <4>2 DEF FinalizeRead, queues
    <3>2. CASE FinalizeStuck(p)
      <4>1. PICK missing : Become(p, [session[p] EXCEPT !.missing = missing, !.pc = "decide"])
        BY <3>2 DEF FinalizeStuck, Asking
      <4>2. Keeps([session[p] EXCEPT !.missing = missing, !.pc = "decide"])
        BY <1>0 DEF SessionType, NotHeld, Holds, HoldingPCs
      <4> HIDE DEF Keeps
      <4> QED
        BY <3>2, <4>1, <4>2 DEF FinalizeStuck, Asking, queues
    <3> QED
      BY <2>1, <3>1, <3>2
  <2>2. ASSUME ShipGate(p) \/ FinalizeShip(p)
        PROVE  \E new : Become(p, new) /\ Keeps(new) /\ UNCHANGED <<deliverables, proofQueue>>
    <3>1. PICK pc \in {"ship", "done"} : Become(p, [session[p] EXCEPT !.pc = pc])
      BY <2>2 DEF ShipGate, FinalizeShip, Goto
    <3>2. Keeps([session[p] EXCEPT !.pc = pc])
      BY <1>0 DEF SessionType, NotHeld, Holds, HoldingPCs
    <3> HIDE DEF Keeps
    <3> QED
      BY <2>2, <3>1, <3>2 DEF ShipGate, FinalizeShip, queues
  <2>3. ASSUME FinalizeDecide(p) \/ FinalizeReady(p)
        PROVE  \E new : /\ Become(p, new) /\ new.verdict = "none" /\ NotHeld(new)
                        /\ deliverables' = Flushed(p) /\ UNCHANGED proofQueue
    <3>1. PICK pc \in {"done", "gate"} :
            Become(p, [session[p] EXCEPT !.pc = pc, !.verdict = "none"])
      BY <2>3 DEF FinalizeDecide, FinalizeReady
    <3>2. NotHeld([session[p] EXCEPT !.pc = pc, !.verdict = "none"])
      BY <1>0 DEF SessionType, NotHeld, HoldingPCs
    <3> QED
      BY <2>3, <3>1, <3>2 DEF FinalizeDecide, FinalizeReady, queues, NotHeld
  <2>4. ASSUME CloseSession(p)
        PROVE  \E new : /\ Become(p, new) /\ new.verdict = "none" /\ NotHeld(new)
                        /\ UNCHANGED <<deliverables, proofQueue>>
    BY <1>0, <2>4 DEF CloseSession, Close, queues, NotHeld, HoldingPCs
  <2> QED
    BY <2>1, <2>2, <2>3, <2>4 DEF FinalizeNext
<1>3. VerdictsAreApart' /\ KeepsVerdicts
  BY <1>0, <1>2, ApartIfKept, ApartIfSettled
<1>4. VerdictHolders'
  <2>1. CASE p = "worker"
    BY <1>0, <1>1, <1>2, <2>1, WorkerHolders
  <2>2. CASE p # "worker"
    BY <1>0, <1>1, <1>2, <2>2, OtherHolders
  <2> QED
    BY <2>1, <2>2
<1> QED
  BY <1>3, <1>4

(* The API: a Deliverable that is posted is one more row.                  *)
LEMMA ApiKeepsVerdicts ==
    ASSUME VerdictInv, FounderNext \/ \E h \in Handlers : HandlerNext(h)
    PROVE  VerdictsAreApart' /\ KeepsVerdicts /\ VerdictHolders'
<1>0. TypeOK /\ VerdictsAreApart /\ VerdictHolders /\ NobodyReverifies
  BY DEF VerdictInv, TypeInv
<1>1. UNCHANGED <<session, proofQueue>>
  BY <1>0 DEF FounderNext, PostDirection, ResolveDecision, VerifyDeliverable, PostDeliverable,
         UpsertExecutorConfig, HandlerNext, EnqueueRequest, ReEngageRead, ReEngageRequest,
         ReEngageStepRead, ReEngageStep, PublishReEngage, EnqueueProof, queues, NobodyReverifies
<1>2. UNCHANGED deliverables \/ \E s \in Steps : AppendDeliverable(s)
  <2>1. ASSUME NEW h \in Handlers, NEW s \in Steps, NEW n, VerifyDeliverable(h, s, n)
        PROVE  FALSE
    BY <1>0, <2>1 DEF VerifyDeliverable, Spend, NobodyReverifies
  <2>2. ASSUME NEW s \in Steps, PostDeliverable(s) PROVE AppendDeliverable(s)
    BY <2>2 DEF PostDeliverable, AppendDeliverable
  <2> QED
    BY <2>1, <2>2 DEF FounderNext, PostDirection, ResolveDecision, UpsertExecutorConfig,
         HandlerNext, EnqueueRequest, ReEngageRead, ReEngageRequest, ReEngageStepRead,
         ReEngageStep, PublishReEngage, EnqueueProof
<1>3. VerdictHolders'
  BY <1>0, <1>1 DEF VerdictHolders, Worker
<1>4. VerdictsAreApart' /\ KeepsVerdicts
  <2>1. CASE UNCHANGED deliverables
    BY <1>0, <1>1, <2>1, ApartIfReleased DEF Holds, RowOf
  <2>2. ASSUME NEW s \in Steps, AppendDeliverable(s) PROVE VerdictsAreApart' /\ KeepsVerdicts
    <3>1. PICK n : n = Len(deliverables[s]) + 1
      OBVIOUS
    <3> QED
      BY <1>0, <1>1, <2>2, <3>1, ApartIfRecorded
  <2> QED
    BY <1>2, <2>1, <2>2
<1> QED
  BY <1>3, <1>4

(* Process death, and the reaper.                                          *)
LEMMA ProcessKeepsVerdicts ==
    ASSUME VerdictInv, ProcessNext
    PROVE  VerdictsAreApart' /\ KeepsVerdicts /\ VerdictHolders'
<1>0. /\ session["reaper"] \in SessionType /\ "reaper" \in Sessions
      /\ TypeOK /\ VerdictsAreApart /\ VerdictHolders
  BY Fields DEF VerdictInv, TypeInv, Sessions
<1>1. UNCHANGED <<deliverables, proofQueue>>
  BY DEF ProcessNext, Crash, Restart, StartWorkers, ReapStep, ReapStepTo, ReapAttempt, queues
<1>2. CASE Crash
  <2>1. \A p \in Sessions : session'[p] = IdleSession
    BY <1>2 DEF Crash
  <2> QED
    BY <1>0, <1>1, <2>1, ApartIfReleased
       DEF Holds, HoldingPCs, IdleSession, VerdictHolders, Worker, Sessions
<1>3. CASE Restart \/ StartWorkers
  BY <1>0, <1>1, <1>3, ApartIfReleased
     DEF Restart, StartWorkers, Holds, RowOf, VerdictHolders, Worker
<1>4. CASE ReapStep \/ \E s \in Steps : ReapAttempt(s)
  <2>1. PICK pc \in {"finalize", "reapStep"}, s \in Steps :
            Become("reaper", [session["reaper"] EXCEPT !.pc = pc, !.step = s])
    <3>1. CASE ReapStep
      <4>1. Become("reaper", [session["reaper"] EXCEPT !.pc = "finalize"])
        BY <3>1 DEF ReapStep, ReapStepTo, Goto
      <4>2. [session["reaper"] EXCEPT !.pc = "finalize"] =
              [session["reaper"] EXCEPT !.pc = "finalize", !.step = session["reaper"].step]
        BY <1>0 DEF SessionType
      <4>3. session["reaper"].step \in Steps
        BY <1>0 DEF SessionType
      <4> QED
        BY <4>1, <4>2, <4>3
    <3>2. CASE \E s \in Steps : ReapAttempt(s)
      BY <3>2 DEF ReapAttempt
    <3> QED
      BY <1>4, <3>1, <3>2
  <2> DEFINE new == [session["reaper"] EXCEPT !.pc = pc, !.step = s]
  <2>2. NotHeld(new) /\ Become("reaper", new)
    BY <1>0, <2>1 DEF SessionType, NotHeld, HoldingPCs, VerdictHolders
  <2> HIDE DEF new
  <2> QED
    BY <1>0, <1>1, <2>2, ApartIfKept, OtherHolders DEF NotHeld
<1> QED
  BY <1>2, <1>3, <1>4 DEF ProcessNext

(* Without a re-verification call nobody stamps a Deliverable by hand.     *)
LEMMA ReverifiesStep ==
    ASSUME TypeOK, NobodyReverifies, Next
    PROVE  NobodyReverifies'
<1>0. left \in Bounds /\ left.verify = 0
  BY DEF TypeOK, NobodyReverifies
<1>1. ASSUME NEW bound \in {"resolve", "reresolve", "post", "crash", "fault"}, Spend(bound)
      PROVE  left'.verify = 0
  BY <1>0, <1>1 DEF Spend, Bounds
<1>2. handler \in [Handlers -> [pc : HandlerPCs, step : Steps, nth : Nat]]
  BY DEF TypeOK
<1>3. CASE WorkerNext
  <2>1. UNCHANGED handler /\ (UNCHANGED left \/ Spend("fault"))
    BY <1>3 DEF WorkerNext, ConsumeRequest, PlanRequest, ReDispatchDecision, CreateRunAttempt,
                StartStep, WorkPhase, FinishUnconfigured, CreateDeliverable, MarkVerifying,
                PublishProof, ParkStep, FailStep, SurfacePartial, DiagnosePartial, NextStep
  <2> QED
    BY <1>0, <1>1, <2>1 DEF NobodyReverifies
<1>4. CASE VerifierNext \/ \E p \in Sessions : FinalizeNext(p)
  <2>1. UNCHANGED handler /\ (UNCHANGED left \/ Spend("fault"))
    BY <1>4 DEF VerifierNext, ConsumeProof, RunVerification, AdvanceRead, AdvanceStep, AdvanceTo,
                FinalizeNext, FinalizeRead, FinalizeStuck, Asking, FinalizeDecide, FinalizeReady,
                ShipGate, FinalizeShip, CloseSession
  <2> QED
    BY <1>0, <1>1, <2>1 DEF NobodyReverifies
<1>5. ASSUME NEW h \in Handlers, HandlerNext(h) PROVE NobodyReverifies'
  <2>1. UNCHANGED left \/ Spend("fault")
    BY <1>5 DEF HandlerNext, EnqueueRequest, ReEngageRead, ReEngageRequest, ReEngageStepRead,
                ReEngageStep, PublishReEngage, EnqueueProof
  <2>2. handler' = [handler EXCEPT ![h] = IdleHandler] \/
        \E pc \in HandlerPCs \ {"enqueueProof"} : HandlerGoto(h, pc)
    BY <1>5 DEF HandlerNext, EnqueueRequest, ReEngageRead, ReEngageRequest, ReEngageStepRead,
                ReEngageStep, PublishReEngage, EnqueueProof, HandlerPCs
  <2>3. \A k \in Handlers : handler'[k].pc # "enqueueProof"
    BY <1>2, <2>2 DEF HandlerGoto, IdleHandler, NobodyReverifies
  <2> QED
    BY <1>0, <1>1, <2>1, <2>3 DEF NobodyReverifies
<1>6. CASE FounderNext
  <2>1. ASSUME NEW h \in Handlers, PostDirection(h) PROVE NobodyReverifies'
    BY <1>0, <1>2, <2>1 DEF PostDirection, HandlerGoto, NobodyReverifies
  <2>2. ASSUME NEW h \in Handlers, NEW s \in Steps, ResolveDecision(h, s)
        PROVE  NobodyReverifies'
    <3>1. Spend("resolve") \/ Spend("reresolve")
      BY <2>2 DEF ResolveDecision
    <3>2. \A k \in Handlers : handler'[k].pc # "enqueueProof"
      BY <1>2, <2>2 DEF ResolveDecision, NobodyReverifies
    <3> QED
      BY <1>1, <3>1, <3>2 DEF NobodyReverifies
  <2>3. ASSUME NEW h \in Handlers, NEW s \in Steps, NEW n, VerifyDeliverable(h, s, n)
        PROVE  NobodyReverifies'
    BY <1>0, <2>3 DEF VerifyDeliverable, Spend
  <2>4. ASSUME NEW s \in Steps, PostDeliverable(s) PROVE NobodyReverifies'
    BY <1>1, <2>4 DEF PostDeliverable, NobodyReverifies
  <2>5. CASE UpsertExecutorConfig
    BY <2>5 DEF UpsertExecutorConfig, NobodyReverifies
  <2> QED
    BY <1>6, <2>1, <2>2, <2>3, <2>4, <2>5 DEF FounderNext
<1>7. CASE ProcessNext
  <2>1. UNCHANGED handler \/ handler' = [h \in Handlers |-> IdleHandler]
    BY <1>7 DEF ProcessNext, Crash, Restart, StartWorkers, ReapStep, ReapStepTo, ReapAttempt
  <2>2. UNCHANGED left \/ Spend("crash")
    BY <1>7 DEF ProcessNext, Crash, Restart, StartWorkers, ReapStep, ReapStepTo, ReapAttempt
  <2> QED
    BY <1>0, <1>1, <2>1, <2>2 DEF NobodyReverifies, IdleHandler
<1> QED
  BY <1>3, <1>4, <1>5, <1>6, <1>7 DEF Next

(* VerdictInv is inductive, and no step under it changes a verdict that is *)
(* committed.                                                              *)
LEMMA VerdictStep == VerdictInv /\ [Next]_vars => VerdictInv' /\ (KeepsVerdicts \/ UNCHANGED vars)
<1> SUFFICES ASSUME VerdictInv, [Next]_vars
             PROVE  VerdictInv' /\ (KeepsVerdicts \/ UNCHANGED vars)
  OBVIOUS
<1>1. TypeInv'
  BY TypeInvStep DEF VerdictInv
<1>2. CASE Next
  <2>1. NobodyReverifies'
    BY <1>2, ReverifiesStep DEF VerdictInv, TypeInv
  <2>2. VerdictsAreApart' /\ KeepsVerdicts /\ VerdictHolders'
    BY <1>2, WorkerKeepsVerdicts, VerifierKeepsVerdicts, FinalizeKeepsVerdicts,
       ApiKeepsVerdicts, ProcessKeepsVerdicts DEF Next
  <2> QED
    BY <1>1, <2>1, <2>2 DEF VerdictInv
<1>3. CASE UNCHANGED vars
  <2>1. VerdictsAreApart'
    BY <1>3, ApartIfReleased DEF vars, VerdictInv, Holds, RowOf
  <2>2. NobodyReverifies' /\ VerdictHolders'
    BY <1>3 DEF vars, VerdictInv, NobodyReverifies, VerdictHolders, Worker
  <2> QED
    BY <1>1, <1>3, <2>1, <2>2 DEF VerdictInv
<1> QED
  BY <1>2, <1>3

(* VerdictInv holds initially in a system where nobody re-verifies by      *)
(* hand.                                                                   *)
LEMMA VerdictInit == ASSUME MaxVerifies = 0, Init PROVE VerdictInv
<1>1. TypeInv
  BY TypeInvInit
<1>2. NobodyReverifies
  BY DEF Init, NobodyReverifies, IdleHandler
<1>3. \A p \in Sessions : session[p] = IdleSession
  BY DEF Init
<1>4. VerdictHolders
  BY <1>3 DEF VerdictHolders, Worker, Sessions, IdleSession
<1>5. proofQueue = <<>> /\ Len(<<>>) = 0
  BY EmptySeq DEF Init
<1>6. VerdictsAreApart
  <2>1. \A p \in Sessions : ~Holds(p)
    BY <1>3 DEF Holds, HoldingPCs, IdleSession
  <2>2. 1 .. Len(proofQueue) = {}
    BY <1>5
  <2> QED
    BY <2>1, <2>2 DEF VerdictsAreApart, Queued
<1> QED
  BY <1>1, <1>2, <1>4, <1>6 DEF VerdictInv

(* While nobody asks for a re-verification, every verdict under way has    *)
(* its Deliverable to itself, and that Deliverable has no verdict yet:     *)
(* a proof message, the verifier's run and the worker's diagnosis never    *)
(* meet on a row, in any interleaving, restart or number of concurrent     *)
(* calls.                                                                  *)
THEOREM VerdictsApart == ASSUME MaxVerifies = 0 PROVE Spec => []VerdictsAreApart
<1>1. Init => VerdictInv
  BY VerdictInit
<1>2. VerdictInv /\ [Next]_vars => VerdictInv'
  BY VerdictStep
<1>3. VerdictInv => VerdictsAreApart
  BY DEF VerdictInv
<1> QED
  BY <1>1, <1>2, <1>3, PTL DEF Spec

(* And so a proof_state that was committed stays: verification_failed does *)
(* not become verified, and verified does not become anything else, unless *)
(* the founder re-verifies.                                                *)
THEOREM VerdictFinal == ASSUME MaxVerifies = 0 PROVE Spec => VerdictIsFinal
<1>1. Init => VerdictInv
  BY VerdictInit
<1>2. VerdictInv /\ [Next]_vars => VerdictInv'
  BY VerdictStep
<1>3. VerdictInv /\ [Next]_vars => [KeepsVerdicts]_vars
  BY VerdictStep
<1> QED
  BY <1>1, <1>2, <1>3, PTL DEF Spec, VerdictIsFinal
=============================================================================
