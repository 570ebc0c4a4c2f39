--------------------------- MODULE DecisionProofs ---------------------------
(***************************************************************************)
(* What the lifecycle asks the founder, and what it owes: a WorkStep that  *)
(* is stuck has its Decision, and not two; a WorkStep that waits for its   *)
(* verdict gets exactly one, which does not stay `verifying`; no           *)
(* RunAttempt is left behind; and a one-step plan has no dead end.  Each   *)
(* holds in a system without the faults that its theorem names.            *)
(***************************************************************************)
EXTENDS ShippingProofs


(* The operators that only name program points, expanded as they are for   *)
(* Orderly.                                                                *)
USE DEF Typed, Calling, ProofUnderWay, Drives, Advances, More, Rests, Knows, Ended, AllReady,
        Engaged, Stuck, StartingPCs, WorkingPCs, TailPCs, SettlingPCs, Coming, Up, Dormant,
        AttemptPCs

(* An entry taken from a queue of one leaves it empty.                     *)
LEMMA OneEntryTaken ==
    ASSUME VerdictInv, requestQueue # <<>>, Len(requestQueue) = 1,
           requestQueue' = Tail(requestQueue)
    PROVE  requestQueue' = <<>>
<1> DEFINE Entry == [kind : {"plan", "re_engage"}, step : Steps]
<1>1. requestQueue \in Seq(Entry)
  BY DEF VerdictInv, TypeInv, TypeOK
<1> HIDE DEF Entry
<1>2. requestQueue' \in Seq(Entry) /\ Len(requestQueue') = Len(requestQueue) - 1
  BY <1>1, HeadTailProperties
<1> QED
  BY <1>2, EmptySeq

(* Whether there is one API call does not change.                          *)
LEMMA TypedNext == ASSUME OneCallAtATime, VerdictInv' PROVE Typed'
<1>1. TypeOK'
  BY DEF VerdictInv, TypeInv
<1>2. Handlers = {Only}
  BY DEF OneCallAtATime, Only
<1>3. Worker' \in SessionType /\ Verifier' \in SessionType /\ Reaper' \in SessionType
  BY <1>1 DEF TypeOK, Worker, Verifier, Reaper, Sessions
<1>4. Call'.step \in Steps
  BY <1>1, <1>2 DEF TypeOK, Call
<1>5. Steps \subseteq Nat
  BY DEF Steps
<1> QED
  BY <1>1, <1>2, <1>3, <1>4, <1>5 DEF TypeOK, SessionType, Typed

(* A call that only goes to its next program point.                        *)
LEMMA CallGoes ==
    ASSUME Typed, NEW h \in Handlers, NEW pc, HandlerGoto(h, pc), UNCHANGED session
    PROVE  Call'.pc = pc /\ Call'.step = Call.step
<1>1. handler' = [handler EXCEPT ![h] = [handler[h] EXCEPT !.pc = pc]]
  BY DEF HandlerGoto
<1>2. handler[h] = Call /\ Call' = [handler[h] EXCEPT !.pc = pc]
  BY <1>1, CallMoves, Zenon
<1>3. Call \in [pc : HandlerPCs, step : Steps, nth : Nat]
  BY <1>2
<1> QED
  BY <1>2, <1>3

(* Where a session can be after a step of the finalization.                *)
LEMMA FinalizeGoes ==
    ASSUME VerdictInv, NEW p \in Sessions, FinalizeNext(p)
    PROVE  \E new : Become(p, new) /\ new.pc \in {"idle", "done"} \cup SettlingPCs
<1>0. session[p] \in SessionType /\ IdleSession.pc = "idle"
  BY Fields DEF VerdictInv, TypeInv, IdleSession
<1>1. CASE FinalizeRead(p)
  <2>0. PICK pc \in {"stuck", "ready", "done"} : \E view :
            Become(p, [session[p] EXCEPT !.view = view, !.pc = pc])
    BY <1>1 DEF FinalizeRead
  <2>1. PICK view : Become(p, [session[p] EXCEPT !.view = view, !.pc = pc])
    BY <2>0
  <2>2. [session[p] EXCEPT !.view = view, !.pc = pc].pc = pc
    BY <1>0 DEF SessionType
  <2> QED
    BY <2>1, <2>2
<1>2. CASE FinalizeStuck(p)
  <2>1. PICK missing : Become(p, [session[p] EXCEPT !.missing = missing, !.pc = "decide"])
    BY <1>2 DEF FinalizeStuck, Asking
  <2>2. [session[p] EXCEPT !.missing = missing, !.pc = "decide"].pc = "decide"
    BY <1>0 DEF SessionType
  <2> QED
    BY <2>1, <2>2
<1>3. CASE FinalizeDecide(p) \/ FinalizeReady(p)
  <2>1. PICK pc \in {"gate", "done"} :
            Become(p, [session[p] EXCEPT !.pc = pc, !.verdict = "none"])
    BY <1>3 DEF FinalizeDecide, FinalizeReady
  <2>2. [session[p] EXCEPT !.pc = pc, !.verdict = "none"].pc = pc
    BY <1>0 DEF SessionType
  <2> QED
    BY <2>1, <2>2
<1>4. CASE ShipGate(p) \/ FinalizeShip(p)
  <2>1. PICK pc \in {"ship", "done"} : Become(p, [session[p] EXCEPT !.pc = pc])
    BY <1>4 DEF ShipGate, FinalizeShip, Goto
  <2>2. [session[p] EXCEPT !.pc = pc].pc = pc
    BY <1>0 DEF SessionType
  <2> QED
    BY <2>1, <2>2
<1>5. CASE CloseSession(p)
  BY <1>0, <1>5 DEF CloseSession, Close
<1> QED
  BY <1>1, <1>2, <1>3, <1>4, <1>5 DEF FinalizeNext

-----------------------------------------------------------------------------
(* A waiting Request has a Decision for each of its stuck WorkSteps.       *)
StuckAsked ==
    request = "needs_decision" =>
        \A s \in Steps : step[s] \in Stuck =>
            openDecisions[s] > 0 \/ (Calling /\ Call.step = s)

AskedInv == ShipInv /\ left.crash = 0 /\ StuckAsked

(* While the Request waits, its open Decisions only become more, except    *)
(* for the one that a call resolves.                                       *)
LEMMA WaitingStep ==
    ASSUME OneCallAtATime, VerdictInv, Orderly, Next, ~Crash,
           request = "needs_decision", request' = "needs_decision"
    PROVE  \/ /\ \A s \in Steps : openDecisions[s] > 0 => openDecisions'[s] > 0
              /\ Calling => Calling' /\ Call'.step = Call.step
           \/ /\ ~Calling /\ Calling'
              /\ \A s \in Steps : s # Call'.step => openDecisions'[s] = openDecisions[s]
<1>t. Typed
  BY TypedParts
<1>1. CASE WorkerNext
  <2>1. UNCHANGED handler
    BY <1>1, Zenon DEF WorkerNext, ConsumeRequest, PlanRequest, ReDispatchDecision,
         CreateRunAttempt, StartStep, WorkPhase, FinishUnconfigured, CreateDeliverable,
         MarkVerifying, PublishProof, ParkStep, FailStep, SurfacePartial, DiagnosePartial, NextStep
  <2>2. UNCHANGED openDecisions \/ SurfacePartial
    BY <1>1, Zenon DEF WorkerNext, ConsumeRequest, PlanRequest, ReDispatchDecision,
         CreateRunAttempt, StartStep, WorkPhase, FinishUnconfigured, CreateDeliverable,
         MarkVerifying, PublishProof, ParkStep, FailStep, DiagnosePartial, NextStep, decisions
  <2>3. \A s \in Steps : openDecisions[s] > 0 => openDecisions'[s] > 0
    <3>1. CASE SurfacePartial
      <4>1. \/ UNCHANGED openDecisions
            \/ openDecisions' = [openDecisions EXCEPT ![Worker.step] = @ + 1]
        BY <3>1 DEF SurfacePartial
      <4> QED
        BY <1>t, <4>1
    <3> QED
      BY <2>2, <3>1
  <2> QED
    BY <2>1, <2>3 DEF Call
<1>2. CASE VerifierNext \/ ProcessNext
  <2>1. UNCHANGED <<handler, openDecisions>>
    BY <1>2, Zenon DEF VerifierNext, ConsumeProof, RunVerification, AdvanceRead, AdvanceStep,
         AdvanceTo, ProcessNext, Restart, StartWorkers, ReapStep, ReapStepTo, ReapAttempt,
         decisions
  <2> QED
    BY <2>1 DEF Call
<1>3. ASSUME NEW p \in Sessions, FinalizeNext(p) PROVE UNCHANGED <<handler, openDecisions>>
  <2>1. CASE FinalizeDecide(p)
    <3>1. Settles(session[p])
      BY DEF Orderly, Sessions, Worker, Verifier, Reaper
    <3>2. session[p].pc = "decide"
      BY <2>1 DEF FinalizeDecide, At
    <3> QED
      BY <3>1, <3>2 DEF Settles
  <2> QED
    BY <1>3, <2>1, Zenon DEF FinalizeNext, FinalizeRead, FinalizeStuck, Asking, FinalizeReady,
         ShipGate, FinalizeShip, CloseSession, decisions
<1>4. ASSUME NEW h \in Handlers, HandlerNext(h)
      PROVE  UNCHANGED openDecisions /\ Calling' /\ Call'.step = Call.step
  <2>0. handler[h] = Call /\ Call \in [pc : HandlerPCs, step : Steps, nth : Nat] /\ h = Only
    BY <1>t DEF Call
  <2>1. Call.pc \in {"idle", "reEngage", "reEngageRequest", "enqueueProof"}
    BY <2>0 DEF Orderly, ReEngaging, Planned, HandlerPCs
  <2>2. Call.pc # "enqueueProof"
    BY <2>0 DEF VerdictInv, NobodyReverifies
  <2>3. ~ReEngageRequest(h)
    BY DEF ReEngageRequest
  <2>4. ReEngageRead(h)
    BY <1>4, <2>0, <2>1, <2>2, <2>3
       DEF HandlerNext, EnqueueRequest, ReEngageStepRead, ReEngageStep, PublishReEngage,
           EnqueueProof
  <2>5. handler' = [handler EXCEPT ![h] = [handler[h] EXCEPT !.pc = "reEngageRequest"]]
    BY <2>4 DEF ReEngageRead, HandlerGoto
  <2>6. Call' = [Call EXCEPT !.pc = "reEngageRequest"]
    BY <1>t, <2>0, <2>5 DEF Call
  <2>7. UNCHANGED openDecisions
    BY <2>4 DEF ReEngageRead, decisions
  <2> QED
    BY <2>0, <2>6, <2>7
<1>5. CASE FounderNext
  <2>1. ASSUME NEW h \in Handlers, NEW s \in Steps, ResolveDecision(h, s)
        PROVE  /\ ~Calling /\ Calling' /\ Call'.step = s
               /\ \A t \in Steps : t # s => openDecisions'[t] = openDecisions[t]
    <3>1. /\ handler[h].pc = "idle" /\ UNCHANGED session
          /\ handler' = [handler EXCEPT ![h] = [pc |-> "reEngage", step |-> s, nth |-> 0]]
          /\ \/ openDecisions' = [openDecisions EXCEPT ![s] = @ - 1]
             \/ UNCHANGED openDecisions
      BY <2>1 DEF ResolveDecision
    <3>2. Call.pc = "idle" /\ Call' = [pc |-> "reEngage", step |-> s, nth |-> 0]
      BY <1>t, <3>1, CallMoves
    <3>3. \A t \in Steps : t # s => openDecisions'[t] = openDecisions[t]
      BY <1>t, <3>1
    <3> QED
      BY <3>2, <3>3
  <2>2. ASSUME NEW h \in Handlers, NEW s \in Steps, NEW n, VerifyDeliverable(h, s, n)
        PROVE  FALSE
    BY <2>2 DEF VerifyDeliverable, Spend, VerdictInv, NobodyReverifies
  <2>3. ASSUME NEW s \in Steps, PostDeliverable(s)
        PROVE  UNCHANGED <<handler, openDecisions>>
    BY <2>3 DEF PostDeliverable, decisions
  <2>4. CASE UpsertExecutorConfig
    BY <2>4 DEF UpsertExecutorConfig, Call
  <2>5. ~\E h \in Handlers : PostDirection(h)
    BY DEF PostDirection
  <2>6. \/ \E h \in Handlers, s \in Steps : ResolveDecision(h, s)
        \/ UNCHANGED <<handler, openDecisions>>
    BY <1>5, <2>2, <2>3, <2>4, <2>5 DEF FounderNext, UpsertExecutorConfig
  <2>7. CASE UNCHANGED <<handler, openDecisions>>
    BY <2>7 DEF Call
  <2> QED
    BY <2>1, <2>6, <2>7
<1>6. CASE \E p \in Sessions : FinalizeNext(p)
  BY <1>3, <1>6 DEF Call
<1>7. CASE \E h \in Handlers : HandlerNext(h)
  BY <1>4, <1>7
<1> QED
  BY <1>1, <1>2, <1>5, <1>6, <1>7 DEF Next

(* AskedInv is inductive.                                                  *)
LEMMA AskedStep == ASSUME OneCallAtATime, AskedInv, [Next]_vars PROVE AskedInv'
<1>1. ShipInv'
  BY ShipStep DEF AskedInv
<1>2. CASE UNCHANGED vars
  <2>1. UNCHANGED <<request, step, openDecisions, handler, left>>
    BY <1>2 DEF vars
  <2> QED
    BY <1>1, <2>1 DEF AskedInv, StuckAsked, Call
<1>3. CASE Next
  <2>1. left'.crash = 0 /\ ~Crash
    BY <1>3, SpentStaysSpent DEF AskedInv, ShipInv, VerdictInv, TypeInv
  <2>2. VerdictInv /\ Orderly
    BY DEF AskedInv, ShipInv
  <2>3. RowsMove
    BY <1>3, <2>2, RowsMoveSo
  <2>4. CASE request' = "needs_decision" /\ request # "needs_decision"
    <3>1. RequestAsks
      BY <2>3, <2>4 DEF RowsMove, WorkGoesOn, PlanIsMade, RequestMoves
    <3>2. StuckAsked'
      BY <3>1 DEF RequestAsks, StuckAsked
    <3> QED
      BY <1>1, <2>1, <3>2 DEF AskedInv
  <2>5. CASE request' = "needs_decision" /\ request = "needs_decision"
    <3>1. UNCHANGED step
      BY <2>3, <2>5 DEF RowsMove, WorkGoesOn, OneStepMoves, PlanIsMade, RequestAsks, RequestMoves
    <3>2. \/ /\ \A s \in Steps : openDecisions[s] > 0 => openDecisions'[s] > 0
             /\ Calling => Calling' /\ Call'.step = Call.step
          \/ /\ ~Calling /\ Calling'
             /\ \A s \in Steps : s # Call'.step => openDecisions'[s] = openDecisions[s]
      BY <1>3, <2>1, <2>2, <2>5, WaitingStep
    <3>3. StuckAsked'
      BY <2>5, <3>1, <3>2 DEF AskedInv, StuckAsked
    <3> QED
      BY <1>1, <2>1, <3>3 DEF AskedInv
  <2>6. CASE request' # "needs_decision"
    BY <1>1, <2>1, <2>6 DEF AskedInv, StuckAsked
  <2> QED
    BY <2>4, <2>5, <2>6
<1> QED
  BY <1>2, <1>3

(* A waiting Request can be unblocked: each of its stuck WorkSteps has an  *)
(* open Decision, or one whose resolution is on its way.  A death between  *)
(* the two commits of a resolve is what the hypothesis excludes.           *)
THEOREM StuckStepsAreAsked ==
    ASSUME OneCallAtATime, MaxCrashes = 0
    PROVE  Spec => []StuckStepHasDecision
<1>1. Init => AskedInv
  <2> SUFFICES ASSUME Init PROVE AskedInv
    OBVIOUS
  <2>1. ShipInv
    BY ShipInit
  <2>2. left.crash = 0 /\ request = "absent"
    BY DEF Init
  <2> QED
    BY <2>1, <2>2 DEF AskedInv, StuckAsked
<1>2. AskedInv /\ [Next]_vars => AskedInv'
  BY AskedStep
<1>3. AskedInv => StuckStepHasDecision
  <2> SUFFICES ASSUME AskedInv PROVE StuckStepHasDecision
    OBVIOUS
  <2>1. Handlers = {Only}
    BY TypedParts DEF AskedInv, ShipInv
  <2>2. \A s \in Steps : Calling /\ Call.step = s => BeingResolved(s)
    BY <2>1 DEF Call, BeingResolved
  <2> QED
    BY <2>2 DEF AskedInv, StuckAsked, StuckStepHasDecision, PlanSteps
<1> QED
  BY <1>1, <1>2, <1>3, PTL DEF Spec

-----------------------------------------------------------------------------
(* A stuck step is asked about once, when no RunAttempt ends at the        *)
(* continuation cap (whose Decision is committed after the step is parked, *)
(* so that a finalization can ask in between) and no resolve is repeated.  *)
AnswersOnce ==
    OneCallAtATime /\ MaxReresolves = 0 /\ "exhausted" \notin Outcomes

Unparked == Worker.pc \notin {"park", "raise"}

(* Only a stuck step has an open Decision, and only one.                   *)
Questions ==
    \A t \in Steps : openDecisions[t] <= 1 /\ (openDecisions[t] > 0 => step[t] \in Stuck)

(* The call sends back a stuck step, whose Decision it has resolved.       *)
Answered ==
    Call.pc \in {"reEngage", "reEngageRequest", "reEngageStep", "reEngageMove"} =>
        step[Call.step] \in Stuck /\ openDecisions[Call.step] = 0

(* From then on the step is `running`, until its attempt has started.      *)
SentBack ==
    /\ Call.pc = "publishReEngage" => step[Call.step] = "running"
    /\ requestQueue # <<>> /\ requestQueue[1].kind = "re_engage" =>
           step[requestQueue[1].step] = "running"
    /\ Worker.pc \in {"load"} \cup StartingPCs /\ Worker.kind = "re_engage" =>
           step[Worker.step] = "running"

(* What a finalization is about to ask has not been asked.                 *)
Anew(self) == self.pc = "decide" => \A t \in self.missing : openDecisions[t] = 0

AskedOnce ==
    /\ left.reresolve = 0
    /\ Unparked /\ Questions /\ Answered /\ SentBack
    /\ Anew(Worker) /\ Anew(Verifier) /\ Anew(Reaper)

OnceInv == ShipInv /\ AskedOnce

-----------------------------------------------------------------------------
(* The worker leaves alone a step that is stuck or waits for its verdict,  *)
(* and every step when it does not drive.                                  *)
LEMMA WorkerSparesStuck ==
    ASSUME Typed, Orderly, WorkerNext
    PROVE  /\ \A t \in Steps : step[t] \in Stuck \cup {"verifying"} => step'[t] = step[t]
           /\ ~Drives => UNCHANGED step
<1>1. CASE PlanRequest
  <2>1. Worker.pc = "load" /\ (UNCHANGED step \/ request = "open")
    BY <1>1, Zenon DEF PlanRequest, At, Worker
  <2>2. request = "open" => \A t \in Steps : step[t] = "absent"
    BY DEF Orderly, Unplanned
  <2> QED
    BY <2>1, <2>2
<1>2. CASE StartStep
  <2>1. /\ Worker.pc \in {"start", "startUnconfigured"}
        /\ UNCHANGED step \/ step' = [step EXCEPT ![Worker.step] = "running"]
    BY <1>2 DEF StartStep, At, Worker
  <2>2. step[Worker.step] \notin Stuck \cup {"verifying"}
    BY <2>1 DEF Orderly, Starting, WorkerShape
  <2> QED
    BY <2>1, <2>2
<1>3. CASE MarkVerifying \/ ParkStep \/ FailStep
  <2>1. /\ Worker.pc \in WorkingPCs
        /\ \E target \in WorkStepStatuses : step' = [step EXCEPT ![Worker.step] = target]
    BY <1>3 DEF MarkVerifying, ParkStep, FailStep, MoveStep, WorkStepStatuses, At, Worker
  <2>2. step[Worker.step] = "running"
    BY <2>1 DEF Orderly, Working
  <2> QED
    BY <2>1, <2>2
<1>4. PlanRequest \/ StartStep \/ MarkVerifying \/ ParkStep \/ FailStep \/ UNCHANGED step
  BY Zenon DEF WorkerNext, ConsumeRequest, ReDispatchDecision, CreateRunAttempt, WorkPhase,
         FinishUnconfigured, CreateDeliverable, PublishProof, SurfacePartial, DiagnosePartial,
         NextStep
<1> QED
  BY <1>1, <1>2, <1>3, <1>4

(* A worker that never parks: where it can be next, and which step it has  *)
(* then been sent.                                                         *)
SentOn ==
    /\ UNCHANGED step
    /\ \/ /\ Worker.pc \in {"load"} \cup StartingPCs /\ Worker.kind = "re_engage"
          /\ Worker'.step = Worker.step
       \/ /\ requestQueue # <<>> /\ requestQueue[1].kind = "re_engage"
          /\ Worker'.step = requestQueue[1].step

LEMMA WorkerNextPoint ==
    ASSUME "exhausted" \notin Outcomes, VerdictInv, Typed, Unparked, WorkerNext
    PROVE  /\ Worker'.pc \notin {"park", "raise"} \cup SettlingPCs
           /\ Worker'.pc \in {"load"} \cup StartingPCs /\ Worker'.kind = "re_engage" => SentOn
           /\ Worker'.pc = "startUnconfigured" => ~configured
           /\ Verifier' = Verifier /\ Reaper' = Reaper
<1>0. /\ IdleSession.pc = "idle" /\ IdleSession \in SessionType
      /\ Worker \in SessionType
  BY IdleType DEF IdleSession
<1>1. ASSUME Close("worker")
      PROVE  Worker'.pc = "idle" /\ Verifier' = Verifier /\ Reaper' = Reaper
  BY <1>0, <1>1, WorkerMoves DEF Close
<1>2. ASSUME NEW new, Become("worker", new), new.pc \notin {"park", "raise"} \cup SettlingPCs,
             new.pc # "startUnconfigured",
             new.pc \in {"load"} \cup StartingPCs => new.kind = "plan"
      PROVE  /\ Worker'.pc \notin {"park", "raise"} \cup SettlingPCs
             /\ Worker'.pc # "startUnconfigured"
             /\ Worker'.pc \in {"load"} \cup StartingPCs => Worker'.kind = "plan"
             /\ Verifier' = Verifier /\ Reaper' = Reaper
  BY <1>2, WorkerMoves
<1>3. CASE ConsumeRequest
  <2> DEFINE Entry == [kind : {"plan", "re_engage"}, step : Steps]
             new == [IdleSession EXCEPT !.pc = "load", !.kind = Head(requestQueue).kind,
                                        !.step = Head(requestQueue).step]
  <2>1. requestQueue # <<>> /\ Become("worker", new) /\ UNCHANGED step
    BY <1>3 DEF ConsumeRequest
  <2>2. Head(requestQueue) = requestQueue[1]
    OBVIOUS
  <2>3. new.pc = "load" /\ new.kind = requestQueue[1].kind /\ new.step = requestQueue[1].step
    BY <1>0, <2>2 DEF SessionType
  <2>4. Worker' = new /\ Verifier' = Verifier /\ Reaper' = Reaper
    BY <2>1, WorkerMoves
  <2> HIDE DEF new
  <2> QED
    BY <2>1, <2>3, <2>4 DEF SentOn
<1>4. CASE PlanRequest
  <2>1. Worker.kind = "plan"
    BY <1>4 DEF PlanRequest
  <2>2. CASE Close("worker")
    BY <1>1, <2>2
  <2>3. CASE Become("worker", [Worker EXCEPT !.pc = "dispatch", !.view = step'])
    <3> DEFINE new == [Worker EXCEPT !.pc = "dispatch", !.view = step']
    <3>1. new.pc = "dispatch" /\ new.kind = "plan"
      BY <1>0, <2>1 DEF SessionType
    <3> HIDE DEF new
    <3> QED
      BY <1>2, <2>3, <3>1 DEF new
  <2> QED
    BY <1>4, <2>2, <2>3 DEF PlanRequest
<1>5. CASE ReDispatchDecision
  <2>1. Worker.pc = "load" /\ Worker.kind = "re_engage" /\ UNCHANGED step
    BY <1>5 DEF ReDispatchDecision, At, Worker
  <2>2. CASE Close("worker")
    BY <1>1, <2>2
  <2>3. CASE Become("worker", [Worker EXCEPT !.pc = "dispatch", !.view = step])
    <3> DEFINE new == [Worker EXCEPT !.pc = "dispatch", !.view = step]
    <3>1. new.pc = "dispatch" /\ new.step = Worker.step
      BY <1>0 DEF SessionType
    <3>2. Worker' = new /\ Verifier' = Verifier /\ Reaper' = Reaper
      BY <2>3, WorkerMoves
    <3> HIDE DEF new
    <3> QED
      BY <2>1, <3>1, <3>2 DEF SentOn
  <2> QED
    BY <1>5, <2>2, <2>3 DEF ReDispatchDecision
<1>6. CASE CreateRunAttempt
  <2>1. /\ Worker.pc = "dispatch" /\ UNCHANGED step
        /\ \E pc \in {"start", "startUnconfigured"} :
              Goto("worker", pc) /\ (pc = "startUnconfigured" => ~configured)
    BY <1>6 DEF CreateRunAttempt, WorkerGoto, At, Worker
  <2>2. PICK pc \in {"start", "startUnconfigured"} :
            Goto("worker", pc) /\ (pc = "startUnconfigured" => ~configured)
    BY <2>1
  <2> DEFINE new == [Worker EXCEPT !.pc = pc]
  <2>3. new.pc = pc /\ new.kind = Worker.kind /\ new.step = Worker.step
    BY <1>0 DEF SessionType
  <2>4. Worker' = new /\ Verifier' = Verifier /\ Reaper' = Reaper
    BY <2>2, WorkerMoves DEF Goto, Worker
  <2> HIDE DEF new
  <2> QED
    BY <2>1, <2>2, <2>3, <2>4 DEF SentOn
<1>7. CASE StartStep
  <2>1. CASE Close("worker")
    BY <1>1, <2>1
  <2>2. ASSUME NEW pc \in {"work", "unconfigured"},
               Become("worker", [Worker EXCEPT !.view[Worker.step] = "running", !.pc = pc])
        PROVE  \E new : /\ Become("worker", new) /\ new.pc = pc
    <3>1. [Worker EXCEPT !.view[Worker.step] = "running", !.pc = pc].pc = pc
      BY <1>0 DEF SessionType
    <3> QED
      BY <2>2, <3>1
  <2> QED
    BY <1>2, <1>7, <2>1, <2>2 DEF StartStep
<1>8. CASE \E pc \in {"deliver", "fail", "failUnconfigured", "next"} : Goto("worker", pc)
  <2>1. PICK pc \in {"deliver", "fail", "failUnconfigured", "next"} : Goto("worker", pc)
    BY <1>8
  <2> DEFINE new == [Worker EXCEPT !.pc = pc]
  <2>2. new.pc = pc
    BY <1>0 DEF SessionType
  <2>3. Become("worker", new)
    BY <2>1 DEF Goto, Worker
  <2> HIDE DEF new
  <2> QED
    BY <1>2, <2>2, <2>3
<1>9. CASE CreateDeliverable \/ SurfacePartial \/ DiagnosePartial
  <2>1. CASE Goto("worker", "next")
    BY <1>8, <2>1
  <2>2. ASSUME NEW pc \in {"markVerifying", "diagnose"}, NEW n,
               Become("worker", [Worker EXCEPT !.pc = pc, !.nth = n])
        PROVE  \E new : Become("worker", new) /\ new.pc = pc
    <3>1. [Worker EXCEPT !.pc = pc, !.nth = n].pc = pc
      BY <1>0 DEF SessionType
    <3> QED
      BY <2>2, <3>1
  <2>3. ASSUME NEW v, Become("worker", [Worker EXCEPT !.pc = "next", !.verdict = v])
        PROVE  \E new : Become("worker", new) /\ new.pc = "next"
    <3>1. [Worker EXCEPT !.pc = "next", !.verdict = v].pc = "next"
      BY <1>0 DEF SessionType
    <3> QED
      BY <2>3, <3>1
  <2>4. Goto("worker", "next") \/ \E new : /\ Become("worker", new)
                                         /\ new.pc \in {"markVerifying", "diagnose", "next"}
    BY <1>9, <2>2, <2>3 DEF CreateDeliverable, SurfacePartial, DiagnosePartial, WorkerGoto
  <2> QED
    BY <1>2, <2>1, <2>4
<1>10. CASE MarkVerifying \/ ParkStep \/ FailStep
  <2>1. ASSUME NEW target, NEW pc \in {"publishProof", "surface", "next"}, MoveStep(target, pc)
        PROVE  \E new : Become("worker", new) /\ new.pc = pc
    <3>1. [Worker EXCEPT !.view[Worker.step] = target, !.pc = pc].pc = pc
      BY <1>0 DEF SessionType
    <3> QED
      BY <2>1, <3>1 DEF MoveStep
  <2>2. ~ParkStep
    BY DEF ParkStep, At, Unparked, Worker
  <2>3. \E new : Become("worker", new) /\ new.pc \in {"publishProof", "surface", "next"}
    BY <1>10, <2>1, <2>2 DEF MarkVerifying, FailStep
  <2> QED
    BY <1>2, <2>3
<1>11. CASE PublishProof
  <2>1. Close("worker") \/ Goto("worker", "next")
    BY <1>11 DEF PublishProof, WorkerGoto
  <2> QED
    BY <1>1, <1>8, <2>1
<1>12. CASE NextStep
  <2> DEFINE more == Worker.kind = "plan" /\ Worker.step + 1 \in Steps
                        /\ Worker.view[Worker.step + 1] # "absent"
             new == [Worker EXCEPT !.verdict = "none", !.nth = 0, !.cont = 0,
                                   !.pc = IF more THEN "dispatch" ELSE "finalize",
                                   !.step = IF more THEN Worker.step + 1 ELSE Worker.step]
  <2>1. Become("worker", new)
    BY <1>12 DEF NextStep
  <2>2. new.pc = (IF more THEN "dispatch" ELSE "finalize") /\ new.kind = Worker.kind
    BY <1>0 DEF SessionType
  <2>3. new.pc \in {"dispatch", "finalize"} /\ (new.pc = "dispatch" => new.kind = "plan")
    BY <2>2
  <2> HIDE DEF new
  <2> QED
    BY <1>2, <2>1, <2>3
<1>13. WorkPhase \/ FinishUnconfigured =>
           \E pc \in {"deliver", "fail", "failUnconfigured", "next"} : Goto("worker", pc)
  BY DEF WorkPhase, FinishUnconfigured, WorkerGoto
<1> QED
  BY <1>3, <1>4, <1>5, <1>6, <1>7, <1>8, <1>9, <1>10, <1>11, <1>12, <1>13, Zenon DEF WorkerNext

(* The worker keeps AskedOnce.                                             *)
LEMMA WorkerAsksOnce ==
    ASSUME AnswersOnce, VerdictInv, Orderly, AskedOnce, WorkerNext, VerdictInv', Orderly'
    PROVE  Unparked' /\ Questions' /\ Answered' /\ SentBack'
           /\ Anew(Worker)' /\ Anew(Verifier)' /\ Anew(Reaper)'
<1>t. Typed /\ Typed'
  BY TypedParts, TypedNext DEF AnswersOnce
<1>1. /\ \A t \in Steps : step[t] \in Stuck => step'[t] = step[t]
      /\ ~Drives => UNCHANGED step
  BY <1>t, WorkerSparesStuck
<1>2. /\ Worker'.pc \notin {"park", "raise"} \cup SettlingPCs
      /\ Worker'.pc \in {"load"} \cup StartingPCs /\ Worker'.kind = "re_engage" => SentOn
      /\ Verifier' = Verifier /\ Reaper' = Reaper
  BY <1>t, WorkerNextPoint DEF AnswersOnce, AskedOnce
<1>3. Call' = Call /\ UNCHANGED openDecisions
  <2>1. UNCHANGED handler
    BY Zenon DEF WorkerNext, ConsumeRequest, PlanRequest, ReDispatchDecision, CreateRunAttempt,
         StartStep, WorkPhase, FinishUnconfigured, CreateDeliverable, MarkVerifying,
         PublishProof, ParkStep, FailStep, SurfacePartial, DiagnosePartial, NextStep
  <2>2. ASSUME SurfacePartial PROVE UNCHANGED openDecisions
    BY <2>2 DEF SurfacePartial, AskedOnce, Unparked, At, Worker
  <2>3. UNCHANGED openDecisions \/ SurfacePartial
    BY Zenon DEF WorkerNext, ConsumeRequest, PlanRequest, ReDispatchDecision, CreateRunAttempt,
         StartStep, WorkPhase, FinishUnconfigured, CreateDeliverable, MarkVerifying,
         PublishProof, ParkStep, FailStep, DiagnosePartial, NextStep, decisions
  <2> QED
    BY <2>1, <2>2, <2>3 DEF Call
<1>4. UNCHANGED requestQueue \/ requestQueue' = <<>>
  <2>1. CASE ConsumeRequest
    <3>1. requestQueue # <<>> /\ requestQueue' = Tail(requestQueue)
      BY <2>1 DEF ConsumeRequest
    <3> QED
      BY <3>1, OneEntryTaken DEF Orderly, OneDriver
  <2>2. ConsumeRequest \/ UNCHANGED requestQueue
    BY Zenon DEF WorkerNext, PlanRequest, ReDispatchDecision, CreateRunAttempt,
         StartStep, WorkPhase, FinishUnconfigured, CreateDeliverable, MarkVerifying,
         PublishProof, ParkStep, FailStep, SurfacePartial, DiagnosePartial, NextStep, queues
  <2> QED
    BY <2>1, <2>2
<1>5. Calling \/ requestQueue # <<>> => ~Drives
  BY DEF Orderly, OneDriver
<1>6. Unparked'
  BY <1>2 DEF Unparked
<1>7. Questions'
  BY <1>1, <1>3 DEF AskedOnce, Questions
<1>8. Answered'
  BY <1>t, <1>1, <1>3, <1>5 DEF AskedOnce, Answered
<1>9. SentBack'
  <2>1. Call'.pc = "publishReEngage" => step'[Call'.step] = "running"
    BY <1>1, <1>3, <1>5 DEF AskedOnce, SentBack
  <2>2. requestQueue' # <<>> /\ requestQueue'[1].kind = "re_engage" =>
            step'[requestQueue'[1].step] = "running"
    BY <1>1, <1>4, <1>5 DEF AskedOnce, SentBack
  <2>3. Worker'.pc \in {"load"} \cup StartingPCs /\ Worker'.kind = "re_engage" =>
            step'[Worker'.step] = "running"
    BY <1>2 DEF AskedOnce, SentBack, SentOn
  <2> QED
    BY <2>1, <2>2, <2>3 DEF SentBack
<1>10. Anew(Worker)'
  BY <1>2 DEF Anew
<1>11. Anew(Verifier)' /\ Anew(Reaper)'
  BY <1>2, <1>3 DEF AskedOnce, Anew
<1> QED
  BY <1>6, <1>7, <1>8, <1>9, <1>10, <1>11

(* The verifier moves only a step that waits for its verdict.              *)
LEMMA VerifierAsksOnce ==
    ASSUME AnswersOnce, VerdictInv, Orderly, AskedOnce, VerifierNext
    PROVE  Unparked' /\ Questions' /\ Answered' /\ SentBack'
           /\ Anew(Worker)' /\ Anew(Verifier)' /\ Anew(Reaper)'
<1>t. Typed
  BY TypedParts DEF AnswersOnce
<1>1. UNCHANGED <<openDecisions, requestQueue, handler>>
  BY Zenon DEF VerifierNext, ConsumeProof, RunVerification, AdvanceRead, AdvanceStep, AdvanceTo,
       decisions, queues
<1>2. Worker' = Worker /\ Reaper' = Reaper /\ Verifier'.pc # "decide"
  <2>0. IdleSession.pc = "idle" /\ IdleSession \in SessionType /\ Verifier \in SessionType
    BY <1>t, IdleType DEF IdleSession
  <2>1. ASSUME NEW new, Become("verifier", new), new.pc # "decide"
        PROVE  Worker' = Worker /\ Reaper' = Reaper /\ Verifier'.pc # "decide"
    BY <2>1, VerifierMoves
  <2>2. CASE ConsumeProof
    <3> DEFINE new == [IdleSession EXCEPT !.pc = "verify", !.step = Head(proofQueue).step,
                                          !.nth = Head(proofQueue).nth]
    <3>1. Become("verifier", new)
      BY <2>2 DEF ConsumeProof
    <3>2. new.pc = "verify"
      BY <2>0 DEF SessionType
    <3> HIDE DEF new
    <3> QED
      BY <2>1, <3>1, <3>2
  <2>3. CASE RunVerification
    <3>1. CASE Close("verifier")
      BY <2>0, <2>1, <3>1 DEF Close
    <3>2. ASSUME NEW v, Become("verifier", [Verifier EXCEPT !.pc = "advance", !.verdict = v])
          PROVE  \E new : Become("verifier", new) /\ new.pc = "advance"
      <4>1. [Verifier EXCEPT !.pc = "advance", !.verdict = v].pc = "advance"
        BY <2>0 DEF SessionType
      <4> QED
        BY <3>2, <4>1
    <3> QED
      BY <2>1, <2>3, <3>1, <3>2 DEF RunVerification
  <2>4. CASE AdvanceRead
    <3> DEFINE s == Verifier.step
               pc == IF step[s] = "verifying" THEN "move" ELSE "finalize"
               new == [Verifier EXCEPT !.view[s] = step[s], !.pc = pc]
    <3>1. Become("verifier", new)
      BY <2>4 DEF AdvanceRead
    <3>2. new.pc = pc
      BY <2>0 DEF SessionType
    <3>3. new.pc # "decide"
      BY <3>2
    <3> HIDE DEF new
    <3> QED
      BY <2>1, <3>1, <3>3
  <2>5. CASE AdvanceStep
    <3>1. PICK target : AdvanceTo(target)
      BY <2>5 DEF AdvanceStep
    <3> DEFINE new == [Verifier EXCEPT !.view[Verifier.step] = target, !.verdict = "none",
                                       !.pc = "finalize"]
    <3>2. Become("verifier", new)
      BY <3>1 DEF AdvanceTo
    <3>3. new.pc = "finalize"
      BY <2>0 DEF SessionType
    <3> HIDE DEF new
    <3> QED
      BY <2>1, <3>2, <3>3
  <2> QED
    BY <2>2, <2>3, <2>4, <2>5 DEF VerifierNext
<1>3. UNCHANGED step
      \/ /\ Verifier.pc = "move" /\ step[Verifier.step] = "verifying"
         /\ \A t \in Steps : t # Verifier.step => step'[t] = step[t]
  <2>1. CASE AdvanceStep
    <3>1. /\ Verifier.pc = "move"
          /\ \E target : step' = [step EXCEPT ![Verifier.step] = target]
      BY <2>1 DEF AdvanceStep, AdvanceTo, At, Verifier
    <3> QED
      BY <1>t, <3>1 DEF Orderly, LatestUnderProof
  <2>2. AdvanceStep \/ UNCHANGED step
    BY Zenon DEF VerifierNext, ConsumeProof, RunVerification, AdvanceRead
  <2> QED
    BY <2>1, <2>2
<1>4. ~UNCHANGED step => ~Calling /\ requestQueue = <<>> /\ Rests
  BY <1>3 DEF Orderly, OneDriver
<1>5. ~UNCHANGED step => ~(Worker.pc \in {"load"} \cup StartingPCs /\ Worker.kind = "re_engage")
  BY <1>4 DEF Orderly, ReEngaging, SentBackAlone
<1>6. Unparked' /\ Anew(Worker)' /\ Anew(Verifier)' /\ Anew(Reaper)'
  BY <1>1, <1>2 DEF AskedOnce, Unparked, Anew
<1>7. Questions'
  BY <1>1, <1>3 DEF AskedOnce, Questions
<1>8. Answered'
  BY <1>1, <1>4 DEF AskedOnce, Answered, Call
<1>9. SentBack'
  BY <1>1, <1>2, <1>4, <1>5 DEF AskedOnce, SentBack, Call
<1> QED
  BY <1>6, <1>7, <1>8, <1>9

(* Settling asks what has not been asked.                                  *)
LEMMA FinalizeAsksOnce ==
    ASSUME AnswersOnce, VerdictInv, Orderly, AskedOnce, NEW p \in Sessions, FinalizeNext(p)
    PROVE  Unparked' /\ Questions' /\ Answered' /\ SentBack'
           /\ Anew(Worker)' /\ Anew(Verifier)' /\ Anew(Reaper)'
<1>t. Typed
  BY TypedParts DEF AnswersOnce
<1>0. session[p] \in SessionType /\ IdleSession \in SessionType /\ IdleSession.pc = "idle"
  BY <1>t, IdleType DEF Sessions, Worker, Verifier, Reaper, IdleSession
<1>1. UNCHANGED <<step, requestQueue, handler>>
  BY Zenon DEF FinalizeNext, FinalizeRead, FinalizeStuck, Asking, FinalizeDecide, FinalizeReady,
       ShipGate, FinalizeShip, CloseSession, decisions, queues
<1>2. ASSUME NEW new, Become(p, new), new.pc \in SettlingPCs \cup {"done", "idle"},
             UNCHANGED openDecisions,
             new.pc = "decide" => \A t \in new.missing : openDecisions[t] = 0
      PROVE  Unparked' /\ Questions' /\ Answered' /\ SentBack'
             /\ Anew(Worker)' /\ Anew(Verifier)' /\ Anew(Reaper)'
  <2>1. /\ Worker' = IF p = "worker" THEN new ELSE Worker
        /\ Verifier' = IF p = "verifier" THEN new ELSE Verifier
        /\ Reaper' = IF p = "reaper" THEN new ELSE Reaper
    BY <1>2, WorkerMoves, VerifierMoves, ReaperMoves DEF Sessions
  <2>2. Unparked' /\ Questions' /\ Answered' /\ SentBack'
    BY <1>1, <1>2, <2>1 DEF AskedOnce, Unparked, Questions, Answered, SentBack, Call
  <2>3. Anew(Worker)' /\ Anew(Verifier)' /\ Anew(Reaper)'
    BY <1>2, <2>1 DEF AskedOnce, Anew
  <2> QED
    BY <2>2, <2>3
<1>3. CASE FinalizeRead(p)
  <2>0. PICK pc \in {"stuck", "ready", "done"} : \E view :
            Become(p, [session[p] EXCEPT !.view = view, !.pc = pc]) /\ UNCHANGED openDecisions
    BY <1>3 DEF FinalizeRead, decisions
  <2>1. PICK view : Become(p, [session[p] EXCEPT !.view = view, !.pc = pc]) /\ UNCHANGED openDecisions
    BY <2>0
  <2> DEFINE new == [session[p] EXCEPT !.view = view, !.pc = pc]
  <2>2. new.pc = pc
    BY <1>0 DEF SessionType
  <2> HIDE DEF new
  <2> QED
    BY <1>2, <2>1, <2>2 DEF new
<1>4. CASE FinalizeStuck(p)
  <2> DEFINE missing == {s \in Steps : session[p].view[s] \in Stuck /\ openDecisions[s] = 0}
             new == [session[p] EXCEPT !.missing = missing, !.pc = "decide"]
  <2>1. Become(p, new) /\ UNCHANGED openDecisions
    BY <1>4 DEF FinalizeStuck, Asking, decisions
  <2>2. new.pc = "decide" /\ new.missing = missing
    BY <1>0 DEF SessionType
  <2>3. \A t \in missing : openDecisions[t] = 0
    OBVIOUS
  <2> HIDE DEF new, missing
  <2> QED
    BY <1>2, <2>1, <2>2, <2>3
<1>5. CASE FinalizeDecide(p)
  <2> DEFINE new == [session[p] EXCEPT !.pc = "done", !.verdict = "none"]
  <2>1. /\ session[p].pc = "decide" /\ Become(p, new)
        /\ openDecisions' = [s \in Steps |->
               openDecisions[s] + (IF s \in session[p].missing THEN 1 ELSE 0)]
    BY <1>5, Zenon DEF FinalizeDecide, At
  <2>2. new.pc = "done"
    BY <1>0 DEF SessionType
  <2>3. \A t \in session[p].missing : openDecisions[t] = 0 /\ step[t] \in Stuck
    BY <2>1 DEF Orderly, Settles, AskedOnce, Anew, Sessions, Worker, Verifier, Reaper
  <2>4. Questions'
    <3>1. \A t \in Steps : t \in session[p].missing => openDecisions'[t] = 1 /\ step[t] \in Stuck
      BY <2>1, <2>3
    <3>2. \A t \in Steps : t \notin session[p].missing => openDecisions'[t] = openDecisions[t]
      BY <1>t, <2>1
    <3> QED
      BY <1>1, <3>1, <3>2 DEF AskedOnce, Questions
  <2>5. /\ ~Calling
        /\ p = "worker" => Reaper.pc = "idle" /\ ~ProofUnderWay
        /\ p = "verifier" => Reaper.pc = "idle"
        /\ p = "reaper" => Verifier.pc = "idle"
        /\ p # "worker" => Worker.pc \notin SettlingPCs
    BY <1>t, <2>1, SettlerAlone
  <2>6. /\ Worker' = IF p = "worker" THEN new ELSE Worker
        /\ Verifier' = IF p = "verifier" THEN new ELSE Verifier
        /\ Reaper' = IF p = "reaper" THEN new ELSE Reaper
    BY <2>1, WorkerMoves, VerifierMoves, ReaperMoves DEF Sessions
  <2>7. Worker'.pc # "decide" /\ Verifier'.pc # "decide" /\ Reaper'.pc # "decide"
    BY <2>2, <2>5, <2>6 DEF Sessions
  <2>8. Answered'
    BY <1>1, <2>5 DEF Answered, Call
  <2>9. Unparked' /\ SentBack'
    BY <1>1, <2>2, <2>6 DEF AskedOnce, Unparked, SentBack, Call
  <2> QED
    BY <2>4, <2>7, <2>8, <2>9 DEF Anew
<1>6. CASE FinalizeReady(p)
  <2> DEFINE new == [session[p] EXCEPT !.pc = "gate", !.verdict = "none"]
  <2>1. Become(p, new) /\ UNCHANGED openDecisions
    BY <1>6 DEF FinalizeReady, decisions
  <2>2. new.pc = "gate"
    BY <1>0 DEF SessionType
  <2> HIDE DEF new
  <2> QED
    BY <1>2, <2>1, <2>2
<1>7. CASE ShipGate(p) \/ FinalizeShip(p)
  <2>1. PICK pc \in {"ship", "done"} : Goto(p, pc) /\ UNCHANGED openDecisions
    BY <1>7 DEF ShipGate, FinalizeShip, decisions
  <2> DEFINE new == [session[p] EXCEPT !.pc = pc]
  <2>2. new.pc = pc /\ Become(p, new)
    BY <1>0, <2>1 DEF SessionType, Goto
  <2> HIDE DEF new
  <2> QED
    BY <1>2, <2>1, <2>2
<1>8. CASE CloseSession(p)
  BY <1>0, <1>2, <1>8 DEF CloseSession, Close, decisions
<1> QED
  BY <1>3, <1>4, <1>5, <1>6, <1>7, <1>8 DEF FinalizeNext

(* A call sends back the step whose Decision it has resolved, and nobody   *)
(* else moves it.                                                          *)
LEMMA CallAsksOnce ==
    ASSUME AnswersOnce, VerdictInv, Orderly, AskedOnce, NEW h \in Handlers, HandlerNext(h)
    PROVE  Unparked' /\ Questions' /\ Answered' /\ SentBack'
           /\ Anew(Worker)' /\ Anew(Verifier)' /\ Anew(Reaper)'
<1>t. Typed
  BY TypedParts DEF AnswersOnce
<1>0. handler[h] = Call /\ Call \in [pc : HandlerPCs, step : Steps, nth : Nat]
  BY <1>t DEF Call
<1>1. Calling /\ UNCHANGED openDecisions /\ UNCHANGED session
  BY <1>0, Zenon DEF HandlerNext, EnqueueRequest, ReEngageRead, ReEngageRequest, ReEngageStepRead,
       ReEngageStep, PublishReEngage, EnqueueProof, decisions
<1>2. Worker' = Worker /\ Verifier' = Verifier /\ Reaper' = Reaper
  BY <1>1 DEF Worker, Verifier, Reaper
<1>3. Worker.pc \notin {"load"} \cup StartingPCs /\ requestQueue = <<>>
  BY <1>t, <1>1, CallerAlone
<1>4. Unparked' /\ Anew(Worker)' /\ Anew(Verifier)' /\ Anew(Reaper)'
  BY <1>1, <1>2 DEF AskedOnce, Unparked, Anew
<1>5. ASSUME NEW pc \in {"reEngageRequest", "reEngageStep", "reEngageMove"},
             HandlerGoto(h, pc), UNCHANGED <<step, requestQueue>>,
             Call.pc \in {"reEngage", "reEngageRequest", "reEngageStep"}
      PROVE  Questions' /\ Answered' /\ SentBack'
  <2>1. Call'.pc = pc /\ Call'.step = Call.step
    BY <1>t, <1>0, <1>1, <1>5, CallGoes
  <2> QED
    BY <1>1, <1>2, <1>3, <1>5, <2>1 DEF AskedOnce, Questions, Answered, SentBack
<1>6. ASSUME handler' = [handler EXCEPT ![h] = IdleHandler], UNCHANGED step,
             requestQueue' # <<>> /\ requestQueue'[1].kind = "re_engage" =>
                 step[requestQueue'[1].step] = "running"
      PROVE  Questions' /\ Answered' /\ SentBack'
  <2>1. Call' = IdleHandler
    BY <1>t, <1>1, <1>6, CallMoves, Zenon
  <2>2. Call'.pc = "idle"
    BY <2>1 DEF IdleHandler
  <2> QED
    BY <1>1, <1>2, <1>3, <1>6, <2>2 DEF AskedOnce, Questions, Answered, SentBack
<1>7. CASE EnqueueRequest(h)
  <2>1. /\ UNCHANGED requestQueue
           \/ requestQueue' = Append(requestQueue, [kind |-> "plan", step |-> 1])
        /\ UNCHANGED step /\ handler' = [handler EXCEPT ![h] = IdleHandler]
    BY <1>7 DEF EnqueueRequest
  <2>2. requestQueue' # <<>> => requestQueue'[1].kind = "plan"
    BY <1>3, <2>1
  <2> QED
    BY <1>4, <1>6, <2>1, <2>2
<1>8. CASE ReEngageRead(h)
  <2>1. /\ UNCHANGED <<step, requestQueue>> /\ Call.pc = "reEngage"
        /\ \/ HandlerGoto(h, "reEngageRequest")
           \/ handler' = [handler EXCEPT ![h] = IdleHandler]
    BY <1>0, <1>8 DEF ReEngageRead, queues
  <2> QED
    BY <1>3, <1>4, <1>5, <1>6, <2>1
<1>9. CASE ReEngageRequest(h)
  <2>1. /\ UNCHANGED <<step, requestQueue>> /\ Call.pc = "reEngageRequest"
        /\ HandlerGoto(h, "reEngageStep")
    BY <1>0, <1>9 DEF ReEngageRequest, queues
  <2> QED
    BY <1>4, <1>5, <2>1
<1>10. CASE ReEngageStepRead(h)
  <2>1. /\ UNCHANGED <<step, requestQueue>> /\ Call.pc = "reEngageStep"
        /\ step[Call.step] \in Stuck => HandlerGoto(h, "reEngageMove")
    BY <1>0, <1>10 DEF ReEngageStepRead, queues
  <2>2. step[Call.step] \in Stuck
    BY <2>1 DEF AskedOnce, Answered
  <2> QED
    BY <1>4, <1>5, <2>1, <2>2
<1>11. CASE ReEngageStep(h)
  <2>1. /\ Call.pc = "reEngageMove" /\ step' = [step EXCEPT ![Call.step] = "running"]
        /\ UNCHANGED requestQueue /\ HandlerGoto(h, "publishReEngage")
    BY <1>0, <1>11 DEF ReEngageStep, queues
  <2>2. Call'.pc = "publishReEngage" /\ Call'.step = Call.step
    BY <1>t, <1>0, <1>1, <2>1, CallGoes
  <2>3. /\ \A t \in Steps : t # Call.step => step'[t] = step[t]
        /\ step'[Call.step] = "running" /\ openDecisions[Call.step] = 0
    BY <1>t, <2>1 DEF AskedOnce, Answered
  <2>4. Questions'
    BY <1>1, <2>3 DEF AskedOnce, Questions
  <2>5. Answered'
    BY <2>2 DEF Answered
  <2>6. SentBack'
    BY <1>2, <1>3, <2>1, <2>2, <2>3 DEF SentBack
  <2> QED
    BY <1>4, <2>4, <2>5, <2>6
<1>12. CASE PublishReEngage(h)
  <2>1. /\ UNCHANGED requestQueue
           \/ requestQueue' = Append(requestQueue, [kind |-> "re_engage", step |-> Call.step])
        /\ UNCHANGED step /\ handler' = [handler EXCEPT ![h] = IdleHandler]
        /\ Call.pc = "publishReEngage"
    BY <1>0, <1>12 DEF PublishReEngage
  <2>2. requestQueue' # <<>> => requestQueue'[1].step = Call.step
    BY <1>3, <2>1
  <2>3. step[Call.step] = "running"
    BY <2>1 DEF AskedOnce, SentBack
  <2> QED
    BY <1>4, <1>6, <2>1, <2>2, <2>3
<1>13. CASE EnqueueProof(h)
  BY <1>13 DEF EnqueueProof, VerdictInv, NobodyReverifies
<1> QED
  BY <1>7, <1>8, <1>9, <1>10, <1>11, <1>12, <1>13 DEF HandlerNext

(* The founder answers a question that is open.                            *)
LEMMA FounderAsksOnce ==
    ASSUME AnswersOnce, VerdictInv, Orderly, AskedOnce, FounderNext
    PROVE  Unparked' /\ Questions' /\ Answered' /\ SentBack'
           /\ Anew(Worker)' /\ Anew(Verifier)' /\ Anew(Reaper)'
<1>t. Typed
  BY TypedParts DEF AnswersOnce
<1>1. UNCHANGED session /\ UNCHANGED <<step, requestQueue>>
  BY Zenon DEF FounderNext, PostDirection, ResolveDecision, VerifyDeliverable, PostDeliverable,
       UpsertExecutorConfig, queues
<1>2. Worker' = Worker /\ Verifier' = Verifier /\ Reaper' = Reaper
  BY <1>1 DEF Worker, Verifier, Reaper
<1>3. CASE \E h \in Handlers, s \in Steps : ResolveDecision(h, s)
  <2>1. PICK h \in Handlers, s \in Steps : ResolveDecision(h, s)
    BY <1>3
  <2>2. /\ openDecisions[s] > 0 /\ openDecisions' = [openDecisions EXCEPT ![s] = @ - 1]
        /\ handler' = [handler EXCEPT ![h] = [pc |-> "reEngage", step |-> s, nth |-> 0]]
    BY <2>1 DEF ResolveDecision, Spend, AskedOnce
  <2>3. Call'.pc = "reEngage" /\ Call'.step = s
    <3>1. Call' = [pc |-> "reEngage", step |-> s, nth |-> 0]
      BY <1>t, <1>1, <2>2, CallMoves, Zenon
    <3> QED
      BY <3>1
  <2>4. /\ openDecisions[s] = 1 /\ openDecisions'[s] = 0 /\ step[s] \in Stuck
        /\ \A t \in Steps : t # s => openDecisions'[t] = openDecisions[t]
    BY <1>t, <2>2 DEF AskedOnce, Questions
  <2>5. Questions' /\ Answered'
    BY <1>1, <2>3, <2>4 DEF AskedOnce, Questions, Answered
  <2>6. Unparked' /\ SentBack'
    BY <1>1, <1>2, <2>3 DEF AskedOnce, Unparked, SentBack
  <2>7. request = "needs_decision"
    BY <2>1 DEF ResolveDecision, AnswersOnce, OneCallAtATime
  <2>8. Worker.pc # "decide" /\ Verifier.pc # "decide" /\ Reaper.pc # "decide"
    BY <2>7 DEF Orderly, Settles
  <2> QED
    BY <1>2, <2>5, <2>6, <2>8 DEF Anew
<1>4. CASE ~\E h \in Handlers, s \in Steps : ResolveDecision(h, s)
  <2>1. ASSUME NEW h \in Handlers, NEW s \in Steps, NEW n, VerifyDeliverable(h, s, n)
        PROVE  FALSE
    BY <2>1 DEF VerifyDeliverable, Spend, VerdictInv, NobodyReverifies
  <2>2. UNCHANGED openDecisions
    BY <1>4, <2>1 DEF FounderNext, PostDirection, PostDeliverable, UpsertExecutorConfig, decisions
  <2>3. UNCHANGED handler \/ \E h \in Handlers : HandlerGoto(h, "enqueueRequest")
    BY <1>4, <2>1 DEF FounderNext, PostDirection, PostDeliverable, UpsertExecutorConfig
  <2>4. Call' = Call \/ Call'.pc = "enqueueRequest"
    <3>1. ASSUME NEW h \in Handlers, HandlerGoto(h, "enqueueRequest")
          PROVE  Call'.pc = "enqueueRequest"
      BY <1>t, <1>1, <3>1, CallGoes
    <3> QED
      BY <2>3, <3>1 DEF Call
  <2>5. Questions' /\ Answered' /\ SentBack'
    BY <1>1, <1>2, <2>2, <2>4 DEF AskedOnce, Questions, Answered, SentBack
  <2>6. Unparked' /\ Anew(Worker)' /\ Anew(Verifier)' /\ Anew(Reaper)'
    BY <1>2, <2>2 DEF AskedOnce, Unparked, Anew
  <2> QED
    BY <2>5, <2>6
<1> QED
  BY <1>3, <1>4

(* Deaths, restarts and the reaper ask nothing, and the reaper fails steps *)
(* only while no call, entry or worker is there to be misled.              *)
LEMMA ProcessAsksOnce ==
    ASSUME AnswersOnce, VerdictInv, Orderly, AskedOnce, ProcessNext
    PROVE  Unparked' /\ Questions' /\ Answered' /\ SentBack'
           /\ Anew(Worker)' /\ Anew(Verifier)' /\ Anew(Reaper)'
<1>t. Typed
  BY TypedParts DEF AnswersOnce
<1>0. IdleSession.pc = "idle" /\ Reaper \in SessionType
  BY <1>t DEF IdleSession
<1>1. UNCHANGED openDecisions /\ UNCHANGED requestQueue
  BY Zenon DEF ProcessNext, Crash, Restart, StartWorkers, ReapStep, ReapStepTo, ReapAttempt,
       decisions, queues
<1>2. CASE Crash
  <2>1. /\ session' = [p \in Sessions |-> IdleSession]
        /\ handler' = [h \in Handlers |-> IdleHandler] /\ UNCHANGED step
    BY <1>2 DEF Crash
  <2>2. Worker'.pc = "idle" /\ Verifier'.pc = "idle" /\ Reaper'.pc = "idle"
    BY <1>0, <2>1 DEF Worker, Verifier, Reaper, Sessions
  <2>3. Call'.pc = "idle"
    BY <1>t, <2>1 DEF Call, IdleHandler
  <2>4. Questions' /\ SentBack'
    BY <1>1, <2>1, <2>2, <2>3 DEF AskedOnce, Questions, SentBack
  <2> QED
    BY <2>2, <2>3, <2>4 DEF Unparked, Answered, Anew
<1>3. CASE Restart \/ StartWorkers
  <2>1. UNCHANGED session /\ UNCHANGED handler /\ UNCHANGED step
    BY <1>3, Zenon DEF Restart, StartWorkers
  <2> QED
    BY <1>1, <2>1 DEF AskedOnce, Unparked, Questions, Answered, SentBack, Anew, Worker, Verifier,
                      Reaper, Call
<1>4. CASE ReapStep \/ \E s \in Steps : ReapAttempt(s)
  <2>1. UNCHANGED handler /\ mode = "reaping"
    BY <1>4, Zenon DEF ReapStep, ReapStepTo, ReapAttempt, Reaping
  <2>2. Worker' = Worker /\ Verifier' = Verifier /\ Reaper'.pc \in {"reapStep", "finalize"}
    <3>1. ASSUME NEW new, Become("reaper", new), new.pc \in {"reapStep", "finalize"}
          PROVE  Worker' = Worker /\ Verifier' = Verifier /\ Reaper'.pc \in {"reapStep", "finalize"}
      BY <3>1, ReaperMoves
    <3>2. CASE ReapStep
      <4> DEFINE new == [Reaper EXCEPT !.pc = "finalize"]
      <4>1. Become("reaper", new) /\ new.pc = "finalize"
        BY <1>0, <3>2 DEF ReapStep, ReapStepTo, Goto, Reaper, SessionType
      <4> HIDE DEF new
      <4> QED
        BY <3>1, <4>1
    <3>3. CASE \E s \in Steps : ReapAttempt(s)
      <4>1. PICK s \in Steps : Become("reaper", [Reaper EXCEPT !.pc = "reapStep", !.step = s])
        BY <3>3 DEF ReapAttempt, Reaper
      <4> DEFINE new == [Reaper EXCEPT !.pc = "reapStep", !.step = s]
      <4>2. new.pc = "reapStep"
        BY <1>0 DEF SessionType
      <4> HIDE DEF new
      <4> QED
        BY <3>1, <4>1, <4>2 DEF new
    <3> QED
      BY <1>4, <3>2, <3>3
  <2>3. UNCHANGED step
        \/ /\ Reaper.pc = "reapStep"
           /\ \A t \in Steps : step'[t] = step[t] \/ step'[t] = "failed"
    BY <1>t, <1>4 DEF ReapStep, ReapStepTo, ReapAttempt, At, Reaper
  <2>4. ~Calling /\ Worker.pc = "idle" /\ (Reaper.pc # "idle" => requestQueue = <<>>)
    BY <2>1 DEF Orderly, Stopped, OneDriver
  <2>5. Questions' /\ Answered' /\ SentBack'
    BY <1>1, <2>1, <2>2, <2>3, <2>4 DEF AskedOnce, Questions, Answered, SentBack, Call
  <2> QED
    BY <1>1, <2>2, <2>5 DEF AskedOnce, Unparked, Anew
<1> QED
  BY <1>2, <1>3, <1>4 DEF ProcessNext

(* AskedOnce is inductive, given Orderly.                                  *)
LEMMA OnceStep == ASSUME AnswersOnce, OnceInv, [Next]_vars PROVE OnceInv'
<1>1. ShipInv'
  BY ShipStep DEF OnceInv, AnswersOnce
<1>2. CASE UNCHANGED vars
  <2>1. /\ UNCHANGED step /\ UNCHANGED openDecisions /\ UNCHANGED requestQueue
        /\ UNCHANGED session /\ UNCHANGED handler /\ UNCHANGED left
    BY <1>2 DEF vars
  <2>2. Worker' = Worker /\ Verifier' = Verifier /\ Reaper' = Reaper /\ Call' = Call
    BY <2>1 DEF Worker, Verifier, Reaper, Call
  <2>3. Questions' /\ Answered' /\ SentBack'
    BY <2>1, <2>2 DEF OnceInv, AskedOnce, Questions, Answered, SentBack
  <2> QED
    BY <1>1, <2>1, <2>2, <2>3 DEF OnceInv, AskedOnce, Unparked, Anew
<1>3. CASE Next
  <2>1. VerdictInv /\ Orderly /\ AskedOnce /\ VerdictInv' /\ Orderly'
    BY <1>1 DEF OnceInv, ShipInv
  <2>2. left'.reresolve = 0
    BY <1>3, <2>1, SpentStaysSpent DEF AskedOnce, VerdictInv, TypeInv
  <2>3. Unparked' /\ Questions' /\ Answered' /\ SentBack'
        /\ Anew(Worker)' /\ Anew(Verifier)' /\ Anew(Reaper)'
    BY <1>3, <2>1, WorkerAsksOnce, VerifierAsksOnce, FinalizeAsksOnce, CallAsksOnce,
       FounderAsksOnce, ProcessAsksOnce DEF Next
  <2> QED
    BY <1>1, <2>2, <2>3 DEF OnceInv, AskedOnce
<1> QED
  BY <1>2, <1>3

(* It holds initially.                                                     *)
LEMMA OnceInit == ASSUME AnswersOnce, Init PROVE OnceInv
<1>1. ShipInv
  BY ShipInit DEF AnswersOnce
<1>t. Typed
  BY <1>1, TypedParts DEF ShipInv, AnswersOnce
<1>2. Worker = IdleSession /\ Verifier = IdleSession /\ Reaper = IdleSession /\ Call = IdleHandler
  BY <1>t DEF Init, Worker, Verifier, Reaper, Sessions, Call
<1>3. Worker.pc = "idle" /\ Verifier.pc = "idle" /\ Reaper.pc = "idle" /\ Call.pc = "idle"
  BY <1>2 DEF IdleSession, IdleHandler
<1>4. left.reresolve = 0 /\ requestQueue = <<>> /\ \A t \in Steps : openDecisions[t] = 0
  BY DEF Init, AnswersOnce
<1>5. Questions
  BY <1>4 DEF Questions
<1> QED
  BY <1>1, <1>3, <1>4, <1>5 DEF OnceInv, AskedOnce, Unparked, Answered, SentBack, Anew

(* A stuck WorkStep is put to the founder once, whatever dies or fails on  *)
(* the way.                                                                *)
THEOREM QuestionsAreAskedOnce ==
    ASSUME AnswersOnce
    PROVE  Spec => []OneOpenDecisionPerStep
<1>1. Init => OnceInv
  BY OnceInit
<1>2. OnceInv /\ [Next]_vars => OnceInv'
  BY OnceStep
<1>3. OnceInv => OneOpenDecisionPerStep
  BY DEF OnceInv, AskedOnce, Questions, OneOpenDecisionPerStep
<1> QED
  BY <1>1, <1>2, <1>3, PTL DEF Spec

-----------------------------------------------------------------------------
(* A step that is asked about once is never dispatched after its work is   *)
(* done, so that its transition never raises out of a dispatch with the    *)
(* RunAttempt still `running`; a tenant with an executor has no other such *)
(* dispatch.                                                               *)
AlwaysConfigured == AnswersOnce /\ ~MayBeUnconfigured

NoneAbandoned ==
    /\ configured = TRUE
    /\ Worker.pc # "startUnconfigured"
    /\ Up => \A t \in Steps : running[t] > 0 => Worker.step = t /\ Worker.pc \in AttemptPCs

(* The worker's own steps leave no attempt behind.                         *)
LEMMA WorkerAbandonsNone ==
    ASSUME AlwaysConfigured, VerdictInv, Orderly, AskedOnce, NoneAbandoned, WorkerNext
    PROVE  \A t \in Steps : running'[t] > 0 => Worker'.step = t /\ Worker'.pc \in AttemptPCs
<1>t. Typed
  BY TypedParts DEF AlwaysConfigured, AnswersOnce
<1>0. Worker \in SessionType /\ Up
  BY <1>t, Zenon DEF WorkerNext, ConsumeRequest, PlanRequest, ReDispatchDecision, CreateRunAttempt,
       StartStep, WorkPhase, FinishUnconfigured, CreateDeliverable, MarkVerifying,
       PublishProof, ParkStep, FailStep, SurfacePartial, DiagnosePartial, NextStep
<1>1. CASE CreateRunAttempt
  <2> DEFINE new == [Worker EXCEPT !.pc = "start"]
  <2>1. /\ Worker.pc = "dispatch" /\ running' = [running EXCEPT ![Worker.step] = @ + 1]
        /\ Goto("worker", "start")
    BY <1>1 DEF CreateRunAttempt, WorkerGoto, At, NoneAbandoned, Worker
  <2>2. Worker' = new
    BY <2>1, WorkerMoves DEF Goto, Worker
  <2>3. Worker'.step = Worker.step /\ Worker'.pc = "start"
    BY <1>0, <2>2 DEF SessionType
  <2>4. \A t \in Steps : ~(running[t] > 0)
    BY <1>0, <2>1 DEF NoneAbandoned
  <2>5. \A t \in Steps : t # Worker.step => running'[t] = running[t]
    BY <1>t, <2>1
  <2> QED
    BY <2>3, <2>4, <2>5
<1>2. CASE StartStep
  <2> DEFINE s == Worker.step
             new == [Worker EXCEPT !.view[s] = "running", !.pc = "work"]
  <2>1. Worker.pc = "start" /\ UNCHANGED running
    BY <1>2 DEF StartStep, At, NoneAbandoned, Worker
  <2>2. Worker.view[s] = "running" \/ CanTransitionWorkStep(Worker.view[s], "running")
    <3>1. Worker.view[s] = step[s] /\ step[s] \in {"pending", "running"}
      BY <2>1 DEF Orderly, Starting, WorkerShape, AskedOnce, SentBack
    <3> QED
      BY <3>1 DEF CanTransitionWorkStep, WORK_STEP_TRANSITIONS
  <2>3. Become("worker", new)
    BY <1>2, <2>1, <2>2 DEF StartStep, At, Worker
  <2>4. Worker' = new
    BY <2>3, WorkerMoves
  <2>5. Worker'.step = s /\ Worker'.pc = "work"
    BY <1>0, <2>4 DEF SessionType
  <2> QED
    BY <1>0, <2>1, <2>5 DEF NoneAbandoned
<1>3. CASE WorkPhase \/ FinishUnconfigured
  <2>1. /\ running' = [running EXCEPT ![Worker.step] = @ - 1]
        /\ Worker.pc \in {"work", "unconfigured"}
    BY <1>3 DEF WorkPhase, FinishUnconfigured, FinishAttempt, At, Worker
  <2>2. running[Worker.step] = 1
    <3>1. running[Worker.step] > 0
      BY <2>1 DEF VerdictInv, TypeInv, AttemptIsOpen
    <3> QED
      BY <1>t, <1>0, <2>1, <3>1 DEF Orderly, Attempts
  <2>3. \A t \in Steps : t # Worker.step => ~(running[t] > 0) /\ running'[t] = running[t]
    BY <1>t, <1>0, <2>1 DEF NoneAbandoned
  <2>4. running'[Worker.step] = 0
    BY <1>t, <2>1, <2>2
  <2> QED
    BY <2>3, <2>4
<1>4. CASE ~(CreateRunAttempt \/ StartStep \/ WorkPhase \/ FinishUnconfigured)
  <2>1. Worker.pc \notin AttemptPCs
    BY <1>4, Zenon DEF WorkerNext, ConsumeRequest, PlanRequest, ReDispatchDecision,
         CreateDeliverable, MarkVerifying, PublishProof, ParkStep, FailStep, SurfacePartial,
         DiagnosePartial, NextStep, At, Worker
  <2>2. UNCHANGED running
    BY <1>4, Zenon DEF WorkerNext, ConsumeRequest, PlanRequest, ReDispatchDecision,
         CreateDeliverable, MarkVerifying, PublishProof, ParkStep, FailStep, SurfacePartial,
         DiagnosePartial, NextStep
  <2> QED
    BY <1>0, <2>1, <2>2 DEF NoneAbandoned
<1> QED
  BY <1>1, <1>2, <1>3, <1>4

(* Nobody else ends or starts an attempt while the process is up.          *)
LEMMA NoneAbandonedStep ==
    ASSUME AlwaysConfigured, OnceInv, NoneAbandoned, [Next]_vars
    PROVE  NoneAbandoned'
<1>0. VerdictInv /\ Orderly /\ AskedOnce /\ "exhausted" \notin Outcomes /\ OneCallAtATime
  BY DEF OnceInv, ShipInv, AlwaysConfigured, AnswersOnce
<1>t. Typed
  BY <1>0, TypedParts
<1>1. CASE WorkerNext
  <2>1. Worker'.pc # "startUnconfigured"
    BY <1>t, <1>0, <1>1, WorkerNextPoint DEF AskedOnce, NoneAbandoned
  <2>2. UNCHANGED configured
    BY <1>1, Zenon DEF WorkerNext, ConsumeRequest, PlanRequest, ReDispatchDecision,
         CreateRunAttempt, StartStep, WorkPhase, FinishUnconfigured, CreateDeliverable,
         MarkVerifying, PublishProof, ParkStep, FailStep, SurfacePartial, DiagnosePartial, NextStep
  <2> QED
    BY <1>0, <1>1, <2>1, <2>2, WorkerAbandonsNone DEF NoneAbandoned
<1>2. CASE UNCHANGED <<running, configured, mode>> /\ Worker' = Worker
  BY <1>2 DEF NoneAbandoned
<1>3. CASE VerifierNext
  <2>1. UNCHANGED <<running, configured, mode>>
    BY <1>3, Zenon DEF VerifierNext, ConsumeProof, RunVerification, AdvanceRead, AdvanceStep,
         AdvanceTo
  <2>2. \E new : Become("verifier", new)
    BY <1>3 DEF VerifierNext, ConsumeProof, RunVerification, AdvanceRead, AdvanceStep, AdvanceTo,
                Close
  <2>3. Worker' = Worker
    BY <1>0, <2>2, VerifierMoves
  <2> QED
    BY <1>2, <2>1, <2>3
<1>4. ASSUME NEW p \in Sessions, FinalizeNext(p) PROVE NoneAbandoned'
  <2>1. UNCHANGED <<running, configured, mode>>
    BY <1>4, Zenon DEF FinalizeNext, FinalizeRead, FinalizeStuck, Asking, FinalizeDecide,
         FinalizeReady, ShipGate, FinalizeShip, CloseSession
  <2>2. session[p].pc \in {"finalize", "done"} \cup SettlingPCs
    BY <1>4, Zenon DEF FinalizeNext, FinalizeRead, FinalizeStuck, Asking, FinalizeDecide,
         FinalizeReady, ShipGate, FinalizeShip, CloseSession, At
  <2>3. PICK new : Become(p, new) /\ new.pc \in {"idle", "done"} \cup SettlingPCs
    BY <1>0, <1>4, FinalizeGoes
  <2>4. CASE p = "worker"
    <3>1. Worker.pc \notin AttemptPCs
      BY <2>2, <2>4 DEF Worker
    <3>2. Worker' = new
      BY <1>0, <2>3, <2>4, WorkerMoves
    <3> QED
      BY <2>1, <2>3, <3>1, <3>2 DEF NoneAbandoned
  <2>5. CASE p # "worker"
    <3>1. Worker' = Worker
      BY <1>0, <2>3, <2>5, VerifierMoves, ReaperMoves DEF Sessions
    <3> QED
      BY <1>2, <2>1, <3>1
  <2> QED
    BY <2>4, <2>5
<1>5. CASE FounderNext \/ \E h \in Handlers : HandlerNext(h)
  <2>1. UNCHANGED session /\ UNCHANGED running /\ UNCHANGED mode
    BY <1>5, Zenon DEF FounderNext, PostDirection, ResolveDecision, VerifyDeliverable,
         PostDeliverable, UpsertExecutorConfig, HandlerNext, EnqueueRequest, ReEngageRead,
         ReEngageRequest, ReEngageStepRead, ReEngageStep, PublishReEngage, EnqueueProof
  <2>2. UNCHANGED configured \/ configured' = TRUE
    BY <1>5, Zenon DEF FounderNext, PostDirection, ResolveDecision, VerifyDeliverable,
         PostDeliverable, UpsertExecutorConfig, HandlerNext, EnqueueRequest, ReEngageRead,
         ReEngageRequest, ReEngageStepRead, ReEngageStep, PublishReEngage, EnqueueProof
  <2> QED
    BY <2>1, <2>2 DEF NoneAbandoned, Worker
<1>6. CASE ProcessNext
  <2>0. UNCHANGED configured
    BY <1>6, Zenon DEF ProcessNext, Crash, Restart, StartWorkers, ReapStep, ReapStepTo, ReapAttempt
  <2>1. CASE Crash
    <3>1. mode' = "down" /\ session' = [p \in Sessions |-> IdleSession]
      BY <2>1 DEF Crash
    <3>2. Worker'.pc = "idle"
      BY <3>1 DEF Worker, Sessions, IdleSession
    <3> QED
      BY <2>0, <3>1, <3>2 DEF NoneAbandoned
  <2>2. CASE Restart
    <3>1. mode' = "reaping" /\ UNCHANGED session
      BY <2>2 DEF Restart
    <3> QED
      BY <2>0, <3>1 DEF NoneAbandoned, Worker
  <2>3. CASE StartWorkers
    <3>1. UNCHANGED session /\ UNCHANGED running /\ \A t \in Steps : running[t] = 0
      BY <2>3 DEF StartWorkers
    <3> QED
      BY <2>0, <3>1 DEF NoneAbandoned, Worker
  <2>4. CASE ReapStep \/ \E s \in Steps : ReapAttempt(s)
    <3>1. mode = "reaping" /\ UNCHANGED mode /\ \E new : Become("reaper", new)
      BY <2>4 DEF ReapStep, ReapStepTo, ReapAttempt, Reaping, Goto
    <3>2. Worker' = Worker
      BY <1>0, <3>1, ReaperMoves
    <3> QED
      BY <2>0, <3>1, <3>2 DEF NoneAbandoned
  <2> QED
    BY <1>6, <2>1, <2>2, <2>3, <2>4 DEF ProcessNext
<1>7. CASE UNCHANGED vars
  BY <1>2, <1>7 DEF vars, Worker
<1> QED
  BY <1>1, <1>3, <1>4, <1>5, <1>6, <1>7 DEF Next

(* While the process is up, the only RunAttempt that is `running` is the   *)
(* one the RequestWorker drives, through every death and restart.          *)
THEOREM NoAttemptIsLeftBehind ==
    ASSUME AlwaysConfigured
    PROVE  Spec => []NoZombieAttempt
<1>1. Init => OnceInv /\ NoneAbandoned
  <2> SUFFICES ASSUME Init PROVE OnceInv /\ NoneAbandoned
    OBVIOUS
  <2>1. OnceInv
    BY OnceInit DEF AlwaysConfigured
  <2>2. configured = TRUE /\ \A t \in Steps : running[t] = 0
    BY DEF Init, AlwaysConfigured
  <2>3. Worker.pc = "idle"
    BY DEF Init, Worker, Sessions, IdleSession
  <2> QED
    BY <2>1, <2>2, <2>3 DEF NoneAbandoned
<1>2. OnceInv /\ NoneAbandoned /\ [Next]_vars => OnceInv' /\ NoneAbandoned'
  BY OnceStep, NoneAbandonedStep DEF AlwaysConfigured
<1>3. OnceInv /\ NoneAbandoned => NoZombieAttempt
  <2> SUFFICES ASSUME OnceInv, NoneAbandoned, Up, NEW s \in Steps
               PROVE  running[s] = IF Worker.step = s /\ Worker.pc \in AttemptPCs THEN 1 ELSE 0
    BY DEF NoZombieAttempt
  <2>0. VerdictInv /\ Orderly /\ Typed
    BY TypedParts DEF OnceInv, ShipInv, AlwaysConfigured, AnswersOnce
  <2>1. CASE Worker.step = s /\ Worker.pc \in AttemptPCs
    <3>1. running[s] > 0
      BY <2>0, <2>1 DEF VerdictInv, TypeInv, AttemptIsOpen
    <3> QED
      BY <2>0, <2>1, <3>1 DEF Orderly, Attempts
  <2>2. CASE ~(Worker.step = s /\ Worker.pc \in AttemptPCs)
    <3>1. running[s] \in Nat /\ ~(running[s] > 0)
      BY <2>0, <2>2 DEF NoneAbandoned
    <3> QED
      BY <2>2, <3>1
  <2> QED
    BY <2>1, <2>2
<1> QED
  BY <1>1, <1>2, <1>3, PTL DEF Spec

-----------------------------------------------------------------------------
(* While no call raises and no process dies, a step that waits has its     *)
(* verdict coming.                                                         *)
NothingFails == OneCallAtATime /\ MaxFaults = 0 /\ MaxCrashes = 0

VerdictComes ==
    \A s \in Steps : step[s] = "verifying" =>
        \/ <<s, Len(deliverables[s])>> \in Queued
        \/ BeingProven(s, Len(deliverables[s]))

FlightInv == ShipInv /\ left.fault = 0 /\ left.crash = 0 /\ VerdictComes

(* A message that is added to proof:queue joins those that wait there.     *)
LEMMA QueuedJoined ==
    ASSUME VerdictInv, NEW s \in Steps, NEW n \in Nat,
           proofQueue' = Append(proofQueue, [step |-> s, nth |-> n])
    PROVE  Queued \subseteq Queued' /\ <<s, n>> \in Queued'
<1> DEFINE Entry == [step : Steps, nth : Nat]
           m == [step |-> s, nth |-> n]
<1>1. proofQueue \in Seq(Entry) /\ m \in Entry
  BY DEF VerdictInv, TypeInv, TypeOK
<1>2. /\ Len(proofQueue') = Len(proofQueue) + 1
      /\ proofQueue'[Len(proofQueue) + 1] = m
      /\ \A i \in 1 .. Len(proofQueue) : proofQueue'[i] = proofQueue[i]
      /\ Len(proofQueue) \in Nat
  BY <1>1, AppendProperties, LenProperties
<1>3. ASSUME NEW i \in 1 .. Len(proofQueue)
      PROVE  <<proofQueue[i].step, proofQueue[i].nth>> \in Queued'
  <2>1. i \in 1 .. Len(proofQueue')
    BY <1>2
  <2> QED
    BY <1>2, <2>1 DEF Queued
<1>4. <<s, n>> \in Queued'
  <2>1. Len(proofQueue) + 1 \in 1 .. Len(proofQueue')
    BY <1>2
  <2> QED
    BY <1>2, <2>1 DEF Queued
<1> QED
  BY <1>3, <1>4 DEF Queued

(* Only the first message leaves it.                                       *)
LEMMA QueuedLeft ==
    ASSUME VerdictInv, proofQueue # <<>>, proofQueue' = Tail(proofQueue)
    PROVE  \A row \in Queued : \/ row \in Queued'
                               \/ row = <<Head(proofQueue).step, Head(proofQueue).nth>>
<1> DEFINE Entry == [step : Steps, nth : Nat]
<1>1. proofQueue \in Seq(Entry) /\ Len(proofQueue) \in Nat
  BY LenProperties DEF VerdictInv, TypeInv, TypeOK
<1> HIDE DEF Entry
<1>2. /\ Head(proofQueue) = proofQueue[1]
      /\ Len(proofQueue') = Len(proofQueue) - 1
      /\ \A i \in 1 .. Len(proofQueue') : proofQueue'[i] = proofQueue[i + 1]
  BY <1>1, HeadTailProperties
<1>3. ASSUME NEW i \in 1 .. Len(proofQueue), i # 1
      PROVE  <<proofQueue[i].step, proofQueue[i].nth>> \in Queued'
  <2>1. i - 1 \in 1 .. Len(proofQueue') /\ (i - 1) + 1 = i
    BY <1>1, <1>2, <1>3
  <2>2. proofQueue'[i - 1] = proofQueue[i]
    BY <1>2, <2>1
  <2> QED
    BY <2>1, <2>2 DEF Queued
<1> QED
  BY <1>2, <1>3 DEF Queued

(* A step that goes on waiting keeps its latest Deliverable the latest.    *)
LEMMA LatestStays ==
    ASSUME Typed, VerdictInv, Orderly, left.post = 0, KeepsVerdicts, Next,
           NEW s \in Steps, step[s] = "verifying"
    PROVE  Len(deliverables'[s]) = Len(deliverables[s])
<1>1. ASSUME NEW p \in Sessions, deliverables' = Flushed(p)
      PROVE  Len(deliverables'[s]) = Len(deliverables[s])
  BY <1>1, Committed
<1>2. CASE CreateDeliverable \/ SurfacePartial
  <2>1. Worker.pc \in {"deliver", "raise", "surface"}
    BY <1>2 DEF CreateDeliverable, SurfacePartial, At, Worker
  <2>2. s # Worker.step
    BY <2>1 DEF Orderly, Working, LeftBehind
  <2>3. UNCHANGED deliverables \/ AppendDeliverable(Worker.step)
    BY <1>2, Zenon DEF CreateDeliverable, SurfacePartial
  <2> QED
    BY <2>2, <2>3, Recorded
<1>3. \/ CreateDeliverable \/ SurfacePartial
      \/ UNCHANGED deliverables
      \/ \E p \in Sessions : deliverables' = Flushed(p)
  <2>1. CASE WorkerNext
    <3>1. \/ CreateDeliverable \/ SurfacePartial \/ UNCHANGED deliverables
          \/ deliverables' = Flushed("worker")
      BY <2>1, Zenon DEF WorkerNext, ConsumeRequest, PlanRequest, ReDispatchDecision,
           CreateRunAttempt, StartStep, WorkPhase, FinishUnconfigured, MarkVerifying,
           PublishProof, ParkStep, FailStep, DiagnosePartial, NextStep
    <3> QED
      BY <3>1 DEF Sessions
  <2>2. CASE VerifierNext
    <3>1. UNCHANGED deliverables \/ deliverables' = Flushed("verifier")
      BY <2>2, Zenon DEF VerifierNext, ConsumeProof, RunVerification, AdvanceRead, AdvanceStep,
           AdvanceTo
    <3> QED
      BY <3>1 DEF Sessions
  <2>3. CASE \E p \in Sessions : FinalizeNext(p)
    BY <2>3, Zenon DEF FinalizeNext, FinalizeRead, FinalizeStuck, Asking, FinalizeDecide,
         FinalizeReady, ShipGate, FinalizeShip, CloseSession
  <2>4. CASE \E h \in Handlers : HandlerNext(h)
    BY <2>4, Zenon DEF HandlerNext, EnqueueRequest, ReEngageRead, ReEngageRequest,
         ReEngageStepRead, ReEngageStep, PublishReEngage, EnqueueProof
  <2>5. CASE FounderNext
    <3>1. ASSUME NEW t \in Steps, PostDeliverable(t) PROVE FALSE
      BY <3>1 DEF PostDeliverable, Spend
    <3>2. ASSUME NEW h \in Handlers, NEW t \in Steps, NEW n, VerifyDeliverable(h, t, n)
          PROVE  FALSE
      BY <3>2 DEF VerifyDeliverable, Spend, VerdictInv, NobodyReverifies
    <3> QED
      BY <2>5, <3>1, <3>2, Zenon DEF FounderNext, PostDirection, ResolveDecision,
           UpsertExecutorConfig
  <2>6. CASE ProcessNext
    BY <2>6, Zenon DEF ProcessNext, Crash, Restart, StartWorkers, ReapStep, ReapStepTo, ReapAttempt
  <2> QED
    BY <2>1, <2>2, <2>3, <2>4, <2>5, <2>6 DEF Next
<1> QED
  BY <1>1, <1>2, <1>3

(* The verdict of a step that goes on waiting stays under way.             *)
LEMMA VerdictStays ==
    ASSUME Typed, VerdictInv, Orderly, left.fault = 0, left.crash = 0, Next,
           NEW s \in Steps, NEW n, step[s] = "verifying", step'[s] = "verifying",
           <<s, n>> \in Queued \/ BeingProven(s, n)
    PROVE  <<s, n>> \in Queued' \/ BeingProven(s, n)'
<1>1. CASE UNCHANGED proofQueue /\ Worker' = Worker /\ Verifier' = Verifier
  BY <1>1 DEF Queued, BeingProven
<1>2. CASE PublishProof
  <2>1. /\ Worker.pc = "publishProof" /\ Goto("worker", "next")
        /\ proofQueue' = Append(proofQueue, [step |-> Worker.step, nth |-> Worker.nth])
    BY <1>2 DEF PublishProof, Spend, At, WorkerGoto, Worker
  <2>2. Verifier' = Verifier
    BY <2>1, WorkerMoves DEF Goto
  <2>3. Worker.nth \in Nat
    BY Fields DEF Worker, Sessions, VerdictInv, TypeInv
  <2>4. Queued \subseteq Queued' /\ <<Worker.step, Worker.nth>> \in Queued'
    BY <2>1, <2>3, QueuedJoined
  <2> QED
    BY <2>2, <2>4 DEF BeingProven
<1>3. CASE WorkerNext /\ ~PublishProof
  <2>1. Worker.pc # "publishProof" /\ UNCHANGED proofQueue
    BY <1>3, Zenon DEF WorkerNext, ConsumeRequest, PlanRequest, ReDispatchDecision, CreateRunAttempt,
         StartStep, WorkPhase, FinishUnconfigured, CreateDeliverable, MarkVerifying, ParkStep,
         FailStep, SurfacePartial, DiagnosePartial, NextStep, At, Worker, queues
  <2>2. \E new : Become("worker", new)
    BY <1>3 DEF WorkerNext, ConsumeRequest, PlanRequest, ReDispatchDecision, CreateRunAttempt,
         StartStep, WorkPhase, FinishUnconfigured, CreateDeliverable, MarkVerifying, MoveStep,
         ParkStep, FailStep, SurfacePartial, DiagnosePartial, NextStep, Goto, WorkerGoto, Close
  <2>3. Verifier' = Verifier
    BY <2>2, WorkerMoves
  <2> QED
    BY <2>1, <2>3 DEF BeingProven, Queued
<1>4. CASE ConsumeProof
  <2> DEFINE new == [IdleSession EXCEPT !.pc = "verify", !.step = Head(proofQueue).step,
                                        !.nth = Head(proofQueue).nth]
  <2>1. /\ Verifier.pc = "idle" /\ proofQueue # <<>> /\ proofQueue' = Tail(proofQueue)
        /\ Become("verifier", new)
    BY <1>4 DEF ConsumeProof, At, Verifier
  <2>2. new.pc = "verify" /\ new.step = Head(proofQueue).step /\ new.nth = Head(proofQueue).nth
    BY IdleType DEF SessionType
  <2>3. Verifier' = new /\ Worker' = Worker
    BY <2>1, VerifierMoves
  <2> HIDE DEF new
  <2>4. \/ <<s, n>> \in Queued' \/ <<s, n>> = <<Verifier'.step, Verifier'.nth>>
        \/ BeingProven(s, n)
    BY <2>1, <2>2, <2>3, QueuedLeft
  <2> QED
    BY <2>1, <2>2, <2>3, <2>4 DEF BeingProven
<1>5. CASE RunVerification \/ AdvanceRead
  <2>0. Verifier \in SessionType
    OBVIOUS
  <2>1. /\ UNCHANGED proofQueue /\ Verifier.pc \in {"verify", "advance"}
    BY <1>5, Zenon DEF RunVerification, AdvanceRead, At, Verifier, queues
  <2>2. PICK new : /\ Become("verifier", new) /\ new.step = Verifier.step /\ new.nth = Verifier.nth
                   /\ Verifier.step = s => new.pc \in {"advance", "move"}
    <3>1. CASE RunVerification
      <4>0. ~Spend("fault")
        BY DEF Spend
      <4>1. PICK v : Become("verifier", [Verifier EXCEPT !.pc = "advance", !.verdict = v])
        BY <3>1, <4>0, Zenon DEF RunVerification
      <4> DEFINE new == [Verifier EXCEPT !.pc = "advance", !.verdict = v]
      <4>2. new.step = Verifier.step /\ new.nth = Verifier.nth /\ new.pc = "advance"
        BY <2>0 DEF SessionType
      <4> QED
        BY <4>1, <4>2
    <3>2. CASE AdvanceRead
      <4> DEFINE pc == IF step[Verifier.step] = "verifying" THEN "move" ELSE "finalize"
                 new == [Verifier EXCEPT !.view[Verifier.step] = step[Verifier.step], !.pc = pc]
      <4>1. Become("verifier", new)
        BY <3>2 DEF AdvanceRead
      <4>2. new.step = Verifier.step /\ new.nth = Verifier.nth /\ new.pc = pc
        BY <2>0 DEF SessionType
      <4>3. Verifier.step = s => pc = "move"
        OBVIOUS
      <4> HIDE DEF pc, new
      <4> QED
        BY <4>1, <4>2, <4>3
    <3> QED
      BY <1>5, <3>1, <3>2
  <2>3. Verifier' = new /\ Worker' = Worker
    BY <2>2, VerifierMoves
  <2> QED
    BY <2>1, <2>2, <2>3 DEF BeingProven, Queued
<1>6. CASE AdvanceStep
  <2>1. PICK target \in {"review_ready", "failed"} : AdvanceTo(target)
    BY <1>6 DEF AdvanceStep
  <2>2. /\ step' = [step EXCEPT ![Verifier.step] = target] /\ UNCHANGED proofQueue
        /\ \E new : Become("verifier", new)
    BY <2>1 DEF AdvanceTo, queues
  <2>3. Worker' = Worker
    BY <2>2, VerifierMoves
  <2>4. Verifier.step # s
    BY <2>2
  <2> QED
    BY <2>2, <2>3, <2>4 DEF BeingProven, Queued
<1>7. CASE \E p \in Sessions : FinalizeNext(p)
  <2>1. PICK p \in Sessions : FinalizeNext(p)
    BY <1>7
  <2>2. UNCHANGED proofQueue /\ session[p].pc \in {"finalize", "done"} \cup SettlingPCs
    BY <2>1, Zenon DEF FinalizeNext, FinalizeRead, FinalizeStuck, Asking, FinalizeDecide,
         FinalizeReady, ShipGate, FinalizeShip, CloseSession, At, queues
  <2>3. PICK new : Become(p, new)
    BY <2>1, FinalizeGoes
  <2>4. /\ p = "worker" \/ Worker' = Worker
        /\ p = "verifier" \/ Verifier' = Verifier
    BY <2>3, WorkerMoves, VerifierMoves, ReaperMoves DEF Sessions
  <2> QED
    BY <2>2, <2>4 DEF BeingProven, Queued, Worker, Verifier
<1>8. CASE FounderNext \/ \E h \in Handlers : HandlerNext(h)
  <2>1. ASSUME NEW h \in Handlers PROVE ~EnqueueProof(h)
    BY DEF EnqueueProof, VerdictInv, NobodyReverifies
  <2>2. UNCHANGED session /\ UNCHANGED proofQueue
    BY <1>8, <2>1, Zenon DEF FounderNext, PostDirection, ResolveDecision, VerifyDeliverable,
         PostDeliverable, UpsertExecutorConfig, HandlerNext, EnqueueRequest, ReEngageRead,
         ReEngageRequest, ReEngageStepRead, ReEngageStep, PublishReEngage, queues
  <2> QED
    BY <1>1, <2>2 DEF Worker, Verifier
<1>9. CASE ProcessNext
  <2>1. ~Crash
    BY DEF Crash, Spend
  <2>2. UNCHANGED proofQueue /\ (UNCHANGED session \/ \E new : Become("reaper", new))
    BY <1>9, <2>1 DEF ProcessNext, Restart, StartWorkers, ReapStep, ReapStepTo, ReapAttempt, Goto,
                      queues
  <2>3. CASE UNCHANGED session
    BY <1>1, <2>2, <2>3 DEF Worker, Verifier
  <2>4. CASE \E new : Become("reaper", new)
    BY <1>1, <2>2, <2>4, ReaperMoves
  <2> QED
    BY <2>2, <2>3, <2>4
<1> QED
  BY <1>2, <1>3, <1>4, <1>5, <1>6, <1>7, <1>8, <1>9 DEF Next, VerifierNext

(* Only the worker makes a step wait, with its message to publish.         *)
LEMMA WaitsAnew ==
    ASSUME Typed, VerdictInv, Orderly, Next,
           NEW s \in Steps, step[s] # "verifying", step'[s] = "verifying"
    PROVE  BeingProven(s, Len(deliverables[s]))' /\ UNCHANGED deliverables
<1>1. CASE MarkVerifying
  <2> DEFINE new == [Worker EXCEPT !.view[Worker.step] = "verifying", !.pc = "publishProof"]
  <2>1. /\ Worker.pc = "markVerifying" /\ step' = [step EXCEPT ![Worker.step] = "verifying"]
        /\ Become("worker", new) /\ UNCHANGED deliverables
    BY <1>1 DEF MarkVerifying, MoveStep, At, Worker
  <2>2. new.pc = "publishProof" /\ new.step = Worker.step /\ new.nth = Worker.nth
    BY DEF SessionType
  <2>3. Worker' = new
    BY <2>1, WorkerMoves
  <2>4. s = Worker.step /\ Worker.nth = Len(deliverables[s])
    BY <2>1 DEF Orderly, LatestUnderProof
  <2> HIDE DEF new
  <2> QED
    BY <2>1, <2>2, <2>3, <2>4 DEF BeingProven
<1>2. CASE ~MarkVerifying
  <2>1. UNCHANGED step \/ step'[s] \in {"pending", "absent", "running", "needs_decision", "failed",
                                       "review_ready", step[s]}
    <3>1. CASE PlanRequest
      BY <3>1 DEF PlanRequest
    <3>2. CASE StartStep
      BY <3>2 DEF StartStep
    <3>3. CASE ParkStep \/ FailStep
      BY <3>3 DEF ParkStep, FailStep, MoveStep
    <3>4. CASE AdvanceStep
      BY <3>4 DEF AdvanceStep, AdvanceTo
    <3>5. CASE \E h \in Handlers : ReEngageStep(h)
      BY <3>5 DEF ReEngageStep
    <3>6. CASE ReapStep
      BY <3>6 DEF ReapStep, ReapStepTo
    <3>7. CASE WorkerNext
      <4>1. PlanRequest \/ StartStep \/ ParkStep \/ FailStep \/ UNCHANGED step
        BY <1>2, <3>7, Zenon DEF WorkerNext, ConsumeRequest, ReDispatchDecision, CreateRunAttempt,
             WorkPhase, FinishUnconfigured, CreateDeliverable, PublishProof, SurfacePartial,
             DiagnosePartial, NextStep
      <4> QED
        BY <3>1, <3>2, <3>3, <4>1
    <3>8. CASE VerifierNext
      BY <3>4, <3>8, Zenon DEF VerifierNext, ConsumeProof, RunVerification, AdvanceRead
    <3>9. CASE \E h \in Handlers : HandlerNext(h)
      BY <3>5, <3>9, Zenon DEF HandlerNext, EnqueueRequest, ReEngageRead, ReEngageRequest,
           ReEngageStepRead, PublishReEngage, EnqueueProof
    <3>10. CASE ProcessNext
      BY <3>6, <3>10, Zenon DEF ProcessNext, Crash, Restart, StartWorkers, ReapAttempt
    <3>11. CASE FounderNext \/ \E p \in Sessions : FinalizeNext(p)
      BY <3>11, Zenon DEF FounderNext, PostDirection, ResolveDecision, VerifyDeliverable,
           PostDeliverable, UpsertExecutorConfig, FinalizeNext, FinalizeRead, FinalizeStuck, Asking,
           FinalizeDecide, FinalizeReady, ShipGate, FinalizeShip, CloseSession
    <3> QED
      BY <3>7, <3>8, <3>9, <3>10, <3>11 DEF Next
  <2> QED
    BY <2>1
<1> QED
  BY <1>1, <1>2

(* FlightInv is inductive.                                                 *)
LEMMA FlightStep == ASSUME NothingFails, FlightInv, [Next]_vars PROVE FlightInv'
<1>1. ShipInv' /\ (KeepsVerdicts \/ UNCHANGED vars)
  BY ShipStep, VerdictStep DEF FlightInv, ShipInv, NothingFails, OneCallAtATime
<1>2. CASE UNCHANGED vars
  <2>1. /\ UNCHANGED step /\ UNCHANGED deliverables /\ UNCHANGED proofQueue /\ UNCHANGED session
        /\ UNCHANGED left
    BY <1>2 DEF vars
  <2> QED
    BY <1>1, <2>1 DEF FlightInv, VerdictComes, BeingProven, Queued, Worker, Verifier
<1>3. CASE Next /\ KeepsVerdicts
  <2>1. VerdictInv /\ Orderly /\ left.post = 0 /\ Typed
    BY TypedParts DEF FlightInv, ShipInv, NothingFails
  <2>2. left'.fault = 0 /\ left'.crash = 0
    BY <1>3, <2>1, SpentStaysSpent DEF FlightInv, VerdictInv, TypeInv
  <2>3. ASSUME NEW s \in Steps, step'[s] = "verifying"
        PROVE  \/ <<s, Len(deliverables'[s])>> \in Queued'
               \/ BeingProven(s, Len(deliverables[s]))'
    <3>1. CASE step[s] # "verifying"
      BY <1>3, <2>1, <2>3, <3>1, WaitsAnew
    <3>2. CASE step[s] = "verifying"
      <4>0. PICK n : n = Len(deliverables[s])
        OBVIOUS
      <4>1. Len(deliverables'[s]) = n
        BY <1>3, <2>1, <3>2, <4>0, LatestStays
      <4>2. <<s, n>> \in Queued \/ BeingProven(s, n)
        BY <3>2, <4>0 DEF FlightInv, VerdictComes
      <4>3. <<s, n>> \in Queued' \/ BeingProven(s, n)'
        BY <1>3, <2>1, <2>3, <3>2, <4>2, VerdictStays DEF FlightInv
      <4> QED
        BY <4>1, <4>3 DEF BeingProven
    <3> QED
      BY <3>1, <3>2
  <2> QED
    BY <1>1, <2>2, <2>3 DEF FlightInv, VerdictComes
<1> QED
  BY <1>1, <1>2, <1>3

(* When the verdicts are apart, one that comes is the only one.            *)
LEMMA OneMessageOrProof ==
    ASSUME VerdictInv, NEW s \in Steps, NEW n \in Nat,
           <<s, n>> \in Queued \/ BeingProven(s, n)
    PROVE  ProofMessages(s, n) + (IF BeingProven(s, n) THEN 1 ELSE 0) = 1
<1> DEFINE at == {i \in 1 .. Len(proofQueue) : proofQueue[i] = [step |-> s, nth |-> n]}
<1> DEFINE Entry == [step : Steps, nth : Nat]
<1>0. proofQueue \in Seq(Entry)
  BY DEF VerdictInv, TypeInv, TypeOK
<1>1. \A i \in 1 .. Len(proofQueue) : proofQueue[i] \in Entry
  <2> HIDE DEF Entry
  <2> QED
    BY <1>0
<1>2. <<s, n>> \in Queued <=> at # {}
  <2>1. ASSUME NEW i \in 1 .. Len(proofQueue)
        PROVE  <<proofQueue[i].step, proofQueue[i].nth>> = <<s, n>> <=>
                   proofQueue[i] = [step |-> s, nth |-> n]
    BY <1>1
  <2> QED
    BY <2>1 DEF Queued
<1>3. BeingProven(s, n) => <<s, n>> \notin Queued
  <2>1. SUFFICES ASSUME NEW p \in {"worker", "verifier"}, session[p].pc \in HoldingPCs,
                        session[p].step = s, session[p].nth = n
                 PROVE  <<s, n>> \notin Queued
    BY DEF BeingProven, HoldingPCs, Worker, Verifier
  <2>2. Holds(p) /\ RowOf(p) = <<s, n>> /\ p \in Sessions
    BY <2>1 DEF Holds, RowOf, Sessions
  <2> QED
    BY <2>2 DEF VerdictInv, VerdictsAreApart
<1>4. CASE BeingProven(s, n)
  <2>1. at = {}
    BY <1>2, <1>3, <1>4
  <2>2. ProofMessages(s, n) = 0
    BY <2>1, FS_EmptySet DEF ProofMessages
  <2> QED
    BY <1>4, <2>2
<1>5. CASE ~BeingProven(s, n)
  <2>1. PICK i \in at : TRUE
    BY <1>2, <1>5
  <2>2. \A j \in at : j = i
    BY <2>1 DEF VerdictInv, VerdictsAreApart
  <2>3. at = {i}
    BY <2>1, <2>2
  <2>4. ProofMessages(s, n) = 1
    BY <2>3, FS_Singleton DEF ProofMessages
  <2> QED
    BY <1>5, <2>4
<1> QED
  BY <1>4, <1>5

(* A WorkStep in `verifying` has exactly one verdict coming, and it is the *)
(* verdict on its latest Deliverable, when no call raises and no process   *)
(* dies: a fault in the verifier, or a death after the message was read,   *)
(* is what loses the verdict.                                              *)
THEOREM OneVerdictIsComing ==
    ASSUME NothingFails
    PROVE  Spec => []VerdictInFlight
<1>1. Init => FlightInv
  <2> SUFFICES ASSUME Init PROVE FlightInv
    OBVIOUS
  <2>1. ShipInv
    BY ShipInit DEF NothingFails
  <2>2. left.fault = 0 /\ left.crash = 0 /\ \A s \in Steps : step[s] = "absent"
    BY DEF Init, NothingFails
  <2> QED
    BY <2>1, <2>2 DEF FlightInv, VerdictComes
<1>2. FlightInv /\ [Next]_vars => FlightInv'
  BY FlightStep
<1>3. FlightInv => VerdictInFlight
  <2> SUFFICES ASSUME FlightInv, NEW s \in Steps, step[s] = "verifying"
               PROVE  ProofMessages(s, Len(deliverables[s]))
                          + (IF BeingProven(s, Len(deliverables[s])) THEN 1 ELSE 0) = 1
    BY DEF VerdictInFlight
  <2>1. VerdictInv /\ Typed
    BY TypedParts DEF FlightInv, ShipInv, NothingFails
  <2>2. Len(deliverables[s]) \in Nat
    BY <2>1, LenProperties
  <2>3. \/ <<s, Len(deliverables[s])>> \in Queued
        \/ BeingProven(s, Len(deliverables[s]))
    BY DEF FlightInv, VerdictComes
  <2> QED
    BY <2>1, <2>2, <2>3, OneMessageOrProof
<1> QED
  BY <1>1, <1>2, <1>3, PTL DEF Spec
-----------------------------------------------------------------------------
(* While no call raises and nobody asks for a verification by hand, no     *)
(* session gives a Deliverable the verdict `verifying`, which only a       *)
(* verifier that raises leaves behind.                                     *)
Given == {"none", "verified", "verification_failed", "human_review_required"}

ReportInv ==
    /\ VerdictInv /\ left.fault = 0
    /\ \A p \in Sessions : session[p].verdict # "verifying"
    /\ \A s \in Steps : \A n \in 1 .. Len(deliverables[s]) : deliverables[s][n] # "verifying"

(* A session that is replaced by one with a verdict that ends a proof.     *)
LEMMA GivenByOne ==
    ASSUME VerdictInv, NEW p \in Sessions, NEW new, Become(p, new),
           new.verdict \in Given \cup {session[p].verdict}
    PROVE  \A q \in Sessions : session'[q].verdict \in Given \cup {session[q].verdict}
  BY BecomeOthers DEF VerdictInv, TypeInv

LEMMA VerdictsGiven ==
    ASSUME VerdictInv, left.fault = 0, Next
    PROVE  \A q \in Sessions : session'[q].verdict \in Given \cup {session[q].verdict}
<1>0. /\ IdleSession.verdict = "none" /\ IdleSession \in SessionType
      /\ \A p \in Sessions : session[p] \in SessionType
      /\ Worker \in SessionType /\ Verifier \in SessionType
      /\ "worker" \in Sessions /\ "verifier" \in Sessions /\ "reaper" \in Sessions
  BY IdleType, Fields DEF VerdictInv, TypeInv, IdleSession, Worker, Verifier, Sessions
<1>1. ASSUME NEW p \in Sessions, Close(p)
      PROVE  \E new : Become(p, new) /\ new.verdict \in Given \cup {session[p].verdict}
  BY <1>0, <1>1 DEF Close, Given
<1>2. ASSUME NEW p \in Sessions, NEW pc, Goto(p, pc)
      PROVE  \E new : Become(p, new) /\ new.verdict \in Given \cup {session[p].verdict}
  <2>1. [session[p] EXCEPT !.pc = pc].verdict = session[p].verdict
    BY <1>0 DEF SessionType
  <2> QED
    BY <1>2, <2>1 DEF Goto
<1>3. ASSUME WorkerNext
      PROVE  \E new : Become("worker", new) /\ new.verdict \in Given \cup {Worker.verdict}
  <2>1. CASE ConsumeRequest
    <3>1. [IdleSession EXCEPT !.pc = "load", !.kind = Head(requestQueue).kind,
                              !.step = Head(requestQueue).step].verdict = "none"
      BY <1>0 DEF SessionType
    <3> QED
      BY <2>1, <3>1 DEF ConsumeRequest, Given
  <2>2. CASE PlanRequest \/ ReDispatchDecision
    <3>1. ASSUME NEW view
          PROVE  [Worker EXCEPT !.pc = "dispatch", !.view = view].verdict = Worker.verdict
      BY <1>0 DEF SessionType
    <3>2. Close("worker") \/ \E view : Become("worker", [Worker EXCEPT !.pc = "dispatch",
                                                                       !.view = view])
      BY <2>2 DEF PlanRequest, ReDispatchDecision
    <3> QED
      BY <1>0, <1>1, <3>1, <3>2 DEF Worker
  <2>3. CASE StartStep
    <3>1. ASSUME NEW pc
          PROVE  [Worker EXCEPT !.view[Worker.step] = "running", !.pc = pc].verdict
                     = Worker.verdict
      BY <1>0 DEF SessionType
    <3>2. Close("worker") \/ \E pc : Become("worker",
              [Worker EXCEPT !.view[Worker.step] = "running", !.pc = pc])
      BY <2>3 DEF StartStep
    <3> QED
      BY <1>0, <1>1, <3>1, <3>2 DEF Worker
  <2>4. CASE MarkVerifying \/ ParkStep \/ FailStep
    <3>1. ASSUME NEW target, NEW pc, MoveStep(target, pc)
          PROVE  \E new : Become("worker", new) /\ new.verdict = Worker.verdict
      <4>1. [Worker EXCEPT !.view[Worker.step] = target, !.pc = pc].verdict = Worker.verdict
        BY <1>0 DEF SessionType
      <4> QED
        BY <3>1, <4>1 DEF MoveStep
    <3>2. \E target, pc : MoveStep(target, pc)
      BY <2>4, Zenon DEF MarkVerifying, ParkStep, FailStep
    <3> QED
      BY <3>1, <3>2
  <2>5. CASE WorkPhase
    <3>1. [Worker EXCEPT !.pc = "dispatch", !.cont = @ + 1].verdict = Worker.verdict
      BY <1>0 DEF SessionType
    <3> QED
      BY <1>0, <1>2, <2>5, <3>1 DEF WorkPhase, WorkerGoto, Worker
  <2>6. CASE CreateDeliverable \/ SurfacePartial
    <3>1. ASSUME NEW pc, NEW n
          PROVE  [Worker EXCEPT !.pc = pc, !.nth = n].verdict = Worker.verdict
      BY <1>0 DEF SessionType
    <3>2. Goto("worker", "next") \/ \E pc, n : Become("worker",
              [Worker EXCEPT !.pc = pc, !.nth = n])
      BY <2>6 DEF CreateDeliverable, SurfacePartial, WorkerGoto
    <3> QED
      BY <1>0, <1>2, <3>1, <3>2, ZenonT(40) DEF Worker
  <2>7. CASE DiagnosePartial
    <3>1. \E v \in {"verification_failed", "human_review_required"} :
              Become("worker", [Worker EXCEPT !.pc = "next", !.verdict = v])
      BY <2>7 DEF DiagnosePartial, Spend
    <3>2. ASSUME NEW v
          PROVE  [Worker EXCEPT !.pc = "next", !.verdict = v].verdict = v
      BY <1>0 DEF SessionType
    <3> QED
      BY <3>1, <3>2 DEF Given
  <2>8. CASE NextStep
    <3>1. ASSUME NEW pc, NEW s
          PROVE  [Worker EXCEPT !.verdict = "none", !.nth = 0, !.cont = 0, !.pc = pc,
                                !.step = s].verdict = "none"
      BY <1>0 DEF SessionType
    <3>2. \E pc, s : Become("worker", [Worker EXCEPT !.verdict = "none", !.nth = 0, !.cont = 0,
                                                     !.pc = pc, !.step = s])
      BY <2>8 DEF NextStep
    <3> QED
      BY <3>1, <3>2 DEF Given
  <2>9. CASE CreateRunAttempt \/ FinishUnconfigured \/ PublishProof
    <3>1. Close("worker") \/ \E pc : Goto("worker", pc)
      BY <2>9 DEF CreateRunAttempt, FinishUnconfigured, PublishProof, WorkerGoto
    <3> QED
      BY <1>0, <1>1, <1>2, <3>1 DEF Worker
  <2> QED
    BY <1>3, <2>1, <2>2, <2>3, <2>4, <2>5, <2>6, <2>7, <2>8, <2>9, Zenon DEF WorkerNext
<1>4. ASSUME VerifierNext
      PROVE  \E new : Become("verifier", new) /\ new.verdict \in Given \cup {Verifier.verdict}
  <2>1. CASE ConsumeProof
    <3>1. [IdleSession EXCEPT !.pc = "verify", !.step = Head(proofQueue).step,
                              !.nth = Head(proofQueue).nth].verdict = "none"
      BY <1>0 DEF SessionType
    <3> QED
      BY <2>1, <3>1 DEF ConsumeProof, Given
  <2>2. CASE RunVerification
    <3>1. \E v \in {"verified", "verification_failed", "human_review_required"} :
              Become("verifier", [Verifier EXCEPT !.pc = "advance", !.verdict = v])
      BY <2>2 DEF RunVerification, Spend
    <3>2. ASSUME NEW v
          PROVE  [Verifier EXCEPT !.pc = "advance", !.verdict = v].verdict = v
      BY <1>0 DEF SessionType
    <3> QED
      BY <3>1, <3>2 DEF Given
  <2>3. CASE AdvanceRead
    <3>1. PICK s, pc : /\ s = Verifier.step
                       /\ pc = IF step[s] = "verifying" THEN "move" ELSE "finalize"
      OBVIOUS
    <3>2. [Verifier EXCEPT !.view[s] = step[s], !.pc = pc].verdict = Verifier.verdict
      BY <1>0 DEF SessionType
    <3>3. Become("verifier", [Verifier EXCEPT !.view[s] = step[s], !.pc = pc])
      BY <2>3, <3>1 DEF AdvanceRead
    <3> QED
      BY <3>2, <3>3
  <2>4. CASE AdvanceStep
    <3>1. ASSUME NEW s, NEW target
          PROVE  [Verifier EXCEPT !.view[s] = target, !.verdict = "none",
                                  !.pc = "finalize"].verdict = "none"
      BY <1>0 DEF SessionType
    <3>2. \E s, target : Become("verifier", [Verifier EXCEPT !.view[s] = target,
                                                !.verdict = "none", !.pc = "finalize"])
      BY <2>4 DEF AdvanceStep, AdvanceTo
    <3> QED
      BY <3>1, <3>2 DEF Given
  <2> QED
    BY <1>4, <2>1, <2>2, <2>3, <2>4, Zenon DEF VerifierNext
<1>5. ASSUME NEW p \in Sessions, FinalizeNext(p)
      PROVE  \E new : Become(p, new) /\ new.verdict \in Given \cup {session[p].verdict}
  <2>1. CASE FinalizeRead(p)
    <3>1. ASSUME NEW view, NEW pc
          PROVE  [session[p] EXCEPT !.view = view, !.pc = pc].verdict = session[p].verdict
      BY <1>0 DEF SessionType
    <3>2. \E view, pc : Become(p, [session[p] EXCEPT !.view = view, !.pc = pc])
      BY <2>1 DEF FinalizeRead
    <3> QED
      BY <3>1, <3>2
  <2>2. CASE FinalizeStuck(p)
    <3>1. ASSUME NEW missing
          PROVE  [session[p] EXCEPT !.missing = missing, !.pc = "decide"].verdict
                     = session[p].verdict
      BY <1>0 DEF SessionType
    <3>2. \E missing : Become(p, [session[p] EXCEPT !.missing = missing, !.pc = "decide"])
      BY <2>2 DEF FinalizeStuck, Asking
    <3> QED
      BY <3>1, <3>2
  <2>3. CASE FinalizeDecide(p) \/ FinalizeReady(p)
    <3>1. ASSUME NEW pc
          PROVE  [session[p] EXCEPT !.pc = pc, !.verdict = "none"].verdict = "none"
      BY <1>0 DEF SessionType
    <3>2. \E pc : Become(p, [session[p] EXCEPT !.pc = pc, !.verdict = "none"])
      BY <2>3 DEF FinalizeDecide, FinalizeReady
    <3> QED
      BY <3>1, <3>2 DEF Given
  <2>4. CASE ShipGate(p) \/ FinalizeShip(p)
    BY <1>2, <2>4 DEF ShipGate, FinalizeShip
  <2>5. CASE CloseSession(p)
    BY <1>1, <2>5 DEF CloseSession
  <2> QED
    BY <1>5, <2>1, <2>2, <2>3, <2>4, <2>5, Zenon DEF FinalizeNext
<1>6. ASSUME ProcessNext, ~Crash, ~UNCHANGED session
      PROVE  \E new : /\ Become("reaper", new)
                      /\ new.verdict \in Given \cup {session["reaper"].verdict}
  <2>1. CASE ReapStep
    <3>1. Goto("reaper", "finalize")
      BY <2>1 DEF ReapStep, ReapStepTo
    <3> QED
      BY <1>0, <1>2, <3>1
  <2>2. ASSUME NEW s \in Steps, ReapAttempt(s)
        PROVE  \E new : Become("reaper", new)
                            /\ new.verdict \in Given \cup {session["reaper"].verdict}
    <3>1. [session["reaper"] EXCEPT !.pc = "reapStep", !.step = s].verdict
              = session["reaper"].verdict
      BY <1>0 DEF SessionType
    <3> QED
      BY <2>2, <3>1 DEF ReapAttempt
  <2>3. ReapStep \/ \E s \in Steps : ReapAttempt(s)
    BY <1>6, Zenon DEF ProcessNext, Restart, StartWorkers
  <2> QED
    BY <2>1, <2>2, <2>3
<1>7. CASE Crash
  BY <1>0, <1>7 DEF Crash, Given
<1>8. CASE UNCHANGED session
  BY <1>8
<1>9. CASE FounderNext \/ \E h \in Handlers : HandlerNext(h)
  BY <1>8, <1>9, Zenon DEF FounderNext, PostDirection, ResolveDecision, VerifyDeliverable,
     PostDeliverable, UpsertExecutorConfig, HandlerNext, EnqueueRequest, ReEngageRead,
     ReEngageRequest, ReEngageStepRead, ReEngageStep, PublishReEngage, EnqueueProof
<1>10. ASSUME NEW p \in Sessions,
              \E new : Become(p, new) /\ new.verdict \in Given \cup {session[p].verdict}
       PROVE  \A q \in Sessions : session'[q].verdict \in Given \cup {session[q].verdict}
  BY <1>10, GivenByOne
<1>11. CASE WorkerNext \/ VerifierNext
  <2>1. \/ \E new : Become("worker", new) /\ new.verdict \in Given \cup {session["worker"].verdict}
        \/ \E new : Become("verifier", new)
                        /\ new.verdict \in Given \cup {session["verifier"].verdict}
    BY <1>3, <1>4, <1>11 DEF Worker, Verifier
  <2> QED
    BY <1>0, <1>10, <2>1
<1> QED
  BY <1>0, <1>5, <1>6, <1>7, <1>8, <1>9, <1>10, <1>11 DEF Next

(* The rows that a step writes: a verdict on one, or a new one.            *)
LEMMA RowsGiven ==
    ASSUME ReportInv, Next, KeepsVerdicts,
           NEW s \in Steps, NEW n \in 1 .. Len(deliverables'[s])
    PROVE  deliverables'[s][n] # "verifying"
<1>0. deliverables \in [Steps -> Seq(ProofStates)] /\ Len(deliverables[s]) \in Nat
  <2>1. deliverables \in [Steps -> Seq(ProofStates)]
    BY DEF ReportInv, VerdictInv, TypeInv, TypeOK
  <2> QED
    BY <2>1, LenProperties
<1>1. CASE UNCHANGED deliverables
  BY <1>1 DEF ReportInv
<1>2. ASSUME NEW t \in Steps, AppendDeliverable(t) PROVE deliverables'[s][n] # "verifying"
  <2>1. deliverables'[s] = IF s = t THEN Append(deliverables[s], "verification_missing")
                                    ELSE deliverables[s]
    BY <1>0, <1>2 DEF AppendDeliverable
  <2>2. CASE s # t
    BY <2>1, <2>2 DEF ReportInv
  <2>3. CASE s = t
    <3>1. "verification_missing" \in ProofStates
      BY DEF ProofStates
    <3>2. /\ Len(deliverables'[s]) = Len(deliverables[s]) + 1
          /\ deliverables'[s][Len(deliverables[s]) + 1] = "verification_missing"
          /\ \A i \in 1 .. Len(deliverables[s]) : deliverables'[s][i] = deliverables[s][i]
      BY <1>0, <2>1, <2>3, <3>1, AppendProperties
    <3>3. n = Len(deliverables[s]) + 1 \/ n \in 1 .. Len(deliverables[s])
      BY <1>0, <3>2
    <3> QED
      BY <3>2, <3>3 DEF ReportInv
  <2> QED
    BY <2>2, <2>3
<1>3. ASSUME NEW p \in Sessions, deliverables' = Flushed(p)
      PROVE  deliverables'[s][n] # "verifying"
  <2>1. CASE session[p].verdict = "none"
    BY <1>1, <1>3, <2>1 DEF Flushed
  <2>2. CASE session[p].verdict # "none"
    <3>1. PICK t, k, v : t = session[p].step /\ k = session[p].nth /\ v = session[p].verdict
      OBVIOUS
    <3>2. deliverables' = [deliverables EXCEPT ![t][k] = v] /\ v # "verifying"
      BY <1>3, <2>2, <3>1 DEF Flushed, ReportInv
    <3>3. deliverables'[s] = IF s = t THEN [deliverables[s] EXCEPT ![k] = v]
                                      ELSE deliverables[s]
      BY <1>0, <3>2
    <3>4. CASE s # t
      BY <3>3, <3>4 DEF ReportInv
    <3>5. CASE s = t
      <4>1. deliverables[s] \in Seq(ProofStates)
        BY <1>0
      <4>2. DOMAIN deliverables'[s] = 1 .. Len(deliverables[s])
        BY <3>3, <3>5, <4>1, LenProperties
      <4>3. Len(deliverables'[s]) = Len(deliverables[s])
        BY <1>3, Committed DEF ReportInv
      <4>4. n \in 1 .. Len(deliverables[s])
        BY <4>3
      <4>5. deliverables'[s][n] \in {v, deliverables[s][n]}
        BY <3>3, <3>5, <4>1, <4>4, LenProperties
      <4> QED
        BY <3>2, <4>4, <4>5 DEF ReportInv
    <3> QED
      BY <3>4, <3>5
  <2> QED
    BY <2>1, <2>2
<1>4. \/ UNCHANGED deliverables
      \/ \E t \in Steps : AppendDeliverable(t)
      \/ \E p \in Sessions : deliverables' = Flushed(p)
  <2>0. Worker.step \in Steps /\ "worker" \in Sessions /\ "verifier" \in Sessions
    BY Fields DEF Worker, Sessions, ReportInv, VerdictInv, TypeInv
  <2>1. CASE WorkerNext
    <3>1. \/ UNCHANGED deliverables \/ AppendDeliverable(Worker.step)
          \/ deliverables' = Flushed("worker")
      BY <2>1, Zenon DEF WorkerNext, ConsumeRequest, PlanRequest, ReDispatchDecision,
           CreateRunAttempt, StartStep, WorkPhase, FinishUnconfigured, CreateDeliverable,
           MarkVerifying, PublishProof, ParkStep, FailStep, SurfacePartial, DiagnosePartial,
           NextStep
    <3> QED
      BY <2>0, <3>1
  <2>2. CASE VerifierNext
    <3>1. UNCHANGED deliverables \/ deliverables' = Flushed("verifier")
      BY <2>2, Zenon DEF VerifierNext, ConsumeProof, RunVerification, AdvanceRead, AdvanceStep,
           AdvanceTo
    <3> QED
      BY <2>0, <3>1
  <2>3. CASE \E p \in Sessions : FinalizeNext(p)
    BY <2>3, Zenon DEF FinalizeNext, FinalizeRead, FinalizeStuck, Asking, FinalizeDecide,
         FinalizeReady, ShipGate, FinalizeShip, CloseSession
  <2>4. CASE ProcessNext \/ \E h \in Handlers : HandlerNext(h)
    BY <2>4, Zenon DEF HandlerNext, EnqueueRequest, ReEngageRead, ReEngageRequest,
         ReEngageStepRead, ReEngageStep, PublishReEngage, EnqueueProof,
         ProcessNext, Crash, Restart, StartWorkers, ReapStep, ReapStepTo, ReapAttempt
  <2>5. CASE FounderNext
    <3>1. ASSUME NEW t \in Steps, PostDeliverable(t) PROVE AppendDeliverable(t)
      BY <3>1 DEF PostDeliverable, AppendDeliverable
    <3>2. ASSUME NEW h \in Handlers, NEW t \in Steps, NEW k, VerifyDeliverable(h, t, k)
          PROVE  FALSE
      BY <3>2 DEF VerifyDeliverable, Spend, ReportInv, VerdictInv, NobodyReverifies
    <3> QED
      BY <2>5, <3>1, <3>2, Zenon DEF FounderNext, PostDirection, ResolveDecision,
           UpsertExecutorConfig
  <2> QED
    BY <2>1, <2>2, <2>3, <2>4, <2>5 DEF Next
<1> QED
  BY <1>1, <1>2, <1>3, <1>4

(* No Deliverable is left at `verifying`, whatever dies on the way and     *)
(* however many calls are in flight: a verdict is committed or rolled back *)
(* as a whole, and only a verifier that raises in the worker's diagnosis   *)
(* would commit the `verifying` it has flushed.                            *)
THEOREM VerdictsReportBack ==
    ASSUME MaxVerifies = 0, MaxFaults = 0
    PROVE  Spec => []VerificationReportsBack
<1>1. Init => ReportInv
  <2> SUFFICES ASSUME Init PROVE ReportInv
    OBVIOUS
  <2>1. VerdictInv
    BY VerdictInit
  <2>2. /\ left.fault = 0 /\ \A p \in Sessions : session[p].verdict = "none"
        /\ \A s \in Steps : deliverables[s] = <<>>
    BY DEF Init, IdleSession
  <2>3. Len(<<>>) = 0
    OBVIOUS
  <2> QED
    BY <2>1, <2>2, <2>3 DEF ReportInv
<1>2. ReportInv /\ [Next]_vars => ReportInv'
  <2> SUFFICES ASSUME ReportInv, [Next]_vars PROVE ReportInv'
    OBVIOUS
  <2>1. VerdictInv' /\ (KeepsVerdicts \/ UNCHANGED vars)
    BY VerdictStep DEF ReportInv
  <2>2. CASE UNCHANGED vars
    <3>1. UNCHANGED left /\ UNCHANGED session /\ UNCHANGED deliverables
      BY <2>2 DEF vars
    <3> QED
      BY <2>1, <3>1 DEF ReportInv
  <2>3. CASE Next /\ KeepsVerdicts
    <3>1. left'.fault = 0
      BY <2>3, SpentStaysSpent DEF ReportInv, VerdictInv, TypeInv
    <3>2. \A p \in Sessions : session'[p].verdict # "verifying"
      BY <2>3, VerdictsGiven DEF ReportInv, Given
    <3>3. \A s \in Steps : \A n \in 1 .. Len(deliverables'[s]) :
              deliverables'[s][n] # "verifying"
      BY <2>3, RowsGiven
    <3> QED
      BY <2>1, <3>1, <3>2, <3>3 DEF ReportInv
  <2> QED
    BY <2>1, <2>2, <2>3
<1>3. ReportInv => VerificationReportsBack
  BY DEF ReportInv, VerificationReportsBack
<1> QED
  BY <1>1, <1>2, <1>3, PTL DEF Spec
-----------------------------------------------------------------------------
(* A plan of one step has no dead end, while no call raises, no process    *)
(* dies and the tenant has its executor.  (A longer plan has one: see the  *)
(* run PlanDeadEnd.)  Each status a Request can have names who moves it on.*)
OneStepPlan == NothingFails /\ ~MayBeUnconfigured /\ MaxSteps = 1

UnderWay ==
    \/ Calling
    \/ requestQueue # <<>>
    \/ Worker.pc \notin {"idle", "done"} /\ Knows
    \/ \E t \in Steps : step[t] = "verifying"
    \/ Verifier.pc \in {"finalize", "stuck", "decide", "ready"}

DirectionMoves ==
    request = "open" => Call.pc = "enqueueRequest" \/ requestQueue # <<>> \/ Worker.pc = "load"

WorkMoves == request = "running" => UnderWay

ApprovalMoves == request = "review_ready" => Verifier.pc \in {"gate", "ship"}

(* A Request waits for its step, which an answer finds stuck.              *)
WaitsForStep ==
    request = "needs_decision" \/ Call.pc = "reEngageStep" => \A t \in Steps : step[t] \in Stuck

(* Nobody is sent to a step whose work is done.                            *)
Unfinished ==
    (Call.pc = "publishReEngage" \/ requestQueue # <<>>
        \/ Worker.pc \in {"load"} \cup StartingPCs) =>
    \A t \in Steps : step[t] # "review_ready"

(* A verifier that finalizes has seen the step it moved.                   *)
VerdictSeen == Verifier.pc = "finalize" => \A t \in Steps : Verifier.view[t] # "unread"

Alive == configured = TRUE /\ Up /\ Worker.pc # "startUnconfigured"

MovesOn ==
    /\ Alive
    /\ DirectionMoves /\ WorkMoves /\ ApprovalMoves
    /\ WaitsForStep /\ Unfinished /\ VerdictSeen

EndInv == FlightInv /\ StuckAsked /\ MovesOn

LEMMA OneStep == ASSUME OneStepPlan PROVE Steps = {1} /\ \A s, t \in Steps : s = t
  BY DEF OneStepPlan, Steps

(* Where the worker is after one of its steps.                             *)
KeepsGoing ==
    /\ Worker'.pc \notin {"idle", "done", "startUnconfigured"}
    /\ \/ Worker.pc # "idle" /\ ~Knows
       \/ (\A t \in Steps : Worker'.view[t] # "verifying")
       \/ \E t \in Steps : step'[t] = "verifying"
    /\ request = "open" => request' = "running" \/ Worker'.pc = "load"
    /\ Worker'.pc \in {"load"} \cup StartingPCs => \A t \in Steps : step'[t] # "review_ready"

(* A step of the worker that takes it to a program point of its own.       *)
LEMMA GoesOnBy ==
    ASSUME Typed, VerdictInv, NEW new, Become("worker", new), Worker.pc # "idle",
           new.pc \notin {"idle", "done", "startUnconfigured"},
           request # "open" \/ request' = "running",
           new.pc \in {"load"} \cup StartingPCs => \A t \in Steps : step'[t] # "review_ready",
           \/ Knows => \A t \in Steps : new.view[t] # "verifying"
           \/ \E t \in Steps : step'[t] = "verifying"
    PROVE  KeepsGoing
<1>1. Worker' = new
  BY WorkerMoves
<1> QED
  BY <1>1 DEF KeepsGoing

LEMMA WorkerKeepsGoing ==
    ASSUME OneStepPlan, VerdictInv, Orderly, left.fault = 0, MovesOn, WorkerNext
    PROVE  KeepsGoing
<1>t. Typed /\ \A s, t \in Steps : s = t
  BY TypedParts, OneStep DEF OneStepPlan, NothingFails
<1>0. IdleSession \in SessionType /\ IdleSession.pc = "idle"
      /\ Worker \in SessionType /\ ~Spend("fault")
      /\ IdleSession.view = [s \in Steps |-> "unread"]
  BY <1>t, IdleType DEF IdleSession, Spend
<1>1. CASE ConsumeRequest
  <2> DEFINE new == [IdleSession EXCEPT !.pc = "load", !.kind = Head(requestQueue).kind,
                                        !.step = Head(requestQueue).step]
  <2>1. requestQueue # <<>> /\ Become("worker", new) /\ UNCHANGED step
    BY <1>1 DEF ConsumeRequest
  <2>2. new.pc = "load" /\ new.view = [s \in Steps |-> "unread"]
    BY <1>0 DEF SessionType
  <2>3. Worker' = new
    BY <2>1, WorkerMoves
  <2> HIDE DEF new
  <2> QED
    BY <2>1, <2>2, <2>3 DEF KeepsGoing, MovesOn, Unfinished
<1>2. CASE PlanRequest
  <2> DEFINE new == [Worker EXCEPT !.pc = "dispatch", !.view = step']
  <2>1. Worker.pc = "load" /\ Worker.kind = "plan"
    BY <1>2 DEF PlanRequest, At, Worker
  <2>2. request = "open"
    BY <2>1 DEF Orderly, Planned, Unplanned
  <2>3. /\ request' = "running" /\ Become("worker", new)
        /\ \E n \in Steps : step' = [s \in Steps |-> IF s <= n THEN "pending" ELSE "absent"]
    BY <1>0, <1>2, <2>2 DEF PlanRequest, MovesOn, Alive
  <2>4. \A t \in Steps : step'[t] \in {"pending", "absent"}
    BY <2>3
  <2>5. new.pc = "dispatch" /\ new.view = step'
    BY <1>0 DEF SessionType
  <2> HIDE DEF new
  <2> QED
    BY <1>t, <2>1, <2>3, <2>4, <2>5, GoesOnBy
<1>3. CASE ReDispatchDecision
  <2> DEFINE new == [Worker EXCEPT !.pc = "dispatch", !.view = step]
  <2>1. Worker.pc = "load" /\ Worker.kind = "re_engage" /\ UNCHANGED <<request, step>>
    BY <1>3 DEF ReDispatchDecision, At, Worker
  <2>2. request = "running"
    BY <2>1 DEF Orderly, ReEngaging
  <2>3. Become("worker", new)
    BY <1>0, <1>3, <2>2 DEF ReDispatchDecision
  <2>4. new.pc = "dispatch" /\ new.view = step
    BY <1>0 DEF SessionType
  <2>5. \A t \in Steps : step'[t] # "review_ready"
    BY <2>1 DEF MovesOn, Unfinished
  <2> HIDE DEF new
  <2> QED
    BY <1>t, <2>1, <2>2, <2>3, <2>4, <2>5, GoesOnBy
<1>4. ASSUME Worker.pc \notin {"idle", "load"} PROVE request # "open"
  BY <1>4 DEF Orderly, Unplanned
<1>5. CASE CreateRunAttempt
  <2> DEFINE new == [Worker EXCEPT !.pc = "start"]
  <2>1. Worker.pc = "dispatch" /\ Become("worker", new) /\ UNCHANGED step
    BY <1>5 DEF CreateRunAttempt, WorkerGoto, Goto, At, Worker, MovesOn, Alive
  <2>2. new.pc = "start" /\ new.view = Worker.view
    BY <1>0 DEF SessionType
  <2>3. \A t \in Steps : step'[t] # "review_ready"
    BY <2>1 DEF MovesOn, Unfinished
  <2> HIDE DEF new
  <2> QED
    BY <1>t, <1>4, <2>1, <2>2, <2>3, GoesOnBy
<1>6. CASE StartStep
  <2> DEFINE s == Worker.step
             new == [Worker EXCEPT !.view[s] = "running", !.pc = "work"]
  <2>1. Worker.pc = "start"
    BY <1>6 DEF StartStep, At, MovesOn, Alive, Worker
  <2>2. Worker.view[s] = "running" \/ CanTransitionWorkStep(Worker.view[s], "running")
    <3>1. Worker.view[s] = step[s] /\ step[s] \in {"pending", "running"}
      BY <1>t, <2>1 DEF Orderly, Starting, WorkerShape, MovesOn, Unfinished
    <3> QED
      BY <3>1 DEF CanTransitionWorkStep, WORK_STEP_TRANSITIONS
  <2>3. Become("worker", new)
    BY <1>6, <2>1, <2>2 DEF StartStep, At, Worker
  <2>4. new.pc = "work" /\ new.view = [Worker.view EXCEPT ![s] = "running"]
    BY <1>0 DEF SessionType
  <2> HIDE DEF new
  <2>5. Knows => \A t \in Steps : new.view[t] # "verifying"
    BY <1>t, <2>4
  <2> QED
    BY <1>t, <1>4, <2>1, <2>3, <2>4, <2>5, GoesOnBy
<1>7. CASE WorkPhase
  <2>1. Worker.pc = "work" /\ UNCHANGED step
        /\ \/ \E pc \in {"deliver", "park", "fail"} : Goto("worker", pc)
           \/ Become("worker", [Worker EXCEPT !.pc = "dispatch", !.cont = @ + 1])
    BY <1>7 DEF WorkPhase, WorkerGoto, At, Worker
  <2>2. \A t \in Steps : step'[t] # "review_ready"
    BY <1>t, <2>1 DEF Orderly, Working
  <2>3. CASE \E pc \in {"deliver", "park", "fail"} : Goto("worker", pc)
    <3>1. PICK pc \in {"deliver", "park", "fail"} : Goto("worker", pc)
      BY <2>3
    <3> DEFINE new == [Worker EXCEPT !.pc = pc]
    <3>2. Become("worker", new) /\ new.pc = pc /\ new.view = Worker.view
      BY <1>0, <3>1 DEF SessionType, Goto, Worker
    <3> HIDE DEF new
    <3> QED
      BY <1>t, <1>4, <2>1, <2>2, <3>2, GoesOnBy
  <2>4. CASE Become("worker", [Worker EXCEPT !.pc = "dispatch", !.cont = @ + 1])
    <3> DEFINE new == [Worker EXCEPT !.pc = "dispatch", !.cont = @ + 1]
    <3>1. Become("worker", new) /\ new.pc = "dispatch" /\ new.view = Worker.view
      BY <1>0, <2>4 DEF SessionType
    <3> HIDE DEF new
    <3> QED
      BY <1>t, <1>4, <2>1, <2>2, <3>1, GoesOnBy
  <2> QED
    BY <2>1, <2>3, <2>4
<1>8. CASE FinishUnconfigured \/ PublishProof
  <2>1. /\ Worker.pc \in {"unconfigured", "publishProof"}
        /\ \E pc \in {"failUnconfigured", "next"} : Goto("worker", pc)
    BY <1>0, <1>8 DEF FinishUnconfigured, PublishProof, WorkerGoto, At, Worker
  <2>2. PICK pc \in {"failUnconfigured", "next"} : Goto("worker", pc)
    BY <2>1
  <2> DEFINE new == [Worker EXCEPT !.pc = pc]
  <2>3. Become("worker", new) /\ new.pc = pc /\ new.view = Worker.view
    BY <1>0, <2>2 DEF SessionType, Goto, Worker
  <2> HIDE DEF new
  <2> QED
    BY <1>t, <1>4, <2>1, <2>3, GoesOnBy
<1>9. CASE CreateDeliverable \/ SurfacePartial \/ DiagnosePartial
  <2>1. Worker.pc \in {"deliver", "raise", "surface", "diagnose"}
    BY <1>9 DEF CreateDeliverable, SurfacePartial, DiagnosePartial, At, Worker
  <2>2. ASSUME NEW pc \in {"markVerifying", "diagnose"}, NEW n,
               Become("worker", [Worker EXCEPT !.pc = pc, !.nth = n])
        PROVE  \E new : Become("worker", new) /\ new.pc = pc /\ new.view = Worker.view
    <3>1. LET new == [Worker EXCEPT !.pc = pc, !.nth = n]
          IN  new.pc = pc /\ new.view = Worker.view
      BY <1>0 DEF SessionType
    <3> QED
      BY <2>2, <3>1
  <2>3. ASSUME NEW v, Become("worker", [Worker EXCEPT !.pc = "next", !.verdict = v])
        PROVE  \E new : Become("worker", new) /\ new.pc = "next" /\ new.view = Worker.view
    <3>1. LET new == [Worker EXCEPT !.pc = "next", !.verdict = v]
          IN  new.pc = "next" /\ new.view = Worker.view
      BY <1>0 DEF SessionType
    <3> QED
      BY <2>3, <3>1
  <2>4. ASSUME Goto("worker", "next")
        PROVE  \E new : Become("worker", new) /\ new.pc = "next" /\ new.view = Worker.view
    <3>1. LET new == [Worker EXCEPT !.pc = "next"]
          IN  new.pc = "next" /\ new.view = Worker.view
      BY <1>0 DEF SessionType
    <3> QED
      BY <2>4, <3>1 DEF Goto, Worker
  <2>5. PICK new : /\ Become("worker", new) /\ new.view = Worker.view
                   /\ new.pc \in {"markVerifying", "diagnose", "next"}
    BY <1>9, <2>2, <2>3, <2>4 DEF CreateDeliverable, SurfacePartial, DiagnosePartial, WorkerGoto
  <2> QED
    BY <1>t, <1>4, <2>1, <2>5, GoesOnBy
<1>10. CASE MarkVerifying \/ ParkStep \/ FailStep
  <2>1. Worker.pc \in {"markVerifying", "park", "fail", "failUnconfigured"}
    BY <1>10 DEF MarkVerifying, ParkStep, FailStep, At, Worker
  <2>2. \E target \in {"verifying", "needs_decision", "failed"},
           pc \in {"publishProof", "raise", "surface", "next"} : MoveStep(target, pc)
    BY <1>10 DEF MarkVerifying, ParkStep, FailStep
  <2>3. PICK target \in {"verifying", "needs_decision", "failed"},
             pc \in {"publishProof", "raise", "surface", "next"} : MoveStep(target, pc)
    BY <2>2
  <2> DEFINE new == [Worker EXCEPT !.view[Worker.step] = target, !.pc = pc]
  <2>4. /\ Become("worker", new) /\ step' = [step EXCEPT ![Worker.step] = target]
        /\ new.pc = pc /\ new.view = [Worker.view EXCEPT ![Worker.step] = target]
    BY <1>0, <2>3 DEF MoveStep, SessionType
  <2> HIDE DEF new
  <2>5. \/ Knows => \A t \in Steps : new.view[t] # "verifying"
        \/ \E t \in Steps : step'[t] = "verifying"
    BY <1>t, <2>4
  <2> QED
    BY <1>t, <1>4, <2>1, <2>4, <2>5, GoesOnBy
<1>11. CASE NextStep
  <2> DEFINE new == [Worker EXCEPT !.verdict = "none", !.nth = 0, !.cont = 0,
                                   !.pc = "finalize", !.step = Worker.step]
  <2>1. Worker.pc = "next" /\ ~More
    BY <1>11, <1>t DEF NextStep, At, Worker
  <2>2. Become("worker", new)
    BY <1>11, <2>1 DEF NextStep
  <2>3. new.pc = "finalize" /\ new.view = Worker.view
    BY <1>0 DEF SessionType
  <2> HIDE DEF new
  <2> QED
    BY <1>t, <1>4, <2>1, <2>2, <2>3, GoesOnBy
<1> QED
  BY <1>1, <1>2, <1>3, <1>5, <1>6, <1>7, <1>8, <1>9, <1>10, <1>11, Zenon DEF WorkerNext

(* The worker keeps its Request moving.                                    *)
LEMMA WorkerMovesOn ==
    ASSUME OneStepPlan, VerdictInv, Orderly, left.fault = 0, MovesOn, WorkerNext
    PROVE  MovesOn'
<1>t. Typed /\ \A s, t \in Steps : s = t
  BY TypedParts, OneStep DEF OneStepPlan, NothingFails
<1>1. /\ Worker'.pc \notin {"idle", "done", "startUnconfigured"}
      /\ \/ Worker.pc # "idle" /\ ~Knows
         \/ (\A t \in Steps : Worker'.view[t] # "verifying")
         \/ \E t \in Steps : step'[t] = "verifying"
      /\ request = "open" => request' = "running" \/ Worker'.pc = "load"
      /\ Worker'.pc \in {"load"} \cup StartingPCs => \A t \in Steps : step'[t] # "review_ready"
  BY WorkerKeepsGoing DEF KeepsGoing
<1>2. /\ \A t \in Steps : step[t] \in Stuck \cup {"verifying"} => step'[t] = step[t]
      /\ ~Drives => UNCHANGED step
  BY <1>t, WorkerSparesStuck
<1>3. UNCHANGED <<handler, configured, mode>>
  BY Zenon DEF WorkerNext, ConsumeRequest, PlanRequest, ReDispatchDecision, CreateRunAttempt,
     StartStep, WorkPhase, FinishUnconfigured, CreateDeliverable, MarkVerifying, PublishProof,
     ParkStep, FailStep, SurfacePartial, DiagnosePartial, NextStep
<1>4. Verifier' = Verifier
  <2>1. \E new : Become("worker", new)
    BY DEF WorkerNext, ConsumeRequest, PlanRequest, ReDispatchDecision, CreateRunAttempt,
       StartStep, WorkPhase, FinishUnconfigured, CreateDeliverable, MarkVerifying, MoveStep,
       PublishProof, ParkStep, FailStep, SurfacePartial, DiagnosePartial, NextStep, Goto,
       WorkerGoto, Close
  <2> QED
    BY <2>1, WorkerMoves
<1>5. UNCHANGED requestQueue \/ (requestQueue' = <<>> /\ Worker.pc = "idle")
  <2>1. CASE ConsumeRequest
    <3>1. requestQueue # <<>> /\ requestQueue' = Tail(requestQueue) /\ Worker.pc = "idle"
      BY <2>1 DEF ConsumeRequest, At, Worker
    <3> QED
      BY <3>1, OneEntryTaken DEF Orderly, OneDriver
  <2>2. ConsumeRequest \/ UNCHANGED requestQueue
    BY Zenon DEF WorkerNext, PlanRequest, ReDispatchDecision, CreateRunAttempt,
         StartStep, WorkPhase, FinishUnconfigured, CreateDeliverable, MarkVerifying,
         PublishProof, ParkStep, FailStep, SurfacePartial, DiagnosePartial, NextStep, queues
  <2> QED
    BY <2>1, <2>2
<1>6. UNCHANGED request \/ (request = "open" /\ request' = "running")
  <2>1. CASE PlanRequest
    BY <2>1 DEF PlanRequest
  <2>2. PlanRequest \/ UNCHANGED request
    BY Zenon DEF WorkerNext, ConsumeRequest, ReDispatchDecision, CreateRunAttempt,
         StartStep, WorkPhase, FinishUnconfigured, CreateDeliverable, MarkVerifying,
         PublishProof, ParkStep, FailStep, SurfacePartial, DiagnosePartial, NextStep
  <2> QED
    BY <2>1, <2>2
<1>7. Alive'
  BY <1>1, <1>3 DEF MovesOn, Alive
<1>8. DirectionMoves'
  BY <1>1, <1>6 DEF DirectionMoves
<1>9. WorkMoves'
  <2>1. CASE Worker.pc # "idle" /\ ~Knows
    <3>1. request # "open"
      BY <2>1 DEF Orderly, Unplanned, ReEngaging
    <3>2. CASE request' = "running"
      <4>1. request = "running" /\ UNCHANGED requestQueue
        BY <1>5, <1>6, <2>1, <3>1, <3>2
      <4>2. \/ Calling \/ requestQueue # <<>> \/ \E t \in Steps : step[t] = "verifying"
            \/ Verifier.pc \in {"finalize", "stuck", "decide", "ready"}
        BY <2>1, <4>1 DEF MovesOn, WorkMoves, UnderWay
      <4> QED
        BY <1>2, <1>3, <1>4, <4>1, <4>2 DEF WorkMoves, UnderWay, Call
    <3> QED
      BY <3>2 DEF WorkMoves
  <2>2. CASE ~(Worker.pc # "idle" /\ ~Knows)
    BY <1>1, <2>2 DEF WorkMoves, UnderWay
  <2> QED
    BY <2>1, <2>2
<1>10. ApprovalMoves'
  BY <1>4, <1>6 DEF MovesOn, ApprovalMoves
<1>11. WaitsForStep'
  BY <1>2, <1>3, <1>6 DEF MovesOn, WaitsForStep, Call
<1>12. Unfinished'
  <2>1. Call'.pc = "publishReEngage" \/ requestQueue' # <<>> =>
            \A t \in Steps : step'[t] # "review_ready"
    <3>1. Calling \/ requestQueue # <<>> => ~Drives
      BY DEF Orderly, OneDriver
    <3> QED
      BY <1>2, <1>3, <1>5, <3>1 DEF MovesOn, Unfinished, Call
  <2> QED
    BY <1>1, <2>1 DEF Unfinished
<1>13. VerdictSeen'
  BY <1>4 DEF MovesOn, VerdictSeen
<1> QED
  BY <1>7, <1>8, <1>9, <1>10, <1>11, <1>12, <1>13 DEF MovesOn

(* The verifier hands a step that it moves to its own finalization.        *)
LEMMA VerifierMovesOn ==
    ASSUME OneStepPlan, VerdictInv, Orderly, left.fault = 0, MovesOn, VerifierNext
    PROVE  MovesOn'
<1>t. Typed /\ \A s, t \in Steps : s = t
  BY TypedParts, OneStep DEF OneStepPlan, NothingFails
<1>0. IdleSession \in SessionType /\ Verifier \in SessionType /\ ~Spend("fault")
  BY <1>t, IdleType DEF Spend
<1>1. UNCHANGED <<request, requestQueue, handler, configured, mode>>
  BY Zenon DEF VerifierNext, ConsumeProof, RunVerification, AdvanceRead, AdvanceStep, AdvanceTo,
       queues
<1>2. /\ Verifier.pc \in {"idle", "verify", "advance", "move"}
      /\ Worker' = Worker
  <2>1. Verifier.pc \in {"idle", "verify", "advance", "move"}
    BY DEF VerifierNext, ConsumeProof, RunVerification, AdvanceRead, AdvanceStep, AdvanceTo, At,
           Verifier
  <2>2. \E new : Become("verifier", new)
    BY DEF VerifierNext, ConsumeProof, RunVerification, AdvanceRead, AdvanceStep, AdvanceTo, Close
  <2> QED
    BY <2>1, <2>2, VerifierMoves
<1>3. \/ UNCHANGED step
      \/ /\ Verifier.pc = "move" /\ step[Verifier.step] = "verifying"
         /\ Verifier'.pc = "finalize"
  <2>1. CASE AdvanceStep
    <3>1. PICK target : AdvanceTo(target)
      BY <2>1 DEF AdvanceStep
    <3> DEFINE new == [Verifier EXCEPT !.view[Verifier.step] = target, !.verdict = "none",
                                       !.pc = "finalize"]
    <3>2. Become("verifier", new) /\ Verifier.pc = "move"
      BY <3>1 DEF AdvanceTo, At, Verifier
    <3>3. new.pc = "finalize"
      BY <1>0 DEF SessionType
    <3>4. Verifier' = new
      BY <3>2, VerifierMoves
    <3> HIDE DEF new
    <3> QED
      BY <3>2, <3>3, <3>4 DEF Orderly, LatestUnderProof
  <2>2. AdvanceStep \/ UNCHANGED step
    BY Zenon DEF VerifierNext, ConsumeProof, RunVerification, AdvanceRead
  <2> QED
    BY <2>1, <2>2
<1>4. VerdictSeen'
  <2>1. CASE ConsumeProof
    <3> DEFINE new == [IdleSession EXCEPT !.pc = "verify", !.step = Head(proofQueue).step,
                                          !.nth = Head(proofQueue).nth]
    <3>1. Become("verifier", new) /\ new.pc = "verify"
      BY <1>0, <2>1 DEF ConsumeProof, SessionType
    <3> HIDE DEF new
    <3> QED
      BY <3>1, VerifierMoves DEF VerdictSeen
  <2>2. CASE RunVerification
    <3>1. PICK v : Become("verifier", [Verifier EXCEPT !.pc = "advance", !.verdict = v])
      BY <1>0, <2>2 DEF RunVerification
    <3>2. [Verifier EXCEPT !.pc = "advance", !.verdict = v].pc = "advance"
      BY <1>0 DEF SessionType
    <3>3. Verifier'.pc = "advance"
      BY <3>1, <3>2, VerifierMoves
    <3> QED
      BY <3>3 DEF VerdictSeen
  <2>3. CASE AdvanceRead
    <3>1. PICK s, pc : /\ s = Verifier.step
                       /\ pc = IF step[s] = "verifying" THEN "move" ELSE "finalize"
      OBVIOUS
    <3> DEFINE new == [Verifier EXCEPT !.view[s] = step[s], !.pc = pc]
    <3>2. Become("verifier", new)
      BY <2>3, <3>1 DEF AdvanceRead
    <3>3. new.view = [Verifier.view EXCEPT ![s] = step[s]]
      BY <1>0 DEF SessionType
    <3>4. step[s] # "unread"
      BY <1>t, <3>1 DEF WorkStepStatuses
    <3>5. Verifier' = new
      BY <3>2, VerifierMoves
    <3> HIDE DEF new
    <3>6. \A t \in Steps : new.view[t] = step[s]
      <4>1. \A t \in Steps : t = s
        BY <1>t, <3>1
      <4>2. Verifier.view \in [Steps -> WorkStepStatuses \cup {"absent", "unread"}]
        BY <1>t
      <4> QED
        BY <3>3, <4>1, <4>2
    <3>7. \A t \in Steps : Verifier'.view[t] # "unread"
      BY <3>4, <3>5, <3>6
    <3> QED
      BY <3>7 DEF VerdictSeen
  <2>4. CASE AdvanceStep
    <3>1. \E v \in {"review_ready", "failed"} : AdvanceTo(v)
      BY <2>4 DEF AdvanceStep
    <3>2. PICK v \in {"review_ready", "failed"} : AdvanceTo(v)
      BY <3>1
    <3> DEFINE new == [Verifier EXCEPT !.view[Verifier.step] = v, !.verdict = "none",
                                       !.pc = "finalize"]
    <3>3. Become("verifier", new)
      BY <3>2 DEF AdvanceTo
    <3>4. new.view = [Verifier.view EXCEPT ![Verifier.step] = v]
      BY <1>0 DEF SessionType
    <3>5. Verifier' = new
      BY <3>3, VerifierMoves
    <3> HIDE DEF new
    <3>6. \A t \in Steps : new.view[t] = v
      <4>1. \A t \in Steps : t = Verifier.step
        BY <1>t
      <4>2. Verifier.view \in [Steps -> WorkStepStatuses \cup {"absent", "unread"}]
        BY <1>t
      <4> QED
        BY <3>4, <4>1, <4>2
    <3>7. \A t \in Steps : Verifier'.view[t] # "unread"
      BY <3>5, <3>6
    <3> QED
      BY <3>7 DEF VerdictSeen
  <2> QED
    BY <2>1, <2>2, <2>3, <2>4 DEF VerifierNext
<1>5. Alive' /\ DirectionMoves' /\ ApprovalMoves'
  BY <1>1, <1>2 DEF MovesOn, Alive, DirectionMoves, ApprovalMoves, Call
<1>6. WorkMoves'
  <2>1. CASE UNCHANGED step
    <3>1. request = "running" => \/ Calling \/ requestQueue # <<>>
                                 \/ Worker.pc \notin {"idle", "done"} /\ Knows
                                 \/ \E t \in Steps : step[t] = "verifying"
      BY <1>2 DEF MovesOn, WorkMoves, UnderWay
    <3> QED
      BY <1>1, <1>2, <2>1, <3>1 DEF WorkMoves, UnderWay, Call
  <2>2. CASE Verifier'.pc = "finalize"
    BY <2>2 DEF WorkMoves, UnderWay
  <2> QED
    BY <1>3, <2>1, <2>2
<1>7. ~UNCHANGED step => /\ request # "needs_decision" /\ ~Calling /\ requestQueue = <<>>
                         /\ Worker.pc \notin {"load"} \cup StartingPCs
  <2>1. ASSUME ~UNCHANGED step
        PROVE  Verifier.pc = "move" /\ \A t \in Steps : step[t] = "verifying"
    <3>1. \A t \in Steps : t = Verifier.step
      BY <1>t
    <3> QED
      BY <1>3, <2>1, <3>1
  <2>2. ASSUME Verifier.pc = "move"
        PROVE  /\ request \in {"running", "review_ready"} /\ ~Calling /\ requestQueue = <<>>
               /\ Worker.pc # "load"
    BY <2>2 DEF Orderly, OneDriver, ReEngaging
  <2>3. ASSUME \A t \in Steps : step[t] = "verifying" PROVE Worker.pc \notin StartingPCs
    BY <1>t, <2>3 DEF Orderly, Starting, WorkerShape
  <2> QED
    BY <2>1, <2>2, <2>3
<1>8. WaitsForStep'
  BY <1>1, <1>7 DEF MovesOn, WaitsForStep, Call
<1>9. Unfinished'
  BY <1>1, <1>2, <1>7 DEF MovesOn, Unfinished, Call
<1> QED
  BY <1>4, <1>5, <1>6, <1>8, <1>9 DEF MovesOn

(* The worker settles a Request whose step is stuck, and otherwise leaves  *)
(* it to the verdict.                                                      *)
LEMMA WorkerSettlesOn ==
    ASSUME OneStepPlan, VerdictInv, Orderly, MovesOn, FinalizeNext("worker")
    PROVE  MovesOn'
<1>t. Typed /\ \A s, t \in Steps : s = t
  BY TypedParts, OneStep DEF OneStepPlan, NothingFails
<1>0. /\ Worker \in SessionType /\ Worker.step \in Steps /\ "worker" \in Sessions
      /\ IdleSession.pc = "idle"
  BY <1>t DEF Sessions, IdleSession
<1>1. UNCHANGED <<step, handler, requestQueue, configured, mode>>
  BY Zenon DEF FinalizeNext, FinalizeRead, FinalizeStuck, Asking, FinalizeDecide, FinalizeReady,
     ShipGate, FinalizeShip, CloseSession, queues
<1>2. Verifier' = Verifier
  <2>1. \E new : Become("worker", new)
    BY <1>0, FinalizeGoes
  <2> QED
    BY <2>1, WorkerMoves
<1>3. /\ Worker.pc \in {"finalize", "stuck", "decide", "done"}
      /\ Worker.pc # "done" => request # "open"
  <2>1. Worker.pc \in {"finalize", "done"} \cup SettlingPCs
    BY Zenon DEF FinalizeNext, FinalizeRead, FinalizeStuck, Asking, FinalizeDecide, FinalizeReady,
       ShipGate, FinalizeShip, CloseSession, At, Worker
  <2> QED
    BY <2>1 DEF Orderly, WorkerShape, Unplanned
<1>4. ASSUME NEW new, Become("worker", new), new.pc \in {"idle", "done", "stuck", "decide"},
             \/ request' # "running"
             \/ new.pc \in {"stuck", "decide"} /\ \A t \in Steps : new.view[t] # "verifying"
             \/ request' = request /\ (Worker.pc = "done" \/ ~Knows),
             \/ UNCHANGED request
             \/ request' = "needs_decision" /\ \A t \in Steps : step[t] \in Stuck
      PROVE  MovesOn'
  <2>1. Worker' = new
    BY <1>4, WorkerMoves
  <2>2. Alive' /\ DirectionMoves' /\ Unfinished'
    BY <1>1, <1>3, <1>4, <2>1 DEF MovesOn, Alive, DirectionMoves, Unfinished, Call
  <2>3. ApprovalMoves' /\ WaitsForStep' /\ VerdictSeen'
    BY <1>1, <1>2, <1>4 DEF MovesOn, ApprovalMoves, WaitsForStep, VerdictSeen, Call
  <2>4. WorkMoves'
    BY <1>1, <1>2, <1>4, <2>1 DEF MovesOn, WorkMoves, UnderWay, Call
  <2> QED
    BY <2>2, <2>3, <2>4 DEF MovesOn
<1>5. CASE FinalizeRead("worker")
  <2> DEFINE seen == StepsSeen("worker")
             plan == {s \in Steps : seen[s] # "absent"}
             settled == RequestSeen("worker") = "running" /\ \A s \in plan : seen[s] \in Terminal
             pc == IF settled /\ \E s \in plan : seen[s] \in Stuck THEN "stuck"
                   ELSE IF settled /\ \A s \in plan : seen[s] = "review_ready"
                        THEN "ready" ELSE "done"
             new == [Worker EXCEPT !.view = seen, !.pc = pc]
  <2>1. Worker.pc = "finalize" /\ Become("worker", new) /\ UNCHANGED request
    BY <1>5 DEF FinalizeRead, At, Worker
  <2>2. new.pc = pc /\ new.view = seen
    BY <1>0 DEF SessionType
  <2>3. \A t \in Steps : seen[t] = Worker.view[t]
    BY <2>1 DEF StepsSeen, Orderly, WorkerShape, Worker
  <2>4. Worker.view[Worker.step] \in Stuck \cup {"verifying"}
    BY <2>1 DEF Orderly, LeftBehind
  <2>5. CASE Knows
    <3>1. \A t \in Steps : seen[t] \in Stuck
      BY <1>0, <1>t, <2>3, <2>4, <2>5
    <3>2. settled /\ \E s \in plan : seen[s] \in Stuck
      BY <1>0, <3>1 DEF RequestSeen, Terminal
    <3>3. pc = "stuck" /\ \A t \in Steps : seen[t] # "verifying"
      BY <3>1, <3>2
    <3> HIDE DEF new, seen, pc
    <3> QED
      BY <1>4, <2>1, <2>2, <3>3
  <2>6. CASE ~Knows
    <3>1. \A t \in Steps : seen[t] = "verifying"
      BY <1>t, <2>3, <2>6
    <3>2. ~settled
      BY <1>0, <3>1 DEF Terminal
    <3>3. pc = "done"
      BY <3>2
    <3> HIDE DEF new, seen, pc
    <3> QED
      BY <1>4, <2>1, <2>2, <2>6, <3>3
  <2> QED
    BY <2>5, <2>6
<1>6. CASE FinalizeStuck("worker")
  <2>1. PICK missing : Become("worker", [Worker EXCEPT !.missing = missing, !.pc = "decide"])
    BY <1>6 DEF FinalizeStuck, Asking, Worker
  <2> DEFINE new == [Worker EXCEPT !.missing = missing, !.pc = "decide"]
  <2>2. Worker.pc = "stuck" /\ UNCHANGED request
    BY <1>6 DEF FinalizeStuck, Asking, At, Worker
  <2>3. new.pc = "decide" /\ new.view = Worker.view
    BY <1>0 DEF SessionType
  <2>4. Knows
    BY <2>2 DEF Orderly, Finishing
  <2> HIDE DEF new
  <2> QED
    BY <1>4, <2>1, <2>2, <2>3, <2>4 DEF new
<1>7. CASE FinalizeDecide("worker")
  <2> DEFINE new == [Worker EXCEPT !.pc = "done", !.verdict = "none"]
  <2>1. Worker.pc = "decide" /\ request' = "needs_decision" /\ Become("worker", new)
    BY <1>7 DEF FinalizeDecide, At, Worker
  <2>2. new.pc = "done"
    BY <1>0 DEF SessionType
  <2>3. \A t \in Steps : step[t] \in Stuck
    BY <1>t, <2>1 DEF Orderly, Settles
  <2> HIDE DEF new
  <2> QED
    BY <1>4, <2>1, <2>2, <2>3
<1>8. CASE CloseSession("worker")
  <2>1. Worker.pc = "done" /\ UNCHANGED request /\ Become("worker", IdleSession)
    BY <1>8 DEF CloseSession, Close, At, Worker
  <2> QED
    BY <1>0, <1>4, <2>1
<1>9. ~FinalizeReady("worker") /\ ~ShipGate("worker") /\ ~FinalizeShip("worker")
  BY <1>3, Zenon DEF FinalizeReady, ShipGate, FinalizeShip, At, Worker
<1> QED
  BY <1>5, <1>6, <1>7, <1>8, <1>9, Zenon DEF FinalizeNext

(* The verifier takes a Request whose step has its verdict to the founder, *)
(* or to `shipped`.                                                        *)
LEMMA VerifierSettlesOn ==
    ASSUME OneStepPlan, VerdictInv, Orderly, MovesOn, FinalizeNext("verifier")
    PROVE  MovesOn'
<1>t. Typed /\ \A s, t \in Steps : s = t
  BY TypedParts, OneStep DEF OneStepPlan, NothingFails
<1>0. /\ Verifier \in SessionType /\ "verifier" \in Sessions
      /\ IdleSession.pc = "idle" /\ 1 \in Steps
  BY <1>t, OneStep DEF Sessions, IdleSession, OneStepPlan
<1>1. UNCHANGED <<step, handler, requestQueue, configured, mode>>
  BY Zenon DEF FinalizeNext, FinalizeRead, FinalizeStuck, Asking, FinalizeDecide, FinalizeReady,
     ShipGate, FinalizeShip, CloseSession, queues
<1>2. Worker' = Worker
  <2>1. \E new : Become("verifier", new)
    BY <1>0, FinalizeGoes
  <2> QED
    BY <2>1, VerifierMoves
<1>3. ASSUME NEW new, Become("verifier", new),
             new.pc \in {"idle", "done"} \cup SettlingPCs,
             request' = "running" =>
                 UNCHANGED request /\ (\/ Verifier.pc = "done"
                                       \/ new.pc \in {"stuck", "decide", "ready"}
                                       \/ \E t \in Steps : step[t] = "verifying"),
             request' = "review_ready" => new.pc \in {"gate", "ship"},
             UNCHANGED request \/ request' \in {"needs_decision", "review_ready", "shipped"},
             request' = "needs_decision" =>
                 UNCHANGED request \/ \A t \in Steps : step[t] \in Stuck
      PROVE  MovesOn'
  <2>1. Verifier' = new
    BY <1>3, VerifierMoves
  <2>2. Alive' /\ DirectionMoves' /\ Unfinished'
    BY <1>1, <1>2, <1>3 DEF MovesOn, Alive, DirectionMoves, Unfinished, Call
  <2>3. ApprovalMoves' /\ VerdictSeen'
    BY <1>3, <2>1 DEF ApprovalMoves, VerdictSeen
  <2>4. WaitsForStep'
    BY <1>1, <1>3 DEF MovesOn, WaitsForStep, Call
  <2>5. WorkMoves'
    BY <1>1, <1>2, <1>3, <2>1 DEF MovesOn, WorkMoves, UnderWay, Call
  <2> QED
    BY <2>2, <2>3, <2>4, <2>5 DEF MovesOn
<1>4. CASE FinalizeRead("verifier")
  <2> DEFINE seen == StepsSeen("verifier")
             plan == {s \in Steps : seen[s] # "absent"}
             settled == RequestSeen("verifier") = "running"
                            /\ \A s \in plan : seen[s] \in Terminal
             pc == IF settled /\ \E s \in plan : seen[s] \in Stuck THEN "stuck"
                   ELSE IF settled /\ \A s \in plan : seen[s] = "review_ready"
                        THEN "ready" ELSE "done"
             new == [Verifier EXCEPT !.view = seen, !.pc = pc]
  <2>1. Verifier.pc = "finalize" /\ Become("verifier", new) /\ UNCHANGED request
    BY <1>4 DEF FinalizeRead, At, Verifier
  <2>2. new.pc = pc /\ new.view = seen
    BY <1>0 DEF SessionType
  <2>3. \A t \in Steps : seen[t] = Verifier.view[t] /\ Verifier.view[t] # "unread"
    BY <2>1 DEF StepsSeen, MovesOn, VerdictSeen, Verifier
  <2>4. \A t \in Steps : seen[t] = step[t] /\ step[t] \in {"verifying", "review_ready", "failed"}
    BY <2>1, <2>3 DEF Orderly, Reading
  <2>5. request \in {"running", "review_ready"}
    BY <2>1 DEF Orderly, OneDriver
  <2>6. request = "running"
    BY <2>1, <2>5 DEF MovesOn, ApprovalMoves
  <2>7. CASE step[1] = "verifying"
    <3>1. pc \in {"done", "stuck", "ready"}
      OBVIOUS
    <3> HIDE DEF new, seen, pc
    <3> QED
      BY <1>0, <1>3, <2>1, <2>2, <2>6, <2>7, <3>1
  <2>8. CASE step[1] # "verifying"
    <3>1. \A t \in Steps : seen[t] = step[1] /\ step[1] \in {"review_ready", "failed"}
      BY <1>0, <1>t, <2>4, <2>8
    <3>2. settled
      BY <2>6, <3>1 DEF RequestSeen, Terminal
    <3>3. pc \in {"stuck", "ready"}
      <4>1. step[1] = "failed" => \E s \in plan : seen[s] \in Stuck
        BY <1>0, <3>1
      <4>2. step[1] = "review_ready" => \A s \in plan : seen[s] = "review_ready"
        BY <3>1
      <4>3. step[1] \in {"review_ready", "failed"}
        BY <1>0, <3>1
      <4> QED
        BY <3>2, <4>1, <4>2, <4>3
    <3> HIDE DEF new, seen, pc
    <3> QED
      BY <1>0, <1>3, <2>1, <2>2, <2>6, <3>3
  <2> QED
    BY <2>7, <2>8
<1>5. CASE FinalizeStuck("verifier")
  <2>1. PICK missing : Become("verifier", [Verifier EXCEPT !.missing = missing, !.pc = "decide"])
    BY <1>5 DEF FinalizeStuck, Asking, Verifier
  <2> DEFINE new == [Verifier EXCEPT !.missing = missing, !.pc = "decide"]
  <2>2. Verifier.pc = "stuck" /\ UNCHANGED request
    BY <1>5 DEF FinalizeStuck, Asking, At, Verifier
  <2>3. new.pc = "decide"
    BY <1>0 DEF SessionType
  <2>4. request = "running"
    BY <2>2 DEF Orderly, Settles
  <2> HIDE DEF new
  <2> QED
    BY <1>3, <2>1, <2>2, <2>3, <2>4 DEF new
<1>6. CASE FinalizeDecide("verifier")
  <2> DEFINE new == [Verifier EXCEPT !.pc = "done", !.verdict = "none"]
  <2>1. Verifier.pc = "decide" /\ request' = "needs_decision" /\ Become("verifier", new)
    BY <1>6 DEF FinalizeDecide, At, Verifier
  <2>2. new.pc = "done"
    BY <1>0 DEF SessionType
  <2>3. \A t \in Steps : step[t] \in Stuck
    BY <1>t, <2>1 DEF Orderly, Settles
  <2> HIDE DEF new
  <2> QED
    BY <1>3, <2>1, <2>2, <2>3
<1>7. CASE FinalizeReady("verifier")
  <2> DEFINE new == [Verifier EXCEPT !.pc = "gate", !.verdict = "none"]
  <2>1. Verifier.pc = "ready" /\ request' = "review_ready" /\ Become("verifier", new)
    BY <1>7 DEF FinalizeReady, At, Verifier
  <2>2. new.pc = "gate"
    BY <1>0 DEF SessionType
  <2> HIDE DEF new
  <2> QED
    BY <1>3, <2>1, <2>2
<1>8. CASE ShipGate("verifier")
  <2> DEFINE new == [Verifier EXCEPT !.pc = "ship"]
  <2>1. Verifier.pc = "gate" /\ UNCHANGED request
    BY <1>8 DEF ShipGate, At, Verifier
  <2>2. AllReady /\ request = "review_ready"
    BY <2>1 DEF Orderly, Settles
  <2>3. HasVerifiedProof
    <3>1. \E t \in Steps : step[t] # "absent"
      BY <2>2 DEF Orderly, Planned
    <3>2. \A t \in Steps : step[t] = "review_ready"
      BY <1>t, <2>2, <3>1
    <3> QED
      BY <1>0, <3>2 DEF HasVerifiedProof, Orderly, ReadyIsProven
  <2>4. Become("verifier", new) /\ new.pc = "ship"
    BY <1>0, <1>8, <2>3 DEF ShipGate, Goto, Verifier, SessionType
  <2> HIDE DEF new
  <2> QED
    BY <1>3, <2>1, <2>2, <2>4
<1>9. CASE FinalizeShip("verifier")
  <2> DEFINE new == [Verifier EXCEPT !.pc = "done"]
  <2>1. request' = "shipped" /\ Become("verifier", new) /\ new.pc = "done"
    BY <1>0, <1>9 DEF FinalizeShip, Goto, Verifier, SessionType
  <2> HIDE DEF new
  <2> QED
    BY <1>3, <2>1
<1>10. CASE CloseSession("verifier")
  <2>1. Verifier.pc = "done" /\ UNCHANGED request /\ Become("verifier", IdleSession)
    BY <1>10 DEF CloseSession, Close, At, Verifier
  <2>2. request # "review_ready"
    BY <2>1 DEF MovesOn, ApprovalMoves
  <2> QED
    BY <1>0, <1>3, <2>1, <2>2
<1> QED
  BY <1>4, <1>5, <1>6, <1>7, <1>8, <1>9, <1>10, Zenon DEF FinalizeNext

(* A call that has started hands the Request to its queue.                 *)
LEMMA CallMovesOn ==
    ASSUME OneStepPlan, VerdictInv, Orderly, left.fault = 0, MovesOn,
           NEW h \in Handlers, HandlerNext(h)
    PROVE  MovesOn'
<1>t. Typed /\ \A s, t \in Steps : s = t
  BY TypedParts, OneStep DEF OneStepPlan, NothingFails
<1>0. handler[h] = Call /\ Call.step \in Steps /\ ~Spend("fault")
  BY <1>t DEF Call, Spend
<1>1. /\ UNCHANGED <<session, configured, mode>>
      /\ Worker' = Worker /\ Verifier' = Verifier
  <2>1. UNCHANGED <<session, configured, mode>>
    BY Zenon DEF HandlerNext, EnqueueRequest, ReEngageRead, ReEngageRequest, ReEngageStepRead,
       ReEngageStep, PublishReEngage, EnqueueProof
  <2> QED
    BY <2>1 DEF Worker, Verifier
<1>2. Alive' /\ VerdictSeen'
  BY <1>1 DEF MovesOn, Alive, VerdictSeen
<1>3. ASSUME NEW entry, requestQueue' = Append(requestQueue, entry),
             entry \in [kind : {"plan", "re_engage"}, step : Steps]
      PROVE  requestQueue' # <<>>
  <2> DEFINE Entry == [kind : {"plan", "re_engage"}, step : Steps]
  <2>1. requestQueue \in Seq(Entry) /\ entry \in Entry
    BY <1>3 DEF VerdictInv, TypeInv, TypeOK
  <2> HIDE DEF Entry
  <2>2. Len(requestQueue') = Len(requestQueue) + 1 /\ Len(requestQueue) \in Nat
    BY <1>3, <2>1, AppendProperties, LenProperties
  <2> QED
    BY <2>2
<1>4. CASE EnqueueRequest(h)
  <2>1. /\ Call.pc = "enqueueRequest" /\ UNCHANGED request /\ UNCHANGED step
        /\ requestQueue' = Append(requestQueue, [kind |-> "plan", step |-> 1])
        /\ handler' = [handler EXCEPT ![h] = IdleHandler]
    BY <1>0, <1>4 DEF EnqueueRequest
  <2>2. Call'.pc = "idle"
    <3>1. Call' = IdleHandler
      BY <1>1, <1>t, <2>1, CallMoves
    <3> QED
      BY <3>1 DEF IdleHandler
  <2>3. requestQueue' # <<>>
    BY <1>3, <2>1, OneStep DEF OneStepPlan
  <2>4. request \in {"absent", "open"} /\ \A t \in Steps : step[t] = "absent"
    BY <2>1 DEF Orderly, Unplanned, Planned
  <2> QED
    BY <1>2, <2>1, <2>2, <2>3, <2>4
       DEF MovesOn, DirectionMoves, WorkMoves, ApprovalMoves, WaitsForStep, Unfinished
<1>5. CASE ReEngageRead(h)
  <2>1. Call.pc = "reEngage" /\ UNCHANGED request /\ UNCHANGED step /\ UNCHANGED requestQueue
    BY <1>0, <1>5 DEF ReEngageRead, queues
  <2>2. request = "needs_decision"
    BY <2>1 DEF Orderly, ReEngaging
  <2>3. HandlerGoto(h, "reEngageRequest")
    BY <1>5, <2>2 DEF ReEngageRead
  <2>4. Call'.pc = "reEngageRequest"
    BY <1>1, <1>t, <2>3, CallGoes
  <2> QED
    BY <1>1, <1>2, <2>1, <2>2, <2>4
       DEF MovesOn, DirectionMoves, WorkMoves, ApprovalMoves, WaitsForStep, Unfinished
<1>6. CASE ReEngageRequest(h)
  <2>1. /\ Call.pc = "reEngageRequest" /\ request' = "running" /\ UNCHANGED step
        /\ UNCHANGED requestQueue /\ HandlerGoto(h, "reEngageStep")
    BY <1>0, <1>6 DEF ReEngageRequest, queues
  <2>2. request = "needs_decision"
    BY <2>1 DEF Orderly, ReEngaging
  <2>3. Call'.pc = "reEngageStep"
    BY <1>1, <1>t, <2>1, CallGoes
  <2> QED
    BY <1>1, <1>2, <2>1, <2>2, <2>3
       DEF MovesOn, DirectionMoves, WorkMoves, UnderWay, ApprovalMoves, WaitsForStep, Unfinished
<1>7. CASE ReEngageStepRead(h)
  <2>1. /\ Call.pc = "reEngageStep" /\ UNCHANGED request /\ UNCHANGED step
        /\ UNCHANGED requestQueue
    BY <1>0, <1>7 DEF ReEngageStepRead, queues
  <2>2. request = "running" /\ step[Call.step] \in Stuck
    BY <1>0, <2>1 DEF Orderly, ReEngaging, MovesOn, WaitsForStep
  <2>3. HandlerGoto(h, "reEngageMove")
    BY <1>0, <1>7, <2>2 DEF ReEngageStepRead
  <2>4. Call'.pc = "reEngageMove"
    BY <1>1, <1>t, <2>3, CallGoes
  <2> QED
    BY <1>1, <1>2, <2>1, <2>2, <2>4
       DEF MovesOn, DirectionMoves, WorkMoves, UnderWay, ApprovalMoves, WaitsForStep, Unfinished
<1>8. CASE ReEngageStep(h)
  <2>1. /\ Call.pc = "reEngageMove" /\ UNCHANGED request /\ UNCHANGED requestQueue
        /\ step' = [step EXCEPT ![Call.step] = "running"] /\ HandlerGoto(h, "publishReEngage")
    BY <1>0, <1>8 DEF ReEngageStep, queues
  <2>2. request = "running"
    BY <2>1 DEF Orderly, ReEngaging
  <2>3. Call'.pc = "publishReEngage"
    BY <1>1, <1>t, <2>1, CallGoes
  <2>4. \A t \in Steps : t = Call.step
    BY <1>t, <1>0
  <2>5. \A t \in Steps : step'[t] = "running"
    BY <1>t, <2>1, <2>4
  <2> QED
    BY <1>1, <1>2, <2>1, <2>2, <2>3, <2>5
       DEF MovesOn, DirectionMoves, WorkMoves, UnderWay, ApprovalMoves, WaitsForStep, Unfinished
<1>9. CASE PublishReEngage(h)
  <2>1. /\ Call.pc = "publishReEngage" /\ UNCHANGED request /\ UNCHANGED step
        /\ requestQueue' = Append(requestQueue, [kind |-> "re_engage", step |-> Call.step])
        /\ handler' = [handler EXCEPT ![h] = IdleHandler]
    BY <1>0, <1>9 DEF PublishReEngage
  <2>2. Call'.pc = "idle"
    <3>1. Call' = IdleHandler
      BY <1>1, <1>t, <2>1, CallMoves
    <3> QED
      BY <3>1 DEF IdleHandler
  <2>3. requestQueue' # <<>>
    BY <1>0, <1>3, <2>1
  <2>4. request = "running" /\ \A t \in Steps : step[t] # "review_ready"
    BY <2>1 DEF Orderly, ReEngaging, MovesOn, Unfinished
  <2> QED
    BY <1>2, <2>1, <2>2, <2>3, <2>4
       DEF MovesOn, DirectionMoves, WorkMoves, UnderWay, ApprovalMoves, WaitsForStep, Unfinished
<1>10. ~EnqueueProof(h)
  BY DEF EnqueueProof, VerdictInv, NobodyReverifies
<1> QED
  BY <1>4, <1>5, <1>6, <1>7, <1>8, <1>9, <1>10 DEF HandlerNext

(* The founder starts the Request, or answers it while it waits.           *)
LEMMA FounderMovesOn ==
    ASSUME OneStepPlan, VerdictInv, Orderly, left.post = 0, MovesOn, FounderNext
    PROVE  MovesOn'
<1>t. Typed
  BY TypedParts DEF OneStepPlan, NothingFails
<1>1. ASSUME NEW h \in Handlers, PostDirection(h) PROVE MovesOn'
  <2>1. /\ request = "absent" /\ request' = "open" /\ UNCHANGED session
        /\ UNCHANGED <<step, requestQueue, configured, mode>> /\ HandlerGoto(h, "enqueueRequest")
    BY <1>1 DEF PostDirection, queues
  <2>2. Call'.pc = "enqueueRequest"
    BY <1>t, <2>1, CallGoes
  <2> QED
    BY <2>1, <2>2 DEF MovesOn, Alive, DirectionMoves, WorkMoves, ApprovalMoves, WaitsForStep,
                      Unfinished, VerdictSeen, Worker, Verifier
<1>2. ASSUME NEW h \in Handlers, NEW s \in Steps, ResolveDecision(h, s) PROVE MovesOn'
  <2>1. /\ request = "needs_decision" /\ UNCHANGED request /\ UNCHANGED session
        /\ UNCHANGED <<step, requestQueue, configured, mode>>
        /\ handler' = [handler EXCEPT ![h] = [pc |-> "reEngage", step |-> s, nth |-> 0]]
    BY <1>2 DEF ResolveDecision, queues, OneStepPlan, NothingFails, OneCallAtATime
  <2>2. Call' = [pc |-> "reEngage", step |-> s, nth |-> 0]
    BY <1>t, <2>1, CallMoves
  <2> QED
    BY <2>1, <2>2 DEF MovesOn, Alive, DirectionMoves, WorkMoves, ApprovalMoves, WaitsForStep,
                      Unfinished, VerdictSeen, Worker, Verifier
<1>3. ASSUME NEW h \in Handlers, NEW s \in Steps, NEW n, VerifyDeliverable(h, s, n) PROVE FALSE
  BY <1>3 DEF VerifyDeliverable, Spend, VerdictInv, NobodyReverifies
<1>4. ASSUME NEW s \in Steps, PostDeliverable(s) PROVE FALSE
  BY <1>4 DEF PostDeliverable, Spend
<1>5. ~UpsertExecutorConfig
  BY DEF UpsertExecutorConfig, MovesOn, Alive
<1> QED
  BY <1>1, <1>2, <1>3, <1>4, <1>5 DEF FounderNext

(* EndInv is inductive.                                                    *)
LEMMA EndStep == ASSUME OneStepPlan, EndInv, [Next]_vars PROVE EndInv'
<1>0. /\ NothingFails /\ OneCallAtATime /\ FlightInv /\ AskedInv
      /\ VerdictInv /\ Orderly /\ MovesOn
      /\ left.fault = 0 /\ left.crash = 0 /\ left.post = 0
  BY DEF OneStepPlan, NothingFails, EndInv, FlightInv, ShipInv, AskedInv
<1>1. FlightInv' /\ StuckAsked'
  <2>1. FlightInv'
    BY <1>0, FlightStep
  <2>2. AskedInv'
    BY <1>0, AskedStep
  <2> QED
    BY <2>1, <2>2 DEF AskedInv
<1>2. ASSUME UNCHANGED vars PROVE MovesOn'
  BY <1>0, <1>2 DEF vars, MovesOn, Alive, DirectionMoves, WorkMoves, UnderWay, ApprovalMoves,
                    WaitsForStep, Unfinished, VerdictSeen, Worker, Verifier, Call
<1>3. ASSUME Next PROVE MovesOn'
  <2>1. ASSUME WorkerNext PROVE MovesOn'
    BY <1>0, <2>1, WorkerMovesOn
  <2>2. ASSUME VerifierNext PROVE MovesOn'
    BY <1>0, <2>2, VerifierMovesOn
  <2>3. ASSUME NEW p \in Sessions, FinalizeNext(p) PROVE MovesOn'
    <3>1. CASE p = "reaper"
      <4>1. Reaper.pc = "idle"
        BY <1>0 DEF MovesOn, Alive, Orderly, Stopped
      <4>2. session[p].pc # "idle"
        BY <2>3, Zenon DEF FinalizeNext, FinalizeRead, FinalizeStuck, Asking, FinalizeDecide,
           FinalizeReady, ShipGate, FinalizeShip, CloseSession, At
      <4> QED
        BY <3>1, <4>1, <4>2 DEF Reaper
    <3>2. CASE p = "worker"
      BY <1>0, <2>3, <3>2, WorkerSettlesOn
    <3>3. CASE p = "verifier"
      BY <1>0, <2>3, <3>3, VerifierSettlesOn
    <3> QED
      BY <3>1, <3>2, <3>3 DEF Sessions
  <2>4. ASSUME NEW h \in Handlers, HandlerNext(h) PROVE MovesOn'
    BY <1>0, <2>4, CallMovesOn
  <2>5. ASSUME FounderNext PROVE MovesOn'
    BY <1>0, <2>5, FounderMovesOn
  <2>6. ~ProcessNext
    <3>1. mode = "up" /\ ~Crash
      <4>1. mode = "up"
        BY <1>0 DEF MovesOn, Alive
      <4>2. ~Spend("crash")
        BY <1>0 DEF Spend
      <4> QED
        BY <4>1, <4>2, Zenon DEF Crash
    <3> QED
      BY <3>1 DEF ProcessNext, Restart, StartWorkers, ReapStep, ReapStepTo, ReapAttempt, Reaping
  <2> QED
    BY <1>3, <2>1, <2>2, <2>3, <2>4, <2>5, <2>6 DEF Next
<1> QED
  BY <1>1, <1>2, <1>3 DEF EndInv

(* There is no dead-end for a one-step Request: when nothing is under way, *)
(* it has shipped, or waits for the founder on a Decision that is open.    *)
THEOREM OneStepHasNoDeadEnd ==
    ASSUME OneStepPlan
    PROVE  Spec => []NoDeadEnd
<1>1. Init => EndInv
  <2> SUFFICES ASSUME Init PROVE EndInv
    OBVIOUS
  <2>0. OneCallAtATime /\ NothingFails
    BY DEF OneStepPlan, NothingFails
  <2>1. ShipInv
    BY <2>0, ShipInit
  <2>2. /\ left.fault = 0 /\ left.crash = 0 /\ request = "absent" /\ mode = "up"
        /\ \A s \in Steps : step[s] = "absent"
        /\ configured = TRUE
    BY DEF Init, OneStepPlan, NothingFails
  <2>3. Worker.pc = "idle" /\ Verifier.pc = "idle" /\ Call.pc = "idle" /\ requestQueue = <<>>
    BY <2>0 DEF Init, Worker, Verifier, Sessions, IdleSession, Call, IdleHandler, Only,
            OneCallAtATime
  <2>4. FlightInv /\ StuckAsked
    BY <2>1, <2>2 DEF FlightInv, VerdictComes, StuckAsked
  <2>5. MovesOn
    BY <2>2, <2>3 DEF MovesOn, Alive, DirectionMoves, WorkMoves, ApprovalMoves, WaitsForStep,
                      Unfinished, VerdictSeen
  <2> QED
    BY <2>4, <2>5 DEF EndInv
<1>2. EndInv /\ [Next]_vars => EndInv'
  BY EndStep
<1>3. EndInv => NoDeadEnd
  <2> SUFFICES ASSUME EndInv, Quiet
               PROVE  \/ request \in {"absent", "shipped"}
                      \/ request = "needs_decision" /\ \E s \in Steps : openDecisions[s] > 0
    BY DEF NoDeadEnd
  <2>0. /\ VerdictInv /\ Orderly /\ Typed /\ MovesOn /\ VerdictComes /\ StuckAsked
        /\ Only \in Handlers /\ 1 \in Steps
    BY TypedParts, OneStep DEF EndInv, FlightInv, ShipInv, OneStepPlan, NothingFails
  <2>1. /\ requestQueue = <<>> /\ proofQueue = <<>> /\ Worker.pc = "idle"
        /\ Verifier.pc = "idle" /\ Call.pc = "idle"
    BY <2>0 DEF Quiet, At, Worker, Verifier, Sessions, Call
  <2>2. \A t \in Steps : step[t] # "verifying"
    <3>1. Queued = {}
      BY <2>0, <2>1, QueuedEmpty
    <3>2. \A t \in Steps : \A n : ~BeingProven(t, n)
      BY <2>1 DEF BeingProven
    <3> QED
      BY <2>0, <3>1, <3>2 DEF VerdictComes
  <2>3. request \notin {"open", "running", "review_ready", "abandoned"}
    BY <2>0, <2>1, <2>2 DEF MovesOn, DirectionMoves, WorkMoves, UnderWay, ApprovalMoves, Orderly,
                            Vocabulary
  <2>4. request = "needs_decision" => openDecisions[1] > 0
    BY <2>0, <2>1 DEF StuckAsked, MovesOn, WaitsForStep
  <2>5. request \in RequestStatuses \cup {"absent"}
    BY <2>0 DEF VerdictInv, TypeInv, TypeOK
  <2> QED
    BY <2>0, <2>3, <2>4, <2>5 DEF RequestStatuses
<1> QED
  BY <1>1, <1>2, <1>3, PTL DEF Spec
=============================================================================
