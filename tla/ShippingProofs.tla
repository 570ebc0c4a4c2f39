--------------------------- MODULE ShippingProofs ---------------------------
(***************************************************************************)
(* What a founder who makes one call at a time, and answers a Request only *)
(* while it waits, may rely on, for every plan length and any number of    *)
(* continuations, answers, repeated answers, process deaths and faults:    *)
(* rows change along the transition tables, only proven work ships, and    *)
(* the lifecycle implements RequestContract.                               *)
(*                                                                         *)
(* The inductive invariant, Orderly, says that one place at a time moves a *)
(* Request on: the API call, the entry in request:queue or the worker; or, *)
(* once the worker has gone past them, the proofs that are under way.  A   *)
(* session that settles the Request has it to itself.                      *)
(***************************************************************************)
EXTENDS RequestLifecycleProofs, FiniteSetTheorems

OneCallAtATime ==
    /\ \E h \in Handlers : Handlers = {h}
    /\ ~EagerFounder
    /\ MaxVerifies = 0 /\ MaxPosts = 0

Only == CHOOSE h \in Handlers : TRUE

Call == handler[Only]

Reaper == session["reaper"]

-----------------------------------------------------------------------------
(* The program points of the worker: before a RunAttempt's WorkStep is     *)
(* `running`, while it is, and after the step has left `running`.          *)
StartingPCs == {"dispatch", "start", "startUnconfigured"}

WorkingPCs ==
    {"work", "unconfigured", "failUnconfigured", "deliver", "markVerifying", "park", "fail"}

TailPCs == {"raise", "surface", "diagnose", "next"}

SettlingPCs == {"stuck", "decide", "ready", "gate", "ship"}

(* The worker has another WorkStep of its plan to dispatch.                *)
More ==
    /\ Worker.kind = "plan"
    /\ Worker.step + 1 \in Steps /\ Worker.view[Worker.step + 1] # "absent"

Advances ==
    \/ Worker.pc \in StartingPCs \cup WorkingPCs \cup {"publishProof"}
    \/ Worker.pc \in TailPCs /\ More

Drives == Worker.pc = "load" \/ Advances

(* A worker that has left a step `verifying` in its session does not       *)
(* settle the Request: the step it remembers is never terminal.            *)
Knows == \A t \in Steps : Worker.view[t] # "verifying"

Rests == Worker.pc \in {"idle", "done"} \/ ~Knows

Calling == Call.pc # "idle"

ProofUnderWay == proofQueue # <<>> \/ Verifier.pc \notin {"idle", "done"}

Ended(t) == step[t] \in {"absent", "review_ready"} \cup Stuck

AllReady == \A t \in Steps : step[t] \in {"absent", "review_ready"}

(* A WorkStep the founder has sent back, alone in its Request.             *)
Engaged(s) ==
    /\ request = "running"
    /\ step[s] \in {"running", "review_ready"}
    /\ \A t \in Steps \ {s} : Ended(t)

(* A row a verdict is coming for: the latest of a `verifying` step.        *)
Coming(s, n) == step[s] = "verifying" /\ n = Len(deliverables[s])

-----------------------------------------------------------------------------
(* The parts of the invariant.                                             *)

(* A process that is not up runs nothing but the reaper.                   *)
Stopped ==
    /\ ~Up => ~Calling /\ Worker.pc = "idle" /\ Verifier.pc = "idle"
    /\ Reaper.pc # "idle" => mode = "reaping"

(* One place at a time moves the Request on.                               *)
OneDriver ==
    /\ Calling => requestQueue = <<>> /\ ~Drives /\ Rests
    /\ requestQueue # <<>> => /\ Len(requestQueue) = 1
                              /\ ~Drives /\ Rests /\ Reaper.pc = "idle"
    /\ ProofUnderWay => /\ request \in {"running", "review_ready"}
                        /\ ~Calling /\ requestQueue = <<>> /\ Rests

(* Before the plan there is nothing but the call, the entry or the worker  *)
(* that takes the Direction to its plan.                                   *)
Unplanned ==
    request \in {"absent", "open"} =>
        /\ \A t \in Steps : step[t] = "absent" /\ running[t] = 0
        /\ Worker.pc \in {"idle", "load"} /\ Reaper.pc = "idle"
        /\ Call.pc \in {"idle", "enqueueRequest"}
        /\ Worker.pc = "load" => Worker.kind = "plan" /\ Worker.step = 1
        /\ requestQueue # <<>> => requestQueue[1].kind = "plan" /\ requestQueue[1].step = 1
        /\ request = "absent" => ~Calling /\ requestQueue = <<>> /\ Worker.pc = "idle"

Planned ==
    request \notin {"absent", "open"} =>
        /\ \E t \in Steps : step[t] # "absent"
        /\ Call.pc # "enqueueRequest"
        /\ Worker.pc = "load" => Worker.kind = "re_engage"
        /\ requestQueue # <<>> => requestQueue[1].kind = "re_engage"

(* Every verdict under way is for the latest Deliverable of a step that    *)
(* waits for it.                                                           *)
LatestUnderProof ==
    /\ \A row \in Queued : Coming(row[1], row[2])
    /\ Verifier.pc \in {"verify", "advance", "move"} => Coming(Verifier.step, Verifier.nth)
    /\ Worker.pc = "publishProof" => Coming(Worker.step, Worker.nth)
    /\ Worker.pc = "markVerifying" => Worker.nth = Len(deliverables[Worker.step])

(* A Request that waits, or is approved, has nothing on the way.           *)
Waiting ==
    /\ request = "needs_decision" => ~Drives /\ Rests /\ \A t \in Steps : Ended(t)
    /\ request = "needs_decision" => requestQueue = <<>>
    /\ request \in {"review_ready", "shipped"} =>
           AllReady /\ ~Calling /\ requestQueue = <<>> /\ ~Drives

(* What re_engage_request has done at each of its program points, and what *)
(* the worker finds.                                                       *)
ReEngaging ==
    /\ Call.pc \in {"reEngage", "reEngageRequest"} => request = "needs_decision"
    /\ Call.pc \in {"reEngageStep", "reEngageMove"} =>
           request = "running" /\ \A t \in Steps : Ended(t)
    /\ Call.pc = "reEngageMove" => step[Call.step] \in Stuck
    /\ Call.pc = "publishReEngage" => Engaged(Call.step)
    /\ Call.pc \notin {"idle", "enqueueRequest"} => step[Call.step] # "absent"
    /\ requestQueue # <<>> /\ requestQueue[1].kind = "re_engage" => Engaged(requestQueue[1].step)
    /\ Worker.pc = "load" => Knows /\ (Worker.kind = "re_engage" => Engaged(Worker.step))

(* What the worker's session knows of the rows while it drives: all of     *)
(* them, except that a step it left `verifying` may have its verdict.      *)
KnowsRows ==
    Advances => request = "running" /\ \A t \in Steps : Worker.view[t] \in {"verifying", step[t]}

(* The steps of the plan that the worker has not come to wait.             *)
PlanAhead ==
    Advances /\ Worker.kind = "plan" =>
        \A t \in Steps : t > Worker.step =>
            Worker.view[t] = step[t] /\ step[t] \in {"pending", "absent"}

(* A step is dispatched from `pending`, for another continuation, or       *)
(* because the founder sent it back.                                       *)
Starting ==
    Worker.pc \in StartingPCs =>
        /\ Worker.view[Worker.step] = step[Worker.step]
        /\ Worker.kind = "re_engage" => step[Worker.step] \in {"running", "review_ready"}
        /\ Worker.kind = "plan" =>
               \/ step[Worker.step] = "pending"
               \/ step[Worker.step] = "running" /\ Worker.cont > 0
                      /\ Worker.pc # "startUnconfigured"

(* A step that is sent back is alone.                                      *)
SentBackAlone ==
    Worker.kind = "re_engage" /\ Worker.pc \in StartingPCs \cup WorkingPCs =>
        Knows /\ \A t \in Steps \ {Worker.step} : Ended(t)

(* Nobody else moves the step the worker works on.                         *)
Working ==
    /\ Worker.pc \in WorkingPCs =>
           step[Worker.step] = "running" /\ Worker.view[Worker.step] = "running"
    /\ Worker.pc = "publishProof" => Worker.view[Worker.step] = "verifying"

(* What the worker has left of its step.                                   *)
LeftBehind ==
    /\ Worker.pc \in {"raise", "surface", "diagnose"} =>
           step[Worker.step] \in Stuck \cup {"running"}
    /\ Worker.pc \in TailPCs \cup {"finalize"} =>
           Worker.view[Worker.step] \in Stuck \cup {"verifying"}

(* When it has driven, a worker that still knows every row has the Request *)
(* to itself, and one that does not only closes its session.               *)
Finishing ==
    /\ Worker.pc \in TailPCs \cup {"finalize", "stuck", "decide"} /\ Knows =>
           /\ request = "running" /\ ~Calling /\ requestQueue = <<>>
           /\ \A t \in Steps : Worker.view[t] = step[t]
    /\ Worker.pc \in {"stuck", "decide"} => Knows

(* The worker reads every row before it drives, and never comes to ship.   *)
WorkerShape ==
    /\ Worker.pc \notin {"idle", "load"} => \A t \in Steps : Worker.view[t] # "unread"
    /\ Worker.pc \notin {"verify", "advance", "move", "reapStep", "ready", "gate", "ship"}
    /\ Worker.pc # "idle" => Worker.kind \in {"plan", "re_engage"}
    /\ Worker.pc \notin {"idle", "load"} => step[Worker.step] # "absent"

(* A session that settles the Request has it to itself.                    *)
Settles(self) ==
    self.pc \in SettlingPCs =>
        /\ \A t \in Steps : Ended(t)
        /\ ~Calling /\ requestQueue = <<>> /\ ~Drives
        /\ request = IF self.pc \in {"gate", "ship"} THEN "review_ready" ELSE "running"
        /\ self.pc = "stuck" => \A t \in Steps : self.view[t] = step[t]
        /\ self.pc \in {"stuck", "decide"} => \E t \in Steps : step[t] \in Stuck
        /\ self.pc \in {"ready", "gate", "ship"} => AllReady
        /\ self.pc = "decide" =>
               /\ \A t \in Steps : step[t] \in Stuck => t \in self.missing \/ openDecisions[t] > 0
               /\ \A t \in self.missing : step[t] \in Stuck

(* The verifier's session has read no row but those its verdicts are for,  *)
(* and the reaper's has read none, when they come to settle.               *)
Reading ==
    /\ Verifier.pc \in {"verify", "advance", "move", "finalize"} =>
           \A t \in Steps :
               Verifier.view[t] # "unread" =>
                   /\ Verifier.view[t] = step[t]
                   /\ step[t] \in {"verifying", "review_ready", "failed"}
    /\ Verifier.pc \in {"idle", "verify", "advance", "move", "finalize", "done"} \cup SettlingPCs
    /\ Reaper.pc \in {"idle", "reapStep", "finalize"} =>
           \A t \in Steps : Reaper.view[t] = "unread"
    /\ Reaper.pc \in {"idle", "reapStep", "finalize", "done"} \cup SettlingPCs

(* A RunAttempt that nobody drives while the process is up is left in a    *)
(* Request that nothing moves on until the reaper's next start.            *)
Dormant == Worker.pc = "idle" /\ ~Calling /\ ~ProofUnderWay /\ request = "running"

Attempts ==
    /\ \A t \in Steps : running[t] > 0 =>
           /\ step[t] \notin {"verifying", "absent"}
           /\ requestQueue = <<>>
           /\ Up => \/ Worker.step = t /\ Worker.pc \in AttemptPCs /\ running[t] = 1
                    \/ Dormant
    /\ Reaper.pc = "reapStep" => step[Reaper.step] # "verifying"

(* A step is review_ready only on a verified latest Deliverable.           *)
ReadyIsProven ==
    \A t \in Steps : step[t] = "review_ready" =>
        deliverables[t] # <<>> /\ LatestVerified(deliverables[t])

(* Statuses that this part of the system does not use, and Decisions that  *)
(* no step asked for.                                                      *)
Vocabulary ==
    /\ request # "abandoned"
    /\ \A t \in Steps : step[t] # "skipped"
    /\ \A t \in Steps : openDecisions[t] + closedDecisions[t] > 0 => step[t] # "absent"

Orderly ==
    /\ Stopped /\ OneDriver
    /\ Unplanned /\ Planned
    /\ LatestUnderProof /\ ReadyIsProven
    /\ Waiting /\ ReEngaging
    /\ KnowsRows /\ PlanAhead /\ Starting /\ SentBackAlone /\ Working
    /\ LeftBehind /\ Finishing /\ WorkerShape
    /\ Settles(Worker) /\ Settles(Verifier) /\ Settles(Reaper) /\ Reading
    /\ Attempts /\ Vocabulary

ShipInv == VerdictInv /\ left.post = 0 /\ Orderly

-----------------------------------------------------------------------------
(* What the proofs below need of the types.                                *)
Typed ==
    /\ Worker \in SessionType /\ Verifier \in SessionType /\ Reaper \in SessionType
    /\ Worker.step \in Steps /\ Verifier.step \in Steps /\ Reaper.step \in Steps
    /\ Worker.view \in [Steps -> WorkStepStatuses \cup {"absent", "unread"}]
    /\ Verifier.view \in [Steps -> WorkStepStatuses \cup {"absent", "unread"}]
    /\ Reaper.view \in [Steps -> WorkStepStatuses \cup {"absent", "unread"}]
    /\ Handlers = {Only} /\ Call.step \in Steps
    /\ handler \in [Handlers -> [pc : HandlerPCs, step : Steps, nth : Nat]]
    /\ step \in [Steps -> WorkStepStatuses \cup {"absent"}]
    /\ deliverables \in [Steps -> Seq(ProofStates)]
    /\ openDecisions \in [Steps -> Nat] /\ closedDecisions \in [Steps -> Nat]
    /\ running \in [Steps -> Nat]
    /\ Steps \subseteq Nat

(* They follow from TypeOK when there is one API call.                     *)
LEMMA TypedParts == ASSUME OneCallAtATime, VerdictInv PROVE Typed
<1>1. TypeOK
  BY DEF VerdictInv, TypeInv
<1>2. Handlers = {Only}
  BY DEF OneCallAtATime, Only
<1>3. Worker \in SessionType /\ Verifier \in SessionType /\ Reaper \in SessionType
  BY <1>1 DEF TypeOK, Worker, Verifier, Reaper, Sessions
<1>4. Call.step \in Steps
  BY <1>1, <1>2 DEF TypeOK, Call
<1>5. Steps \subseteq Nat
  BY DEF Steps
<1> QED
  BY <1>1, <1>2, <1>3, <1>4, <1>5 DEF TypeOK, SessionType, Typed

(* A step of the worker replaces its session and no other.                 *)
LEMMA WorkerMoves ==
    ASSUME VerdictInv, NEW new, Become("worker", new)
    PROVE  Worker' = new /\ Verifier' = Verifier /\ Reaper' = Reaper
  BY BecomeOthers DEF VerdictInv, TypeInv, Worker, Verifier, Reaper, Sessions

(* A step of the verifier replaces its session and no other.               *)
LEMMA VerifierMoves ==
    ASSUME VerdictInv, NEW new, Become("verifier", new)
    PROVE  Verifier' = new /\ Worker' = Worker /\ Reaper' = Reaper
  BY BecomeOthers DEF VerdictInv, TypeInv, Worker, Verifier, Reaper, Sessions

(* A step of the reaper replaces its session and no other.                 *)
LEMMA ReaperMoves ==
    ASSUME VerdictInv, NEW new, Become("reaper", new)
    PROVE  Reaper' = new /\ Worker' = Worker /\ Verifier' = Verifier
  BY BecomeOthers DEF VerdictInv, TypeInv, Worker, Verifier, Reaper, Sessions

(* Recording a Deliverable leaves those of the other steps as they are.    *)
LEMMA Recorded ==
    ASSUME Typed, NEW s \in Steps, AppendDeliverable(s)
    PROVE  /\ \A t \in Steps : t # s => deliverables'[t] = deliverables[t]
           /\ Len(deliverables'[s]) = Len(deliverables[s]) + 1
<1>1. Append(deliverables[s], "verification_missing") \in Seq(ProofStates)
  BY AppendProperties DEF Typed, ProofStates
<1>2. deliverables'[s] = Append(deliverables[s], "verification_missing")
  BY DEF Typed, AppendDeliverable
<1>3. Len(deliverables'[s]) = Len(deliverables[s]) + 1
  BY <1>2, AppendProperties DEF Typed, ProofStates
<1> QED
  BY <1>3 DEF Typed, AppendDeliverable

(* A commit that keeps the verdicts leaves every step its latest           *)
(* Deliverable, and a verified one verified.                               *)
LEMMA Committed ==
    ASSUME VerdictInv, KeepsVerdicts, NEW p \in Sessions, deliverables' = Flushed(p)
    PROVE  \A t \in Steps :
               /\ Len(deliverables'[t]) = Len(deliverables[t])
               /\ deliverables'[t] # <<>> <=> deliverables[t] # <<>>
               /\ deliverables[t] # <<>> /\ LatestVerified(deliverables[t]) =>
                      LatestVerified(deliverables'[t])
<1>1. TypeOK /\ deliverables \in [Steps -> Seq(ProofStates)]
  BY DEF VerdictInv, TypeInv, TypeOK
<1>2. Flushed(p) \in [Steps -> Seq(ProofStates)]
  BY <1>1, FlushedType
<1>3. \A t \in Steps : Len(deliverables'[t]) = Len(deliverables[t])
  <2>1. CASE session[p].verdict = "none"
    BY <2>1 DEF Flushed
  <2>2. CASE session[p].verdict # "none"
    <3> DEFINE s == session[p].step
               n == session[p].nth
    <3>1. s \in Steps /\ session[p].verdict \in ProofStates
      BY <1>1, <2>2, Fields
    <3>2. n \in 1 .. Len(deliverables[s])
      BY <2>2 DEF VerdictInv, VerdictsAreApart, Holds, Untouched, RowOf
    <3>3. Len([deliverables[s] EXCEPT ![n] = session[p].verdict]) = Len(deliverables[s])
      BY <1>1, <3>1, <3>2, ExceptSeq
    <3> QED
      BY <1>1, <2>2, <3>1, <3>3 DEF Flushed
  <2> QED
    BY <2>1, <2>2
<1>4. \A t \in Steps : /\ deliverables[t] # <<>> <=> Len(deliverables[t]) > 0
                       /\ deliverables'[t] # <<>> <=> Len(deliverables'[t]) > 0
                       /\ Len(deliverables[t]) \in Nat
  BY <1>1, <1>2, EmptySeq, LenProperties
<1>5. \A t \in Steps : deliverables[t] # <<>> /\ LatestVerified(deliverables[t]) =>
          LatestVerified(deliverables'[t])
  <2>1. SUFFICES ASSUME NEW t \in Steps, deliverables[t] # <<>>, LatestVerified(deliverables[t])
                 PROVE  LatestVerified(deliverables'[t])
    OBVIOUS
  <2>2. Len(deliverables[t]) \in 1 .. Len(deliverables[t])
    BY <1>4, <2>1
  <2> QED
    BY <1>3, <2>1, <2>2 DEF KeepsVerdicts, LatestVerified, Latest
<1> QED
  BY <1>3, <1>4, <1>5

(* The rows of the messages in proof:queue, when one is added.             *)
LEMMA QueuedAppend ==
    ASSUME VerdictInv, NEW s \in Steps, NEW n \in Nat,
           proofQueue' = Append(proofQueue, [step |-> s, nth |-> n])
    PROVE  proofQueue' # <<>> /\ \A row \in Queued' : row \in Queued \/ row = <<s, n>>
<1> DEFINE Entry == [step : Steps, nth : Nat]
           m == [step |-> s, nth |-> n]
<1>1. proofQueue \in Seq(Entry) /\ m \in Entry
  BY DEF VerdictInv, TypeInv, TypeOK
<1>2. /\ Len(proofQueue') = Len(proofQueue) + 1
      /\ proofQueue'[Len(proofQueue) + 1] = m
      /\ \A i \in 1 .. Len(proofQueue) : proofQueue'[i] = proofQueue[i]
      /\ Len(proofQueue) \in Nat
  BY <1>1, AppendProperties, LenProperties
<1>3. proofQueue' # <<>>
  BY <1>2, EmptySeq
<1>4. ASSUME NEW i \in 1 .. Len(proofQueue')
      PROVE  <<proofQueue'[i].step, proofQueue'[i].nth>> \in Queued \cup {<<s, n>>}
  <2>1. i \in 1 .. Len(proofQueue) \/ i = Len(proofQueue) + 1
    BY <1>2
  <2> QED
    BY <1>2, <2>1 DEF Queued
<1> QED
  BY <1>3, <1>4 DEF Queued

(* The rows of the messages in proof:queue, when one is taken.             *)
LEMMA QueuedTail ==
    ASSUME VerdictInv, proofQueue # <<>>, proofQueue' = Tail(proofQueue)
    PROVE  /\ <<Head(proofQueue).step, Head(proofQueue).nth>> \in Queued
           /\ Head(proofQueue) \in [step : Steps, nth : Nat]
           /\ Queued' \subseteq Queued
<1> DEFINE Entry == [step : Steps, nth : Nat]
<1>1. proofQueue \in Seq(Entry) /\ Len(proofQueue) \in Nat \ {0}
  BY EmptySeq DEF VerdictInv, TypeInv, TypeOK
<1> HIDE DEF Entry
<1>2. /\ Head(proofQueue) = proofQueue[1]
      /\ Head(proofQueue) \in Entry
      /\ Len(proofQueue') = Len(proofQueue) - 1
      /\ \A i \in 1 .. Len(proofQueue') : proofQueue'[i] = proofQueue[i + 1]
  BY <1>1, HeadTailProperties
<1>3. <<Head(proofQueue).step, Head(proofQueue).nth>> \in Queued
  <2>1. 1 \in 1 .. Len(proofQueue)
    BY <1>1
  <2> QED
    BY <1>2, <2>1 DEF Queued
<1>4. ASSUME NEW i \in 1 .. Len(proofQueue')
      PROVE  <<proofQueue'[i].step, proofQueue'[i].nth>> \in Queued
  <2>1. i + 1 \in 1 .. Len(proofQueue)
    BY <1>1, <1>2
  <2> QED
    BY <1>2, <2>1 DEF Queued
<1> QED
  BY <1>2, <1>3, <1>4 DEF Queued, Entry

(* An empty proof:queue names no row, and another one does.                *)
LEMMA QueuedEmpty == ASSUME VerdictInv PROVE proofQueue = <<>> <=> Queued = {}
<1> DEFINE Entry == [step : Steps, nth : Nat]
<1>1. proofQueue \in Seq(Entry)
  BY DEF VerdictInv, TypeInv, TypeOK
<1> HIDE DEF Entry
<1>2. proofQueue # <<>> => Len(proofQueue) \in Nat \ {0}
  BY <1>1, EmptySeq
<1>3. CASE proofQueue = <<>>
  <2>1. 1 .. Len(proofQueue) = {}
    BY <1>1, <1>3, EmptySeq
  <2> QED
    BY <1>3, <2>1 DEF Queued
<1>4. CASE proofQueue # <<>>
  <2>1. 1 \in 1 .. Len(proofQueue)
    BY <1>2, <1>4
  <2> QED
    BY <1>4, <2>1 DEF Queued
<1> QED
  BY <1>3, <1>4

(* A row a verdict is coming for stays the latest while its step goes on   *)
(* waiting for it.                                                         *)
LEMMA StillLatest ==
    ASSUME VerdictInv, LatestUnderProof, Queued' \subseteq Queued,
           \A t \in Steps : step[t] = "verifying" =>
               step'[t] = "verifying" /\ Len(deliverables'[t]) = Len(deliverables[t])
    PROVE  \A row \in Queued' : Coming(row[1], row[2])'
<1>1. SUFFICES ASSUME NEW row \in Queued' PROVE Coming(row[1], row[2])'
  OBVIOUS
<1>2. row \in Queued /\ row \in Steps \X Nat
  BY QueuedRows DEF VerdictInv, TypeInv
<1>3. row[1] \in Steps /\ step[row[1]] = "verifying" /\ row[2] = Len(deliverables[row[1]])
  BY <1>2 DEF LatestUnderProof, Coming
<1> QED
  BY <1>3 DEF Coming

-----------------------------------------------------------------------------
(* Every action keeps Orderly.  The operators that only name a set of      *)
(* program points, or a condition on them, are expanded throughout.        *)
USE DEF Typed, Calling, ProofUnderWay, Drives, Advances, More, Rests, Knows, Ended, AllReady,
        Engaged, Stuck, StartingPCs, WorkingPCs, TailPCs, SettlingPCs, Coming, Up, Dormant,
        AttemptPCs

(* Leaving the session from where no attempt of the worker's is open.      *)
LEMMA NoneLeftOpen ==
    ASSUME Orderly, Typed, Up,
           Worker.pc \notin {"idle", "start", "startUnconfigured", "work", "unconfigured"}
    PROVE  \A t \in Steps : running[t] = 0
  BY DEF Orderly, Attempts

(* Opening a RunAttempt keeps Orderly: no other one is running, since none *)
(* is dormant while the worker drives.                                     *)
LEMMA CreateRunAttemptOrderly ==
    ASSUME OneCallAtATime, VerdictInv, Orderly, CreateRunAttempt
    PROVE  Orderly'
<1>t. Typed
  BY TypedParts
<1>1. PICK pc \in {"start", "startUnconfigured"} :
         /\ Become("worker", [Worker EXCEPT !.pc = pc]) /\ Up /\ Worker.pc = "dispatch"
         /\ running' = [running EXCEPT ![Worker.step] = @ + 1]
         /\ (pc = "startUnconfigured" => Worker.cont = 0)
         /\ UNCHANGED <<request, step, deliverables, openDecisions, closedDecisions,
                      requestQueue, proofQueue, mode, handler>>
  <2> DEFINE more == configured \/ Worker.cont > 0
  <2>1. CASE more
    BY <2>1, Zenon DEF CreateRunAttempt, WorkerGoto, Goto, At, decisions, queues, Worker
  <2>2. CASE ~more
    <3>1. ~(configured \/ Worker.cont > 0) /\ Worker.cont \in Nat
      BY <1>t, <2>2 DEF SessionType
    <3>2. Worker.cont = 0
      BY <3>1
    <3> QED
      BY <3>1, <3>2, Zenon DEF CreateRunAttempt, WorkerGoto, Goto, At, decisions, queues, Worker
  <2> QED
    BY <2>1, <2>2
<1>2. /\ Worker'.pc = pc /\ Worker'.kind = Worker.kind /\ Worker'.step = Worker.step
      /\ Worker'.nth = Worker.nth /\ Worker'.cont = Worker.cont /\ Worker'.view = Worker.view
      /\ Worker'.missing = Worker.missing /\ Verifier' = Verifier /\ Reaper' = Reaper /\ Up
      /\ Worker.pc = "dispatch" /\ running' = [running EXCEPT ![Worker.step] = @ + 1]
      /\ (pc = "startUnconfigured" => Worker.cont = 0) /\ Call' = Call /\ Queued' = Queued
      /\ UNCHANGED <<request, step, deliverables, openDecisions, closedDecisions,
                      requestQueue, proofQueue, mode, handler>>
  <2>1. Worker' = [Worker EXCEPT !.pc = pc] /\ Verifier' = Verifier /\ Reaper' = Reaper
    BY <1>1, WorkerMoves
  <2> QED
    BY <1>t, <1>1, <2>1 DEF SessionType, Call, Queued
<1>a. \A t \in Steps : running[t] = 0
  BY <1>t, <1>2 DEF Orderly, Attempts
<1>b. step[Worker.step] \notin {"verifying", "absent"}
  BY <1>t, <1>2 DEF Orderly, Starting, WorkerShape
<1>3. Stopped'
  BY <1>t, <1>2 DEF Orderly, Stopped
<1>4. OneDriver'
  BY <1>t, <1>2 DEF Orderly, OneDriver, Working, SentBackAlone, KnowsRows
<1>5. Unplanned'
  BY <1>t, <1>2 DEF Orderly, Unplanned
<1>6. Planned'
  BY <1>t, <1>2 DEF Orderly, Planned
<1>7. LatestUnderProof'
  BY <1>t, <1>2 DEF Orderly, LatestUnderProof, Working
<1>8. ReadyIsProven'
  BY <1>t, <1>2 DEF Orderly, ReadyIsProven, Working
<1>9. Waiting'
  BY <1>t, <1>2 DEF Orderly, Waiting, KnowsRows
<1>10. ReEngaging'
  BY <1>t, <1>2 DEF Orderly, ReEngaging, OneDriver
<1>11. KnowsRows'
  BY <1>t, <1>2 DEF Orderly, KnowsRows
<1>12. PlanAhead'
  BY <1>t, <1>2 DEF Orderly, PlanAhead
<1>13. Starting'
  BY <1>t, <1>2 DEF Orderly, Starting
<1>14. SentBackAlone'
  BY <1>t, <1>2 DEF Orderly, SentBackAlone
<1>15. Working'
  BY <1>t, <1>2 DEF Orderly, Working
<1>16. LeftBehind'
  BY <1>t, <1>2 DEF Orderly, LeftBehind
<1>17. Finishing'
  BY <1>t, <1>2 DEF Orderly, Finishing, KnowsRows, OneDriver
<1>18. WorkerShape'
  BY <1>t, <1>2 DEF Orderly, WorkerShape
<1>19. Settles(Worker)'
  BY <1>t, <1>2 DEF Orderly, Settles
<1>20. Settles(Verifier)'
  BY <1>t, <1>2 DEF Orderly, Settles
<1>21. Settles(Reaper)'
  BY <1>t, <1>2 DEF Orderly, Settles
<1>22. Reading'
  BY <1>t, <1>2 DEF Orderly, Reading, Working
<1>23. Attempts'
  BY <1>t, <1>2, <1>a, <1>b DEF Orderly, Attempts, OneDriver, Working
<1>24. Vocabulary'
  BY <1>t, <1>2 DEF Orderly, Vocabulary
<1> QED
  BY <1>3, <1>4, <1>5, <1>6, <1>7, <1>8, <1>9, <1>10, <1>11, <1>12, <1>13, <1>14, <1>15, <1>16,
     <1>17, <1>18, <1>19, <1>20, <1>21, <1>22, <1>23, <1>24 DEF Orderly

(* The end of a RunAttempt keeps Orderly.                                  *)
LEMMA WorkPhaseOrderly ==
    ASSUME OneCallAtATime, VerdictInv, Orderly, WorkPhase
    PROVE  Orderly'
<1>t. Typed
  BY TypedParts
<1>1. PICK pc \in {"deliver", "dispatch", "park", "fail"}, cont \in Nat :
         /\ Become("worker", [Worker EXCEPT !.pc = pc, !.cont = cont]) /\ Up
         /\ Worker.pc = "work" /\ running' = [running EXCEPT ![Worker.step] = @ - 1]
         /\ (pc = "dispatch" => cont > 0)
         /\ UNCHANGED <<request, step, deliverables, openDecisions, closedDecisions,
                      requestQueue, proofQueue, mode, handler>>
  <2>1. Worker.cont \in Nat /\ Worker.cont + 1 \in Nat /\ Worker.cont + 1 > 0
    BY <1>t DEF SessionType
  <2>2. Worker \in SessionType /\ Worker = session["worker"]
    BY <1>t DEF Worker
  <2>3. \A pc : [Worker EXCEPT !.pc = pc] = [Worker EXCEPT !.pc = pc, !.cont = Worker.cont]
    BY <2>2 DEF SessionType
  <2>4. PICK pc \in {"deliver", "dispatch", "park", "fail"},
             cont \in {Worker.cont, Worker.cont + 1} :
            /\ Become("worker", [Worker EXCEPT !.pc = pc, !.cont = cont])
            /\ pc = "dispatch" => cont = Worker.cont + 1
    BY <2>2, <2>3, Zenon DEF WorkPhase, WorkerGoto, Goto
  <2>5. (pc = "dispatch" => cont > 0) /\ cont \in Nat
    BY <2>1, <2>4
  <2> QED
    BY <2>4, <2>5, Zenon DEF WorkPhase, FinishAttempt, At, decisions, queues, Worker
<1>2. /\ Worker'.pc = pc /\ Worker'.kind = Worker.kind /\ Worker'.step = Worker.step
      /\ Worker'.nth = Worker.nth /\ Worker'.cont = cont /\ Worker'.view = Worker.view
      /\ Worker'.missing = Worker.missing /\ Verifier' = Verifier /\ Reaper' = Reaper /\ Up
      /\ Worker.pc = "work" /\ running' = [running EXCEPT ![Worker.step] = @ - 1]
      /\ (pc = "dispatch" => cont > 0) /\ Call' = Call /\ Queued' = Queued
      /\ UNCHANGED <<request, step, deliverables, openDecisions, closedDecisions,
                      requestQueue, proofQueue, mode, handler>>
  <2>1. Worker' = [Worker EXCEPT !.pc = pc, !.cont = cont] /\ Verifier' = Verifier
        /\ Reaper' = Reaper
    BY <1>1, WorkerMoves
  <2> QED
    BY <1>t, <1>1, <2>1 DEF SessionType, Call, Queued
<1>3. Stopped'
  BY <1>t, <1>2 DEF Orderly, Stopped
<1>4. OneDriver'
  BY <1>t, <1>2 DEF Orderly, OneDriver, Working, SentBackAlone, KnowsRows
<1>5. Unplanned'
  BY <1>t, <1>2 DEF Orderly, Unplanned
<1>6. Planned'
  BY <1>t, <1>2 DEF Orderly, Planned
<1>7. LatestUnderProof'
  BY <1>t, <1>2 DEF Orderly, LatestUnderProof, Working
<1>8. ReadyIsProven'
  BY <1>t, <1>2 DEF Orderly, ReadyIsProven, Working
<1>9. Waiting'
  BY <1>t, <1>2 DEF Orderly, Waiting, KnowsRows
<1>10. ReEngaging'
  BY <1>t, <1>2 DEF Orderly, ReEngaging, OneDriver
<1>11. KnowsRows'
  BY <1>t, <1>2 DEF Orderly, KnowsRows
<1>12. PlanAhead'
  BY <1>t, <1>2 DEF Orderly, PlanAhead
<1>13. Starting'
  BY <1>t, <1>2 DEF Orderly, Starting, Working
<1>14. SentBackAlone'
  BY <1>t, <1>2 DEF Orderly, SentBackAlone
<1>15. Working'
  BY <1>t, <1>2 DEF Orderly, Working
<1>16. LeftBehind'
  BY <1>t, <1>2 DEF Orderly, LeftBehind
<1>17. Finishing'
  BY <1>t, <1>2 DEF Orderly, Finishing, KnowsRows, OneDriver
<1>18. WorkerShape'
  BY <1>t, <1>2 DEF Orderly, WorkerShape
<1>19. Settles(Worker)'
  BY <1>t, <1>2 DEF Orderly, Settles
<1>20. Settles(Verifier)'
  BY <1>t, <1>2 DEF Orderly, Settles
<1>21. Settles(Reaper)'
  BY <1>t, <1>2 DEF Orderly, Settles
<1>22. Reading'
  BY <1>t, <1>2 DEF Orderly, Reading, Working
<1>23. Attempts'
  BY <1>t, <1>2 DEF Orderly, Attempts, OneDriver, Working
<1>24. Vocabulary'
  BY <1>t, <1>2 DEF Orderly, Vocabulary
<1> QED
  BY <1>3, <1>4, <1>5, <1>6, <1>7, <1>8, <1>9, <1>10, <1>11, <1>12, <1>13, <1>14, <1>15, <1>16,
     <1>17, <1>18, <1>19, <1>20, <1>21, <1>22, <1>23, <1>24 DEF Orderly

(* The failure for want of an ExecutorConfig keeps Orderly.                *)
LEMMA FinishUnconfiguredOrderly ==
    ASSUME OneCallAtATime, VerdictInv, Orderly, FinishUnconfigured
    PROVE  Orderly'
<1>t. Typed
  BY TypedParts
<1>1. /\ Become("worker", [Worker EXCEPT !.pc = "failUnconfigured"]) /\ Up
      /\ Worker.pc = "unconfigured" /\ running' = [running EXCEPT ![Worker.step] = @ - 1]
      /\ UNCHANGED <<request, step, deliverables, openDecisions, closedDecisions,
                      requestQueue, proofQueue, mode, handler>>
  BY Zenon DEF FinishUnconfigured, FinishAttempt, WorkerGoto, Goto, At, decisions, queues, Worker
<1>2. /\ Worker'.pc = "failUnconfigured" /\ Worker'.kind = Worker.kind
      /\ Worker'.step = Worker.step /\ Worker'.nth = Worker.nth /\ Worker'.cont = Worker.cont
      /\ Worker'.view = Worker.view /\ Worker'.missing = Worker.missing /\ Verifier' = Verifier
      /\ Reaper' = Reaper /\ Up /\ Worker.pc = "unconfigured"
      /\ running' = [running EXCEPT ![Worker.step] = @ - 1] /\ Call' = Call /\ Queued' = Queued
      /\ UNCHANGED <<request, step, deliverables, openDecisions, closedDecisions,
                      requestQueue, proofQueue, mode, handler>>
  <2>1. Worker' = [Worker EXCEPT !.pc = "failUnconfigured"] /\ Verifier' = Verifier
        /\ Reaper' = Reaper
    BY <1>1, WorkerMoves
  <2> QED
    BY <1>t, <1>1, <2>1 DEF SessionType, Call, Queued
<1>3. Stopped'
  BY <1>t, <1>2 DEF Orderly, Stopped
<1>4. OneDriver'
  BY <1>t, <1>2 DEF Orderly, OneDriver, Working, SentBackAlone, KnowsRows
<1>5. Unplanned'
  BY <1>t, <1>2 DEF Orderly, Unplanned
<1>6. Planned'
  BY <1>t, <1>2 DEF Orderly, Planned
<1>7. LatestUnderProof'
  BY <1>t, <1>2 DEF Orderly, LatestUnderProof, Working
<1>8. ReadyIsProven'
  BY <1>t, <1>2 DEF Orderly, ReadyIsProven, Working
<1>9. Waiting'
  BY <1>t, <1>2 DEF Orderly, Waiting, KnowsRows
<1>10. ReEngaging'
  BY <1>t, <1>2 DEF Orderly, ReEngaging, OneDriver
<1>11. KnowsRows'
  BY <1>t, <1>2 DEF Orderly, KnowsRows
<1>12. PlanAhead'
  BY <1>t, <1>2 DEF Orderly, PlanAhead
<1>13. Starting'
  BY <1>t, <1>2 DEF Orderly, Starting
<1>14. SentBackAlone'
  BY <1>t, <1>2 DEF Orderly, SentBackAlone
<1>15. Working'
  BY <1>t, <1>2 DEF Orderly, Working
<1>16. LeftBehind'
  BY <1>t, <1>2 DEF Orderly, LeftBehind
<1>17. Finishing'
  BY <1>t, <1>2 DEF Orderly, Finishing, KnowsRows, OneDriver
<1>18. WorkerShape'
  BY <1>t, <1>2 DEF Orderly, WorkerShape
<1>19. Settles(Worker)'
  BY <1>t, <1>2 DEF Orderly, Settles
<1>20. Settles(Verifier)'
  BY <1>t, <1>2 DEF Orderly, Settles
<1>21. Settles(Reaper)'
  BY <1>t, <1>2 DEF Orderly, Settles
<1>22. Reading'
  BY <1>t, <1>2 DEF Orderly, Reading, Working
<1>23. Attempts'
  BY <1>t, <1>2 DEF Orderly, Attempts, OneDriver, Working
<1>24. Vocabulary'
  BY <1>t, <1>2 DEF Orderly, Vocabulary
<1> QED
  BY <1>3, <1>4, <1>5, <1>6, <1>7, <1>8, <1>9, <1>10, <1>11, <1>12, <1>13, <1>14, <1>15, <1>16,
     <1>17, <1>18, <1>19, <1>20, <1>21, <1>22, <1>23, <1>24 DEF Orderly

(* Recording the Deliverable of a converged attempt keeps Orderly: its     *)
(* step is running, so no verdict is due on an earlier one.                *)
LEMMA CreateDeliverableOrderly ==
    ASSUME OneCallAtATime, VerdictInv, Orderly, CreateDeliverable
    PROVE  Orderly'
<1>t. Typed
  BY TypedParts
<1>1. /\ Become("worker", [Worker EXCEPT !.pc = "markVerifying",
                                      !.nth = Len(deliverables[Worker.step]) + 1])
      /\ Up /\ Worker.pc = "deliver" /\ AppendDeliverable(Worker.step)
      /\ UNCHANGED <<request, step, running, openDecisions, closedDecisions,
                      requestQueue, proofQueue, mode, handler>>
  BY Zenon DEF CreateDeliverable, At, decisions, queues, Worker
<1>2. /\ Worker'.pc = "markVerifying" /\ Worker'.kind = Worker.kind /\ Worker'.step = Worker.step
      /\ Worker'.nth = Len(deliverables[Worker.step]) + 1 /\ Worker'.cont = Worker.cont
      /\ Worker'.view = Worker.view /\ Worker'.missing = Worker.missing /\ Verifier' = Verifier
      /\ Reaper' = Reaper /\ Up /\ Worker.pc = "deliver" /\ AppendDeliverable(Worker.step)
      /\ Call' = Call /\ Queued' = Queued
      /\ UNCHANGED <<request, step, running, openDecisions, closedDecisions,
                      requestQueue, proofQueue, mode, handler>>
  <2>1. Worker' = [Worker EXCEPT !.pc = "markVerifying",
                                      !.nth = Len(deliverables[Worker.step]) + 1]
        /\ Verifier' = Verifier /\ Reaper' = Reaper
    BY <1>1, WorkerMoves
  <2> QED
    BY <1>t, <1>1, <2>1 DEF SessionType, Call, Queued
<1>a. /\ \A t \in Steps : t # Worker.step => deliverables'[t] = deliverables[t]
      /\ Len(deliverables'[Worker.step]) = Len(deliverables[Worker.step]) + 1
  BY <1>t, <1>2, Recorded
<1>b. \A row \in Queued' : Coming(row[1], row[2])'
  BY <1>t, <1>2, <1>a, StillLatest DEF Orderly, Working
<1>3. Stopped'
  BY <1>t, <1>2, <1>a DEF Orderly, Stopped
<1>4. OneDriver'
  BY <1>t, <1>2, <1>a DEF Orderly, OneDriver, Working, SentBackAlone, KnowsRows
<1>5. Unplanned'
  BY <1>t, <1>2, <1>a DEF Orderly, Unplanned
<1>6. Planned'
  BY <1>t, <1>2, <1>a DEF Orderly, Planned
<1>7. LatestUnderProof'
  BY <1>t, <1>2, <1>a, <1>b DEF Orderly, LatestUnderProof, Working
<1>8. ReadyIsProven'
  BY <1>t, <1>2, <1>a DEF Orderly, ReadyIsProven, Working
<1>9. Waiting'
  BY <1>t, <1>2, <1>a DEF Orderly, Waiting, KnowsRows
<1>10. ReEngaging'
  BY <1>t, <1>2, <1>a DEF Orderly, ReEngaging, OneDriver
<1>11. KnowsRows'
  BY <1>t, <1>2, <1>a DEF Orderly, KnowsRows
<1>12. PlanAhead'
  BY <1>t, <1>2, <1>a DEF Orderly, PlanAhead
<1>13. Starting'
  BY <1>t, <1>2, <1>a DEF Orderly, Starting
<1>14. SentBackAlone'
  BY <1>t, <1>2, <1>a DEF Orderly, SentBackAlone
<1>15. Working'
  BY <1>t, <1>2, <1>a DEF Orderly, Working
<1>16. LeftBehind'
  BY <1>t, <1>2, <1>a DEF Orderly, LeftBehind
<1>17. Finishing'
  BY <1>t, <1>2, <1>a DEF Orderly, Finishing, KnowsRows, OneDriver
<1>18. WorkerShape'
  BY <1>t, <1>2, <1>a DEF Orderly, WorkerShape
<1>19. Settles(Worker)'
  BY <1>t, <1>2, <1>a DEF Orderly, Settles
<1>20. Settles(Verifier)'
  BY <1>t, <1>2, <1>a DEF Orderly, Settles
<1>21. Settles(Reaper)'
  BY <1>t, <1>2, <1>a DEF Orderly, Settles
<1>22. Reading'
  BY <1>t, <1>2, <1>a DEF Orderly, Reading, Working
<1>23. Attempts'
  BY <1>t, <1>2, <1>a DEF Orderly, Attempts, OneDriver, Working
<1>24. Vocabulary'
  BY <1>t, <1>2, <1>a DEF Orderly, Vocabulary
<1> QED
  BY <1>3, <1>4, <1>5, <1>6, <1>7, <1>8, <1>9, <1>10, <1>11, <1>12, <1>13, <1>14, <1>15, <1>16,
     <1>17, <1>18, <1>19, <1>20, <1>21, <1>22, <1>23, <1>24 DEF Orderly

(* Moving the step to verifying keeps Orderly: its latest Deliverable is   *)
(* the one just recorded.                                                  *)
LEMMA MarkVerifyingOrderly ==
    ASSUME OneCallAtATime, VerdictInv, Orderly, MarkVerifying
    PROVE  Orderly'
<1>t. Typed
  BY TypedParts
<1>1. /\ Become("worker", [Worker EXCEPT !.view[Worker.step] = "verifying",
                                           !.pc = "publishProof"])
      /\ Up /\ Worker.pc = "markVerifying" /\ step' = [step EXCEPT ![Worker.step] = "verifying"]
      /\ UNCHANGED <<request, running, deliverables, openDecisions, closedDecisions,
                      requestQueue, proofQueue, mode, handler>>
  BY Zenon DEF MarkVerifying, MoveStep, At, decisions, queues, Worker
<1>2. /\ Worker'.pc = "publishProof" /\ Worker'.kind = Worker.kind /\ Worker'.step = Worker.step
      /\ Worker'.nth = Worker.nth /\ Worker'.cont = Worker.cont
      /\ Worker'.view = [Worker.view EXCEPT ![Worker.step] = "verifying"]
      /\ Worker'.missing = Worker.missing /\ Verifier' = Verifier /\ Reaper' = Reaper /\ Up
      /\ Worker.pc = "markVerifying" /\ step' = [step EXCEPT ![Worker.step] = "verifying"]
      /\ Call' = Call /\ Queued' = Queued
      /\ UNCHANGED <<request, running, deliverables, openDecisions, closedDecisions,
                      requestQueue, proofQueue, mode, handler>>
  <2>1. Worker' = [Worker EXCEPT !.view[Worker.step] = "verifying", !.pc = "publishProof"]
        /\ Verifier' = Verifier /\ Reaper' = Reaper
    BY <1>1, WorkerMoves
  <2> QED
    BY <1>t, <1>1, <2>1 DEF SessionType, Call, Queued
<1>a. \A t \in Steps : running[t] = 0
  BY <1>t, <1>2 DEF Orderly, Attempts
<1>3. Stopped'
  BY <1>t, <1>2 DEF Orderly, Stopped
<1>4. OneDriver'
  BY <1>t, <1>2 DEF Orderly, OneDriver, Working, SentBackAlone, KnowsRows
<1>5. Unplanned'
  BY <1>t, <1>2 DEF Orderly, Unplanned
<1>6. Planned'
  BY <1>t, <1>2 DEF Orderly, Planned
<1>7. LatestUnderProof'
  BY <1>t, <1>2 DEF Orderly, LatestUnderProof, Working
<1>8. ReadyIsProven'
  BY <1>t, <1>2 DEF Orderly, ReadyIsProven, Working
<1>9. Waiting'
  BY <1>t, <1>2 DEF Orderly, Waiting, KnowsRows
<1>10. ReEngaging'
  BY <1>t, <1>2 DEF Orderly, ReEngaging, OneDriver
<1>11. KnowsRows'
  BY <1>t, <1>2 DEF Orderly, KnowsRows
<1>12. PlanAhead'
  BY <1>t, <1>2 DEF Orderly, PlanAhead
<1>13. Starting'
  BY <1>t, <1>2 DEF Orderly, Starting
<1>14. SentBackAlone'
  BY <1>t, <1>2 DEF Orderly, SentBackAlone
<1>15. Working'
  BY <1>t, <1>2 DEF Orderly, Working
<1>16. LeftBehind'
  BY <1>t, <1>2 DEF Orderly, LeftBehind
<1>17. Finishing'
  BY <1>t, <1>2 DEF Orderly, Finishing, KnowsRows, OneDriver
<1>18. WorkerShape'
  BY <1>t, <1>2 DEF Orderly, WorkerShape
<1>19. Settles(Worker)'
  BY <1>t, <1>2 DEF Orderly, Settles
<1>20. Settles(Verifier)'
  BY <1>t, <1>2 DEF Orderly, Settles
<1>21. Settles(Reaper)'
  BY <1>t, <1>2 DEF Orderly, Settles
<1>22. Reading'
  BY <1>t, <1>2 DEF Orderly, Reading, Working
<1>23. Attempts'
  <2>1. \A t \in Steps : running'[t] = 0
    BY <1>2, <1>a
  <2>2. Reaper'.pc # "reapStep"
    BY <1>2 DEF Orderly, Stopped
  <2> QED
    BY <2>1, <2>2 DEF Attempts
<1>24. Vocabulary'
  BY <1>t, <1>2 DEF Orderly, Vocabulary
<1> QED
  BY <1>3, <1>4, <1>5, <1>6, <1>7, <1>8, <1>9, <1>10, <1>11, <1>12, <1>13, <1>14, <1>15, <1>16,
     <1>17, <1>18, <1>19, <1>20, <1>21, <1>22, <1>23, <1>24 DEF Orderly

(* Parking the step at the continuation cap keeps Orderly.                 *)
LEMMA ParkStepOrderly ==
    ASSUME OneCallAtATime, VerdictInv, Orderly, ParkStep
    PROVE  Orderly'
<1>t. Typed
  BY TypedParts
<1>1. /\ Become("worker", [Worker EXCEPT !.view[Worker.step] = "needs_decision", !.pc = "raise"])
      /\ Up /\ Worker.pc = "park" /\ step' = [step EXCEPT ![Worker.step] = "needs_decision"]
      /\ UNCHANGED <<request, running, deliverables, openDecisions, closedDecisions,
                      requestQueue, proofQueue, mode, handler>>
  BY Zenon DEF ParkStep, MoveStep, At, decisions, queues, Worker
<1>2. /\ Worker'.pc = "raise" /\ Worker'.kind = Worker.kind /\ Worker'.step = Worker.step
      /\ Worker'.nth = Worker.nth /\ Worker'.cont = Worker.cont
      /\ Worker'.view = [Worker.view EXCEPT ![Worker.step] = "needs_decision"]
      /\ Worker'.missing = Worker.missing /\ Verifier' = Verifier /\ Reaper' = Reaper /\ Up
      /\ Worker.pc = "park" /\ step' = [step EXCEPT ![Worker.step] = "needs_decision"]
      /\ Call' = Call /\ Queued' = Queued
      /\ UNCHANGED <<request, running, deliverables, openDecisions, closedDecisions,
                      requestQueue, proofQueue, mode, handler>>
  <2>1. Worker' = [Worker EXCEPT !.view[Worker.step] = "needs_decision", !.pc = "raise"]
        /\ Verifier' = Verifier /\ Reaper' = Reaper
    BY <1>1, WorkerMoves
  <2> QED
    BY <1>t, <1>1, <2>1 DEF SessionType, Call, Queued
<1>3. Stopped'
  BY <1>t, <1>2 DEF Orderly, Stopped
<1>4. OneDriver'
  BY <1>t, <1>2 DEF Orderly, OneDriver, Working, SentBackAlone, KnowsRows
<1>5. Unplanned'
  BY <1>t, <1>2 DEF Orderly, Unplanned
<1>6. Planned'
  BY <1>t, <1>2 DEF Orderly, Planned
<1>7. LatestUnderProof'
  BY <1>t, <1>2 DEF Orderly, LatestUnderProof, Working
<1>8. ReadyIsProven'
  BY <1>t, <1>2 DEF Orderly, ReadyIsProven, Working
<1>9. Waiting'
  BY <1>t, <1>2 DEF Orderly, Waiting, KnowsRows
<1>10. ReEngaging'
  BY <1>t, <1>2 DEF Orderly, ReEngaging, OneDriver
<1>11. KnowsRows'
  BY <1>t, <1>2 DEF Orderly, KnowsRows
<1>12. PlanAhead'
  BY <1>t, <1>2 DEF Orderly, PlanAhead
<1>13. Starting'
  BY <1>t, <1>2 DEF Orderly, Starting
<1>14. SentBackAlone'
  BY <1>t, <1>2 DEF Orderly, SentBackAlone
<1>15. Working'
  BY <1>t, <1>2 DEF Orderly, Working
<1>16. LeftBehind'
  BY <1>t, <1>2 DEF Orderly, LeftBehind
<1>17. Finishing'
  BY <1>t, <1>2 DEF Orderly, Finishing, KnowsRows, OneDriver
<1>18. WorkerShape'
  BY <1>t, <1>2 DEF Orderly, WorkerShape
<1>19. Settles(Worker)'
  BY <1>t, <1>2 DEF Orderly, Settles
<1>20. Settles(Verifier)'
  BY <1>t, <1>2 DEF Orderly, Settles
<1>21. Settles(Reaper)'
  BY <1>t, <1>2 DEF Orderly, Settles
<1>22. Reading'
  BY <1>t, <1>2 DEF Orderly, Reading, Working
<1>23. Attempts'
  BY <1>t, <1>2 DEF Orderly, Attempts, OneDriver, Working
<1>24. Vocabulary'
  BY <1>t, <1>2 DEF Orderly, Vocabulary
<1> QED
  BY <1>3, <1>4, <1>5, <1>6, <1>7, <1>8, <1>9, <1>10, <1>11, <1>12, <1>13, <1>14, <1>15, <1>16,
     <1>17, <1>18, <1>19, <1>20, <1>21, <1>22, <1>23, <1>24 DEF Orderly

(* Failing the step keeps Orderly.                                         *)
LEMMA FailStepOrderly ==
    ASSUME OneCallAtATime, VerdictInv, Orderly, FailStep
    PROVE  Orderly'
<1>t. Typed
  BY TypedParts
<1>1. PICK pc \in {"surface", "next"} :
         /\ Become("worker", [Worker EXCEPT !.view[Worker.step] = "failed", !.pc = pc]) /\ Up
         /\ Worker.pc \in {"fail", "failUnconfigured"}
         /\ step' = [step EXCEPT ![Worker.step] = "failed"]
         /\ UNCHANGED <<request, running, deliverables, openDecisions, closedDecisions,
                      requestQueue, proofQueue, mode, handler>>
  BY Zenon DEF FailStep, MoveStep, At, decisions, queues, Worker
<1>2. /\ Worker'.pc = pc /\ Worker'.kind = Worker.kind /\ Worker'.step = Worker.step
      /\ Worker'.nth = Worker.nth /\ Worker'.cont = Worker.cont
      /\ Worker'.view = [Worker.view EXCEPT ![Worker.step] = "failed"]
      /\ Worker'.missing = Worker.missing /\ Verifier' = Verifier /\ Reaper' = Reaper /\ Up
      /\ Worker.pc \in {"fail", "failUnconfigured"}
      /\ step' = [step EXCEPT ![Worker.step] = "failed"] /\ Call' = Call /\ Queued' = Queued
      /\ UNCHANGED <<request, running, deliverables, openDecisions, closedDecisions,
                      requestQueue, proofQueue, mode, handler>>
  <2>1. Worker' = [Worker EXCEPT !.view[Worker.step] = "failed", !.pc = pc]
        /\ Verifier' = Verifier /\ Reaper' = Reaper
    BY <1>1, WorkerMoves
  <2> QED
    BY <1>t, <1>1, <2>1 DEF SessionType, Call, Queued
<1>3. Stopped'
  BY <1>t, <1>2 DEF Orderly, Stopped
<1>4. OneDriver'
  BY <1>t, <1>2 DEF Orderly, OneDriver, Working, SentBackAlone, KnowsRows
<1>5. Unplanned'
  BY <1>t, <1>2 DEF Orderly, Unplanned
<1>6. Planned'
  BY <1>t, <1>2 DEF Orderly, Planned
<1>7. LatestUnderProof'
  BY <1>t, <1>2 DEF Orderly, LatestUnderProof, Working
<1>8. ReadyIsProven'
  BY <1>t, <1>2 DEF Orderly, ReadyIsProven, Working
<1>9. Waiting'
  BY <1>t, <1>2 DEF Orderly, Waiting, KnowsRows
<1>10. ReEngaging'
  BY <1>t, <1>2 DEF Orderly, ReEngaging, OneDriver
<1>11. KnowsRows'
  BY <1>t, <1>2 DEF Orderly, KnowsRows
<1>12. PlanAhead'
  BY <1>t, <1>2 DEF Orderly, PlanAhead
<1>13. Starting'
  BY <1>t, <1>2 DEF Orderly, Starting
<1>14. SentBackAlone'
  BY <1>t, <1>2 DEF Orderly, SentBackAlone
<1>15. Working'
  BY <1>t, <1>2 DEF Orderly, Working
<1>16. LeftBehind'
  BY <1>t, <1>2 DEF Orderly, LeftBehind
<1>17. Finishing'
  BY <1>t, <1>2 DEF Orderly, Finishing, KnowsRows, OneDriver
<1>18. WorkerShape'
  BY <1>t, <1>2 DEF Orderly, WorkerShape
<1>19. Settles(Worker)'
  BY <1>t, <1>2 DEF Orderly, Settles
<1>20. Settles(Verifier)'
  BY <1>t, <1>2 DEF Orderly, Settles
<1>21. Settles(Reaper)'
  BY <1>t, <1>2 DEF Orderly, Settles
<1>22. Reading'
  BY <1>t, <1>2 DEF Orderly, Reading, Working
<1>23. Attempts'
  BY <1>t, <1>2 DEF Orderly, Attempts, OneDriver, Working
<1>24. Vocabulary'
  BY <1>t, <1>2 DEF Orderly, Vocabulary
<1> QED
  BY <1>3, <1>4, <1>5, <1>6, <1>7, <1>8, <1>9, <1>10, <1>11, <1>12, <1>13, <1>14, <1>15, <1>16,
     <1>17, <1>18, <1>19, <1>20, <1>21, <1>22, <1>23, <1>24 DEF Orderly

(* Diagnosing the partial Deliverable keeps Orderly: nothing is committed  *)
(* yet.                                                                    *)
LEMMA DiagnosePartialOrderly ==
    ASSUME OneCallAtATime, VerdictInv, Orderly, DiagnosePartial
    PROVE  Orderly'
<1>t. Typed
  BY TypedParts
<1>1. PICK verdict :
         /\ Become("worker", [Worker EXCEPT !.pc = "next", !.verdict = verdict]) /\ Up
         /\ Worker.pc = "diagnose"
         /\ UNCHANGED <<request, step, running, deliverables, openDecisions, closedDecisions,
                      requestQueue, proofQueue, mode, handler>>
  BY Zenon DEF DiagnosePartial, At, decisions, queues, Worker
<1>2. /\ Worker'.pc = "next" /\ Worker'.kind = Worker.kind /\ Worker'.step = Worker.step
      /\ Worker'.nth = Worker.nth /\ Worker'.cont = Worker.cont /\ Worker'.view = Worker.view
      /\ Worker'.missing = Worker.missing /\ Verifier' = Verifier /\ Reaper' = Reaper /\ Up
      /\ Worker.pc = "diagnose" /\ Call' = Call /\ Queued' = Queued
      /\ UNCHANGED <<request, step, running, deliverables, openDecisions, closedDecisions,
                      requestQueue, proofQueue, mode, handler>>
  <2>1. Worker' = [Worker EXCEPT !.pc = "next", !.verdict = verdict] /\ Verifier' = Verifier
        /\ Reaper' = Reaper
    BY <1>1, WorkerMoves
  <2> QED
    BY <1>t, <1>1, <2>1 DEF SessionType, Call, Queued
<1>3. Stopped'
  BY <1>t, <1>2 DEF Orderly, Stopped
<1>4. OneDriver'
  BY <1>t, <1>2 DEF Orderly, OneDriver, Working, SentBackAlone, KnowsRows
<1>5. Unplanned'
  BY <1>t, <1>2 DEF Orderly, Unplanned
<1>6. Planned'
  BY <1>t, <1>2 DEF Orderly, Planned
<1>7. LatestUnderProof'
  BY <1>t, <1>2 DEF Orderly, LatestUnderProof, Working
<1>8. ReadyIsProven'
  BY <1>t, <1>2 DEF Orderly, ReadyIsProven, Working
<1>9. Waiting'
  BY <1>t, <1>2 DEF Orderly, Waiting, KnowsRows
<1>10. ReEngaging'
  BY <1>t, <1>2 DEF Orderly, ReEngaging, OneDriver
<1>11. KnowsRows'
  BY <1>t, <1>2 DEF Orderly, KnowsRows
<1>12. PlanAhead'
  BY <1>t, <1>2 DEF Orderly, PlanAhead
<1>13. Starting'
  BY <1>t, <1>2 DEF Orderly, Starting
<1>14. SentBackAlone'
  BY <1>t, <1>2 DEF Orderly, SentBackAlone
<1>15. Working'
  BY <1>t, <1>2 DEF Orderly, Working
<1>16. LeftBehind'
  BY <1>t, <1>2 DEF Orderly, LeftBehind
<1>17. Finishing'
  BY <1>t, <1>2 DEF Orderly, Finishing, KnowsRows, OneDriver
<1>18. WorkerShape'
  BY <1>t, <1>2 DEF Orderly, WorkerShape
<1>19. Settles(Worker)'
  BY <1>t, <1>2 DEF Orderly, Settles
<1>20. Settles(Verifier)'
  BY <1>t, <1>2 DEF Orderly, Settles
<1>21. Settles(Reaper)'
  BY <1>t, <1>2 DEF Orderly, Settles
<1>22. Reading'
  BY <1>t, <1>2 DEF Orderly, Reading, Working
<1>23. Attempts'
  BY <1>t, <1>2 DEF Orderly, Attempts, OneDriver, Working
<1>24. Vocabulary'
  BY <1>t, <1>2 DEF Orderly, Vocabulary
<1> QED
  BY <1>3, <1>4, <1>5, <1>6, <1>7, <1>8, <1>9, <1>10, <1>11, <1>12, <1>13, <1>14, <1>15, <1>16,
     <1>17, <1>18, <1>19, <1>20, <1>21, <1>22, <1>23, <1>24 DEF Orderly

(* Leaving the worker's session keeps Orderly, if no attempt is left       *)
(* running but a dormant one.                                              *)
LEMMA WorkerClosesOrderly ==
    ASSUME OneCallAtATime, VerdictInv, Orderly, Up,
           \A t \in Steps : running[t] > 0 =>
              ~Calling /\ ~ProofUnderWay /\ request = "running",
           Become("worker", IdleSession),
           UNCHANGED <<request, step, running, deliverables, openDecisions, closedDecisions,
               requestQueue, proofQueue, mode, handler>>
    PROVE  Orderly'
<1>t. Typed
  BY TypedParts
<1>2. /\ Worker'.pc = "idle" /\ Worker'.kind = "none" /\ Worker'.step = 1 /\ Worker'.nth = 0
      /\ Worker'.cont = 0 /\ Worker'.view = [t \in Steps |-> "unread"] /\ Worker'.missing = {}
      /\ Verifier' = Verifier /\ Reaper' = Reaper
      /\ \A t \in Steps : running[t] > 0 =>
              ~Calling /\ ~ProofUnderWay /\ request = "running"
      /\ Call' = Call /\ Queued' = Queued
      /\ UNCHANGED <<request, step, running, deliverables, openDecisions, closedDecisions,
                      requestQueue, proofQueue, mode, handler>>
  <2>1. Worker' = IdleSession /\ Verifier' = Verifier /\ Reaper' = Reaper
    BY WorkerMoves
  <2> QED
    BY <1>t, <2>1 DEF SessionType, Call, Queued, IdleSession
<1>3. Stopped'
  BY <1>t, <1>2 DEF Orderly, Stopped
<1>4. OneDriver'
  BY <1>t, <1>2 DEF Orderly, OneDriver, Working, SentBackAlone, KnowsRows
<1>5. Unplanned'
  BY <1>t, <1>2 DEF Orderly, Unplanned
<1>6. Planned'
  BY <1>t, <1>2 DEF Orderly, Planned
<1>7. LatestUnderProof'
  BY <1>t, <1>2 DEF Orderly, LatestUnderProof, Working
<1>8. ReadyIsProven'
  BY <1>t, <1>2 DEF Orderly, ReadyIsProven, Working
<1>9. Waiting'
  BY <1>t, <1>2 DEF Orderly, Waiting, KnowsRows
<1>10. ReEngaging'
  BY <1>t, <1>2 DEF Orderly, ReEngaging, OneDriver
<1>11. KnowsRows'
  BY <1>t, <1>2 DEF Orderly, KnowsRows
<1>12. PlanAhead'
  BY <1>t, <1>2 DEF Orderly, PlanAhead
<1>13. Starting'
  BY <1>t, <1>2 DEF Orderly, Starting
<1>14. SentBackAlone'
  BY <1>t, <1>2 DEF Orderly, SentBackAlone
<1>15. Working'
  BY <1>t, <1>2 DEF Orderly, Working
<1>16. LeftBehind'
  BY <1>t, <1>2 DEF Orderly, LeftBehind
<1>17. Finishing'
  BY <1>t, <1>2 DEF Orderly, Finishing, KnowsRows, OneDriver
<1>18. WorkerShape'
  BY <1>t, <1>2 DEF Orderly, WorkerShape
<1>19. Settles(Worker)'
  BY <1>t, <1>2 DEF Orderly, Settles
<1>20. Settles(Verifier)'
  BY <1>t, <1>2 DEF Orderly, Settles
<1>21. Settles(Reaper)'
  BY <1>t, <1>2 DEF Orderly, Settles
<1>22. Reading'
  BY <1>t, <1>2 DEF Orderly, Reading, Working
<1>23. Attempts'
  BY <1>t, <1>2 DEF Orderly, Attempts, Stopped, OneDriver
<1>24. Vocabulary'
  BY <1>t, <1>2 DEF Orderly, Vocabulary
<1> QED
  BY <1>3, <1>4, <1>5, <1>6, <1>7, <1>8, <1>9, <1>10, <1>11, <1>12, <1>13, <1>14, <1>15, <1>16,
     <1>17, <1>18, <1>19, <1>20, <1>21, <1>22, <1>23, <1>24 DEF Orderly

(* Delivering an entry of request:queue keeps Orderly: it was the only     *)
(* one, and the worker finds what the API call left.                       *)
LEMMA ConsumeRequestOrderly ==
    ASSUME OneCallAtATime, VerdictInv, Orderly, ConsumeRequest
    PROVE  Orderly'
<1>t. Typed
  BY TypedParts
<1>1. /\ Become("worker", [IdleSession EXCEPT !.pc = "load", !.kind = Head(requestQueue).kind,
                                                  !.step = Head(requestQueue).step])
      /\ Up /\ Worker.pc = "idle" /\ requestQueue # <<>> /\ requestQueue' = Tail(requestQueue)
      /\ UNCHANGED <<request, step, running, deliverables, openDecisions,
                      closedDecisions, proofQueue, mode, handler>>
  BY Zenon DEF ConsumeRequest, At, decisions, Worker
<1>2. /\ Worker'.pc = "load" /\ Worker'.kind = Head(requestQueue).kind
      /\ Worker'.step = Head(requestQueue).step /\ Worker'.nth = 0 /\ Worker'.cont = 0
      /\ Worker'.view = [t \in Steps |-> "unread"] /\ Worker'.missing = {}
      /\ Verifier' = Verifier /\ Reaper' = Reaper /\ Up /\ Worker.pc = "idle"
      /\ requestQueue # <<>> /\ requestQueue' = Tail(requestQueue) /\ Call' = Call
      /\ Queued' = Queued
      /\ UNCHANGED <<request, step, running, deliverables, openDecisions,
                      closedDecisions, proofQueue, mode, handler>>
  <2>1. Worker' = [IdleSession EXCEPT !.pc = "load", !.kind = Head(requestQueue).kind,
                                                  !.step = Head(requestQueue).step]
        /\ Verifier' = Verifier /\ Reaper' = Reaper
    BY <1>1, WorkerMoves
  <2> QED
    BY <1>t, <1>1, <2>1 DEF SessionType, Call, Queued, IdleSession
<1>a. Len(requestQueue) = 1
  BY <1>2 DEF Orderly, OneDriver
<1>b. requestQueue' = <<>> /\ Head(requestQueue) = requestQueue[1]
      /\ Worker'.kind \in {"plan", "re_engage"}
  <2> DEFINE Message == [kind : {"plan", "re_engage"}, step : Steps]
  <2>1. requestQueue \in Seq(Message)
    BY DEF VerdictInv, TypeInv, TypeOK
  <2>2. Head(requestQueue) \in Message
    BY <1>2, <2>1, HeadTailProperties
  <2>3. Tail(requestQueue) \in Seq(Message) /\ Len(Tail(requestQueue)) = 0
    <3> HIDE DEF Message
    <3> QED
      BY <1>2, <1>a, <2>1, HeadTailProperties
  <2>4. Tail(requestQueue) = <<>>
    <3> HIDE DEF Message
    <3> QED
      BY <2>3, EmptySeq
  <2> QED
    BY <1>2, <2>1, <2>2, <2>4
<1>3. Stopped'
  BY <1>t, <1>2, <1>b DEF Orderly, Stopped
<1>4. OneDriver'
  BY <1>t, <1>2, <1>b DEF Orderly, OneDriver, Working, SentBackAlone, KnowsRows
<1>5. Unplanned'
  BY <1>t, <1>2, <1>b DEF Orderly, Unplanned
<1>6. Planned'
  BY <1>t, <1>2, <1>b DEF Orderly, Planned
<1>7. LatestUnderProof'
  BY <1>t, <1>2, <1>b DEF Orderly, LatestUnderProof, Working
<1>8. ReadyIsProven'
  BY <1>t, <1>2, <1>b DEF Orderly, ReadyIsProven, Working
<1>9. Waiting'
  BY <1>t, <1>2, <1>b DEF Orderly, Waiting, KnowsRows
<1>10. ReEngaging'
  BY <1>t, <1>2, <1>b DEF Orderly, ReEngaging, OneDriver
<1>11. KnowsRows'
  BY <1>t, <1>2, <1>b DEF Orderly, KnowsRows
<1>12. PlanAhead'
  BY <1>t, <1>2, <1>b DEF Orderly, PlanAhead
<1>13. Starting'
  BY <1>t, <1>2, <1>b DEF Orderly, Starting
<1>14. SentBackAlone'
  BY <1>t, <1>2, <1>b DEF Orderly, SentBackAlone
<1>15. Working'
  BY <1>t, <1>2, <1>b DEF Orderly, Working
<1>16. LeftBehind'
  BY <1>t, <1>2, <1>b DEF Orderly, LeftBehind
<1>17. Finishing'
  BY <1>t, <1>2, <1>b DEF Orderly, Finishing, KnowsRows, OneDriver
<1>18. WorkerShape'
  BY <1>t, <1>2, <1>b DEF Orderly, WorkerShape
<1>19. Settles(Worker)'
  BY <1>t, <1>2, <1>b DEF Orderly, Settles
<1>20. Settles(Verifier)'
  BY <1>t, <1>2, <1>b DEF Orderly, Settles
<1>21. Settles(Reaper)'
  BY <1>t, <1>2, <1>b DEF Orderly, Settles
<1>22. Reading'
  BY <1>t, <1>2, <1>b DEF Orderly, Reading, Working
<1>23. Attempts'
  BY <1>t, <1>2, <1>b DEF Orderly, Attempts, OneDriver, Working
<1>24. Vocabulary'
  BY <1>t, <1>2, <1>b DEF Orderly, Vocabulary
<1> QED
  BY <1>3, <1>4, <1>5, <1>6, <1>7, <1>8, <1>9, <1>10, <1>11, <1>12, <1>13, <1>14, <1>15, <1>16,
     <1>17, <1>18, <1>19, <1>20, <1>21, <1>22, <1>23, <1>24 DEF Orderly

(* Planning the Request keeps Orderly: the worker holds every row it       *)
(* created.                                                                *)
LEMMA PlanningOrderly ==
    ASSUME OneCallAtATime, VerdictInv, Orderly, Up, NEW n \in Steps, Worker.pc = "load",
           request = "open", request' = "running",
           step' = [t \in Steps |-> IF t <= n THEN "pending" ELSE "absent"],
           Become("worker", [Worker EXCEPT !.pc = "dispatch", !.view = step']),
           UNCHANGED <<running, deliverables, openDecisions, closedDecisions, requestQueue,
               proofQueue, mode, handler>>
    PROVE  Orderly'
<1>t. Typed
  BY TypedParts
<1>2. /\ Worker'.pc = "dispatch" /\ Worker'.kind = Worker.kind /\ Worker'.step = Worker.step
      /\ Worker'.nth = Worker.nth /\ Worker'.cont = Worker.cont /\ Worker'.view = step'
      /\ Worker'.missing = Worker.missing /\ Verifier' = Verifier /\ Reaper' = Reaper
      /\ Worker.pc = "load" /\ request = "open" /\ request' = "running"
      /\ step' = [t \in Steps |-> IF t <= n THEN "pending" ELSE "absent"] /\ Call' = Call
      /\ Queued' = Queued
      /\ UNCHANGED <<running, deliverables, openDecisions, closedDecisions, requestQueue,
                      proofQueue, mode, handler>>
  <2>1. Worker' = [Worker EXCEPT !.pc = "dispatch", !.view = step'] /\ Verifier' = Verifier
        /\ Reaper' = Reaper
    BY WorkerMoves
  <2> QED
    BY <1>t, <2>1 DEF SessionType, Call, Queued
<1>a. /\ Worker.kind = "plan" /\ Worker.step = 1 /\ step'[1] = "pending"
      /\ \A t \in Steps : step[t] = "absent" /\ running[t] = 0
      /\ Reaper.pc = "idle"
  BY <1>t, <1>2 DEF Orderly, Unplanned, Steps
<1>b. /\ ~Calling /\ requestQueue = <<>> /\ ~ProofUnderWay
      /\ \A t \in Steps : openDecisions[t] + closedDecisions[t] = 0
  <2>1. Drives
    BY <1>2 DEF Drives
  <2>2. ~Calling /\ requestQueue = <<>> /\ ~ProofUnderWay
    BY <1>2, <2>1 DEF Orderly, OneDriver
  <2>3. ASSUME NEW t \in Steps PROVE openDecisions[t] + closedDecisions[t] = 0
    <3>1. openDecisions[t] \in Nat /\ closedDecisions[t] \in Nat
      BY <1>t
    <3>2. ~(openDecisions[t] + closedDecisions[t] > 0)
      BY <1>a DEF Orderly, Vocabulary
    <3> QED
      BY <3>1, <3>2
  <2> QED
    BY <2>2, <2>3
<1>c. Queued = {}
  BY <1>b, QueuedEmpty
<1>3. Stopped'
  BY <1>t, <1>2, <1>a, <1>b DEF Orderly, Stopped
<1>4. OneDriver'
  BY <1>t, <1>2, <1>a, <1>b DEF Orderly, OneDriver, Working, SentBackAlone, KnowsRows
<1>5. Unplanned'
  BY <1>t, <1>2, <1>a, <1>b DEF Orderly, Unplanned
<1>6. Planned'
  BY <1>t, <1>2, <1>a, <1>b DEF Orderly, Planned
<1>7. LatestUnderProof'
  BY <1>t, <1>2, <1>a, <1>b, <1>c DEF Orderly, LatestUnderProof, Working
<1>8. ReadyIsProven'
  BY <1>t, <1>2, <1>a, <1>b DEF Orderly, ReadyIsProven, Working
<1>9. Waiting'
  BY <1>t, <1>2, <1>a, <1>b DEF Orderly, Waiting, KnowsRows
<1>10. ReEngaging'
  BY <1>t, <1>2, <1>a, <1>b DEF Orderly, ReEngaging, OneDriver
<1>11. KnowsRows'
  BY <1>t, <1>2, <1>a, <1>b DEF Orderly, KnowsRows
<1>12. PlanAhead'
  BY <1>t, <1>2, <1>a, <1>b DEF Orderly, PlanAhead
<1>13. Starting'
  BY <1>t, <1>2, <1>a, <1>b DEF Orderly, Starting
<1>14. SentBackAlone'
  BY <1>t, <1>2, <1>a, <1>b DEF Orderly, SentBackAlone
<1>15. Working'
  BY <1>t, <1>2, <1>a, <1>b DEF Orderly, Working
<1>16. LeftBehind'
  BY <1>t, <1>2, <1>a, <1>b DEF Orderly, LeftBehind
<1>17. Finishing'
  BY <1>t, <1>2, <1>a, <1>b DEF Orderly, Finishing, KnowsRows, OneDriver
<1>18. WorkerShape'
  BY <1>t, <1>2, <1>a, <1>b DEF Orderly, WorkerShape
<1>19. Settles(Worker)'
  BY <1>t, <1>2, <1>a, <1>b DEF Orderly, Settles
<1>20. Settles(Verifier)'
  BY <1>t, <1>2, <1>a, <1>b DEF Orderly, Settles
<1>21. Settles(Reaper)'
  BY <1>t, <1>2, <1>a, <1>b DEF Orderly, Settles
<1>22. Reading'
  BY <1>t, <1>2, <1>a, <1>b DEF Orderly, Reading, Working
<1>23. Attempts'
  BY <1>t, <1>2, <1>a, <1>b DEF Orderly, Attempts, OneDriver, Working
<1>24. Vocabulary'
  BY <1>t, <1>2, <1>a, <1>b DEF Orderly, Vocabulary
<1> QED
  BY <1>3, <1>4, <1>5, <1>6, <1>7, <1>8, <1>9, <1>10, <1>11, <1>12, <1>13, <1>14, <1>15, <1>16,
     <1>17, <1>18, <1>19, <1>20, <1>21, <1>22, <1>23, <1>24 DEF Orderly

(* Taking up a step that was sent back keeps Orderly: the worker reads     *)
(* every row.                                                              *)
LEMMA ReDispatchingOrderly ==
    ASSUME OneCallAtATime, VerdictInv, Orderly, Up, Worker.pc = "load", Worker.kind = "re_engage",
           request = "running",
           Become("worker", [Worker EXCEPT !.pc = "dispatch", !.view = step]),
           UNCHANGED <<request, step, running, deliverables, openDecisions, closedDecisions,
               requestQueue, proofQueue, mode, handler>>
    PROVE  Orderly'
<1>t. Typed
  BY TypedParts
<1>2. /\ Worker'.pc = "dispatch" /\ Worker'.kind = Worker.kind /\ Worker'.step = Worker.step
      /\ Worker'.nth = Worker.nth /\ Worker'.cont = Worker.cont /\ Worker'.view = step
      /\ Worker'.missing = Worker.missing /\ Verifier' = Verifier /\ Reaper' = Reaper
      /\ Worker.pc = "load" /\ Worker.kind = "re_engage" /\ request = "running" /\ Call' = Call
      /\ Queued' = Queued
      /\ UNCHANGED <<request, step, running, deliverables, openDecisions, closedDecisions,
                      requestQueue, proofQueue, mode, handler>>
  <2>1. Worker' = [Worker EXCEPT !.pc = "dispatch", !.view = step] /\ Verifier' = Verifier
        /\ Reaper' = Reaper
    BY WorkerMoves
  <2> QED
    BY <1>t, <2>1 DEF SessionType, Call, Queued
<1>a. ~Calling /\ requestQueue = <<>> /\ ~ProofUnderWay
  BY <1>2 DEF Orderly, OneDriver, ReEngaging
<1>b. /\ step[Worker.step] \in {"running", "review_ready"}
      /\ \A t \in Steps \ {Worker.step} : Ended(t)
      /\ \A t \in Steps : step[t] \notin {"verifying", "unread"}
  BY <1>t, <1>2 DEF Orderly, ReEngaging, WorkStepStatuses
<1>3. Stopped'
  BY <1>t, <1>2, <1>a, <1>b DEF Orderly, Stopped
<1>4. OneDriver'
  BY <1>t, <1>2, <1>a, <1>b DEF Orderly, OneDriver, Working, SentBackAlone, KnowsRows
<1>5. Unplanned'
  BY <1>t, <1>2, <1>a, <1>b DEF Orderly, Unplanned
<1>6. Planned'
  BY <1>t, <1>2, <1>a, <1>b DEF Orderly, Planned
<1>7. LatestUnderProof'
  BY <1>t, <1>2, <1>a, <1>b DEF Orderly, LatestUnderProof, Working
<1>8. ReadyIsProven'
  BY <1>t, <1>2, <1>a, <1>b DEF Orderly, ReadyIsProven, Working
<1>9. Waiting'
  BY <1>t, <1>2, <1>a, <1>b DEF Orderly, Waiting, KnowsRows
<1>10. ReEngaging'
  BY <1>t, <1>2, <1>a, <1>b DEF Orderly, ReEngaging, OneDriver
<1>11. KnowsRows'
  BY <1>t, <1>2, <1>a, <1>b DEF Orderly, KnowsRows
<1>12. PlanAhead'
  BY <1>t, <1>2, <1>a, <1>b DEF Orderly, PlanAhead
<1>13. Starting'
  BY <1>t, <1>2, <1>a, <1>b DEF Orderly, Starting
<1>14. SentBackAlone'
  BY <1>t, <1>2, <1>a, <1>b DEF Orderly, SentBackAlone
<1>15. Working'
  BY <1>t, <1>2, <1>a, <1>b DEF Orderly, Working
<1>16. LeftBehind'
  BY <1>t, <1>2, <1>a, <1>b DEF Orderly, LeftBehind
<1>17. Finishing'
  BY <1>t, <1>2, <1>a, <1>b DEF Orderly, Finishing, KnowsRows, OneDriver
<1>18. WorkerShape'
  BY <1>t, <1>2, <1>a, <1>b DEF Orderly, WorkerShape
<1>19. Settles(Worker)'
  BY <1>t, <1>2, <1>a, <1>b DEF Orderly, Settles
<1>20. Settles(Verifier)'
  BY <1>t, <1>2, <1>a, <1>b DEF Orderly, Settles
<1>21. Settles(Reaper)'
  BY <1>t, <1>2, <1>a, <1>b DEF Orderly, Settles
<1>22. Reading'
  BY <1>t, <1>2, <1>a, <1>b DEF Orderly, Reading, Working
<1>23. Attempts'
  BY <1>t, <1>2, <1>a, <1>b DEF Orderly, Attempts, OneDriver, Working
<1>24. Vocabulary'
  BY <1>t, <1>2, <1>a, <1>b DEF Orderly, Vocabulary
<1> QED
  BY <1>3, <1>4, <1>5, <1>6, <1>7, <1>8, <1>9, <1>10, <1>11, <1>12, <1>13, <1>14, <1>15, <1>16,
     <1>17, <1>18, <1>19, <1>20, <1>21, <1>22, <1>23, <1>24 DEF Orderly

(* Publishing the proof message keeps Orderly: the worker has left the     *)
(* step `verifying` in its session.                                        *)
LEMMA PublishingOrderly ==
    ASSUME OneCallAtATime, VerdictInv, Orderly, Up, Worker.pc = "publishProof",
           proofQueue' = Append(proofQueue, [step |-> Worker.step, nth |-> Worker.nth]),
           Become("worker", [Worker EXCEPT !.pc = "next"]),
           UNCHANGED <<request, step, running, deliverables, openDecisions, closedDecisions,
               requestQueue, mode, handler>>
    PROVE  Orderly'
<1>t. Typed
  BY TypedParts
<1>2. /\ Worker'.pc = "next" /\ Worker'.kind = Worker.kind /\ Worker'.step = Worker.step
      /\ Worker'.nth = Worker.nth /\ Worker'.cont = Worker.cont /\ Worker'.view = Worker.view
      /\ Worker'.missing = Worker.missing /\ Verifier' = Verifier /\ Reaper' = Reaper
      /\ Worker.pc = "publishProof" /\ Call' = Call
      /\ UNCHANGED <<request, step, running, deliverables, openDecisions,
                      closedDecisions, requestQueue, mode, handler>>
  <2>1. Worker' = [Worker EXCEPT !.pc = "next"] /\ Verifier' = Verifier /\ Reaper' = Reaper
    BY WorkerMoves
  <2> QED
    BY <1>t, <2>1 DEF SessionType, Call
<1>a. proofQueue' # <<>>
      /\ \A row \in Queued' : row \in Queued \/ row = <<Worker.step, Worker.nth>>
  <2>1. Worker.nth \in Nat
    BY <1>t DEF SessionType
  <2> QED
    BY <1>t, <2>1, QueuedAppend
<1>b. /\ ~Calling /\ requestQueue = <<>> /\ request = "running"
      /\ Worker.view[Worker.step] = "verifying" /\ Coming(Worker.step, Worker.nth)
  BY <1>2 DEF Orderly, OneDriver, KnowsRows, Working, LatestUnderProof
<1>c. \A row \in Queued' : Coming(row[1], row[2])'
  BY <1>2, <1>a, <1>b DEF Orderly, LatestUnderProof
<1>3. Stopped'
  BY <1>t, <1>2, <1>a, <1>b DEF Orderly, Stopped
<1>4. OneDriver'
  BY <1>t, <1>2, <1>a, <1>b DEF Orderly, OneDriver
<1>5. Unplanned'
  BY <1>t, <1>2, <1>a, <1>b DEF Orderly, Unplanned
<1>6. Planned'
  BY <1>t, <1>2, <1>a, <1>b DEF Orderly, Planned
<1>7. LatestUnderProof'
  BY <1>t, <1>2, <1>a, <1>b, <1>c DEF Orderly, LatestUnderProof
<1>8. ReadyIsProven'
  BY <1>t, <1>2, <1>a, <1>b DEF Orderly, ReadyIsProven, Working
<1>9. Waiting'
  BY <1>t, <1>2, <1>a, <1>b DEF Orderly, Waiting, KnowsRows
<1>10. ReEngaging'
  BY <1>t, <1>2, <1>a, <1>b DEF Orderly, ReEngaging, OneDriver
<1>11. KnowsRows'
  BY <1>t, <1>2, <1>a, <1>b DEF Orderly, KnowsRows
<1>12. PlanAhead'
  BY <1>t, <1>2, <1>a, <1>b DEF Orderly, PlanAhead
<1>13. Starting'
  BY <1>t, <1>2, <1>a, <1>b DEF Orderly, Starting
<1>14. SentBackAlone'
  BY <1>t, <1>2, <1>a, <1>b DEF Orderly, SentBackAlone
<1>15. Working'
  BY <1>t, <1>2, <1>a, <1>b DEF Orderly, Working
<1>16. LeftBehind'
  BY <1>t, <1>2, <1>a, <1>b DEF Orderly, LeftBehind
<1>17. Finishing'
  BY <1>t, <1>2, <1>a, <1>b DEF Orderly, Finishing, KnowsRows, OneDriver
<1>18. WorkerShape'
  BY <1>t, <1>2, <1>a, <1>b DEF Orderly, WorkerShape
<1>19. Settles(Worker)'
  BY <1>t, <1>2, <1>a, <1>b DEF Orderly, Settles
<1>20. Settles(Verifier)'
  BY <1>t, <1>2, <1>a, <1>b DEF Orderly, Settles
<1>21. Settles(Reaper)'
  BY <1>t, <1>2, <1>a, <1>b DEF Orderly, Settles
<1>22. Reading'
  BY <1>t, <1>2, <1>a, <1>b DEF Orderly, Reading, Working
<1>23. Attempts'
  BY <1>t, <1>2, <1>a, <1>b DEF Orderly, Attempts, OneDriver, Working
<1>24. Vocabulary'
  BY <1>t, <1>2, <1>a, <1>b DEF Orderly, Vocabulary
<1> QED
  BY <1>3, <1>4, <1>5, <1>6, <1>7, <1>8, <1>9, <1>10, <1>11, <1>12, <1>13, <1>14, <1>15, <1>16,
     <1>17, <1>18, <1>19, <1>20, <1>21, <1>22, <1>23, <1>24 DEF Orderly

(* Starting the step keeps Orderly.                                        *)
LEMMA StartingOrderly ==
    ASSUME OneCallAtATime, VerdictInv, Orderly, StartStep, ~Close("worker")
    PROVE  Orderly'
<1>t. Typed
  BY TypedParts
<1>1. /\ Become("worker", [Worker EXCEPT !.view[Worker.step] = "running",
                      !.pc = IF At("worker", "start") THEN "work" ELSE "unconfigured"])
      /\ Worker.pc \in {"start", "startUnconfigured"}
      /\ step[Worker.step] \in {"pending", "running"}
      /\ step' = [step EXCEPT ![Worker.step] = "running"]
      /\ UNCHANGED <<request, running, deliverables, openDecisions, closedDecisions, requestQueue,
                      proofQueue, mode, handler>>
  <2>1. /\ Worker.pc \in {"start", "startUnconfigured"}
        /\ Worker.view[Worker.step] = step[Worker.step]
    BY DEF StartStep, At, Worker, Orderly, Starting
  <2>2. \/ Worker.pc = "start" /\ step[Worker.step] = "running" /\ step' = step
        \/ /\ CanTransitionWorkStep(step[Worker.step], "running")
           /\ step' = [step EXCEPT ![Worker.step] = "running"]
    BY <2>1 DEF StartStep, At, Worker
  <2>3. step[Worker.step] \in {"pending", "running", "review_ready"}
    BY <1>t, <2>1 DEF Orderly, Starting, WorkerShape
  <2>4. step[Worker.step] \in {"pending", "running"}
        /\ step' = [step EXCEPT ![Worker.step] = "running"]
    BY <1>t, <2>2, <2>3 DEF CanTransitionWorkStep, WORK_STEP_TRANSITIONS
  <2>5. Become("worker", [Worker EXCEPT !.view[Worker.step] = "running",
                      !.pc = IF At("worker", "start") THEN "work" ELSE "unconfigured"])
    BY DEF StartStep
  <2>6. UNCHANGED <<request, running, deliverables, openDecisions, closedDecisions, requestQueue,
                     proofQueue, mode, handler>>
    BY DEF StartStep, decisions, queues
  <2> QED
    BY <2>1, <2>4, <2>5, <2>6, Zenon
<1>2. /\ Worker'.pc \in {"work", "unconfigured"} /\ Worker'.kind = Worker.kind
      /\ Worker'.step = Worker.step /\ Worker'.missing = Worker.missing
      /\ Verifier' = Verifier /\ Reaper' = Reaper
      /\ Worker.pc \in {"start", "startUnconfigured"}
      /\ Call' = Call /\ Queued' = Queued
      /\ UNCHANGED <<request, running, deliverables, openDecisions, closedDecisions,
                      requestQueue, proofQueue, mode, handler>>
      /\ \A t \in Steps : Worker'.view[t] = IF t = Worker.step THEN "running" ELSE Worker.view[t]
      /\ \A t \in Steps : step'[t] = IF t = Worker.step THEN "running" ELSE step[t]
  <2>1. /\ Worker' = [Worker EXCEPT !.view[Worker.step] = "running",
                      !.pc = IF At("worker", "start") THEN "work" ELSE "unconfigured"]
        /\ Verifier' = Verifier /\ Reaper' = Reaper
    BY <1>1, WorkerMoves
  <2>2. /\ Worker'.pc \in {"work", "unconfigured"} /\ Worker'.kind = Worker.kind
        /\ Worker'.step = Worker.step /\ Worker'.missing = Worker.missing
        /\ Worker'.view = [Worker.view EXCEPT ![Worker.step] = "running"]
    BY <1>t, <2>1 DEF SessionType
  <2>3. Call' = Call /\ Queued' = Queued
    BY <1>1 DEF Call, Queued
  <2>4. /\ \A t \in Steps : Worker'.view[t] = IF t = Worker.step THEN "running" ELSE Worker.view[t]
        /\ \A t \in Steps : step'[t] = IF t = Worker.step THEN "running" ELSE step[t]
    BY <1>t, <1>1, <2>2
  <2> QED
    BY <1>1, <2>1, <2>2, <2>3, <2>4
<1>a. /\ step[Worker.step] \in {"pending", "running"}
      /\ Worker.view[Worker.step] = step[Worker.step]
      /\ ~Calling /\ requestQueue = <<>>
  BY <1>t, <1>1 DEF Orderly, Starting, OneDriver
<1>b. \A row \in Queued' : Coming(row[1], row[2])'
  BY <1>t, <1>2, <1>a, StillLatest DEF Orderly
<1>3. Stopped'
  BY <1>t, <1>2, <1>a DEF Orderly, Stopped
<1>4. OneDriver'
  BY <1>t, <1>2, <1>a DEF Orderly, OneDriver, Working, SentBackAlone, KnowsRows
<1>5. Unplanned'
  BY <1>t, <1>2, <1>a DEF Orderly, Unplanned
<1>6. Planned'
  BY <1>t, <1>2, <1>a DEF Orderly, Planned
<1>7. LatestUnderProof'
  BY <1>t, <1>2, <1>a, <1>b DEF Orderly, LatestUnderProof
<1>8. ReadyIsProven'
  BY <1>t, <1>2, <1>a DEF Orderly, ReadyIsProven, Working
<1>9. Waiting'
  BY <1>t, <1>2, <1>a DEF Orderly, Waiting, KnowsRows
<1>10. ReEngaging'
  BY <1>t, <1>2, <1>a DEF Orderly, ReEngaging, OneDriver
<1>11. KnowsRows'
  BY <1>t, <1>2, <1>a DEF Orderly, KnowsRows, Starting
<1>12. PlanAhead'
  BY <1>t, <1>2, <1>a DEF Orderly, PlanAhead
<1>13. Starting'
  BY <1>t, <1>2, <1>a DEF Orderly, Starting
<1>14. SentBackAlone'
  BY <1>t, <1>2, <1>a DEF Orderly, SentBackAlone
<1>15. Working'
  BY <1>t, <1>2, <1>a DEF Orderly, Working
<1>16. LeftBehind'
  BY <1>t, <1>2, <1>a DEF Orderly, LeftBehind
<1>17. Finishing'
  BY <1>t, <1>2, <1>a DEF Orderly, Finishing, KnowsRows, OneDriver
<1>18. WorkerShape'
  <2>1. WorkerShape
    BY DEF Orderly
  <2>2. \A t \in Steps : Worker'.view[t] # "unread"
    BY <1>2, <2>1 DEF WorkerShape
  <2>3. Worker'.kind \in {"plan", "re_engage"} /\ step'[Worker'.step] # "absent"
    BY <1>t, <1>2, <2>1 DEF WorkerShape
  <2> QED
    BY <1>2, <2>2, <2>3 DEF WorkerShape
<1>19. Settles(Worker)'
  BY <1>t, <1>2, <1>a DEF Orderly, Settles
<1>20. Settles(Verifier)'
  BY <1>t, <1>2, <1>a DEF Orderly, Settles
<1>21. Settles(Reaper)'
  BY <1>t, <1>2, <1>a DEF Orderly, Settles
<1>22. Reading'
  BY <1>t, <1>2, <1>a DEF Orderly, Reading, Working
<1>23. Attempts'
  BY <1>t, <1>2, <1>a DEF Orderly, Attempts, Stopped
<1>24. Vocabulary'
  BY <1>t, <1>2, <1>a DEF Orderly, Vocabulary
<1> QED
  BY <1>3, <1>4, <1>5, <1>6, <1>7, <1>8, <1>9, <1>10, <1>11, <1>12, <1>13, <1>14, <1>15, <1>16,
     <1>17, <1>18, <1>19, <1>20, <1>21, <1>22, <1>23, <1>24 DEF Orderly

(* What surfacing the partial work of an attempt adds to the Decisions.     *)
LEMMA Raised ==
    ASSUME Typed, SurfacePartial
    PROVE  \A t \in Steps :
               /\ openDecisions[t] \in Nat /\ closedDecisions[t] \in Nat
               /\ openDecisions'[t] \in Nat /\ openDecisions'[t] >= openDecisions[t]
               /\ t # Worker.step => openDecisions'[t] = openDecisions[t]
<1>1. \/ openDecisions' = [openDecisions EXCEPT ![Worker.step] = @ + 1]
      \/ openDecisions' = openDecisions
  BY DEF SurfacePartial
<1>2. CASE openDecisions' = [openDecisions EXCEPT ![Worker.step] = @ + 1]
  <2>1. \A t \in Steps :
            /\ openDecisions[t] \in Nat /\ closedDecisions[t] \in Nat
            /\ openDecisions'[t] = IF t = Worker.step THEN openDecisions[t] + 1
                                   ELSE openDecisions[t]
    BY <1>2
  <2> QED
    BY <2>1
<1>3. CASE openDecisions' = openDecisions
  BY <1>3
<1> QED
  BY <1>1, <1>2, <1>3

(* Surfacing what an attempt left undone, without a Deliverable, keeps     *)
(* Orderly.                                                                *)
LEMMA RaisingOrderly ==
    ASSUME OneCallAtATime, VerdictInv, Orderly, SurfacePartial,
           UNCHANGED deliverables, WorkerGoto("next")
    PROVE  Orderly'
<1>t. Typed
  BY TypedParts
<1>1. /\ Worker.pc \in {"raise", "surface"}
      /\ UNCHANGED <<request, step, running, closedDecisions, requestQueue, proofQueue, mode,
                      handler>>
  BY Zenon DEF SurfacePartial, At, Worker, queues
<1>2. /\ Worker'.pc = "next" /\ Worker'.kind = Worker.kind /\ Worker'.step = Worker.step
      /\ Worker'.nth = Worker.nth /\ Worker'.cont = Worker.cont /\ Worker'.view = Worker.view
      /\ Worker'.missing = Worker.missing /\ Verifier' = Verifier /\ Reaper' = Reaper
      /\ Worker.pc \in {"raise", "surface"} /\ Call' = Call /\ Queued' = Queued
      /\ UNCHANGED <<request, step, running, deliverables, closedDecisions,
                      requestQueue, proofQueue, mode, handler>>
  <2>1. Worker' = [Worker EXCEPT !.pc = "next"] /\ Verifier' = Verifier /\ Reaper' = Reaper
    BY WorkerMoves, Zenon DEF WorkerGoto, Goto, Worker
  <2> QED
    BY <1>t, <1>1, <2>1 DEF SessionType, Call, Queued
<1>d. \A t \in Steps :
          /\ openDecisions[t] \in Nat /\ closedDecisions[t] \in Nat /\ openDecisions'[t] \in Nat
          /\ openDecisions'[t] >= openDecisions[t]
          /\ t # Worker.step => openDecisions'[t] = openDecisions[t]
  BY <1>t, Raised
<1>e. step[Worker.step] \notin {"absent", "verifying", "review_ready"}
  BY <1>t, <1>2 DEF Orderly, LeftBehind
<1>3. Stopped'
  BY <1>t, <1>2 DEF Orderly, Stopped
<1>4. OneDriver'
  BY <1>t, <1>2, <1>e DEF Orderly, OneDriver
<1>5. Unplanned'
  BY <1>t, <1>2 DEF Orderly, Unplanned
<1>6. Planned'
  BY <1>t, <1>2 DEF Orderly, Planned
<1>7. LatestUnderProof'
  BY <1>t, <1>2 DEF Orderly, LatestUnderProof, Working
<1>8. ReadyIsProven'
  BY <1>t, <1>2, <1>e DEF Orderly, ReadyIsProven, LeftBehind
<1>9. Waiting'
  BY <1>t, <1>2, <1>e DEF Orderly, Waiting
<1>10. ReEngaging'
  BY <1>t, <1>2 DEF Orderly, ReEngaging, OneDriver
<1>11. KnowsRows'
  BY <1>t, <1>2 DEF Orderly, KnowsRows
<1>12. PlanAhead'
  BY <1>t, <1>2 DEF Orderly, PlanAhead
<1>13. Starting'
  BY <1>t, <1>2 DEF Orderly, Starting
<1>14. SentBackAlone'
  BY <1>t, <1>2 DEF Orderly, SentBackAlone
<1>15. Working'
  BY <1>t, <1>2 DEF Orderly, Working
<1>16. LeftBehind'
  BY <1>t, <1>2 DEF Orderly, LeftBehind
<1>17. Finishing'
  BY <1>t, <1>2, <1>e DEF Orderly, Finishing, KnowsRows, OneDriver
<1>18. WorkerShape'
  BY <1>t, <1>2, <1>e DEF Orderly, WorkerShape
<1>19. Settles(Worker)'
  BY <1>t, <1>2 DEF Orderly, Settles
<1>20. Settles(Verifier)'
  BY <1>t, <1>2, <1>d, <1>e DEF Orderly, Settles
<1>21. Settles(Reaper)'
  BY <1>t, <1>2, <1>d, <1>e DEF Orderly, Settles
<1>22. Reading'
  BY <1>t, <1>2 DEF Orderly, Reading
<1>23. Attempts'
  BY <1>t, <1>2 DEF Orderly, Attempts, OneDriver, Working
<1>24. Vocabulary'
  BY <1>t, <1>2, <1>d, <1>e DEF Orderly, Vocabulary, WorkerShape
<1> QED
  BY <1>3, <1>4, <1>5, <1>6, <1>7, <1>8, <1>9, <1>10, <1>11, <1>12, <1>13, <1>14, <1>15, <1>16,
     <1>17, <1>18, <1>19, <1>20, <1>21, <1>22, <1>23, <1>24 DEF Orderly

(* And with a partial Deliverable: its step has left `verifying` behind,   *)
(* or has not come to it.                                                  *)
LEMMA RecordingPartialOrderly ==
    ASSUME OneCallAtATime, VerdictInv, Orderly, SurfacePartial, ~WorkerGoto("next")
    PROVE  Orderly'
<1>t. Typed
  BY TypedParts
<1>1. /\ Worker.pc \in {"raise", "surface"}
      /\ AppendDeliverable(Worker.step)
      /\ Become("worker", [Worker EXCEPT !.pc = "diagnose",
                                           !.nth = Len(deliverables[Worker.step]) + 1])
      /\ UNCHANGED <<request, step, running, closedDecisions, requestQueue, proofQueue, mode,
                      handler>>
  BY Zenon DEF SurfacePartial, At, Worker, queues
<1>2. /\ Worker'.pc = "diagnose" /\ Worker'.kind = Worker.kind /\ Worker'.step = Worker.step
      /\ Worker'.cont = Worker.cont
      /\ Worker'.view = Worker.view /\ Worker'.missing = Worker.missing /\ Verifier' = Verifier
      /\ Reaper' = Reaper /\ Worker.pc \in {"raise", "surface"}
      /\ Call' = Call /\ Queued' = Queued
      /\ UNCHANGED <<request, step, running, closedDecisions, requestQueue,
                      proofQueue, mode, handler>>
  <2>1. Worker' = [Worker EXCEPT !.pc = "diagnose",
                                       !.nth = Len(deliverables[Worker.step]) + 1]
        /\ Verifier' = Verifier /\ Reaper' = Reaper
    BY <1>1, WorkerMoves
  <2> QED
    BY <1>t, <1>1, <2>1 DEF SessionType, Call, Queued
<1>a. \A t \in Steps : t # Worker.step => deliverables'[t] = deliverables[t]
  BY <1>t, <1>1, Recorded
<1>b. \A row \in Queued' : Coming(row[1], row[2])'
  BY <1>t, <1>2, <1>a, StillLatest DEF Orderly, LeftBehind
<1>d. \A t \in Steps :
          /\ openDecisions[t] \in Nat /\ closedDecisions[t] \in Nat /\ openDecisions'[t] \in Nat
          /\ openDecisions'[t] >= openDecisions[t]
          /\ t # Worker.step => openDecisions'[t] = openDecisions[t]
  BY <1>t, Raised
<1>e. step[Worker.step] \notin {"absent", "verifying", "review_ready"}
  BY <1>t, <1>2 DEF Orderly, LeftBehind
<1>3. Stopped'
  BY <1>t, <1>2 DEF Orderly, Stopped
<1>4. OneDriver'
  BY <1>t, <1>2, <1>e DEF Orderly, OneDriver
<1>5. Unplanned'
  BY <1>t, <1>2 DEF Orderly, Unplanned
<1>6. Planned'
  BY <1>t, <1>2 DEF Orderly, Planned
<1>7. LatestUnderProof'
  BY <1>t, <1>2, <1>a, <1>b DEF Orderly, LatestUnderProof, LeftBehind
<1>8. ReadyIsProven'
  BY <1>t, <1>2, <1>a, <1>e DEF Orderly, ReadyIsProven, LeftBehind
<1>9. Waiting'
  BY <1>t, <1>2, <1>e DEF Orderly, Waiting
<1>10. ReEngaging'
  BY <1>t, <1>2 DEF Orderly, ReEngaging, OneDriver
<1>11. KnowsRows'
  BY <1>t, <1>2 DEF Orderly, KnowsRows
<1>12. PlanAhead'
  BY <1>t, <1>2 DEF Orderly, PlanAhead
<1>13. Starting'
  BY <1>t, <1>2 DEF Orderly, Starting
<1>14. SentBackAlone'
  BY <1>t, <1>2 DEF Orderly, SentBackAlone
<1>15. Working'
  BY <1>t, <1>2 DEF Orderly, Working
<1>16. LeftBehind'
  BY <1>t, <1>2 DEF Orderly, LeftBehind
<1>17. Finishing'
  BY <1>t, <1>2, <1>e DEF Orderly, Finishing, KnowsRows, OneDriver
<1>18. WorkerShape'
  BY <1>t, <1>2, <1>e DEF Orderly, WorkerShape
<1>19. Settles(Worker)'
  BY <1>t, <1>2 DEF Orderly, Settles
<1>20. Settles(Verifier)'
  BY <1>t, <1>2, <1>d, <1>e DEF Orderly, Settles
<1>21. Settles(Reaper)'
  BY <1>t, <1>2, <1>d, <1>e DEF Orderly, Settles
<1>22. Reading'
  BY <1>t, <1>2, <1>a DEF Orderly, Reading
<1>23. Attempts'
  BY <1>t, <1>2 DEF Orderly, Attempts, OneDriver, Working
<1>24. Vocabulary'
  BY <1>t, <1>2, <1>d, <1>e DEF Orderly, Vocabulary, WorkerShape
<1> QED
  BY <1>3, <1>4, <1>5, <1>6, <1>7, <1>8, <1>9, <1>10, <1>11, <1>12, <1>13, <1>14, <1>15, <1>16,
     <1>17, <1>18, <1>19, <1>20, <1>21, <1>22, <1>23, <1>24 DEF Orderly

(* Going on to the plan's next step keeps Orderly: nobody has touched it.  *)
LEMMA NextDispatchOrderly ==
    ASSUME OneCallAtATime, VerdictInv, Orderly, KeepsVerdicts, NextStep, More
    PROVE  Orderly'
<1>t. Typed
  BY TypedParts
<1>1. /\ Worker.pc = "next"
      /\ Become("worker", [Worker EXCEPT !.verdict = "none", !.nth = 0, !.cont = 0,
                                         !.pc = "dispatch", !.step = Worker.step + 1])
      /\ deliverables' = Flushed("worker")
      /\ UNCHANGED <<request, step, running, openDecisions, closedDecisions, requestQueue,
                      proofQueue, mode, handler>>
  BY Zenon DEF NextStep, At, decisions, queues, Worker
<1>2. /\ Worker'.pc = "dispatch" /\ Worker'.kind = Worker.kind /\ Worker'.step = Worker.step + 1
      /\ Worker'.nth = 0 /\ Worker'.cont = 0 /\ Worker'.view = Worker.view
      /\ Worker'.missing = Worker.missing /\ Verifier' = Verifier /\ Reaper' = Reaper
      /\ Worker.pc = "next" /\ Call' = Call
      /\ Queued' = Queued
      /\ UNCHANGED <<request, step, running, openDecisions, closedDecisions,
                      requestQueue, proofQueue, mode, handler>>
  <2>1. Worker' = [Worker EXCEPT !.verdict = "none", !.nth = 0, !.cont = 0,
                                               !.pc = "dispatch", !.step = Worker.step + 1]
        /\ Verifier' = Verifier /\ Reaper' = Reaper
    BY <1>1, WorkerMoves
  <2> QED
    BY <1>t, <1>1, <2>1 DEF SessionType, Call, Queued
<1>a. \A t \in Steps :
          /\ Len(deliverables'[t]) = Len(deliverables[t])
          /\ deliverables'[t] # <<>> <=> deliverables[t] # <<>>
          /\ deliverables[t] # <<>> /\ LatestVerified(deliverables[t]) =>
                 LatestVerified(deliverables'[t])
  BY <1>1, Committed DEF Sessions
<1>b. \A row \in Queued' : Coming(row[1], row[2])'
  BY <1>t, <1>2, <1>a, StillLatest DEF Orderly
<1>c. /\ Worker.step + 1 \in Steps /\ Worker.step + 1 > Worker.step
      /\ step[Worker.step + 1] = "pending" /\ Worker.view[Worker.step + 1] = "pending"
      /\ request = "running" /\ ~Calling /\ requestQueue = <<>>
  <2>1. Worker.step + 1 \in Steps /\ Worker.step + 1 > Worker.step /\ Worker.kind = "plan"
        /\ Worker.view[Worker.step + 1] # "absent"
    <3>1. Worker.step \in Nat
      BY <1>t
    <3> QED
      BY <1>2, <3>1
  <2>2. Advances
    BY <1>2
  <2>3. step[Worker.step + 1] = "pending" /\ Worker.view[Worker.step + 1] = "pending"
    BY <2>1, <2>2 DEF Orderly, PlanAhead
  <2> QED
    BY <1>2, <2>1, <2>2, <2>3 DEF Orderly, OneDriver, KnowsRows
<1>3. Stopped'
  BY <1>t, <1>2, <1>c DEF Orderly, Stopped
<1>4. OneDriver'
  BY <1>t, <1>2, <1>c DEF Orderly, OneDriver, Working, SentBackAlone, KnowsRows
<1>5. Unplanned'
  BY <1>t, <1>2, <1>c DEF Orderly, Unplanned
<1>6. Planned'
  BY <1>t, <1>2, <1>c DEF Orderly, Planned
<1>7. LatestUnderProof'
  <2>1. Verifier'.pc \in {"verify", "advance", "move"} => Coming(Verifier.step, Verifier.nth)'
    BY <1>t, <1>2, <1>a DEF Orderly, LatestUnderProof, Coming
  <2> QED
    BY <1>2, <1>b, <2>1 DEF LatestUnderProof
<1>8. ReadyIsProven'
  BY <1>t, <1>2, <1>c, <1>a DEF Orderly, ReadyIsProven, Working
<1>9. Waiting'
  BY <1>t, <1>2, <1>c DEF Orderly, Waiting, KnowsRows
<1>10. ReEngaging'
  BY <1>t, <1>2, <1>c DEF Orderly, ReEngaging, OneDriver
<1>11. KnowsRows'
  BY <1>t, <1>2, <1>c DEF Orderly, KnowsRows
<1>12. PlanAhead'
  <2>1. Advances /\ Worker.kind = "plan" /\ PlanAhead
    BY <1>2 DEF Orderly
  <2>2. \A t \in Steps : t > Worker.step + 1 => t > Worker.step
    <3>1. Worker.step \in Nat /\ Steps \subseteq Nat
      BY <1>t
    <3> HIDE <1>t
    <3> QED
      BY <3>1
  <2> QED
    BY <1>2, <2>1, <2>2 DEF PlanAhead
<1>13. Starting'
  BY <1>t, <1>2, <1>c DEF Orderly, Starting
<1>14. SentBackAlone'
  BY <1>t, <1>2, <1>c DEF Orderly, SentBackAlone
<1>15. Working'
  BY <1>t, <1>2, <1>c DEF Orderly, Working
<1>16. LeftBehind'
  BY <1>t, <1>2, <1>c DEF Orderly, LeftBehind
<1>17. Finishing'
  BY <1>t, <1>2, <1>c DEF Orderly, Finishing, KnowsRows, OneDriver
<1>18. WorkerShape'
  BY <1>t, <1>2, <1>c DEF Orderly, WorkerShape
<1>19. Settles(Worker)'
  BY <1>t, <1>2, <1>c DEF Orderly, Settles
<1>20. Settles(Verifier)'
  BY <1>t, <1>2, <1>c DEF Orderly, Settles
<1>21. Settles(Reaper)'
  BY <1>t, <1>2, <1>c DEF Orderly, Settles
<1>22. Reading'
  BY <1>t, <1>2, <1>c DEF Orderly, Reading, Working
<1>23. Attempts'
  BY <1>t, <1>2, <1>c DEF Orderly, Attempts, OneDriver, Working
<1>24. Vocabulary'
  BY <1>t, <1>2, <1>c DEF Orderly, Vocabulary
<1> QED
  BY <1>3, <1>4, <1>5, <1>6, <1>7, <1>8, <1>9, <1>10, <1>11, <1>12, <1>13, <1>14, <1>15, <1>16,
     <1>17, <1>18, <1>19, <1>20, <1>21, <1>22, <1>23, <1>24 DEF Orderly

(* Coming to the finalization keeps Orderly.                               *)
LEMMA DispatchesDoneOrderly ==
    ASSUME OneCallAtATime, VerdictInv, Orderly, KeepsVerdicts, NextStep, ~More
    PROVE  Orderly'
<1>t. Typed
  BY TypedParts
<1>1. /\ Worker.pc = "next"
      /\ Become("worker", [Worker EXCEPT !.verdict = "none", !.nth = 0, !.cont = 0,
                                         !.pc = "finalize"])
      /\ deliverables' = Flushed("worker")
      /\ UNCHANGED <<request, step, running, openDecisions, closedDecisions, requestQueue,
                      proofQueue, mode, handler>>
  <2>1. Worker \in SessionType
    BY <1>t
  <2>2. [Worker EXCEPT !.verdict = "none", !.nth = 0, !.cont = 0, !.pc = "finalize",
                       !.step = Worker.step]
            = [Worker EXCEPT !.verdict = "none", !.nth = 0, !.cont = 0,
                                               !.pc = "finalize"]
    BY <2>1 DEF SessionType
  <2> QED
    BY <2>2, Zenon DEF NextStep, At, decisions, queues, Worker
<1>2. /\ Worker'.pc = "finalize" /\ Worker'.kind = Worker.kind /\ Worker'.step = Worker.step
      /\ Worker'.nth = 0 /\ Worker'.cont = 0 /\ Worker'.view = Worker.view
      /\ Worker'.missing = Worker.missing /\ Verifier' = Verifier /\ Reaper' = Reaper
      /\ Worker.pc = "next" /\ Call' = Call
      /\ Queued' = Queued
      /\ UNCHANGED <<request, step, running, openDecisions, closedDecisions,
                      requestQueue, proofQueue, mode, handler>>
  <2>1. Worker' = [Worker EXCEPT !.verdict = "none", !.nth = 0, !.cont = 0,
                                               !.pc = "finalize"] /\ Verifier' = Verifier
        /\ Reaper' = Reaper
    BY <1>1, WorkerMoves
  <2> QED
    BY <1>t, <1>1, <2>1 DEF SessionType, Call, Queued
<1>a. \A t \in Steps :
          /\ Len(deliverables'[t]) = Len(deliverables[t])
          /\ deliverables'[t] # <<>> <=> deliverables[t] # <<>>
          /\ deliverables[t] # <<>> /\ LatestVerified(deliverables[t]) =>
                 LatestVerified(deliverables'[t])
  BY <1>1, Committed DEF Sessions
<1>b. \A row \in Queued' : Coming(row[1], row[2])'
  BY <1>t, <1>2, <1>a, StillLatest DEF Orderly
<1>3. Stopped'
  BY <1>t, <1>2 DEF Orderly, Stopped
<1>4. OneDriver'
  BY <1>t, <1>2 DEF Orderly, OneDriver, Working, SentBackAlone, KnowsRows
<1>5. Unplanned'
  BY <1>t, <1>2 DEF Orderly, Unplanned
<1>6. Planned'
  BY <1>t, <1>2 DEF Orderly, Planned
<1>7. LatestUnderProof'
  BY <1>t, <1>2, <1>a, <1>b DEF Orderly, LatestUnderProof
<1>8. ReadyIsProven'
  BY <1>t, <1>2, <1>a DEF Orderly, ReadyIsProven, Working
<1>9. Waiting'
  BY <1>t, <1>2 DEF Orderly, Waiting, KnowsRows
<1>10. ReEngaging'
  BY <1>t, <1>2 DEF Orderly, ReEngaging, OneDriver
<1>11. KnowsRows'
  BY <1>t, <1>2 DEF Orderly, KnowsRows
<1>12. PlanAhead'
  BY <1>t, <1>2 DEF Orderly, PlanAhead
<1>13. Starting'
  BY <1>t, <1>2 DEF Orderly, Starting
<1>14. SentBackAlone'
  BY <1>t, <1>2 DEF Orderly, SentBackAlone
<1>15. Working'
  BY <1>t, <1>2 DEF Orderly, Working
<1>16. LeftBehind'
  BY <1>t, <1>2 DEF Orderly, LeftBehind
<1>17. Finishing'
  BY <1>t, <1>2 DEF Orderly, Finishing, KnowsRows, OneDriver
<1>18. WorkerShape'
  BY <1>t, <1>2 DEF Orderly, WorkerShape
<1>19. Settles(Worker)'
  BY <1>t, <1>2 DEF Orderly, Settles
<1>20. Settles(Verifier)'
  BY <1>t, <1>2 DEF Orderly, Settles
<1>21. Settles(Reaper)'
  BY <1>t, <1>2 DEF Orderly, Settles
<1>22. Reading'
  BY <1>t, <1>2 DEF Orderly, Reading, Working
<1>23. Attempts'
  BY <1>t, <1>2 DEF Orderly, Attempts, OneDriver, Working
<1>24. Vocabulary'
  BY <1>t, <1>2 DEF Orderly, Vocabulary
<1> QED
  BY <1>3, <1>4, <1>5, <1>6, <1>7, <1>8, <1>9, <1>10, <1>11, <1>12, <1>13, <1>14, <1>15, <1>16,
     <1>17, <1>18, <1>19, <1>20, <1>21, <1>22, <1>23, <1>24 DEF Orderly

(* Taking up a Direction, or skipping it, keeps Orderly.                   *)
LEMMA PlanRequestOrderly ==
    ASSUME OneCallAtATime, VerdictInv, Orderly, PlanRequest
    PROVE  Orderly'
<1>t. Typed
  BY TypedParts
<1>1. Up /\ Worker.pc = "load"
  BY DEF PlanRequest, At, Worker
<1>2. CASE Close("worker") /\ UNCHANGED <<request, step>>
  <2>1. Become("worker", IdleSession)
    BY <1>2 DEF Close
  <2>2. UNCHANGED <<request, step, running, deliverables, openDecisions, closedDecisions,
                    requestQueue, proofQueue, mode, handler>>
    BY <1>2 DEF PlanRequest, decisions, queues
  <2>3. \A t \in Steps : running[t] = 0
    BY <1>t, <1>1, NoneLeftOpen
  <2>4. \A t \in Steps : running[t] > 0 => ~Calling /\ ~ProofUnderWay /\ request = "running"
    BY <2>3
  <2> QED
    BY <1>1, <2>1, <2>2, <2>4, WorkerClosesOrderly
<1>3. CASE ~(Close("worker") /\ UNCHANGED <<request, step>>)
  <2>1. PICK n \in Steps :
            /\ request = "open" /\ request' = "running"
            /\ step' = [t \in Steps |-> IF t <= n THEN "pending" ELSE "absent"]
            /\ Become("worker", [Worker EXCEPT !.pc = "dispatch", !.view = step'])
    <3>1. 1 \in Steps
      BY StepsAssumption DEF Steps
    <3> QED
      BY <1>3, <3>1 DEF PlanRequest
  <2>2. UNCHANGED <<running, deliverables, openDecisions, closedDecisions, requestQueue,
                    proofQueue, mode, handler>>
    BY Zenon DEF PlanRequest, decisions, queues
  <2> QED
    BY <1>1, <2>1, <2>2, PlanningOrderly
<1> QED
  BY <1>2, <1>3

(* Taking up a step that was sent back, or leaving it, keeps Orderly.      *)
LEMMA ReDispatchDecisionOrderly ==
    ASSUME OneCallAtATime, VerdictInv, Orderly, ReDispatchDecision
    PROVE  Orderly'
<1>t. Typed
  BY TypedParts
<1>1. /\ Up /\ Worker.pc = "load" /\ Worker.kind = "re_engage"
      /\ UNCHANGED <<request, step, running, deliverables, openDecisions, closedDecisions,
                     requestQueue, proofQueue, mode, handler>>
  BY Zenon DEF ReDispatchDecision, At, Worker, decisions, queues
<1>2. CASE Close("worker")
  <2>1. Become("worker", IdleSession)
    BY <1>2 DEF Close
  <2>2. \A t \in Steps : running[t] = 0
    BY <1>t, <1>1, NoneLeftOpen
  <2>3. \A t \in Steps : running[t] > 0 => ~Calling /\ ~ProofUnderWay /\ request = "running"
    BY <2>2
  <2> QED
    BY <1>1, <2>1, <2>3, WorkerClosesOrderly
<1>3. CASE ~Close("worker")
  <2>1. request = "running" /\ Become("worker", [Worker EXCEPT !.pc = "dispatch", !.view = step])
    BY <1>3 DEF ReDispatchDecision
  <2> QED
    BY <1>1, <2>1, ReDispatchingOrderly
<1> QED
  BY <1>2, <1>3

(* A step that may not start raises out of the dispatch, with its attempt  *)
(* open: that leaves the Request to the next start's reaper.               *)
LEMMA StartStepOrderly ==
    ASSUME OneCallAtATime, VerdictInv, Orderly, StartStep
    PROVE  Orderly'
<1>t. Typed
  BY TypedParts
<1>1. /\ Up /\ Worker.pc \in {"start", "startUnconfigured"}
      /\ UNCHANGED <<request, running, deliverables, openDecisions, closedDecisions,
                     requestQueue, proofQueue, mode, handler>>
  BY DEF StartStep, At, Worker, decisions, queues
<1>2. CASE Close("worker")
  <2>1. ~Become("worker", [Worker EXCEPT !.view[Worker.step] = "running",
                      !.pc = IF At("worker", "start") THEN "work" ELSE "unconfigured"])
    <3> SUFFICES ASSUME Become("worker", [Worker EXCEPT !.view[Worker.step] = "running",
                            !.pc = IF At("worker", "start") THEN "work" ELSE "unconfigured"])
                 PROVE  FALSE
      OBVIOUS
    <3>1. Worker' = [Worker EXCEPT !.view[Worker.step] = "running",
                            !.pc = IF At("worker", "start") THEN "work" ELSE "unconfigured"]
      BY WorkerMoves
    <3>2. Worker'.pc # "idle"
      BY <1>t, <3>1 DEF SessionType
    <3>3. Worker' = IdleSession
      BY <1>2, WorkerMoves DEF Close
    <3> QED
      BY <3>2, <3>3 DEF IdleSession
  <2>2. /\ UNCHANGED step
        /\ ~CanTransitionWorkStep(Worker.view[Worker.step], "running")
        /\ ~(Worker.pc = "start" /\ Worker.view[Worker.step] = "running")
    BY <2>1 DEF StartStep, At, Worker
  <2>3. Worker.view[Worker.step] = step[Worker.step] /\ request = "running" /\ ~Calling
    BY <1>t, <1>1 DEF Orderly, Starting, KnowsRows, OneDriver
  <2>4. step[Worker.step] # "pending"
    BY <2>2, <2>3 DEF CanTransitionWorkStep, WORK_STEP_TRANSITIONS
  <2>5. Worker.kind = "re_engage"
    BY <1>1, <2>2, <2>3, <2>4 DEF Orderly, Starting, WorkerShape
  <2>6. ~ProofUnderWay
    BY <1>1, <2>5 DEF Orderly, SentBackAlone, OneDriver
  <2>7. Become("worker", IdleSession)
    BY <1>2 DEF Close
  <2>8. \A t \in Steps : running[t] > 0 => ~Calling /\ ~ProofUnderWay /\ request = "running"
    BY <2>3, <2>6
  <2> QED
    BY <1>1, <2>2, <2>7, <2>8, WorkerClosesOrderly
<1>3. CASE ~Close("worker")
  BY <1>3, StartingOrderly
<1> QED
  BY <1>2, <1>3

(* Publishing the proof message, or failing to, keeps Orderly.             *)
LEMMA PublishProofOrderly ==
    ASSUME OneCallAtATime, VerdictInv, Orderly, PublishProof
    PROVE  Orderly'
<1>t. Typed
  BY TypedParts
<1>1. /\ Up /\ Worker.pc = "publishProof"
      /\ UNCHANGED <<request, step, running, deliverables, openDecisions, closedDecisions,
                     requestQueue, mode, handler>>
  BY Zenon DEF PublishProof, At, Worker, decisions
<1>2. CASE Close("worker") /\ UNCHANGED proofQueue
  <2>1. Become("worker", IdleSession)
    BY <1>2 DEF Close
  <2>2. \A t \in Steps : running[t] = 0
    BY <1>t, <1>1, NoneLeftOpen
  <2>3. \A t \in Steps : running[t] > 0 => ~Calling /\ ~ProofUnderWay /\ request = "running"
    BY <2>2
  <2> QED
    BY <1>1, <1>2, <2>1, <2>3, WorkerClosesOrderly
<1>3. CASE ~(Close("worker") /\ UNCHANGED proofQueue)
  <2>1. /\ proofQueue' = Append(proofQueue, [step |-> Worker.step, nth |-> Worker.nth])
        /\ WorkerGoto("next")
    BY <1>3 DEF PublishProof
  <2>2. Become("worker", [Worker EXCEPT !.pc = "next"])
    BY <2>1 DEF WorkerGoto, Goto, Worker
  <2> QED
    BY <1>1, <2>1, <2>2, PublishingOrderly
<1> QED
  BY <1>2, <1>3

(* Every step of the worker before its finalization keeps Orderly.         *)
LEMMA WorkerOrderly ==
    ASSUME OneCallAtATime, VerdictInv, Orderly, KeepsVerdicts, WorkerNext
    PROVE  Orderly'
<1>1. CASE SurfacePartial
  <2>1. CASE WorkerGoto("next") /\ UNCHANGED deliverables
    BY <1>1, <2>1, RaisingOrderly
  <2>2. CASE ~WorkerGoto("next")
    BY <1>1, <2>2, RecordingPartialOrderly
  <2>3. CASE ~UNCHANGED deliverables /\ WorkerGoto("next")
    <3>t. Typed
      BY TypedParts
    <3>1. Become("worker", [Worker EXCEPT !.pc = "diagnose",
                                          !.nth = Len(deliverables[Worker.step]) + 1])
      BY <1>1, <2>3 DEF SurfacePartial
    <3>2. Worker'.pc = "diagnose"
      <4>1. Worker' = [Worker EXCEPT !.pc = "diagnose",
                                           !.nth = Len(deliverables[Worker.step]) + 1]
        BY <3>1, WorkerMoves
      <4> QED
        BY <3>t, <4>1 DEF SessionType
    <3>3. Worker'.pc = "next"
      <4>1. Worker' = [Worker EXCEPT !.pc = "next"]
        BY <2>3, WorkerMoves, Zenon DEF WorkerGoto, Goto, Worker
      <4> QED
        BY <3>t, <4>1 DEF SessionType
    <3> QED
      BY <3>2, <3>3
  <2> QED
    BY <2>1, <2>2, <2>3
<1>2. CASE NextStep
  BY <1>2, NextDispatchOrderly, DispatchesDoneOrderly
<1> QED
  BY <1>1, <1>2, ConsumeRequestOrderly, PlanRequestOrderly, ReDispatchDecisionOrderly,
     CreateRunAttemptOrderly, StartStepOrderly, WorkPhaseOrderly, FinishUnconfiguredOrderly,
     CreateDeliverableOrderly, MarkVerifyingOrderly, PublishProofOrderly, ParkStepOrderly,
     FailStepOrderly, DiagnosePartialOrderly, Zenon DEF WorkerNext

-----------------------------------------------------------------------------
(* What a step that touches neither the worker nor the rows leaves alone.  *)
LEMMA WorkerUndisturbed ==
    ASSUME Orderly, UNCHANGED <<request, step>>, Worker' = Worker
    PROVE  /\ KnowsRows' /\ PlanAhead' /\ Starting' /\ SentBackAlone' /\ Working'
           /\ LeftBehind' /\ WorkerShape'
<1>1. KnowsRows' /\ PlanAhead'
  BY DEF Orderly, KnowsRows, PlanAhead
<1>2. Starting' /\ SentBackAlone'
  BY DEF Orderly, Starting, SentBackAlone
<1>3. Working' /\ LeftBehind' /\ WorkerShape'
  BY DEF Orderly, Working, LeftBehind, WorkerShape
<1> QED
  BY <1>1, <1>2, <1>3

(* Taking a proof message keeps Orderly: its row is the latest of a step   *)
(* that waits for it.                                                      *)
LEMMA ConsumeProofOrderly ==
    ASSUME OneCallAtATime, VerdictInv, Orderly, ConsumeProof
    PROVE  Orderly'
<1>t. Typed
  BY TypedParts
<1>1. /\ Become("verifier", [IdleSession EXCEPT !.pc = "verify", !.step = Head(proofQueue).step,
                                                !.nth = Head(proofQueue).nth])
      /\ Up /\ Verifier.pc = "idle" /\ proofQueue # <<>> /\ proofQueue' = Tail(proofQueue)
      /\ UNCHANGED <<request, step, running, deliverables, openDecisions, closedDecisions,
                     requestQueue, mode, handler>>
  BY Zenon DEF ConsumeProof, At, decisions, Verifier
<1>2. /\ Worker' = Worker /\ Reaper' = Reaper /\ Call' = Call
      /\ Up /\ proofQueue # <<>> /\ Verifier'.pc = "verify"
      /\ UNCHANGED <<request, step, running, deliverables, openDecisions, closedDecisions,
                     requestQueue, mode, handler>>
  <2>1. /\ Verifier' = [IdleSession EXCEPT !.pc = "verify", !.step = Head(proofQueue).step,
                                           !.nth = Head(proofQueue).nth]
        /\ Worker' = Worker /\ Reaper' = Reaper
    BY <1>1, VerifierMoves
  <2>2. Verifier'.pc = "verify"
    BY <2>1 DEF IdleSession
  <2> QED
    BY <1>1, <2>1, <2>2 DEF Call
<1>3. /\ Coming(Verifier'.step, Verifier'.nth)
      /\ Queued' \subseteq Queued
      /\ Verifier'.step \in Steps
      /\ \A t \in Steps : Verifier'.view[t] = "unread"
  <2>1. /\ <<Head(proofQueue).step, Head(proofQueue).nth>> \in Queued
        /\ Head(proofQueue) \in [step : Steps, nth : Nat]
        /\ Queued' \subseteq Queued
    BY <1>1, QueuedTail
  <2>2. Verifier' = [IdleSession EXCEPT !.pc = "verify", !.step = Head(proofQueue).step,
                                        !.nth = Head(proofQueue).nth]
    BY <1>1, VerifierMoves
  <2>3. /\ Verifier'.step = Head(proofQueue).step /\ Verifier'.nth = Head(proofQueue).nth
        /\ Verifier'.view = [t \in Steps |-> "unread"]
    BY <2>2 DEF IdleSession
  <2>4. Coming(Head(proofQueue).step, Head(proofQueue).nth)
    BY <2>1 DEF Orderly, LatestUnderProof
  <2> QED
    BY <2>1, <2>3, <2>4
<1>10. /\ KnowsRows' /\ PlanAhead' /\ Starting' /\ SentBackAlone' /\ Working'
        /\ LeftBehind' /\ WorkerShape'
  BY <1>2, WorkerUndisturbed
<1>11. Stopped'
  BY <1>2 DEF Orderly, Stopped
<1>12. OneDriver'
  BY <1>2 DEF Orderly, OneDriver
<1>13. Unplanned'
  BY <1>2 DEF Orderly, Unplanned
<1>14. Planned'
  BY <1>2 DEF Orderly, Planned
<1>15. LatestUnderProof'
  BY <1>2, <1>3 DEF Orderly, LatestUnderProof
<1>16. ReadyIsProven'
  BY <1>2 DEF Orderly, ReadyIsProven
<1>17. Waiting'
  BY <1>2 DEF Orderly, Waiting
<1>18. ReEngaging'
  BY <1>2 DEF Orderly, ReEngaging
<1>19. Finishing'
  BY <1>2 DEF Orderly, Finishing
<1>20. Settles(Worker)'
  BY <1>2 DEF Orderly, Settles
<1>21. Settles(Verifier)'
  BY <1>2 DEF Orderly, Settles
<1>22. Settles(Reaper)'
  BY <1>2 DEF Orderly, Settles
<1>23. Reading'
  BY <1>2, <1>3 DEF Orderly, Reading
<1>24. Attempts'
  BY <1>2 DEF Orderly, Attempts
<1>25. Vocabulary'
  BY <1>2 DEF Orderly, Vocabulary
<1> QED
  BY <1>10, <1>11, <1>12, <1>13, <1>14, <1>15, <1>16, <1>17, <1>18, <1>19, <1>20, <1>21, <1>22,
     <1>23, <1>24, <1>25 DEF Orderly

(* The verdict of the pipeline, or its crash, keeps Orderly.               *)
LEMMA RunVerificationOrderly ==
    ASSUME OneCallAtATime, VerdictInv, Orderly, RunVerification
    PROVE  Orderly'
<1>t. Typed
  BY TypedParts
<1>1. /\ \/ \E verdict :
               Become("verifier", [Verifier EXCEPT !.pc = "advance", !.verdict = verdict])
         \/ Become("verifier", IdleSession)
      /\ Up /\ Verifier.pc = "verify"
      /\ UNCHANGED <<request, step, running, deliverables, openDecisions, closedDecisions,
                     requestQueue, proofQueue, mode, handler>>
  BY Zenon DEF RunVerification, At, decisions, queues, Verifier, Close
<1>2. /\ Worker' = Worker /\ Reaper' = Reaper /\ Call' = Call /\ Queued' = Queued
      /\ Up /\ Verifier.pc = "verify" /\ Verifier'.pc \in {"idle", "advance"}
      /\ Verifier'.pc = "advance" => /\ Verifier'.step = Verifier.step
                                     /\ Verifier'.nth = Verifier.nth
                                     /\ Verifier'.view = Verifier.view
      /\ UNCHANGED <<request, step, running, deliverables, openDecisions, closedDecisions,
                     requestQueue, proofQueue, mode, handler>>
  <2>1. Call' = Call /\ Queued' = Queued
    BY <1>1 DEF Call, Queued
  <2>2. CASE Become("verifier", IdleSession)
    <3>1. Verifier' = IdleSession /\ Worker' = Worker /\ Reaper' = Reaper
      BY <2>2, VerifierMoves
    <3> QED
      BY <1>1, <2>1, <3>1 DEF IdleSession
  <2>3. ASSUME NEW verdict,
               Become("verifier", [Verifier EXCEPT !.pc = "advance", !.verdict = verdict])
        PROVE  /\ Worker' = Worker /\ Reaper' = Reaper /\ Verifier'.pc = "advance"
               /\ Verifier'.step = Verifier.step /\ Verifier'.nth = Verifier.nth
               /\ Verifier'.view = Verifier.view
    <3>1. /\ Verifier' = [Verifier EXCEPT !.pc = "advance", !.verdict = verdict]
          /\ Worker' = Worker /\ Reaper' = Reaper
      BY <2>3, VerifierMoves
    <3> QED
      BY <1>t, <3>1 DEF SessionType
  <2> QED
    BY <1>1, <2>1, <2>2, <2>3
<1>3. ~Calling /\ requestQueue = <<>> /\ \A t \in Steps : running[t] > 0 => Worker.pc # "idle"
  BY <1>t, <1>2 DEF Orderly, OneDriver, Attempts
<1>10. /\ KnowsRows' /\ PlanAhead' /\ Starting' /\ SentBackAlone' /\ Working'
        /\ LeftBehind' /\ WorkerShape'
  BY <1>2, WorkerUndisturbed
<1>11. Stopped'
  BY <1>2 DEF Orderly, Stopped
<1>12. OneDriver'
  BY <1>2 DEF Orderly, OneDriver
<1>13. Unplanned'
  BY <1>2 DEF Orderly, Unplanned
<1>14. Planned'
  BY <1>2 DEF Orderly, Planned
<1>15. LatestUnderProof'
  BY <1>2 DEF Orderly, LatestUnderProof
<1>16. ReadyIsProven'
  BY <1>2 DEF Orderly, ReadyIsProven
<1>17. Waiting'
  BY <1>2, <1>3 DEF Orderly, Waiting
<1>18. ReEngaging'
  BY <1>2 DEF Orderly, ReEngaging
<1>19. Finishing'
  BY <1>2 DEF Orderly, Finishing
<1>20. Settles(Worker)'
  BY <1>2 DEF Orderly, Settles
<1>21. Settles(Verifier)'
  BY <1>2 DEF Orderly, Settles
<1>22. Settles(Reaper)'
  BY <1>2 DEF Orderly, Settles
<1>23. Reading'
  BY <1>2 DEF Orderly, Reading
<1>24. Attempts'
  BY <1>2, <1>3 DEF Orderly, Attempts
<1>25. Vocabulary'
  BY <1>2 DEF Orderly, Vocabulary
<1> QED
  BY <1>10, <1>11, <1>12, <1>13, <1>14, <1>15, <1>16, <1>17, <1>18, <1>19, <1>20, <1>21, <1>22,
     <1>23, <1>24, <1>25 DEF Orderly

(* Reading the step keeps Orderly: it waits for this verdict.              *)
LEMMA AdvanceReadOrderly ==
    ASSUME OneCallAtATime, VerdictInv, Orderly, AdvanceRead
    PROVE  Orderly'
<1>t. Typed
  BY TypedParts
<1>0. Verifier.pc = "advance" /\ step[Verifier.step] = "verifying"
  BY DEF AdvanceRead, At, Verifier, Orderly, LatestUnderProof
<1>1. /\ Become("verifier", [Verifier EXCEPT !.view[Verifier.step] = step[Verifier.step],
                                             !.pc = "move"])
      /\ Up
      /\ UNCHANGED <<request, step, running, deliverables, openDecisions, closedDecisions,
                     requestQueue, proofQueue, mode, handler>>
  BY <1>0, Zenon DEF AdvanceRead, decisions, queues
<1>2. /\ Worker' = Worker /\ Reaper' = Reaper /\ Call' = Call /\ Queued' = Queued
      /\ Up /\ Verifier.pc = "advance" /\ Verifier'.pc = "move"
      /\ Verifier'.step = Verifier.step /\ Verifier'.nth = Verifier.nth
      /\ UNCHANGED <<request, step, running, deliverables, openDecisions, closedDecisions,
                     requestQueue, proofQueue, mode, handler>>
  <2>1. /\ Verifier' = [Verifier EXCEPT !.view[Verifier.step] = step[Verifier.step],
                                        !.pc = "move"]
        /\ Worker' = Worker /\ Reaper' = Reaper
    BY <1>1, VerifierMoves
  <2>2. /\ Verifier'.pc = "move" /\ Verifier'.step = Verifier.step
        /\ Verifier'.nth = Verifier.nth
    BY <1>t, <2>1 DEF SessionType
  <2> QED
    BY <1>0, <1>1, <2>1, <2>2 DEF Call, Queued
<1>3. \A t \in Steps : Verifier'.view[t] = IF t = Verifier.step THEN step[t] ELSE Verifier.view[t]
  <2>1. Verifier' = [Verifier EXCEPT !.view[Verifier.step] = step[Verifier.step],
                                     !.pc = "move"]
    BY <1>1, VerifierMoves
  <2>2. Verifier'.view = [Verifier.view EXCEPT ![Verifier.step] = step[Verifier.step]]
    BY <1>t, <2>1 DEF SessionType
  <2> QED
    BY <1>t, <2>2
<1>10. /\ KnowsRows' /\ PlanAhead' /\ Starting' /\ SentBackAlone' /\ Working'
        /\ LeftBehind' /\ WorkerShape'
  BY <1>2, WorkerUndisturbed
<1>11. Stopped'
  BY <1>2 DEF Orderly, Stopped
<1>12. OneDriver'
  BY <1>2 DEF Orderly, OneDriver
<1>13. Unplanned'
  BY <1>2 DEF Orderly, Unplanned
<1>14. Planned'
  BY <1>2 DEF Orderly, Planned
<1>15. LatestUnderProof'
  BY <1>2 DEF Orderly, LatestUnderProof
<1>16. ReadyIsProven'
  BY <1>2 DEF Orderly, ReadyIsProven
<1>17. Waiting'
  BY <1>2 DEF Orderly, Waiting
<1>18. ReEngaging'
  BY <1>2 DEF Orderly, ReEngaging
<1>19. Finishing'
  BY <1>2 DEF Orderly, Finishing
<1>20. Settles(Worker)'
  BY <1>2 DEF Orderly, Settles
<1>21. Settles(Verifier)'
  BY <1>2 DEF Orderly, Settles
<1>22. Settles(Reaper)'
  BY <1>2 DEF Orderly, Settles
<1>23. Reading'
  BY <1>2, <1>0, <1>3 DEF Orderly, Reading
<1>24. Attempts'
  BY <1>2 DEF Orderly, Attempts
<1>25. Vocabulary'
  BY <1>2 DEF Orderly, Vocabulary
<1> QED
  BY <1>10, <1>11, <1>12, <1>13, <1>14, <1>15, <1>16, <1>17, <1>18, <1>19, <1>20, <1>21, <1>22,
     <1>23, <1>24, <1>25 DEF Orderly

(* Moving the step to its verdict keeps Orderly: the worker does not hold  *)
(* the step other than `verifying`, and no other verdict is due on it.     *)
LEMMA AdvanceStepOrderly ==
    ASSUME OneCallAtATime, VerdictInv, Orderly, KeepsVerdicts, AdvanceStep
    PROVE  Orderly'
<1> DEFINE target == IF Verifier.verdict = "verified" THEN "review_ready" ELSE "failed"
<1>t. Typed
  BY TypedParts
<1>1. /\ Become("verifier", [Verifier EXCEPT !.view[Verifier.step] = target, !.verdict = "none",
                                             !.pc = "finalize"])
      /\ Up /\ Verifier.pc = "move"
      /\ step' = [step EXCEPT ![Verifier.step] = target]
      /\ deliverables' = Flushed("verifier")
      /\ UNCHANGED <<request, running, openDecisions, closedDecisions, requestQueue, proofQueue,
                     mode, handler>>
  BY Zenon DEF AdvanceStep, AdvanceTo, At, decisions, queues, Verifier
<1>2. /\ Worker' = Worker /\ Reaper' = Reaper /\ Call' = Call /\ Queued' = Queued
      /\ Up /\ Verifier.pc = "move" /\ Verifier'.pc = "finalize"
      /\ UNCHANGED <<request, running, openDecisions, closedDecisions, requestQueue, proofQueue,
                     mode, handler>>
  <2>1. /\ Verifier' = [Verifier EXCEPT !.view[Verifier.step] = target, !.verdict = "none",
                                        !.pc = "finalize"]
        /\ Worker' = Worker /\ Reaper' = Reaper
    BY <1>1, VerifierMoves
  <2>2. Verifier'.pc = "finalize"
    BY <1>t, <2>1 DEF SessionType
  <2> QED
    BY <1>1, <2>1, <2>2 DEF Call, Queued
<1>3. \A t \in Steps :
          /\ Verifier'.view[t] = IF t = Verifier.step THEN target ELSE Verifier.view[t]
          /\ step'[t] = IF t = Verifier.step THEN target ELSE step[t]
  <2>1. Verifier' = [Verifier EXCEPT !.view[Verifier.step] = target, !.verdict = "none",
                                     !.pc = "finalize"]
    BY <1>1, VerifierMoves
  <2>2. Verifier'.view = [Verifier.view EXCEPT ![Verifier.step] = target]
    BY <1>t, <2>1 DEF SessionType
  <2> QED
    BY <1>t, <1>1, <2>2
<1> DEFINE s == Verifier.step
<1>4. /\ target \in {"review_ready", "failed"} /\ s \in Steps
      /\ step[s] = "verifying" /\ Verifier.nth = Len(deliverables[s])
  BY <1>t, <1>2 DEF Orderly, LatestUnderProof
<1>5. \A t \in Steps : Len(deliverables'[t]) = Len(deliverables[t])
  BY <1>1, Committed DEF Sessions
<1>6. \A t \in Steps \ {s} :
          deliverables[t] # <<>> /\ LatestVerified(deliverables[t]) =>
              deliverables'[t] # <<>> /\ LatestVerified(deliverables'[t])
  BY <1>1, Committed DEF Sessions
<1>7. target = "review_ready" => deliverables'[s] # <<>> /\ LatestVerified(deliverables'[s])
  <2> SUFFICES ASSUME Verifier.verdict = "verified"
               PROVE  deliverables'[s] # <<>> /\ LatestVerified(deliverables'[s])
    OBVIOUS
  <2>1. Verifier.nth \in 1 .. Len(deliverables[s])
    BY DEF VerdictInv, VerdictsAreApart, Holds, Untouched, RowOf, Verifier, Sessions
  <2>2. deliverables' = [deliverables EXCEPT ![s][Verifier.nth] = "verified"]
    BY <1>1 DEF Flushed, Verifier
  <2>3. /\ deliverables[s] \in Seq(ProofStates) /\ "verified" \in ProofStates
        /\ deliverables'[s] = [deliverables[s] EXCEPT ![Verifier.nth] = "verified"]
    BY <1>t, <1>4, <2>2 DEF ProofStates
  <2>4. deliverables'[s][Verifier.nth] = "verified"
    BY <2>1, <2>3, ExceptSeq
  <2>5. deliverables'[s] # <<>>
    <3>1. Len(deliverables'[s]) # 0
      BY <1>4, <1>5, <2>1, <1>t
    <3> QED
      BY <3>1, EmptySeq
  <2> QED
    BY <1>4, <1>5, <2>4, <2>5 DEF LatestVerified, Latest
<1>8. \A row \in Queued : row[1] # s
  <2>1. <<s, Verifier.nth>> \notin Queued
    BY <1>2 DEF VerdictInv, VerdictsAreApart, Holds, HoldingPCs, RowOf, Verifier, Sessions
  <2>2. \A row \in Queued : row[2] = Len(deliverables[row[1]]) /\ row = <<row[1], row[2]>>
    BY QueuedRows DEF Orderly, LatestUnderProof, VerdictInv, TypeInv
  <2> QED
    BY <1>4, <2>1, <2>2
<1>9. Worker.pc = "publishProof" => Worker.step # s
  <2>1. Worker.pc = "publishProof" => RowOf("worker") # RowOf("verifier")
    BY <1>2 DEF VerdictInv, VerdictsAreApart, Holds, HoldingPCs, Verifier, Worker, Sessions
  <2>2. Worker.pc = "publishProof" => Worker.nth = Len(deliverables[Worker.step])
    BY DEF Orderly, LatestUnderProof
  <2> QED
    BY <1>4, <2>1, <2>2 DEF RowOf, Worker, Verifier
<1>a. /\ request = "running" /\ ~Calling /\ requestQueue = <<>> /\ Rests /\ Reaper.pc = "idle"
      /\ Worker.pc # "load"
      /\ Advances => Worker.view[s] = "verifying" /\ ~Knows
  <2>1. ~Calling /\ requestQueue = <<>> /\ Rests /\ request \in {"running", "review_ready"}
    BY <1>2 DEF Orderly, OneDriver
  <2>2. request = "running"
    BY <1>4, <2>1 DEF Orderly, Waiting
  <2>3. Reaper.pc = "idle"
    BY <1>2 DEF Orderly, Stopped
  <2>4. Worker.pc # "load"
    BY <2>1 DEF Orderly, ReEngaging
  <2>5. Advances => Worker.view[s] = "verifying" /\ ~Knows
    BY <1>4 DEF Orderly, KnowsRows
  <2> QED
    BY <2>1, <2>2, <2>3, <2>4, <2>5
<1>b. \A row \in Queued' : Coming(row[1], row[2])'
  <2>1. \A row \in Queued : row[1] \in Steps /\ Coming(row[1], row[2])
    BY QueuedRows DEF Orderly, LatestUnderProof, VerdictInv, TypeInv
  <2> QED
    BY <1>2, <1>3, <1>5, <1>8, <2>1
<1>c. /\ s \in Steps /\ step[s] = "verifying" /\ step'[s] \in {"review_ready", "failed"}
      /\ Verifier'.view[s] = step'[s]
      /\ \A t \in Steps : t # s => step'[t] = step[t] /\ Verifier'.view[t] = Verifier.view[t]
      /\ step'[s] = "review_ready" => deliverables'[s] # <<>> /\ LatestVerified(deliverables'[s])
  BY <1>3, <1>4, <1>7
<1>d. Worker.pc \in StartingPCs => Worker.step # s
  BY <1>c DEF Orderly, Starting, WorkerShape
<1> HIDE DEF target, s
<1>10. Stopped'
  BY <1>2 DEF Orderly, Stopped
<1>11. OneDriver'
  BY <1>2, <1>a DEF Orderly, OneDriver
<1>12. Unplanned'
  BY <1>t, <1>2, <1>c, <1>a DEF Orderly, Unplanned
<1>13. Planned'
  BY <1>t, <1>2, <1>c, <1>a DEF Orderly, Planned
<1>14. LatestUnderProof'
  <2>1. Worker.pc = "publishProof" => Coming(Worker.step, Worker.nth)'
    BY <1>t, <1>2, <1>c, <1>5, <1>9 DEF Orderly, LatestUnderProof
  <2>2. Worker.pc = "markVerifying" => Worker.nth = Len(deliverables'[Worker.step])
    BY <1>t, <1>5 DEF Orderly, LatestUnderProof
  <2> QED
    BY <1>2, <1>b, <2>1, <2>2 DEF LatestUnderProof
<1>15. ReadyIsProven'
  BY <1>c, <1>6 DEF Orderly, ReadyIsProven
<1>16. Waiting'
  BY <1>t, <1>2, <1>c, <1>a DEF Orderly, Waiting
<1>17. ReEngaging'
  BY <1>t, <1>2, <1>c, <1>a DEF Orderly, ReEngaging
<1>18. KnowsRows'
  BY <1>2, <1>c, <1>a DEF Orderly, KnowsRows
<1>19. PlanAhead'
  BY <1>2, <1>c DEF Orderly, PlanAhead
<1>20. Starting'
  BY <1>t, <1>2, <1>c, <1>d DEF Orderly, Starting
<1>21. SentBackAlone'
  BY <1>t, <1>2, <1>c, <1>a DEF Orderly, SentBackAlone
<1>22. Working'
  BY <1>t, <1>2, <1>c DEF Orderly, Working
<1>23. LeftBehind'
  BY <1>t, <1>2, <1>c DEF Orderly, LeftBehind
<1>24. Finishing'
  BY <1>t, <1>2, <1>c, <1>a DEF Orderly, Finishing
<1>25. WorkerShape'
  BY <1>t, <1>2, <1>c, <1>a DEF Orderly, WorkerShape
<1>26. Settles(Worker)'
  BY <1>t, <1>2, <1>c, <1>a DEF Orderly, Settles
<1>27. Settles(Verifier)'
  BY <1>t, <1>2, <1>c, <1>a DEF Orderly, Settles
<1>28. Settles(Reaper)'
  BY <1>t, <1>2, <1>c, <1>a DEF Orderly, Settles
<1>29. Reading'
  <2>1. \A t \in Steps : Verifier'.view[t] # "unread" =>
            Verifier'.view[t] = step'[t] /\ step'[t] \in {"verifying", "review_ready", "failed"}
    BY <1>2, <1>3, <1>4 DEF Orderly, Reading
  <2> QED
    BY <1>2, <2>1 DEF Orderly, Reading
<1>30. Attempts'
  BY <1>t, <1>2, <1>c, <1>a DEF Orderly, Attempts
<1>31. Vocabulary'
  BY <1>2, <1>c DEF Orderly, Vocabulary
<1> QED
  BY <1>10, <1>11, <1>12, <1>13, <1>14, <1>15, <1>16, <1>17, <1>18, <1>19, <1>20, <1>21, <1>22,
     <1>23, <1>24, <1>25, <1>26, <1>27, <1>28, <1>29, <1>30, <1>31 DEF Orderly

-----------------------------------------------------------------------------
(* A session that settles the Request has it to itself: no message is on   *)
(* its way, no attempt runs, and no other session settles.                 *)
LEMMA SettlerAlone ==
    ASSUME VerdictInv, Typed, Orderly, NEW p \in Sessions, session[p].pc \in SettlingPCs
    PROVE  /\ ~Calling /\ requestQueue = <<>> /\ ~Drives /\ proofQueue = <<>> /\ Queued = {}
           /\ \A t \in Steps : Ended(t)
           /\ p = "worker" => /\ Worker.pc \in {"stuck", "decide"} /\ ~ProofUnderWay
                              /\ Up /\ Reaper.pc = "idle"
           /\ p = "verifier" => Rests /\ Up /\ Reaper.pc = "idle"
           /\ p = "reaper" => ~Up /\ Worker.pc = "idle" /\ Verifier.pc = "idle"
           /\ p # "worker" => Worker.pc \in {"idle", "done"} \/ ~Knows
           /\ p # "worker" => Worker.pc \notin SettlingPCs
           /\ Up => \A t \in Steps : running[t] = 0
<1>1. Settles(Worker) /\ Settles(Verifier) /\ Settles(Reaper)
  BY DEF Orderly
<1>2. ~Calling /\ requestQueue = <<>> /\ ~Drives /\ \A t \in Steps : Ended(t)
  BY <1>1, Zenon DEF Settles, Sessions, Worker, Verifier, Reaper
<1>3. proofQueue = <<>> /\ Queued = {}
  <2>1. \A row \in Queued : row[1] \in Steps /\ step[row[1]] = "verifying"
    BY QueuedRows DEF Orderly, LatestUnderProof, VerdictInv, TypeInv
  <2>2. Queued = {}
    BY <1>2, <2>1
  <2> QED
    BY <2>2, QueuedEmpty
<1>4. CASE p = "worker"
  <2>1. Worker.pc \in {"stuck", "decide"}
    BY <1>4 DEF Orderly, WorkerShape, Worker
  <2>2. Up /\ Reaper.pc = "idle"
    BY <2>1 DEF Orderly, Stopped
  <2>3. ~ProofUnderWay
    BY <2>1 DEF Orderly, OneDriver, Finishing
  <2>4. \A t \in Steps : running[t] = 0
    BY <2>1, <2>2, NoneLeftOpen
  <2> QED
    BY <1>2, <1>3, <1>4, <2>1, <2>2, <2>3, <2>4
<1>5. CASE p = "verifier"
  <2>1. Verifier.pc \in SettlingPCs
    BY <1>5 DEF Verifier
  <2>2. Up /\ Reaper.pc = "idle" /\ Rests
    BY <2>1 DEF Orderly, Stopped, OneDriver
  <2>3. \A t \in Steps : running[t] = 0
    BY <1>2, <2>1, <2>2, Typed DEF Orderly, Attempts
  <2>4. Worker.pc \notin SettlingPCs
    BY <2>2 DEF Orderly, Finishing, WorkerShape
  <2> QED
    BY <1>2, <1>3, <1>5, <2>2, <2>3, <2>4
<1>6. CASE p = "reaper"
  <2>1. ~Up
    BY <1>6 DEF Orderly, Stopped, Reaper
  <2>2. Worker.pc = "idle" /\ Verifier.pc = "idle"
    BY <2>1 DEF Orderly, Stopped
  <2> QED
    BY <1>2, <1>3, <1>6, <2>1, <2>2
<1> QED
  BY <1>4, <1>5, <1>6 DEF Sessions

(* A session that only moves to its next program point.                    *)
GoesTo(p, pc) ==
    /\ Worker'.pc = IF p = "worker" THEN pc ELSE Worker.pc
    /\ Verifier'.pc = IF p = "verifier" THEN pc ELSE Verifier.pc
    /\ Reaper'.pc = IF p = "reaper" THEN pc ELSE Reaper.pc
    /\ Worker'.step = Worker.step /\ Worker'.nth = Worker.nth /\ Worker'.kind = Worker.kind
    /\ Worker'.cont = Worker.cont /\ Worker'.view = Worker.view
    /\ Verifier'.step = Verifier.step /\ Verifier'.nth = Verifier.nth
    /\ Verifier'.view = Verifier.view
    /\ Reaper'.step = Reaper.step /\ Reaper'.view = Reaper.view

(* What a step that replaces the session's program point, and perhaps the  *)
(* steps to ask about or the verdict it has flushed, leaves alone.         *)
LEMMA PcMoves ==
    ASSUME VerdictInv, Typed, NEW p \in Sessions, NEW new, Become(p, new),
           new.step = session[p].step, new.nth = session[p].nth, new.kind = session[p].kind,
           new.cont = session[p].cont, new.view = session[p].view
    PROVE  GoesTo(p, new.pc)
<1>1. CASE p = "worker"
  BY <1>1, WorkerMoves DEF GoesTo, Worker
<1>2. CASE p = "verifier"
  BY <1>2, VerifierMoves DEF GoesTo, Verifier
<1>3. CASE p = "reaper"
  BY <1>3, ReaperMoves DEF GoesTo, Reaper
<1> QED
  BY <1>1, <1>2, <1>3 DEF Sessions

(* A worker that has come to settle keeps what is said of its driving.     *)
LEMMA WorkerSettles ==
    ASSUME Orderly, UNCHANGED <<request, step>>, Worker'.step = Worker.step,
           Worker'.kind = Worker.kind, Worker'.view = Worker.view,
           Worker'.pc = Worker.pc
               \/ /\ Worker.pc \notin {"idle", "load"}
                  /\ Worker'.pc \in {"stuck", "decide", "done"},
           Worker'.pc = Worker.pc => Worker'.cont = Worker.cont /\ Worker'.nth = Worker.nth
    PROVE  /\ KnowsRows' /\ PlanAhead' /\ Starting' /\ SentBackAlone' /\ Working'
           /\ LeftBehind' /\ WorkerShape'
<1>1. CASE Worker'.pc = Worker.pc
  <2>1. KnowsRows' /\ PlanAhead'
    BY <1>1 DEF Orderly, KnowsRows, PlanAhead
  <2>2. Starting' /\ SentBackAlone'
    BY <1>1 DEF Orderly, Starting, SentBackAlone
  <2>3. Working' /\ LeftBehind' /\ WorkerShape'
    BY <1>1 DEF Orderly, Working, LeftBehind, WorkerShape
  <2> QED
    BY <2>1, <2>2, <2>3
<1>2. CASE Worker.pc \notin {"idle", "load"} /\ Worker'.pc \in {"stuck", "decide", "done"}
  <2>1. KnowsRows' /\ PlanAhead' /\ Starting' /\ SentBackAlone' /\ Working' /\ LeftBehind'
    BY <1>2 DEF KnowsRows, PlanAhead, Starting, SentBackAlone, Working, LeftBehind
  <2>2. WorkerShape'
    BY <1>2 DEF Orderly, WorkerShape
  <2> QED
    BY <2>1, <2>2
<1> QED
  BY <1>1, <1>2

(* Asking which stuck steps have a Decision keeps Orderly.                 *)
LEMMA FinalizeStuckOrderly ==
    ASSUME OneCallAtATime, VerdictInv, Orderly, NEW p \in Sessions, FinalizeStuck(p)
    PROVE  Orderly'
<1>t. Typed
  BY TypedParts
<1> DEFINE missing == {s \in Steps : session[p].view[s] \in Stuck /\ openDecisions[s] = 0}
           new == [session[p] EXCEPT !.missing = missing, !.pc = "decide"]
<1>1. /\ session[p].pc = "stuck" /\ Become(p, new)
      /\ UNCHANGED <<request, step, running, deliverables, openDecisions, closedDecisions,
                     requestQueue, proofQueue, mode, handler>>
  BY Zenon DEF FinalizeStuck, Asking, At, decisions, queues
<1>2. session[p] \in SessionType
  BY Fields DEF VerdictInv, TypeInv
<1>3. /\ new.step = session[p].step /\ new.nth = session[p].nth /\ new.kind = session[p].kind
      /\ new.cont = session[p].cont /\ new.view = session[p].view /\ new.pc = "decide"
      /\ new.missing = missing
  BY <1>2 DEF SessionType
<1>4. session'[p] = new
  BY <1>1, BecomeOthers DEF VerdictInv, TypeInv
<1> HIDE DEF new
<1>5. /\ GoesTo(p, "decide") /\ Call' = Call /\ Queued' = Queued
      /\ UNCHANGED <<request, step, running, deliverables, openDecisions, closedDecisions,
                     requestQueue, proofQueue, mode, handler>>
  <2>1. Call' = Call /\ Queued' = Queued
    BY <1>1 DEF Call, Queued
  <2>2. GoesTo(p, new.pc)
    BY <1>t, <1>1, <1>3, PcMoves, Zenon
  <2> QED
    BY <1>1, <1>3, <2>1, <2>2
<1>6. /\ p \in {"worker", "verifier", "reaper"}
      /\ p = "worker" => Worker.pc = "stuck"
      /\ p = "verifier" => Verifier.pc = "stuck"
      /\ p = "reaper" => Reaper.pc = "stuck"
  BY <1>1 DEF Sessions, Worker, Verifier, Reaper
<1>7. Settles(session[p])'
  <2>1. Settles(session[p])
    BY DEF Orderly, Sessions, Worker, Verifier, Reaper
  <2>2. ~Drives'
    <3>1. ~Drives /\ Worker'.pc \in {Worker.pc, "decide"}
      BY <1>1, <1>5, <2>1 DEF Settles, GoesTo
    <3> QED
      BY <1>5, <3>1 DEF GoesTo
  <2>3. /\ \A t \in Steps : step[t] \in Stuck => t \in missing \/ openDecisions[t] > 0
        /\ \A t \in missing : step[t] \in Stuck
    <3>1. \A t \in Steps : session[p].view[t] = step[t]
      BY <1>1, <2>1 DEF Settles
    <3>2. \A t \in Steps : openDecisions[t] = 0 \/ openDecisions[t] > 0
      BY <1>t
    <3> QED
      BY <3>1, <3>2
  <2> QED
    BY <1>1, <1>3, <1>4, <1>5, <2>1, <2>2, <2>3 DEF Settles
<1>8. /\ p # "worker" => Worker'.missing = Worker.missing
      /\ p # "verifier" => Verifier'.missing = Verifier.missing
      /\ p # "reaper" => Reaper'.missing = Reaper.missing
  BY <1>1, <1>6, WorkerMoves, VerifierMoves, ReaperMoves DEF Sessions
<1> HIDE DEF missing
<1> USE DEF GoesTo
<1>10. /\ KnowsRows' /\ PlanAhead' /\ Starting' /\ SentBackAlone' /\ Working'
        /\ LeftBehind' /\ WorkerShape'
  BY <1>5, <1>6, WorkerSettles
<1>11. Stopped'
  BY <1>5, <1>6 DEF Orderly, Stopped
<1>12. OneDriver'
  BY <1>5, <1>6 DEF Orderly, OneDriver
<1>13. Unplanned'
  BY <1>5, <1>6 DEF Orderly, Unplanned
<1>14. Planned'
  BY <1>5, <1>6 DEF Orderly, Planned
<1>15. LatestUnderProof'
  BY <1>5, <1>6 DEF Orderly, LatestUnderProof
<1>16. ReadyIsProven'
  BY <1>5, <1>6 DEF Orderly, ReadyIsProven
<1>17. Waiting'
  BY <1>5, <1>6 DEF Orderly, Waiting
<1>18. ReEngaging'
  BY <1>5, <1>6 DEF Orderly, ReEngaging
<1>19. Finishing'
  BY <1>5, <1>6 DEF Orderly, Finishing
<1>20. Settles(Worker)'
  BY <1>5, <1>6, <1>7, <1>8 DEF Orderly, Settles, Worker
<1>21. Settles(Verifier)'
  BY <1>5, <1>6, <1>7, <1>8 DEF Orderly, Settles, Verifier
<1>22. Settles(Reaper)'
  BY <1>5, <1>6, <1>7, <1>8 DEF Orderly, Settles, Reaper
<1>23. Reading'
  BY <1>5, <1>6 DEF Orderly, Reading
<1>24. Attempts'
  BY <1>5, <1>6 DEF Orderly, Attempts
<1>25. Vocabulary'
  BY <1>5, <1>6 DEF Orderly, Vocabulary
<1> QED
  BY <1>10, <1>11, <1>12, <1>13, <1>14, <1>15, <1>16, <1>17, <1>18, <1>19, <1>20, <1>21, <1>22,
     <1>23, <1>24, <1>25 DEF Orderly

(* The missing Decisions and the Request's transition keep Orderly: no     *)
(* step is left to move the Request on.                                    *)
LEMMA FinalizeDecideOrderly ==
    ASSUME OneCallAtATime, VerdictInv, Orderly, KeepsVerdicts, NEW p \in Sessions,
           FinalizeDecide(p)
    PROVE  Orderly'
<1>t. Typed
  BY TypedParts
<1> DEFINE new == [session[p] EXCEPT !.pc = "done", !.verdict = "none"]
<1>1. /\ session[p].pc = "decide" /\ Become(p, new)
      /\ openDecisions' = [s \in Steps |->
             openDecisions[s] + (IF s \in session[p].missing THEN 1 ELSE 0)]
      /\ request' = "needs_decision" /\ deliverables' = Flushed(p)
      /\ UNCHANGED <<step, running, closedDecisions, requestQueue, proofQueue, mode, handler>>
  BY Zenon DEF FinalizeDecide, At, decisions, queues
<1>2. session[p] \in SessionType
  BY Fields DEF VerdictInv, TypeInv
<1>3. /\ new.step = session[p].step /\ new.nth = session[p].nth /\ new.kind = session[p].kind
      /\ new.cont = session[p].cont /\ new.view = session[p].view /\ new.pc = "done"
  BY <1>2 DEF SessionType
<1> HIDE DEF new
<1>5. /\ GoesTo(p, "done") /\ Call' = Call /\ Queued' = Queued
      /\ request' = "needs_decision"
      /\ UNCHANGED <<step, running, closedDecisions, requestQueue, proofQueue, mode, handler>>
  <2>1. Call' = Call /\ Queued' = Queued
    BY <1>1 DEF Call, Queued
  <2>2. GoesTo(p, new.pc)
    BY <1>t, <1>1, <1>3, PcMoves, Zenon
  <2> QED
    BY <1>1, <1>3, <2>1, <2>2
<1>6. /\ ~Calling /\ requestQueue = <<>> /\ ~Drives /\ proofQueue = <<>> /\ Queued = {}
      /\ \A t \in Steps : Ended(t)
      /\ p = "worker" => /\ Worker.pc = "decide" /\ ~ProofUnderWay
                         /\ Up /\ Reaper.pc = "idle"
      /\ p = "verifier" => Verifier.pc = "decide" /\ Rests /\ Up /\ Reaper.pc = "idle"
      /\ p = "reaper" => ~Up /\ Worker.pc = "idle" /\ Verifier.pc = "idle"
      /\ p # "worker" => Worker.pc \in {"idle", "done"} \/ ~Knows
      /\ p # "worker" => Worker.pc \notin SettlingPCs
      /\ p \in {"worker", "verifier", "reaper"}
      /\ request = "running"
  <2>1. session[p].pc \in SettlingPCs /\ Settles(session[p])
    BY <1>1 DEF Orderly, Sessions, Worker, Verifier, Reaper
  <2>2. request = "running"
    BY <1>1, <2>1 DEF Settles
  <2> QED
    BY <1>t, <1>1, <2>1, <2>2, SettlerAlone DEF Sessions, Worker, Verifier
<1>7. Up => \A t \in Steps : running[t] = 0
  BY <1>t, <1>1, SettlerAlone
<1>8. \A t \in Steps : openDecisions'[t] + closedDecisions'[t] > 0 => step[t] # "absent"
  <2>1. Settles(session[p])
    BY <1>1 DEF Orderly, Sessions, Worker, Verifier, Reaper
  <2>2. \A t \in session[p].missing : step[t] \in Stuck
    BY <1>1, <2>1 DEF Settles
  <2>3. \A t \in Steps : openDecisions[t] + closedDecisions[t] > 0 => step[t] # "absent"
    BY DEF Orderly, Vocabulary
  <2>4. SUFFICES ASSUME NEW t \in Steps, openDecisions'[t] + closedDecisions'[t] > 0
                 PROVE  step[t] # "absent"
    OBVIOUS
  <2>5. CASE t \in session[p].missing
    BY <2>2, <2>5
  <2>6. CASE t \notin session[p].missing
    <3>1. openDecisions'[t] = openDecisions[t] /\ closedDecisions'[t] = closedDecisions[t]
      BY <1>t, <1>1, <2>6
    <3> QED
      BY <2>3, <2>4, <3>1
  <2> QED
    BY <2>5, <2>6
<1>9. \A t \in Steps :
          /\ Len(deliverables'[t]) = Len(deliverables[t])
          /\ deliverables'[t] # <<>> <=> deliverables[t] # <<>>
          /\ deliverables[t] # <<>> /\ LatestVerified(deliverables[t]) =>
                 LatestVerified(deliverables'[t])
  BY <1>1, Committed
<1> USE DEF GoesTo
<1>10. Stopped'
  <2>1. Up => Up' /\ Reaper'.pc = "idle"
    BY <1>5, <1>6 DEF Orderly, Stopped
  <2>2. ~Up => Call' = Call /\ Worker'.pc = Worker.pc /\ Verifier'.pc = Verifier.pc
        /\ mode' = mode
    BY <1>5, <1>6
  <2>3. Reaper.pc # "idle" \/ Reaper'.pc = "idle"
    BY <1>1, <1>5, <1>6 DEF Reaper
  <2>4. Stopped
    BY DEF Orderly
  <2> QED
    BY <1>5, <2>1, <2>2, <2>3, <2>4 DEF Stopped
<1>11. OneDriver'
  BY <1>5, <1>6 DEF Orderly, OneDriver
<1>12. Unplanned'
  BY <1>5, <1>6 DEF Orderly, Unplanned
<1>13. Planned'
  BY <1>5, <1>6 DEF Orderly, Planned
<1>14. LatestUnderProof'
  BY <1>5, <1>6, <1>t, <1>9 DEF Orderly, LatestUnderProof
<1>15. ReadyIsProven'
  BY <1>5, <1>6, <1>9 DEF Orderly, ReadyIsProven
<1>16. Waiting'
  BY <1>5, <1>6 DEF Orderly, Waiting
<1>17. ReEngaging'
  BY <1>5, <1>6 DEF Orderly, ReEngaging
<1>18. KnowsRows'
  BY <1>5, <1>6 DEF Orderly, KnowsRows
<1>19. PlanAhead'
  BY <1>5, <1>6 DEF Orderly, PlanAhead
<1>20. Starting'
  BY <1>5, <1>6 DEF Orderly, Starting
<1>21. SentBackAlone'
  BY <1>5, <1>6 DEF Orderly, SentBackAlone
<1>22. Working'
  BY <1>5, <1>6 DEF Orderly, Working
<1>23. LeftBehind'
  BY <1>5, <1>6 DEF Orderly, LeftBehind
<1>24. Finishing'
  BY <1>5, <1>6 DEF Orderly, Finishing
<1>25. WorkerShape'
  BY <1>5, <1>6 DEF Orderly, WorkerShape
<1>26. Settles(Worker)'
  BY <1>5, <1>6 DEF Orderly, Settles
<1>27. Settles(Verifier)'
  BY <1>5, <1>6 DEF Orderly, Settles
<1>28. Settles(Reaper)'
  BY <1>5, <1>6 DEF Orderly, Settles
<1>29. Reading'
  BY <1>5, <1>6 DEF Orderly, Reading
<1>30. Attempts'
  BY <1>5, <1>6, <1>7 DEF Orderly, Attempts
<1>31. Vocabulary'
  BY <1>5, <1>6, <1>8 DEF Orderly, Vocabulary
<1> QED
  BY <1>10, <1>11, <1>12, <1>13, <1>14, <1>15, <1>16, <1>17, <1>18, <1>19, <1>20, <1>21, <1>22,
     <1>23, <1>24, <1>25, <1>26, <1>27, <1>28, <1>29, <1>30, <1>31 DEF Orderly

(* A Request whose steps are all ready becomes review_ready: that keeps    *)
(* Orderly.                                                                *)
LEMMA FinalizeReadyOrderly ==
    ASSUME OneCallAtATime, VerdictInv, Orderly, KeepsVerdicts, NEW p \in Sessions,
           FinalizeReady(p)
    PROVE  Orderly'
<1>t. Typed
  BY TypedParts
<1> DEFINE new == [session[p] EXCEPT !.pc = "gate", !.verdict = "none"]
<1>1. /\ session[p].pc = "ready" /\ Become(p, new)
      /\ request' = "review_ready" /\ deliverables' = Flushed(p)
      /\ UNCHANGED <<step, running, openDecisions, closedDecisions, requestQueue, proofQueue,
                     mode, handler>>
  BY Zenon DEF FinalizeReady, At, decisions, queues
<1>2. session[p] \in SessionType
  BY Fields DEF VerdictInv, TypeInv
<1>3. /\ new.step = session[p].step /\ new.nth = session[p].nth /\ new.kind = session[p].kind
      /\ new.cont = session[p].cont /\ new.view = session[p].view /\ new.pc = "gate"
  BY <1>2 DEF SessionType
<1> HIDE DEF new
<1>5. /\ GoesTo(p, "gate") /\ Call' = Call /\ Queued' = Queued
      /\ request' = "review_ready"
      /\ UNCHANGED <<step, running, openDecisions, closedDecisions, requestQueue, proofQueue,
                     mode, handler>>
  <2>1. Call' = Call /\ Queued' = Queued
    BY <1>1 DEF Call, Queued
  <2>2. GoesTo(p, new.pc)
    BY <1>t, <1>1, <1>3, PcMoves, Zenon
  <2> QED
    BY <1>1, <1>3, <2>1, <2>2
<1>6. /\ ~Calling /\ requestQueue = <<>> /\ ~Drives /\ proofQueue = <<>> /\ Queued = {}
      /\ AllReady
      /\ p = "verifier" => Verifier.pc = "ready" /\ Rests /\ Up /\ Reaper.pc = "idle"
      /\ p = "reaper" => Reaper.pc = "ready" /\ ~Up /\ Worker.pc = "idle" /\ Verifier.pc = "idle"
      /\ Worker.pc \in {"idle", "done"} \/ ~Knows
      /\ Worker.pc \notin SettlingPCs
      /\ p \in {"verifier", "reaper"}
      /\ request = "running"
  <2>1. session[p].pc \in SettlingPCs /\ Settles(session[p])
    BY <1>1 DEF Orderly, Sessions, Worker, Verifier, Reaper
  <2>2. request = "running" /\ AllReady
    BY <1>1, <2>1 DEF Settles
  <2>3. p # "worker"
    BY <1>1 DEF Orderly, WorkerShape, Worker
  <2> QED
    BY <1>t, <1>1, <2>1, <2>2, <2>3, SettlerAlone DEF Sessions, Worker, Verifier, Reaper
<1>7. Up => \A t \in Steps : running[t] = 0
  BY <1>t, <1>1, SettlerAlone
<1>9. \A t \in Steps :
          /\ Len(deliverables'[t]) = Len(deliverables[t])
          /\ deliverables'[t] # <<>> <=> deliverables[t] # <<>>
          /\ deliverables[t] # <<>> /\ LatestVerified(deliverables[t]) =>
                 LatestVerified(deliverables'[t])
  BY <1>1, Committed
<1> USE DEF GoesTo
<1>10. Stopped'
  BY <1>5, <1>6 DEF Orderly, Stopped
<1>11. OneDriver'
  BY <1>5, <1>6 DEF Orderly, OneDriver
<1>12. Unplanned'
  BY <1>5, <1>6 DEF Orderly, Unplanned
<1>13. Planned'
  BY <1>5, <1>6 DEF Orderly, Planned
<1>14. LatestUnderProof'
  BY <1>5, <1>6, <1>t, <1>9 DEF Orderly, LatestUnderProof
<1>15. ReadyIsProven'
  BY <1>5, <1>6, <1>9 DEF Orderly, ReadyIsProven
<1>16. Waiting'
  BY <1>5, <1>6 DEF Orderly, Waiting
<1>17. ReEngaging'
  BY <1>5, <1>6 DEF Orderly, ReEngaging
<1>18. KnowsRows'
  BY <1>5, <1>6 DEF Orderly, KnowsRows
<1>19. PlanAhead'
  BY <1>5, <1>6 DEF Orderly, PlanAhead
<1>20. Starting'
  BY <1>5, <1>6 DEF Orderly, Starting
<1>21. SentBackAlone'
  BY <1>5, <1>6 DEF Orderly, SentBackAlone
<1>22. Working'
  BY <1>5, <1>6 DEF Orderly, Working
<1>23. LeftBehind'
  BY <1>5, <1>6 DEF Orderly, LeftBehind
<1>24. Finishing'
  BY <1>5, <1>6 DEF Orderly, Finishing
<1>25. WorkerShape'
  BY <1>5, <1>6 DEF Orderly, WorkerShape
<1>26. Settles(Worker)'
  BY <1>5, <1>6 DEF Orderly, Settles
<1>27. Settles(Verifier)'
  BY <1>5, <1>6 DEF Orderly, Settles
<1>28. Settles(Reaper)'
  BY <1>5, <1>6 DEF Orderly, Settles
<1>29. Reading'
  BY <1>5, <1>6 DEF Orderly, Reading
<1>30. Attempts'
  BY <1>5, <1>6, <1>7 DEF Orderly, Attempts
<1>31. Vocabulary'
  BY <1>5, <1>6 DEF Orderly, Vocabulary
<1> QED
  BY <1>10, <1>11, <1>12, <1>13, <1>14, <1>15, <1>16, <1>17, <1>18, <1>19, <1>20, <1>21, <1>22,
     <1>23, <1>24, <1>25, <1>26, <1>27, <1>28, <1>29, <1>30, <1>31 DEF Orderly


(* Where every step has ended, nothing drives but a worker that still      *)
(* knows every row.                                                        *)
LEMMA NothingLeftToDrive ==
    ASSUME Orderly, Typed, \A t \in Steps : Ended(t), Worker.pc \in {"idle", "done"} \/ ~Knows
    PROVE  ~Drives
<1>1. Worker.pc # "load"
  BY DEF Orderly, ReEngaging
<1>2. Worker.kind \in {"plan", "re_engage"} \/ Worker.pc = "idle"
  BY DEF Orderly, WorkerShape
<1>3. Worker.pc \notin StartingPCs
  BY <1>2 DEF Orderly, Starting, SentBackAlone
<1>4. Worker.pc \notin WorkingPCs
  BY DEF Orderly, Working
<1>5. Worker.pc # "publishProof"
  BY DEF Orderly, LatestUnderProof
<1>6. ~(Worker.pc \in TailPCs /\ More)
  <2>1. SUFFICES ASSUME Worker.pc \in TailPCs, More
                 PROVE  FALSE
    OBVIOUS
  <2>2. Worker.step \in Nat
    BY DEF Steps
  <2>3. Worker.step + 1 > Worker.step
    BY <2>2
  <2>4. step[Worker.step + 1] = "pending"
    BY <2>1, <2>3 DEF Orderly, PlanAhead
  <2> QED
    BY <2>1, <2>4
<1> QED
  BY <1>1, <1>3, <1>4, <1>5, <1>6

(* Reading the WorkSteps to see whether the Request has come to its end    *)
(* keeps Orderly: the session that settles it has it to itself.            *)
LEMMA FinalizeReadOrderly ==
    ASSUME OneCallAtATime, VerdictInv, Orderly, NEW p \in Sessions, FinalizeRead(p)
    PROVE  Orderly'
<1>t. Typed
  BY TypedParts
<1> DEFINE seen == StepsSeen(p)
           plan == {s \in Steps : seen[s] # "absent"}
           settled == RequestSeen(p) = "running" /\ \A s \in plan : seen[s] \in Terminal
           pc == IF settled /\ \E s \in plan : seen[s] \in Stuck THEN "stuck"
                 ELSE IF settled /\ \A s \in plan : seen[s] = "review_ready" THEN "ready"
                 ELSE "done"
           new == [session[p] EXCEPT !.view = seen, !.pc = pc]
<1>1. /\ session[p].pc = "finalize" /\ Become(p, new) /\ mode # "down"
      /\ UNCHANGED <<request, step, running, deliverables, openDecisions, closedDecisions,
                     requestQueue, proofQueue, mode, handler>>
  BY Zenon DEF FinalizeRead, At, decisions, queues
<1>2. session[p] \in SessionType
  BY Fields DEF VerdictInv, TypeInv
<1>3. /\ new.step = session[p].step /\ new.nth = session[p].nth /\ new.kind = session[p].kind
      /\ new.cont = session[p].cont /\ new.view = seen /\ new.pc = pc
  BY <1>2 DEF SessionType
<1>4. session'[p] = new
  BY <1>1, BecomeOthers DEF VerdictInv, TypeInv
<1>5. /\ p = "worker" => session[p] = Worker
      /\ p = "verifier" => session[p] = Verifier
      /\ p = "reaper" => session[p] = Reaper
      /\ p \in {"worker", "verifier", "reaper"}
  BY DEF Sessions, Worker, Verifier, Reaper
<1>6. /\ p = "worker" => seen = Worker.view
      /\ p # "worker" => \A t \in Steps : seen[t] = step[t]
  <2>1. CASE p = "worker"
    <3>1. \A t \in Steps : Worker.view[t] # "unread"
      BY <1>1, <1>5, <2>1 DEF Orderly, WorkerShape
    <3>2. seen = [t \in Steps |-> Worker.view[t]]
      BY <1>5, <2>1, <3>1 DEF StepsSeen
    <3> QED
      BY <1>t, <2>1, <3>2
  <2>2. CASE p = "verifier"
    BY <1>1, <1>5, <2>2 DEF Orderly, Reading, StepsSeen
  <2>3. CASE p = "reaper"
    BY <1>1, <1>5, <2>3 DEF Orderly, Reading, StepsSeen
  <2> QED
    BY <1>5, <2>1, <2>2, <2>3
<1> HIDE DEF new, seen
<1>7. pc \in {"stuck", "ready", "done"}
  OBVIOUS
<1>8. pc \in {"stuck", "ready"} =>
          /\ p # "worker" => request = "running"
          /\ \A t \in Steps : seen[t] \in {"absent", "review_ready", "skipped"} \cup Stuck
          /\ pc = "stuck" => \E t \in Steps : seen[t] \in Stuck
          /\ pc = "ready" => \A t \in Steps : seen[t] \in {"absent", "review_ready"}
  BY DEF RequestSeen, Terminal
<1>9. pc \in {"stuck", "ready"} =>
          /\ p = "worker" => Knows /\ pc = "stuck"
          /\ request = "running" /\ \A t \in Steps : seen[t] = step[t]
  <2>1. SUFFICES ASSUME pc \in {"stuck", "ready"}
                 PROVE  /\ p = "worker" => Knows /\ pc = "stuck"
                        /\ request = "running" /\ \A t \in Steps : seen[t] = step[t]
    OBVIOUS
  <2>2. CASE p = "worker"
    <3>1. Knows
      BY <1>6, <1>8, <2>1, <2>2
    <3>2. request = "running" /\ \A t \in Steps : Worker.view[t] = step[t]
      BY <1>1, <1>5, <2>2, <3>1 DEF Orderly, Finishing
    <3>3. Worker.view[Worker.step] \in Stuck \cup {"verifying"}
      BY <1>1, <1>5, <2>2 DEF Orderly, LeftBehind
    <3>4. pc # "ready"
      BY <1>t, <1>6, <1>8, <2>2, <3>3
    <3> QED
      BY <1>6, <1>7, <2>1, <2>2, <3>1, <3>2, <3>4
  <2>3. CASE p # "worker"
    BY <1>6, <1>8, <2>1, <2>3
  <2> QED
    BY <2>2, <2>3
<1>10. pc \in {"stuck", "ready"} =>
           /\ \A t \in Steps : Ended(t)
           /\ pc = "stuck" => \E t \in Steps : step[t] \in Stuck
           /\ pc = "ready" => AllReady
  <2>1. \A t \in Steps : step[t] # "skipped"
    BY DEF Orderly, Vocabulary
  <2> QED
    BY <1>8, <1>9, <2>1
<1> HIDE DEF pc
<1>11. pc \in {"stuck", "ready"} => ~Calling /\ requestQueue = <<>> /\ ~Drives
  <2>1. SUFFICES ASSUME pc \in {"stuck", "ready"}
                 PROVE  ~Calling /\ requestQueue = <<>> /\ ~Drives
    OBVIOUS
  <2>2. CASE p = "worker"
    BY <1>1, <1>5, <1>9, <2>1, <2>2 DEF Orderly, Finishing
  <2>3. CASE p = "verifier"
    <3>1. ~Calling /\ requestQueue = <<>> /\ Rests
      BY <1>1, <1>5, <2>3 DEF Orderly, OneDriver
    <3> QED
      BY <1>t, <1>10, <2>1, <3>1, NothingLeftToDrive
  <2>4. CASE p = "reaper"
    BY <1>1, <1>5, <2>4 DEF Orderly, OneDriver, Stopped
  <2> QED
    BY <1>5, <2>2, <2>3, <2>4
<1>12. /\ Worker'.pc = IF p = "worker" THEN pc ELSE Worker.pc
       /\ Verifier'.pc = IF p = "verifier" THEN pc ELSE Verifier.pc
       /\ Reaper'.pc = IF p = "reaper" THEN pc ELSE Reaper.pc
       /\ Worker'.step = Worker.step /\ Worker'.nth = Worker.nth /\ Worker'.kind = Worker.kind
       /\ Worker'.cont = Worker.cont /\ Worker'.view = Worker.view
       /\ Verifier'.step = Verifier.step /\ Verifier'.nth = Verifier.nth
       /\ Reaper'.step = Reaper.step
       /\ p # "worker" => Worker' = Worker
       /\ p # "verifier" => Verifier' = Verifier
       /\ p # "reaper" => Reaper' = Reaper
  <2>1. CASE p = "worker"
    BY <1>1, <1>3, <1>5, <1>6, <2>1, WorkerMoves
  <2>2. CASE p = "verifier"
    BY <1>1, <1>3, <1>5, <2>2, VerifierMoves
  <2>3. CASE p = "reaper"
    BY <1>1, <1>3, <1>5, <2>3, ReaperMoves
  <2> QED
    BY <1>5, <2>1, <2>2, <2>3
<1>13. /\ Call' = Call /\ Queued' = Queued
       /\ UNCHANGED <<request, step, running, deliverables, openDecisions, closedDecisions,
                      requestQueue, proofQueue, mode, handler>>
  BY <1>1 DEF Call, Queued
<1>14. Settles(session[p])'
  <2>1. session'[p].pc = pc /\ session'[p].view = seen
    BY <1>3, <1>4
  <2>2. pc \in {"stuck", "ready"} => ~Drives'
    BY <1>11, <1>12
  <2> QED
    BY <1>7, <1>9, <1>10, <1>11, <1>13, <2>1, <2>2 DEF Settles
<1>15. /\ p = "worker" => /\ Worker.pc = "finalize" /\ Up /\ Reaper.pc = "idle"
                          /\ \A t \in Steps : running[t] = 0
       /\ p = "verifier" => Verifier.pc = "finalize" /\ Up /\ Reaper.pc = "idle" /\ Rests
       /\ p = "reaper" => Reaper.pc = "finalize" /\ ~Up /\ mode = "reaping"
       /\ p = "worker" => pc # "ready"
       /\ p = "worker" /\ pc = "stuck" => Knows /\ ~ProofUnderWay /\ request = "running"
  <2>1. CASE p = "worker"
    <3>1. Worker.pc = "finalize" /\ Up /\ Reaper.pc = "idle"
      BY <1>1, <1>5, <2>1 DEF Orderly, Stopped
    <3>2. \A t \in Steps : running[t] = 0
      BY <1>t, <3>1, NoneLeftOpen
    <3>3. pc = "stuck" => Knows /\ ~ProofUnderWay /\ request = "running"
      BY <1>9, <2>1, <3>1 DEF Orderly, OneDriver
    <3> QED
      BY <1>9, <2>1, <3>1, <3>2, <3>3
  <2>2. CASE p = "verifier"
    BY <1>1, <1>5, <2>2 DEF Orderly, Stopped, OneDriver
  <2>3. CASE p = "reaper"
    BY <1>1, <1>5, <2>3 DEF Orderly, Stopped
  <2> QED
    BY <1>5, <2>1, <2>2, <2>3
<1>20. /\ KnowsRows' /\ PlanAhead' /\ Starting' /\ SentBackAlone' /\ Working'
        /\ LeftBehind' /\ WorkerShape'
  BY <1>7, <1>12, <1>13, <1>15, WorkerSettles
<1>21. Stopped'
  BY <1>5, <1>7, <1>12, <1>13, <1>15 DEF Orderly, Stopped
<1>22. OneDriver'
  BY <1>5, <1>7, <1>12, <1>13, <1>15, <1>11 DEF Orderly, OneDriver
<1>23. Unplanned'
  BY <1>5, <1>7, <1>12, <1>13, <1>15 DEF Orderly, Unplanned
<1>24. Planned'
  BY <1>5, <1>7, <1>12, <1>13, <1>15 DEF Orderly, Planned
<1>25. LatestUnderProof'
  BY <1>5, <1>7, <1>12, <1>13 DEF Orderly, LatestUnderProof
<1>26. ReadyIsProven'
  BY <1>13 DEF Orderly, ReadyIsProven
<1>27. Waiting'
  BY <1>5, <1>7, <1>12, <1>13, <1>15, <1>9, <1>11 DEF Orderly, Waiting
<1>28. ReEngaging'
  BY <1>5, <1>7, <1>12, <1>13, <1>15 DEF Orderly, ReEngaging
<1>29. Finishing'
  BY <1>5, <1>7, <1>12, <1>13, <1>15, <1>9, <1>11 DEF Orderly, Finishing
<1>30. Settles(Worker)'
  BY <1>5, <1>12, <1>13, <1>14, <1>15 DEF Orderly, Settles, Worker
<1>31. Settles(Verifier)'
  <2>1. CASE p = "verifier"
    BY <1>14, <2>1 DEF Verifier
  <2>2. CASE p # "verifier"
    <3>1. Settles(Verifier) /\ Verifier' = Verifier /\ Call' = Call
      BY <1>12, <1>13, <2>2 DEF Orderly
    <3>2. ~Drives => ~Drives'
      BY <1>5, <1>7, <1>12
    <3> QED
      BY <1>13, <3>1, <3>2 DEF Settles
  <2> QED
    BY <2>1, <2>2
<1>32. Settles(Reaper)'
  BY <1>5, <1>12, <1>13, <1>14, <1>15 DEF Orderly, Settles, Reaper
<1>33. Reading'
  BY <1>5, <1>7, <1>12, <1>13, <1>15 DEF Orderly, Reading
<1>34. Attempts'
  BY <1>5, <1>7, <1>12, <1>13, <1>15, <1>t DEF Orderly, Attempts
<1>35. Vocabulary'
  BY <1>13 DEF Orderly, Vocabulary
<1> QED
  BY <1>20, <1>21, <1>22, <1>23, <1>24, <1>25, <1>26, <1>27, <1>28, <1>29, <1>30, <1>31, <1>32,
     <1>33, <1>34, <1>35 DEF Orderly

(* The ship gate reads the Deliverables' proof and keeps Orderly.          *)
LEMMA ShipGateOrderly ==
    ASSUME OneCallAtATime, VerdictInv, Orderly, NEW p \in Sessions, ShipGate(p)
    PROVE  Orderly'
<1>t. Typed
  BY TypedParts
<1> DEFINE pc == IF HasVerifiedProof THEN "ship" ELSE "done"
           new == [session[p] EXCEPT !.pc = pc]
<1>1. /\ session[p].pc = "gate" /\ Become(p, new)
      /\ UNCHANGED <<request, step, running, deliverables, openDecisions, closedDecisions,
                     requestQueue, proofQueue, mode, handler>>
  BY Zenon DEF ShipGate, Goto, At, decisions, queues
<1>2. session[p] \in SessionType
  BY Fields DEF VerdictInv, TypeInv
<1>3. /\ new.step = session[p].step /\ new.nth = session[p].nth /\ new.kind = session[p].kind
      /\ new.cont = session[p].cont /\ new.view = session[p].view /\ new.pc = pc
      /\ pc \in {"ship", "done"}
  BY <1>2 DEF SessionType
<1> HIDE DEF new, pc
<1>5. /\ GoesTo(p, pc) /\ Call' = Call /\ Queued' = Queued /\ pc \in {"ship", "done"}
      /\ UNCHANGED <<request, step, running, deliverables, openDecisions, closedDecisions,
                     requestQueue, proofQueue, mode, handler>>
  <2>1. Call' = Call /\ Queued' = Queued
    BY <1>1 DEF Call, Queued
  <2>2. GoesTo(p, new.pc)
    BY <1>t, <1>1, <1>3, PcMoves, Zenon
  <2> QED
    BY <1>1, <1>3, <2>1, <2>2
<1>6. /\ ~Calling /\ requestQueue = <<>> /\ ~Drives /\ proofQueue = <<>> /\ Queued = {}
      /\ AllReady /\ request = "review_ready"
      /\ p = "verifier" => Verifier.pc = "gate" /\ Rests /\ Up /\ Reaper.pc = "idle"
      /\ p = "reaper" => Reaper.pc = "gate" /\ ~Up /\ Worker.pc = "idle" /\ Verifier.pc = "idle"
      /\ Worker.pc \in {"idle", "done"} \/ ~Knows
      /\ Worker.pc \notin SettlingPCs
      /\ p \in {"verifier", "reaper"}
  <2>1. session[p].pc \in SettlingPCs /\ Settles(session[p])
    BY <1>1 DEF Orderly, Sessions, Worker, Verifier, Reaper
  <2>2. request = "review_ready" /\ AllReady
    BY <1>1, <2>1 DEF Settles
  <2>3. p # "worker"
    BY <1>1 DEF Orderly, WorkerShape, Worker
  <2> QED
    BY <1>t, <1>1, <2>1, <2>2, <2>3, SettlerAlone DEF Sessions, Worker, Verifier, Reaper
<1>7. Up => \A t \in Steps : running[t] = 0
  BY <1>t, <1>1, SettlerAlone
<1> USE DEF GoesTo
<1>10. Stopped'
  BY <1>5, <1>6 DEF Orderly, Stopped
<1>11. OneDriver'
  BY <1>5, <1>6 DEF Orderly, OneDriver
<1>12. Unplanned'
  BY <1>5, <1>6 DEF Orderly, Unplanned
<1>13. Planned'
  BY <1>5, <1>6 DEF Orderly, Planned
<1>14. LatestUnderProof'
  BY <1>5, <1>6 DEF Orderly, LatestUnderProof
<1>15. ReadyIsProven'
  BY <1>5, <1>6 DEF Orderly, ReadyIsProven
<1>16. Waiting'
  BY <1>5, <1>6 DEF Orderly, Waiting
<1>17. ReEngaging'
  BY <1>5, <1>6 DEF Orderly, ReEngaging
<1>18. KnowsRows'
  BY <1>5, <1>6 DEF Orderly, KnowsRows
<1>19. PlanAhead'
  BY <1>5, <1>6 DEF Orderly, PlanAhead
<1>20. Starting'
  BY <1>5, <1>6 DEF Orderly, Starting
<1>21. SentBackAlone'
  BY <1>5, <1>6 DEF Orderly, SentBackAlone
<1>22. Working'
  BY <1>5, <1>6 DEF Orderly, Working
<1>23. LeftBehind'
  BY <1>5, <1>6 DEF Orderly, LeftBehind
<1>24. Finishing'
  BY <1>5, <1>6 DEF Orderly, Finishing
<1>25. WorkerShape'
  BY <1>5, <1>6 DEF Orderly, WorkerShape
<1>26. Settles(Worker)'
  BY <1>5, <1>6 DEF Orderly, Settles
<1>27. Settles(Verifier)'
  BY <1>5, <1>6 DEF Orderly, Settles
<1>28. Settles(Reaper)'
  BY <1>5, <1>6 DEF Orderly, Settles
<1>29. Reading'
  BY <1>5, <1>6 DEF Orderly, Reading
<1>30. Attempts'
  BY <1>5, <1>6, <1>7 DEF Orderly, Attempts
<1>31. Vocabulary'
  BY <1>5, <1>6 DEF Orderly, Vocabulary
<1> QED
  BY <1>10, <1>11, <1>12, <1>13, <1>14, <1>15, <1>16, <1>17, <1>18, <1>19, <1>20, <1>21, <1>22,
     <1>23, <1>24, <1>25, <1>26, <1>27, <1>28, <1>29, <1>30, <1>31 DEF Orderly

(* Shipping keeps Orderly.                                                 *)
LEMMA FinalizeShipOrderly ==
    ASSUME OneCallAtATime, VerdictInv, Orderly, NEW p \in Sessions, FinalizeShip(p)
    PROVE  Orderly'
<1>t. Typed
  BY TypedParts
<1> DEFINE new == [session[p] EXCEPT !.pc = "done"]
<1>1. /\ session[p].pc = "ship" /\ Become(p, new) /\ request' = "shipped"
      /\ UNCHANGED <<step, running, deliverables, openDecisions, closedDecisions,
                     requestQueue, proofQueue, mode, handler>>
  BY Zenon DEF FinalizeShip, Goto, At, decisions, queues
<1>2. session[p] \in SessionType
  BY Fields DEF VerdictInv, TypeInv
<1>3. /\ new.step = session[p].step /\ new.nth = session[p].nth /\ new.kind = session[p].kind
      /\ new.cont = session[p].cont /\ new.view = session[p].view /\ new.pc = "done"
  BY <1>2 DEF SessionType
<1> HIDE DEF new
<1>5. /\ GoesTo(p, "done") /\ Call' = Call /\ Queued' = Queued /\ request' = "shipped"
      /\ UNCHANGED <<step, running, deliverables, openDecisions, closedDecisions,
                     requestQueue, proofQueue, mode, handler>>
  <2>1. Call' = Call /\ Queued' = Queued
    BY <1>1 DEF Call, Queued
  <2>2. GoesTo(p, new.pc)
    BY <1>t, <1>1, <1>3, PcMoves, Zenon
  <2> QED
    BY <1>1, <1>3, <2>1, <2>2
<1>6. /\ ~Calling /\ requestQueue = <<>> /\ ~Drives /\ proofQueue = <<>> /\ Queued = {}
      /\ AllReady /\ request = "review_ready"
      /\ p = "verifier" => Verifier.pc = "ship" /\ Rests /\ Up /\ Reaper.pc = "idle"
      /\ p = "reaper" => Reaper.pc = "ship" /\ ~Up /\ Worker.pc = "idle" /\ Verifier.pc = "idle"
      /\ Worker.pc \in {"idle", "done"} \/ ~Knows
      /\ Worker.pc \notin SettlingPCs
      /\ p \in {"verifier", "reaper"}
  <2>1. session[p].pc \in SettlingPCs /\ Settles(session[p])
    BY <1>1 DEF Orderly, Sessions, Worker, Verifier, Reaper
  <2>2. request = "review_ready" /\ AllReady
    BY <1>1, <2>1 DEF Settles
  <2>3. p # "worker"
    BY <1>1 DEF Orderly, WorkerShape, Worker
  <2> QED
    BY <1>t, <1>1, <2>1, <2>2, <2>3, SettlerAlone DEF Sessions, Worker, Verifier, Reaper
<1>7. Up => \A t \in Steps : running[t] = 0
  BY <1>t, <1>1, SettlerAlone
<1> USE DEF GoesTo
<1>10. Stopped'
  BY <1>5, <1>6 DEF Orderly, Stopped
<1>11. OneDriver'
  BY <1>5, <1>6 DEF Orderly, OneDriver
<1>12. Unplanned'
  BY <1>5, <1>6 DEF Orderly, Unplanned
<1>13. Planned'
  BY <1>5, <1>6 DEF Orderly, Planned
<1>14. LatestUnderProof'
  BY <1>5, <1>6 DEF Orderly, LatestUnderProof
<1>15. ReadyIsProven'
  BY <1>5, <1>6 DEF Orderly, ReadyIsProven
<1>16. Waiting'
  BY <1>5, <1>6 DEF Orderly, Waiting
<1>17. ReEngaging'
  BY <1>5, <1>6 DEF Orderly, ReEngaging
<1>18. KnowsRows'
  BY <1>5, <1>6 DEF Orderly, KnowsRows
<1>19. PlanAhead'
  BY <1>5, <1>6 DEF Orderly, PlanAhead
<1>20. Starting'
  BY <1>5, <1>6 DEF Orderly, Starting
<1>21. SentBackAlone'
  BY <1>5, <1>6 DEF Orderly, SentBackAlone
<1>22. Working'
  BY <1>5, <1>6 DEF Orderly, Working
<1>23. LeftBehind'
  BY <1>5, <1>6 DEF Orderly, LeftBehind
<1>24. Finishing'
  BY <1>5, <1>6 DEF Orderly, Finishing
<1>25. WorkerShape'
  BY <1>5, <1>6 DEF Orderly, WorkerShape
<1>26. Settles(Worker)'
  BY <1>5, <1>6 DEF Orderly, Settles
<1>27. Settles(Verifier)'
  BY <1>5, <1>6 DEF Orderly, Settles
<1>28. Settles(Reaper)'
  BY <1>5, <1>6 DEF Orderly, Settles
<1>29. Reading'
  BY <1>5, <1>6 DEF Orderly, Reading
<1>30. Attempts'
  BY <1>5, <1>6, <1>7 DEF Orderly, Attempts
<1>31. Vocabulary'
  BY <1>5, <1>6 DEF Orderly, Vocabulary
<1> QED
  BY <1>10, <1>11, <1>12, <1>13, <1>14, <1>15, <1>16, <1>17, <1>18, <1>19, <1>20, <1>21, <1>22,
     <1>23, <1>24, <1>25, <1>26, <1>27, <1>28, <1>29, <1>30, <1>31 DEF Orderly

(* The verifier, or the reaper, that closes its session keeps Orderly: its *)
(* message, or its row, is done with.                                      *)
LEMMA OthersCloseOrderly ==
    ASSUME OneCallAtATime, VerdictInv, Orderly, NEW p \in {"verifier", "reaper"},
           CloseSession(p)
    PROVE  Orderly'
<1>t. Typed
  BY TypedParts
<1>1. /\ session[p].pc = "done" /\ Become(p, IdleSession)
      /\ UNCHANGED <<request, step, running, deliverables, openDecisions, closedDecisions,
                     requestQueue, proofQueue, mode, handler>>
  BY Zenon DEF CloseSession, Close, At, decisions, queues
<1>2. /\ IdleSession.pc = "idle" /\ IdleSession.step = 1
      /\ IdleSession.view = [t \in Steps |-> "unread"]
  BY DEF IdleSession
<1>3. /\ Worker' = Worker /\ Call' = Call /\ Queued' = Queued
      /\ p = "verifier" => /\ Verifier.pc = "done" /\ Verifier'.pc = "idle" /\ Reaper' = Reaper
                           /\ \A t \in Steps : Verifier'.view[t] = "unread"
      /\ p = "reaper" => /\ Reaper.pc = "done" /\ Reaper'.pc = "idle" /\ Verifier' = Verifier
                         /\ \A t \in Steps : Reaper'.view[t] = "unread"
      /\ p \in {"verifier", "reaper"}
  <2>1. Call' = Call /\ Queued' = Queued
    BY <1>1 DEF Call, Queued
  <2>2. CASE p = "verifier"
    BY <1>1, <1>2, <2>1, <2>2, VerifierMoves DEF Sessions, Verifier
  <2>3. CASE p = "reaper"
    BY <1>1, <1>2, <2>1, <2>3, ReaperMoves DEF Sessions, Reaper
  <2> QED
    BY <2>2, <2>3
<1>4. UNCHANGED <<request, step, running, deliverables, openDecisions, closedDecisions,
                  requestQueue, proofQueue, mode, handler>>
  BY <1>1
<1>10. /\ KnowsRows' /\ PlanAhead' /\ Starting' /\ SentBackAlone' /\ Working'
        /\ LeftBehind' /\ WorkerShape'
  BY <1>3, <1>4, WorkerUndisturbed
<1>11. Stopped'
  BY <1>3, <1>4 DEF Orderly, Stopped
<1>12. OneDriver'
  BY <1>3, <1>4 DEF Orderly, OneDriver
<1>13. Unplanned'
  BY <1>3, <1>4 DEF Orderly, Unplanned
<1>14. Planned'
  BY <1>3, <1>4 DEF Orderly, Planned
<1>15. LatestUnderProof'
  BY <1>3, <1>4 DEF Orderly, LatestUnderProof
<1>16. ReadyIsProven'
  BY <1>3, <1>4 DEF Orderly, ReadyIsProven
<1>17. Waiting'
  BY <1>3, <1>4 DEF Orderly, Waiting
<1>18. ReEngaging'
  BY <1>3, <1>4 DEF Orderly, ReEngaging
<1>19. Finishing'
  BY <1>3, <1>4 DEF Orderly, Finishing
<1>20. Settles(Worker)'
  BY <1>3, <1>4 DEF Orderly, Settles
<1>21. Settles(Verifier)'
  BY <1>3, <1>4 DEF Orderly, Settles
<1>22. Settles(Reaper)'
  BY <1>3, <1>4 DEF Orderly, Settles
<1>23. Reading'
  BY <1>3, <1>4 DEF Orderly, Reading
<1>24. Attempts'
  BY <1>3, <1>4 DEF Orderly, Attempts
<1>25. Vocabulary'
  BY <1>3, <1>4 DEF Orderly, Vocabulary
<1> QED
  BY <1>10, <1>11, <1>12, <1>13, <1>14, <1>15, <1>16, <1>17, <1>18, <1>19, <1>20, <1>21, <1>22,
     <1>23, <1>24, <1>25 DEF Orderly

(* Every step of the finalization keeps Orderly.                           *)
LEMMA FinalizeOrderly ==
    ASSUME OneCallAtATime, VerdictInv, Orderly, KeepsVerdicts, NEW p \in Sessions,
           FinalizeNext(p)
    PROVE  Orderly'
<1>1. CASE FinalizeRead(p)
  BY <1>1, FinalizeReadOrderly
<1>2. CASE FinalizeStuck(p)
  BY <1>2, FinalizeStuckOrderly
<1>3. CASE FinalizeDecide(p)
  BY <1>3, FinalizeDecideOrderly
<1>4. CASE FinalizeReady(p)
  BY <1>4, FinalizeReadyOrderly
<1>5. CASE ShipGate(p)
  BY <1>5, ShipGateOrderly
<1>6. CASE FinalizeShip(p)
  BY <1>6, FinalizeShipOrderly
<1>7. CASE CloseSession(p) /\ p = "worker"
  <2>1. /\ Worker.pc = "done" /\ Become("worker", IdleSession)
        /\ UNCHANGED <<request, step, running, deliverables, openDecisions, closedDecisions,
                       requestQueue, proofQueue, mode, handler>>
    BY <1>7, Zenon DEF CloseSession, Close, At, decisions, queues, Worker
  <2>2. Up
    BY <2>1 DEF Orderly, Stopped
  <2>3. \A t \in Steps : running[t] = 0
    BY <2>1, <2>2, NoneLeftOpen, TypedParts
  <2> QED
    BY <2>1, <2>2, <2>3, WorkerClosesOrderly
<1>8. CASE CloseSession(p) /\ p # "worker"
  BY <1>8, OthersCloseOrderly DEF Sessions
<1> QED
  BY <1>1, <1>2, <1>3, <1>4, <1>5, <1>6, <1>7, <1>8 DEF FinalizeNext

-----------------------------------------------------------------------------
(* A step of the one API call moves that call and no session.              *)
LEMMA CallMoves ==
    ASSUME Typed, NEW h \in Handlers, NEW new, handler' = [handler EXCEPT ![h] = new],
           UNCHANGED session
    PROVE  /\ handler[h] = Call /\ Call' = new
           /\ Worker' = Worker /\ Verifier' = Verifier /\ Reaper' = Reaper
<1>1. h = Only /\ Only \in Handlers
  OBVIOUS
<1>2. handler'[h] = new
  OBVIOUS
<1> QED
  BY <1>1, <1>2 DEF Call, Worker, Verifier, Reaper

(* While a call is under way no session drives or settles, no proof is     *)
(* under way, and no attempt runs in the process.                          *)
LEMMA CallerAlone ==
    ASSUME Typed, Orderly, Calling
    PROVE  /\ Up /\ Reaper.pc = "idle" /\ requestQueue = <<>> /\ ~Drives /\ Rests
           /\ ~ProofUnderWay
           /\ \A t \in Steps : running[t] = 0
           /\ Worker.pc \notin SettlingPCs \cup AttemptPCs /\ Verifier.pc \in {"idle", "done"}
<1>1. Up /\ Reaper.pc = "idle" /\ requestQueue = <<>> /\ ~Drives /\ Rests /\ ~ProofUnderWay
  BY DEF Orderly, Stopped, OneDriver
<1>2. Worker.pc \notin SettlingPCs \cup AttemptPCs
  BY <1>1 DEF Orderly, Settles
<1>3. \A t \in Steps : running[t] = 0
  BY <1>1, <1>2 DEF Orderly, Attempts
<1> QED
  BY <1>1, <1>2, <1>3

(* Enqueueing the Direction's plan keeps Orderly.                          *)
LEMMA EnqueueRequestOrderly ==
    ASSUME OneCallAtATime, VerdictInv, Orderly, NEW h \in Handlers, EnqueueRequest(h)
    PROVE  Orderly'
<1>t. Typed
  BY TypedParts
<1>1. /\ Up /\ handler[h].pc = "enqueueRequest"
      /\ \/ requestQueue' = Append(requestQueue, [kind |-> "plan", step |-> 1])
         \/ requestQueue' = requestQueue
      /\ handler' = [handler EXCEPT ![h] = IdleHandler] /\ UNCHANGED session
      /\ UNCHANGED <<request, step, running, deliverables, openDecisions, closedDecisions,
                     proofQueue, mode>>
  BY Zenon DEF EnqueueRequest, decisions
<1>2. /\ Call.pc = "enqueueRequest" /\ Call' = IdleHandler
      /\ Worker' = Worker /\ Verifier' = Verifier /\ Reaper' = Reaper
  BY <1>t, <1>1, CallMoves, Zenon
<1>3. /\ Up /\ Reaper.pc = "idle" /\ requestQueue = <<>> /\ ~Drives /\ Rests /\ ~ProofUnderWay
      /\ \A t \in Steps : running[t] = 0
      /\ Worker.pc \notin SettlingPCs
      /\ request = "open"
      /\ Verifier.pc \in {"idle", "done"}
  <2>1. request = "open"
    BY <1>2 DEF Orderly, Unplanned, Planned
  <2> QED
    BY <1>t, <1>2, <2>1, CallerAlone
<1>4. /\ \/ requestQueue' = <<[kind |-> "plan", step |-> 1]>>
         \/ requestQueue' = <<>>
      /\ Call'.pc = "idle" /\ Queued' = Queued
      /\ Worker' = Worker /\ Verifier' = Verifier /\ Reaper' = Reaper
      /\ UNCHANGED <<request, step, running, deliverables, openDecisions, closedDecisions,
                     proofQueue, mode>>
  <2>1. Append(<<>>, [kind |-> "plan", step |-> 1]) = <<[kind |-> "plan", step |-> 1]>>
    OBVIOUS
  <2>2. Call'.pc = "idle" /\ Queued' = Queued
    BY <1>1, <1>2 DEF IdleHandler, Queued
  <2> QED
    BY <1>1, <1>2, <1>3, <2>1, <2>2
<1>5. requestQueue' # <<>> =>
          /\ Len(requestQueue') = 1
          /\ requestQueue'[1].kind = "plan" /\ requestQueue'[1].step = 1
  BY <1>4
<1>10. /\ KnowsRows' /\ PlanAhead' /\ Starting' /\ SentBackAlone' /\ Working'
        /\ LeftBehind' /\ WorkerShape'
  BY <1>4, WorkerUndisturbed
<1>11. Stopped'
  BY <1>3, <1>4 DEF Orderly, Stopped
<1>12. OneDriver'
  BY <1>3, <1>4, <1>5 DEF Orderly, OneDriver
<1>13. Unplanned'
  BY <1>3, <1>4, <1>5 DEF Orderly, Unplanned
<1>14. Planned'
  BY <1>3, <1>4 DEF Orderly, Planned
<1>15. LatestUnderProof'
  BY <1>3, <1>4 DEF Orderly, LatestUnderProof
<1>16. ReadyIsProven'
  BY <1>3, <1>4 DEF Orderly, ReadyIsProven
<1>17. Waiting'
  BY <1>3, <1>4 DEF Orderly, Waiting
<1>18. ReEngaging'
  BY <1>3, <1>4, <1>5 DEF Orderly, ReEngaging
<1>19. Finishing'
  BY <1>3, <1>4 DEF Orderly, Finishing
<1>20. Settles(Worker)'
  BY <1>3, <1>4 DEF Orderly, Settles
<1>21. Settles(Verifier)'
  BY <1>3, <1>4 DEF Orderly, Settles
<1>22. Settles(Reaper)'
  BY <1>3, <1>4 DEF Orderly, Settles
<1>23. Reading'
  BY <1>3, <1>4 DEF Orderly, Reading
<1>24. Attempts'
  BY <1>3, <1>4 DEF Orderly, Attempts
<1>25. Vocabulary'
  BY <1>3, <1>4 DEF Orderly, Vocabulary
<1> QED
  BY <1>10, <1>11, <1>12, <1>13, <1>14, <1>15, <1>16, <1>17, <1>18, <1>19, <1>20, <1>21, <1>22,
     <1>23, <1>24, <1>25 DEF Orderly

(* Reading whether the Request waits keeps Orderly.                        *)
LEMMA ReEngageReadOrderly ==
    ASSUME OneCallAtATime, VerdictInv, Orderly, NEW h \in Handlers, ReEngageRead(h)
    PROVE  Orderly'
<1>t. Typed
  BY TypedParts
<1> DEFINE new == IF request = "needs_decision" THEN [Call EXCEPT !.pc = "reEngageRequest"]
                  ELSE IdleHandler
<1>1. /\ Up /\ handler[h].pc = "reEngage"
      /\ handler' = [handler EXCEPT ![h] = new] /\ UNCHANGED session
      /\ UNCHANGED <<request, step, running, deliverables, openDecisions, closedDecisions,
                     requestQueue, proofQueue, mode>>
  <2>1. handler[h] = Call
    BY <1>t DEF Call
  <2> QED
    BY <2>1 DEF ReEngageRead, HandlerGoto, decisions, queues
<1>2. /\ Call.pc = "reEngage" /\ Call' = new
      /\ Worker' = Worker /\ Verifier' = Verifier /\ Reaper' = Reaper
  BY <1>t, <1>1, CallMoves, Zenon
<1>3. /\ Call.pc = "reEngage" /\ Call'.pc \in {"idle", "reEngageRequest"}
      /\ Call'.pc = "reEngageRequest" => Call'.step = Call.step /\ request = "needs_decision"
      /\ Worker' = Worker /\ Verifier' = Verifier /\ Reaper' = Reaper /\ Queued' = Queued
      /\ UNCHANGED <<request, step, running, deliverables, openDecisions, closedDecisions,
                     requestQueue, proofQueue, mode>>
  <2>1. Queued' = Queued
    BY <1>1 DEF Queued
  <2>2. Call \in [pc : HandlerPCs, step : Steps, nth : Nat]
    BY <1>t DEF Call
  <2> QED
    BY <1>1, <1>2, <2>1, <2>2 DEF IdleHandler
<1>10. /\ KnowsRows' /\ PlanAhead' /\ Starting' /\ SentBackAlone' /\ Working'
        /\ LeftBehind' /\ WorkerShape'
  BY <1>3, WorkerUndisturbed
<1>11. Stopped'
  BY <1>3 DEF Orderly, Stopped
<1>12. OneDriver'
  BY <1>3 DEF Orderly, OneDriver
<1>13. Unplanned'
  BY <1>3 DEF Orderly, Unplanned
<1>14. Planned'
  BY <1>3 DEF Orderly, Planned
<1>15. LatestUnderProof'
  BY <1>3 DEF Orderly, LatestUnderProof
<1>16. ReadyIsProven'
  BY <1>3 DEF Orderly, ReadyIsProven
<1>17. Waiting'
  BY <1>3 DEF Orderly, Waiting
<1>18. ReEngaging'
  BY <1>3 DEF Orderly, ReEngaging
<1>19. Finishing'
  BY <1>3 DEF Orderly, Finishing
<1>20. Settles(Worker)'
  BY <1>3 DEF Orderly, Settles
<1>21. Settles(Verifier)'
  BY <1>3 DEF Orderly, Settles
<1>22. Settles(Reaper)'
  BY <1>3 DEF Orderly, Settles
<1>23. Reading'
  BY <1>3 DEF Orderly, Reading
<1>24. Attempts'
  BY <1>3 DEF Orderly, Attempts
<1>25. Vocabulary'
  BY <1>3 DEF Orderly, Vocabulary
<1> QED
  BY <1>10, <1>11, <1>12, <1>13, <1>14, <1>15, <1>16, <1>17, <1>18, <1>19, <1>20, <1>21, <1>22,
     <1>23, <1>24, <1>25 DEF Orderly

(* Resuming the Request keeps Orderly.                                     *)
LEMMA ReEngageRequestOrderly ==
    ASSUME OneCallAtATime, VerdictInv, Orderly, NEW h \in Handlers, ReEngageRequest(h)
    PROVE  Orderly'
<1>t. Typed
  BY TypedParts
<1> DEFINE new == [Call EXCEPT !.pc = "reEngageStep"]
<1>1. /\ Up /\ handler[h].pc = "reEngageRequest" /\ request' = "running"
      /\ handler' = [handler EXCEPT ![h] = new] /\ UNCHANGED session
      /\ UNCHANGED <<step, running, deliverables, openDecisions, closedDecisions,
                     requestQueue, proofQueue, mode>>
  <2>1. handler[h] = Call
    BY <1>t DEF Call
  <2> QED
    BY <2>1 DEF ReEngageRequest, HandlerGoto, decisions, queues
<1>2. /\ Call.pc = "reEngageRequest" /\ Call' = new
      /\ Worker' = Worker /\ Verifier' = Verifier /\ Reaper' = Reaper
  BY <1>t, <1>1, CallMoves, Zenon
<1>3. /\ Call.pc = "reEngageRequest" /\ Call'.pc = "reEngageStep" /\ Call'.step = Call.step
      /\ request' = "running"
      /\ Worker' = Worker /\ Verifier' = Verifier /\ Reaper' = Reaper /\ Queued' = Queued
      /\ UNCHANGED <<step, running, deliverables, openDecisions, closedDecisions,
                     requestQueue, proofQueue, mode>>
  <2>1. Queued' = Queued
    BY <1>1 DEF Queued
  <2>2. Call \in [pc : HandlerPCs, step : Steps, nth : Nat]
    BY <1>t DEF Call
  <2> QED
    BY <1>1, <1>2, <2>1, <2>2
<1>4. /\ Up /\ Reaper.pc = "idle" /\ requestQueue = <<>> /\ ~Drives /\ Rests /\ ~ProofUnderWay
      /\ \A t \in Steps : running[t] = 0
      /\ Worker.pc \notin SettlingPCs /\ Verifier.pc \in {"idle", "done"}
  BY <1>t, <1>2, CallerAlone
<1>5. request = "needs_decision" /\ \A t \in Steps : Ended(t)
  BY <1>3 DEF Orderly, ReEngaging, Waiting
<1>10. Stopped'
  BY <1>3, <1>4, <1>5 DEF Orderly, Stopped
<1>11. OneDriver'
  BY <1>3, <1>4, <1>5 DEF Orderly, OneDriver
<1>12. Unplanned'
  BY <1>3, <1>4, <1>5 DEF Orderly, Unplanned
<1>13. Planned'
  BY <1>3, <1>4, <1>5 DEF Orderly, Planned
<1>14. LatestUnderProof'
  BY <1>3, <1>4, <1>5 DEF Orderly, LatestUnderProof
<1>15. ReadyIsProven'
  BY <1>3, <1>4, <1>5 DEF Orderly, ReadyIsProven
<1>16. Waiting'
  BY <1>3, <1>4, <1>5 DEF Orderly, Waiting
<1>17. ReEngaging'
  BY <1>3, <1>4, <1>5 DEF Orderly, ReEngaging
<1>18. KnowsRows'
  BY <1>3, <1>4, <1>5 DEF Orderly, KnowsRows
<1>19. PlanAhead'
  BY <1>3, <1>4, <1>5 DEF Orderly, PlanAhead
<1>20. Starting'
  BY <1>3, <1>4, <1>5 DEF Orderly, Starting
<1>21. SentBackAlone'
  BY <1>3, <1>4, <1>5 DEF Orderly, SentBackAlone
<1>22. Working'
  BY <1>3, <1>4, <1>5 DEF Orderly, Working
<1>23. LeftBehind'
  BY <1>3, <1>4, <1>5 DEF Orderly, LeftBehind
<1>24. Finishing'
  BY <1>3, <1>4, <1>5 DEF Orderly, Finishing
<1>25. WorkerShape'
  BY <1>3, <1>4, <1>5 DEF Orderly, WorkerShape
<1>26. Settles(Worker)'
  BY <1>3, <1>4, <1>5 DEF Orderly, Settles
<1>27. Settles(Verifier)'
  BY <1>3, <1>4, <1>5 DEF Orderly, Settles
<1>28. Settles(Reaper)'
  BY <1>3, <1>4, <1>5 DEF Orderly, Settles
<1>29. Reading'
  BY <1>3, <1>4, <1>5 DEF Orderly, Reading
<1>30. Attempts'
  BY <1>3, <1>4, <1>5 DEF Orderly, Attempts
<1>31. Vocabulary'
  BY <1>3, <1>4, <1>5 DEF Orderly, Vocabulary
<1> QED
  BY <1>10, <1>11, <1>12, <1>13, <1>14, <1>15, <1>16, <1>17, <1>18, <1>19, <1>20, <1>21, <1>22,
     <1>23, <1>24, <1>25, <1>26, <1>27, <1>28, <1>29, <1>30, <1>31 DEF Orderly

(* Reading whether the WorkStep is stuck keeps Orderly.                    *)
LEMMA ReEngageStepReadOrderly ==
    ASSUME OneCallAtATime, VerdictInv, Orderly, NEW h \in Handlers, ReEngageStepRead(h)
    PROVE  Orderly'
<1>t. Typed
  BY TypedParts
<1> DEFINE pc == IF step[Call.step] \in Stuck THEN "reEngageMove" ELSE "publishReEngage"
           new == [Call EXCEPT !.pc = pc]
<1>1. /\ Up /\ handler[h].pc = "reEngageStep"
      /\ handler' = [handler EXCEPT ![h] = new] /\ UNCHANGED session
      /\ UNCHANGED <<request, step, running, deliverables, openDecisions, closedDecisions,
                     requestQueue, proofQueue, mode>>
  <2>1. handler[h] = Call
    BY <1>t DEF Call
  <2> QED
    BY <2>1 DEF ReEngageStepRead, HandlerGoto, decisions, queues
<1>2. /\ Call.pc = "reEngageStep" /\ Call' = new
      /\ Worker' = Worker /\ Verifier' = Verifier /\ Reaper' = Reaper
  BY <1>t, <1>1, CallMoves, Zenon
<1>3. /\ Call.pc = "reEngageStep" /\ Call'.step = Call.step
      /\ Call'.pc \in {"reEngageMove", "publishReEngage"}
      /\ Call'.pc = "reEngageMove" <=> step[Call.step] \in Stuck
      /\ Worker' = Worker /\ Verifier' = Verifier /\ Reaper' = Reaper /\ Queued' = Queued
      /\ UNCHANGED <<request, step, running, deliverables, openDecisions, closedDecisions,
                     requestQueue, proofQueue, mode>>
  <2>1. Queued' = Queued
    BY <1>1 DEF Queued
  <2>2. Call \in [pc : HandlerPCs, step : Steps, nth : Nat]
    BY <1>t DEF Call
  <2> QED
    BY <1>1, <1>2, <2>1, <2>2
<1>4. request = "running" /\ (\A t \in Steps : Ended(t)) /\ step[Call.step] # "absent"
  BY <1>3 DEF Orderly, ReEngaging
<1>10. /\ KnowsRows' /\ PlanAhead' /\ Starting' /\ SentBackAlone' /\ Working'
        /\ LeftBehind' /\ WorkerShape'
  BY <1>3, WorkerUndisturbed
<1>11. Stopped'
  BY <1>3 DEF Orderly, Stopped
<1>12. OneDriver'
  BY <1>3 DEF Orderly, OneDriver
<1>13. Unplanned'
  BY <1>3 DEF Orderly, Unplanned
<1>14. Planned'
  BY <1>3 DEF Orderly, Planned
<1>15. LatestUnderProof'
  BY <1>3 DEF Orderly, LatestUnderProof
<1>16. ReadyIsProven'
  BY <1>3 DEF Orderly, ReadyIsProven
<1>17. Waiting'
  BY <1>3 DEF Orderly, Waiting
<1>18. ReEngaging'
  BY <1>3, <1>t, <1>4 DEF Orderly, ReEngaging
<1>19. Finishing'
  BY <1>3 DEF Orderly, Finishing
<1>20. Settles(Worker)'
  BY <1>3 DEF Orderly, Settles
<1>21. Settles(Verifier)'
  BY <1>3 DEF Orderly, Settles
<1>22. Settles(Reaper)'
  BY <1>3 DEF Orderly, Settles
<1>23. Reading'
  BY <1>3 DEF Orderly, Reading
<1>24. Attempts'
  BY <1>3 DEF Orderly, Attempts
<1>25. Vocabulary'
  BY <1>3 DEF Orderly, Vocabulary
<1> QED
  BY <1>10, <1>11, <1>12, <1>13, <1>14, <1>15, <1>16, <1>17, <1>18, <1>19, <1>20, <1>21, <1>22,
     <1>23, <1>24, <1>25 DEF Orderly

(* Sending a stuck WorkStep back keeps Orderly.                            *)
LEMMA ReEngageStepOrderly ==
    ASSUME OneCallAtATime, VerdictInv, Orderly, NEW h \in Handlers, ReEngageStep(h)
    PROVE  Orderly'
<1>t. Typed
  BY TypedParts
<1> DEFINE new == [Call EXCEPT !.pc = "publishReEngage"]
<1>1. /\ Up /\ handler[h].pc = "reEngageMove"
      /\ step' = [step EXCEPT ![Call.step] = "running"]
      /\ handler' = [handler EXCEPT ![h] = new] /\ UNCHANGED session
      /\ UNCHANGED <<request, running, deliverables, openDecisions, closedDecisions,
                     requestQueue, proofQueue, mode>>
  <2>1. handler[h] = Call
    BY <1>t DEF Call
  <2> QED
    BY <2>1 DEF ReEngageStep, HandlerGoto, decisions, queues
<1>2. /\ Call.pc = "reEngageMove" /\ Call' = new
      /\ Worker' = Worker /\ Verifier' = Verifier /\ Reaper' = Reaper
  BY <1>t, <1>1, CallMoves, Zenon
<1>3. /\ Call.pc = "reEngageMove" /\ Call'.pc = "publishReEngage" /\ Call'.step = Call.step
      /\ \A t \in Steps : step'[t] = IF t = Call.step THEN "running" ELSE step[t]
      /\ Worker' = Worker /\ Verifier' = Verifier /\ Reaper' = Reaper /\ Queued' = Queued
      /\ UNCHANGED <<request, running, deliverables, openDecisions, closedDecisions,
                     requestQueue, proofQueue, mode>>
  <2>1. Queued' = Queued
    BY <1>1 DEF Queued
  <2>2. Call \in [pc : HandlerPCs, step : Steps, nth : Nat]
    BY <1>t DEF Call
  <2>3. \A t \in Steps : step'[t] = IF t = Call.step THEN "running" ELSE step[t]
    BY <1>t, <1>1
  <2> QED
    BY <1>1, <1>2, <2>1, <2>2, <2>3
<1>4. /\ Up /\ Reaper.pc = "idle" /\ requestQueue = <<>> /\ ~Drives /\ Rests /\ ~ProofUnderWay
      /\ \A t \in Steps : running[t] = 0
      /\ Worker.pc \notin SettlingPCs /\ Verifier.pc \in {"idle", "done"}
  BY <1>t, <1>2, CallerAlone
<1>5. /\ request = "running" /\ \A t \in Steps : Ended(t)
      /\ step[Call.step] \in Stuck
  BY <1>3 DEF Orderly, ReEngaging
<1>6. Queued = {}
  BY <1>4, QueuedEmpty
<1>10. Stopped'
  BY <1>3, <1>4, <1>5 DEF Orderly, Stopped
<1>11. OneDriver'
  BY <1>3, <1>4, <1>5 DEF Orderly, OneDriver
<1>12. Unplanned'
  BY <1>3, <1>4, <1>5 DEF Orderly, Unplanned
<1>13. Planned'
  BY <1>3, <1>4, <1>5, <1>t DEF Orderly, Planned
<1>14. LatestUnderProof'
  BY <1>3, <1>4, <1>5, <1>6 DEF Orderly, LatestUnderProof
<1>15. ReadyIsProven'
  BY <1>3, <1>4, <1>5 DEF Orderly, ReadyIsProven
<1>16. Waiting'
  BY <1>3, <1>4, <1>5 DEF Orderly, Waiting
<1>17. ReEngaging'
  <2>1. ReEngaging /\ Call.step \in Steps
    BY <1>t DEF Orderly, Call
  <2>2. step'[Call.step] = "running" /\ \A t \in Steps \ {Call.step} : step'[t] = step[t]
    BY <1>3, <2>1
  <2>3. Engaged(Call.step)'
    BY <1>3, <1>5, <2>2 DEF Engaged, Ended
  <2> QED
    BY <1>3, <1>4, <2>1, <2>2, <2>3 DEF ReEngaging, Drives
<1>18. KnowsRows'
  BY <1>3, <1>4, <1>5 DEF Orderly, KnowsRows
<1>19. PlanAhead'
  BY <1>3, <1>4, <1>5 DEF Orderly, PlanAhead
<1>20. Starting'
  BY <1>3, <1>4, <1>5 DEF Orderly, Starting
<1>21. SentBackAlone'
  BY <1>3, <1>4, <1>5 DEF Orderly, SentBackAlone
<1>22. Working'
  BY <1>3, <1>4, <1>5 DEF Orderly, Working
<1>23. LeftBehind'
  BY <1>3, <1>4, <1>5, <1>t DEF Orderly, LeftBehind
<1>24. Finishing'
  BY <1>3, <1>4, <1>5 DEF Orderly, Finishing
<1>25. WorkerShape'
  BY <1>3, <1>4, <1>5, <1>t DEF Orderly, WorkerShape
<1>26. Settles(Worker)'
  BY <1>3, <1>4, <1>5 DEF Orderly, Settles
<1>27. Settles(Verifier)'
  BY <1>3, <1>4, <1>5 DEF Orderly, Settles
<1>28. Settles(Reaper)'
  BY <1>3, <1>4, <1>5 DEF Orderly, Settles
<1>29. Reading'
  BY <1>3, <1>4, <1>5 DEF Orderly, Reading
<1>30. Attempts'
  BY <1>3, <1>4, <1>5 DEF Orderly, Attempts
<1>31. Vocabulary'
  BY <1>3, <1>4, <1>5 DEF Orderly, Vocabulary
<1> QED
  BY <1>10, <1>11, <1>12, <1>13, <1>14, <1>15, <1>16, <1>17, <1>18, <1>19, <1>20, <1>21, <1>22,
     <1>23, <1>24, <1>25, <1>26, <1>27, <1>28, <1>29, <1>30, <1>31 DEF Orderly

(* Enqueueing the WorkStep that is sent back keeps Orderly: the entry      *)
(* takes over from the call.                                               *)
LEMMA PublishReEngageOrderly ==
    ASSUME OneCallAtATime, VerdictInv, Orderly, NEW h \in Handlers, PublishReEngage(h)
    PROVE  Orderly'
<1>t. Typed
  BY TypedParts
<1> DEFINE m == [kind |-> "re_engage", step |-> Call.step]
<1>1. /\ Up /\ handler[h].pc = "publishReEngage"
      /\ requestQueue' = Append(requestQueue, m) \/ requestQueue' = requestQueue
      /\ handler' = [handler EXCEPT ![h] = IdleHandler] /\ UNCHANGED session
      /\ UNCHANGED <<request, step, running, deliverables, openDecisions, closedDecisions,
                     proofQueue, mode>>
  <2>1. handler[h] = Call
    BY <1>t DEF Call
  <2> QED
    BY <2>1, Zenon DEF PublishReEngage, decisions
<1>2. /\ Call.pc = "publishReEngage" /\ Call' = IdleHandler
      /\ Worker' = Worker /\ Verifier' = Verifier /\ Reaper' = Reaper
  BY <1>t, <1>1, CallMoves, Zenon
<1>3. /\ Up /\ Reaper.pc = "idle" /\ requestQueue = <<>> /\ ~Drives /\ Rests /\ ~ProofUnderWay
      /\ \A t \in Steps : running[t] = 0
      /\ Worker.pc \notin SettlingPCs
      /\ Engaged(Call.step)
      /\ Verifier.pc \in {"idle", "done"}
  <2>1. Engaged(Call.step)
    BY <1>2 DEF Orderly, ReEngaging
  <2> QED
    BY <1>t, <1>2, <2>1, CallerAlone
<1>4. /\ requestQueue' = <<m>> \/ requestQueue' = <<>>
      /\ Call'.pc = "idle" /\ Queued' = Queued
      /\ Worker' = Worker /\ Verifier' = Verifier /\ Reaper' = Reaper
      /\ UNCHANGED <<request, step, running, deliverables, openDecisions, closedDecisions,
                     proofQueue, mode>>
  <2>1. Append(<<>>, m) = <<m>>
    OBVIOUS
  <2>2. Call'.pc = "idle" /\ Queued' = Queued
    BY <1>1, <1>2 DEF IdleHandler, Queued
  <2> QED
    BY <1>1, <1>2, <1>3, <2>1, <2>2
<1>5. requestQueue' # <<>> =>
          /\ Len(requestQueue') = 1
          /\ requestQueue'[1].kind = "re_engage" /\ requestQueue'[1].step = Call.step
  BY <1>4
<1> HIDE DEF m
<1>10. /\ KnowsRows' /\ PlanAhead' /\ Starting' /\ SentBackAlone' /\ Working'
        /\ LeftBehind' /\ WorkerShape'
  BY <1>4, WorkerUndisturbed
<1>11. Stopped'
  BY <1>3, <1>4 DEF Orderly, Stopped
<1>12. OneDriver'
  BY <1>3, <1>4, <1>5 DEF Orderly, OneDriver
<1>13. Unplanned'
  BY <1>3, <1>4 DEF Orderly, Unplanned
<1>14. Planned'
  BY <1>3, <1>4, <1>5 DEF Orderly, Planned
<1>15. LatestUnderProof'
  BY <1>3, <1>4 DEF Orderly, LatestUnderProof
<1>16. ReadyIsProven'
  BY <1>3, <1>4 DEF Orderly, ReadyIsProven
<1>17. Waiting'
  BY <1>3, <1>4 DEF Orderly, Waiting
<1>18. ReEngaging'
  BY <1>3, <1>4, <1>5 DEF Orderly, ReEngaging
<1>19. Finishing'
  BY <1>3, <1>4 DEF Orderly, Finishing
<1>20. Settles(Worker)'
  BY <1>3, <1>4 DEF Orderly, Settles
<1>21. Settles(Verifier)'
  BY <1>3, <1>4 DEF Orderly, Settles
<1>22. Settles(Reaper)'
  BY <1>3, <1>4 DEF Orderly, Settles
<1>23. Reading'
  BY <1>3, <1>4 DEF Orderly, Reading
<1>24. Attempts'
  BY <1>3, <1>4 DEF Orderly, Attempts
<1>25. Vocabulary'
  BY <1>3, <1>4 DEF Orderly, Vocabulary
<1> QED
  BY <1>10, <1>11, <1>12, <1>13, <1>14, <1>15, <1>16, <1>17, <1>18, <1>19, <1>20, <1>21, <1>22,
     <1>23, <1>24, <1>25 DEF Orderly

(* A call that has started keeps Orderly until its end.                    *)
LEMMA HandlerOrderly ==
    ASSUME OneCallAtATime, VerdictInv, Orderly, NEW h \in Handlers, HandlerNext(h)
    PROVE  Orderly'
<1>1. ~EnqueueProof(h)
  BY DEF VerdictInv, NobodyReverifies, EnqueueProof
<1> QED
  BY <1>1, EnqueueRequestOrderly, ReEngageReadOrderly, ReEngageRequestOrderly,
     ReEngageStepReadOrderly, ReEngageStepOrderly, PublishReEngageOrderly DEF HandlerNext

-----------------------------------------------------------------------------
(* A Direction that is posted keeps Orderly: the call carries it on.       *)
LEMMA PostDirectionOrderly ==
    ASSUME OneCallAtATime, VerdictInv, Orderly, NEW h \in Handlers, PostDirection(h)
    PROVE  Orderly'
<1>t. Typed
  BY TypedParts
<1> DEFINE new == [Call EXCEPT !.pc = "enqueueRequest"]
<1>1. /\ Up /\ handler[h].pc = "idle" /\ request = "absent" /\ request' = "open"
      /\ handler' = [handler EXCEPT ![h] = new] /\ UNCHANGED session
      /\ UNCHANGED <<step, running, deliverables, openDecisions, closedDecisions,
                     requestQueue, proofQueue, mode>>
  <2>1. handler[h] = Call
    BY <1>t DEF Call
  <2> QED
    BY <2>1 DEF PostDirection, HandlerGoto, decisions, queues
<1>2. /\ Call.pc = "idle" /\ Call' = new
      /\ Worker' = Worker /\ Verifier' = Verifier /\ Reaper' = Reaper
  BY <1>t, <1>1, CallMoves, Zenon
<1>3. /\ Call'.pc = "enqueueRequest" /\ Up /\ request = "absent" /\ request' = "open"
      /\ Worker' = Worker /\ Verifier' = Verifier /\ Reaper' = Reaper /\ Queued' = Queued
      /\ UNCHANGED <<step, running, deliverables, openDecisions, closedDecisions,
                     requestQueue, proofQueue, mode>>
  <2>1. Queued' = Queued
    BY <1>1 DEF Queued
  <2>2. Call \in [pc : HandlerPCs, step : Steps, nth : Nat]
    BY <1>t DEF Call
  <2> QED
    BY <1>1, <1>2, <2>1, <2>2
<1>4. /\ \A t \in Steps : step[t] = "absent" /\ running[t] = 0
      /\ requestQueue = <<>> /\ ~ProofUnderWay
      /\ Worker.pc = "idle" /\ Reaper.pc = "idle" /\ Verifier.pc \notin SettlingPCs
  BY <1>3 DEF Orderly, Unplanned, OneDriver
<1>5. Queued = {}
  BY <1>4, QueuedEmpty
<1>10. Stopped'
  BY <1>3, <1>4 DEF Orderly, Stopped
<1>11. OneDriver'
  BY <1>3, <1>4 DEF Orderly, OneDriver
<1>12. Unplanned'
  BY <1>3, <1>4 DEF Orderly, Unplanned
<1>13. Planned'
  BY <1>3, <1>4 DEF Orderly, Planned
<1>14. LatestUnderProof'
  BY <1>3, <1>4, <1>5 DEF Orderly, LatestUnderProof
<1>15. ReadyIsProven'
  BY <1>3, <1>4 DEF Orderly, ReadyIsProven
<1>16. Waiting'
  BY <1>3, <1>4 DEF Orderly, Waiting
<1>17. ReEngaging'
  BY <1>3, <1>4 DEF Orderly, ReEngaging
<1>18. KnowsRows'
  BY <1>3, <1>4 DEF Orderly, KnowsRows
<1>19. PlanAhead'
  BY <1>3, <1>4 DEF Orderly, PlanAhead
<1>20. Starting'
  BY <1>3, <1>4 DEF Orderly, Starting
<1>21. SentBackAlone'
  BY <1>3, <1>4 DEF Orderly, SentBackAlone
<1>22. Working'
  BY <1>3, <1>4 DEF Orderly, Working
<1>23. LeftBehind'
  BY <1>3, <1>4 DEF Orderly, LeftBehind
<1>24. Finishing'
  BY <1>3, <1>4 DEF Orderly, Finishing
<1>25. WorkerShape'
  BY <1>3, <1>4 DEF Orderly, WorkerShape
<1>26. Settles(Worker)'
  BY <1>3, <1>4 DEF Orderly, Settles
<1>27. Settles(Verifier)'
  BY <1>3, <1>4 DEF Orderly, Settles
<1>28. Settles(Reaper)'
  BY <1>3, <1>4 DEF Orderly, Settles
<1>29. Reading'
  BY <1>3, <1>4 DEF Orderly, Reading
<1>30. Attempts'
  BY <1>3, <1>4 DEF Orderly, Attempts
<1>31. Vocabulary'
  BY <1>3, <1>4 DEF Orderly, Vocabulary
<1> QED
  BY <1>10, <1>11, <1>12, <1>13, <1>14, <1>15, <1>16, <1>17, <1>18, <1>19, <1>20, <1>21, <1>22,
     <1>23, <1>24, <1>25, <1>26, <1>27, <1>28, <1>29, <1>30, <1>31 DEF Orderly

(* A Decision that is resolved while its Request waits keeps Orderly.      *)
LEMMA ResolveDecisionOrderly ==
    ASSUME OneCallAtATime, VerdictInv, Orderly, NEW h \in Handlers, NEW s \in Steps,
           ResolveDecision(h, s)
    PROVE  Orderly'
<1>t. Typed
  BY TypedParts
<1> DEFINE new == [pc |-> "reEngage", step |-> s, nth |-> 0]
<1>1. /\ Up /\ handler[h].pc = "idle" /\ request = "needs_decision"
      /\ openDecisions[s] > 0 \/ closedDecisions[s] > 0
      /\ handler' = [handler EXCEPT ![h] = new] /\ UNCHANGED session
      /\ UNCHANGED <<request, step, running, deliverables, requestQueue, proofQueue, mode>>
  BY DEF ResolveDecision, OneCallAtATime, queues
<1>2. /\ Call.pc = "idle" /\ Call' = new
      /\ Worker' = Worker /\ Verifier' = Verifier /\ Reaper' = Reaper
  BY <1>t, <1>1, CallMoves, Zenon
<1>3. /\ Call'.pc = "reEngage" /\ Call'.step = s /\ Up /\ request = "needs_decision"
      /\ Worker' = Worker /\ Verifier' = Verifier /\ Reaper' = Reaper /\ Queued' = Queued
      /\ UNCHANGED <<request, step, running, deliverables, requestQueue, proofQueue, mode>>
  BY <1>1, <1>2 DEF Queued
<1>4. /\ requestQueue = <<>> /\ ~ProofUnderWay /\ ~Drives /\ Rests /\ Up
      /\ \A t \in Steps : Ended(t)
      /\ Reaper.pc = "idle"
      /\ Worker.pc \notin SettlingPCs /\ Verifier.pc \notin SettlingPCs
  BY <1>3 DEF Orderly, Waiting, OneDriver, Settles, Stopped
<1>5. \A t \in Steps : openDecisions'[t] + closedDecisions'[t] > 0 =>
          openDecisions[t] + closedDecisions[t] > 0
  <2>1. CASE UNCHANGED <<openDecisions, closedDecisions>>
    BY <2>1
  <2>2. CASE /\ openDecisions[s] > 0
             /\ openDecisions' = [openDecisions EXCEPT ![s] = @ - 1]
             /\ closedDecisions' = [closedDecisions EXCEPT ![s] = @ + 1]
    <3>1. /\ openDecisions \in [Steps -> Nat] /\ closedDecisions \in [Steps -> Nat]
      BY <1>t
    <3>2. \A t \in Steps : t # s => /\ openDecisions'[t] = openDecisions[t]
                                    /\ closedDecisions'[t] = closedDecisions[t]
      BY <2>2, <3>1
    <3>3. openDecisions[s] + closedDecisions[s] > 0
      BY <2>2, <3>1
    <3> QED
      BY <3>2, <3>3
  <2> QED
    BY <2>1, <2>2 DEF ResolveDecision
<1>6. step[s] # "absent"
  <2>1. openDecisions[s] + closedDecisions[s] > 0
    BY <1>t, <1>1
  <2> QED
    BY <2>1 DEF Orderly, Vocabulary
<1>7. \A t \in Steps : ~(running[t] > 0)
  <2>1. SUFFICES ASSUME NEW t \in Steps, running[t] > 0
                 PROVE  FALSE
    OBVIOUS
  <2>2. Worker.pc \in AttemptPCs
    BY <1>3, <2>1 DEF Orderly, Attempts
  <2> QED
    BY <1>4, <2>2
<1>10. /\ KnowsRows' /\ PlanAhead' /\ Starting' /\ SentBackAlone' /\ Working'
        /\ LeftBehind' /\ WorkerShape'
  BY <1>3, WorkerUndisturbed
<1>11. Stopped'
  BY <1>3, <1>4 DEF Orderly, Stopped
<1>12. OneDriver'
  BY <1>3, <1>4 DEF Orderly, OneDriver
<1>13. Unplanned'
  BY <1>3, <1>4 DEF Orderly, Unplanned
<1>14. Planned'
  BY <1>3, <1>4 DEF Orderly, Planned
<1>15. LatestUnderProof'
  BY <1>3, <1>4 DEF Orderly, LatestUnderProof
<1>16. ReadyIsProven'
  BY <1>3, <1>4 DEF Orderly, ReadyIsProven
<1>17. Waiting'
  BY <1>3, <1>4 DEF Orderly, Waiting
<1>18. ReEngaging'
  BY <1>3, <1>4, <1>6 DEF Orderly, ReEngaging
<1>19. Finishing'
  BY <1>3, <1>4 DEF Orderly, Finishing
<1>20. Settles(Worker)'
  BY <1>3, <1>4 DEF Orderly, Settles
<1>21. Settles(Verifier)'
  BY <1>3, <1>4 DEF Orderly, Settles
<1>22. Settles(Reaper)'
  BY <1>3, <1>4 DEF Orderly, Settles
<1>23. Reading'
  BY <1>3, <1>4 DEF Orderly, Reading
<1>24. Attempts'
  BY <1>3, <1>4, <1>7 DEF Orderly, Attempts
<1>25. Vocabulary'
  BY <1>3, <1>5 DEF Orderly, Vocabulary
<1> QED
  BY <1>10, <1>11, <1>12, <1>13, <1>14, <1>15, <1>16, <1>17, <1>18, <1>19, <1>20, <1>21, <1>22,
     <1>23, <1>24, <1>25 DEF Orderly

(* Configuring the executor keeps Orderly.                                 *)
LEMMA UpsertExecutorConfigOrderly ==
    ASSUME OneCallAtATime, VerdictInv, Orderly, UpsertExecutorConfig
    PROVE  Orderly'
<1>1. UNCHANGED <<request, step, running, deliverables, openDecisions, closedDecisions,
                  requestQueue, proofQueue, mode, handler, session>>
  BY DEF UpsertExecutorConfig, queues
<1>2. /\ Worker' = Worker /\ Verifier' = Verifier /\ Reaper' = Reaper /\ Call' = Call
      /\ Queued' = Queued
      /\ UNCHANGED <<request, step, running, deliverables, openDecisions, closedDecisions,
                     requestQueue, proofQueue, mode>>
  BY <1>1 DEF Worker, Verifier, Reaper, Call, Queued
<1>10. /\ KnowsRows' /\ PlanAhead' /\ Starting' /\ SentBackAlone' /\ Working'
        /\ LeftBehind' /\ WorkerShape'
  BY <1>2, WorkerUndisturbed
<1>11. Stopped'
  BY <1>2 DEF Orderly, Stopped
<1>12. OneDriver'
  BY <1>2 DEF Orderly, OneDriver
<1>13. Unplanned'
  BY <1>2 DEF Orderly, Unplanned
<1>14. Planned'
  BY <1>2 DEF Orderly, Planned
<1>15. LatestUnderProof'
  BY <1>2 DEF Orderly, LatestUnderProof
<1>16. ReadyIsProven'
  BY <1>2 DEF Orderly, ReadyIsProven
<1>17. Waiting'
  BY <1>2 DEF Orderly, Waiting
<1>18. ReEngaging'
  BY <1>2 DEF Orderly, ReEngaging
<1>19. Finishing'
  BY <1>2 DEF Orderly, Finishing
<1>20. Settles(Worker)'
  BY <1>2 DEF Orderly, Settles
<1>21. Settles(Verifier)'
  BY <1>2 DEF Orderly, Settles
<1>22. Settles(Reaper)'
  BY <1>2 DEF Orderly, Settles
<1>23. Reading'
  BY <1>2 DEF Orderly, Reading
<1>24. Attempts'
  BY <1>2 DEF Orderly, Attempts
<1>25. Vocabulary'
  BY <1>2 DEF Orderly, Vocabulary
<1> QED
  BY <1>10, <1>11, <1>12, <1>13, <1>14, <1>15, <1>16, <1>17, <1>18, <1>19, <1>20, <1>21, <1>22,
     <1>23, <1>24, <1>25 DEF Orderly

(* The founder's calls keep Orderly.                                       *)
LEMMA FounderOrderly ==
    ASSUME OneCallAtATime, VerdictInv, left.post = 0, Orderly, FounderNext
    PROVE  Orderly'
<1>1. ASSUME NEW h \in Handlers, NEW s \in Steps, NEW n, VerifyDeliverable(h, s, n)
      PROVE  FALSE
  <2>1. left.verify > 0
    BY <1>1 DEF VerifyDeliverable, Spend
  <2> QED
    BY <2>1 DEF VerdictInv, NobodyReverifies
<1>2. ASSUME NEW s \in Steps, PostDeliverable(s) PROVE FALSE
  BY <1>2 DEF PostDeliverable, Spend
<1> QED
  BY <1>1, <1>2, PostDirectionOrderly, ResolveDecisionOrderly, UpsertExecutorConfigOrderly
     DEF FounderNext

-----------------------------------------------------------------------------
(* The death of the process keeps Orderly: the rows, and the entries in    *)
(* the streams, are what they were.                                        *)
LEMMA CrashOrderly ==
    ASSUME OneCallAtATime, VerdictInv, Orderly, Crash
    PROVE  Orderly'
<1>t. Typed
  BY TypedParts
<1>1. /\ mode' = "down"
      /\ session' = [p \in Sessions |-> IdleSession]
      /\ handler' = [h \in Handlers |-> IdleHandler]
      /\ UNCHANGED <<request, step, running, deliverables, openDecisions, closedDecisions,
                     requestQueue, proofQueue>>
  BY Zenon DEF Crash, decisions, queues
<1>2. /\ Worker' = IdleSession /\ Verifier' = IdleSession /\ Reaper' = IdleSession
      /\ Call' = IdleHandler /\ Queued' = Queued
  BY <1>t, <1>1 DEF Worker, Verifier, Reaper, Call, Queued, Sessions
<1>3. /\ IdleSession.pc = "idle" /\ \A t \in Steps : IdleSession.view[t] = "unread"
      /\ IdleHandler.pc = "idle"
  BY DEF IdleSession, IdleHandler
<1>4. /\ Worker'.pc = "idle" /\ Verifier'.pc = "idle" /\ Reaper'.pc = "idle" /\ ~Up'
      /\ Call'.pc = "idle" /\ Queued' = Queued
      /\ \A t \in Steps : Reaper'.view[t] = "unread"
      /\ UNCHANGED <<request, step, running, deliverables, openDecisions, closedDecisions,
                     requestQueue, proofQueue>>
  BY <1>1, <1>2, <1>3
<1>10. Stopped'
  BY <1>4 DEF Orderly, Stopped
<1>11. OneDriver'
  BY <1>4 DEF Orderly, OneDriver
<1>12. Unplanned'
  BY <1>4 DEF Orderly, Unplanned
<1>13. Planned'
  BY <1>4 DEF Orderly, Planned
<1>14. LatestUnderProof'
  BY <1>4 DEF Orderly, LatestUnderProof
<1>15. ReadyIsProven'
  BY <1>4 DEF Orderly, ReadyIsProven
<1>16. Waiting'
  BY <1>4 DEF Orderly, Waiting
<1>17. ReEngaging'
  BY <1>4 DEF Orderly, ReEngaging
<1>18. KnowsRows'
  BY <1>4 DEF Orderly, KnowsRows
<1>19. PlanAhead'
  BY <1>4 DEF Orderly, PlanAhead
<1>20. Starting'
  BY <1>4 DEF Orderly, Starting
<1>21. SentBackAlone'
  BY <1>4 DEF Orderly, SentBackAlone
<1>22. Working'
  BY <1>4 DEF Orderly, Working
<1>23. LeftBehind'
  BY <1>4 DEF Orderly, LeftBehind
<1>24. Finishing'
  BY <1>4 DEF Orderly, Finishing
<1>25. WorkerShape'
  BY <1>4 DEF Orderly, WorkerShape
<1>26. Settles(Worker)'
  BY <1>4 DEF Orderly, Settles
<1>27. Settles(Verifier)'
  BY <1>4 DEF Orderly, Settles
<1>28. Settles(Reaper)'
  BY <1>4 DEF Orderly, Settles
<1>29. Reading'
  BY <1>4 DEF Orderly, Reading
<1>30. Attempts'
  BY <1>4 DEF Orderly, Attempts
<1>31. Vocabulary'
  BY <1>4 DEF Orderly, Vocabulary
<1> QED
  BY <1>10, <1>11, <1>12, <1>13, <1>14, <1>15, <1>16, <1>17, <1>18, <1>19, <1>20, <1>21, <1>22,
     <1>23, <1>24, <1>25, <1>26, <1>27, <1>28, <1>29, <1>30, <1>31 DEF Orderly

(* The process starts again, and nothing but the sweep runs in it.         *)
LEMMA RestartOrderly ==
    ASSUME OneCallAtATime, VerdictInv, Orderly, Restart
    PROVE  Orderly'
<1>1. /\ mode = "down" /\ mode' = "reaping"
      /\ UNCHANGED <<request, step, running, deliverables, openDecisions, closedDecisions,
                     requestQueue, proofQueue, handler, session>>
  BY Zenon DEF Restart, decisions, queues
<1>2. /\ Worker' = Worker /\ Verifier' = Verifier /\ Reaper' = Reaper /\ Call' = Call
      /\ Queued' = Queued /\ ~Up /\ mode' = "reaping"
      /\ UNCHANGED <<request, step, running, deliverables, openDecisions, closedDecisions,
                     requestQueue, proofQueue>>
  BY <1>1 DEF Worker, Verifier, Reaper, Call, Queued
<1>10. /\ KnowsRows' /\ PlanAhead' /\ Starting' /\ SentBackAlone' /\ Working'
        /\ LeftBehind' /\ WorkerShape'
  BY <1>2, WorkerUndisturbed
<1>11. Stopped'
  BY <1>2 DEF Orderly, Stopped
<1>12. OneDriver'
  BY <1>2 DEF Orderly, OneDriver
<1>13. Unplanned'
  BY <1>2 DEF Orderly, Unplanned
<1>14. Planned'
  BY <1>2 DEF Orderly, Planned
<1>15. LatestUnderProof'
  BY <1>2 DEF Orderly, LatestUnderProof
<1>16. ReadyIsProven'
  BY <1>2 DEF Orderly, ReadyIsProven
<1>17. Waiting'
  BY <1>2 DEF Orderly, Waiting
<1>18. ReEngaging'
  BY <1>2 DEF Orderly, ReEngaging
<1>19. Finishing'
  BY <1>2 DEF Orderly, Finishing
<1>20. Settles(Worker)'
  BY <1>2 DEF Orderly, Settles
<1>21. Settles(Verifier)'
  BY <1>2 DEF Orderly, Settles
<1>22. Settles(Reaper)'
  BY <1>2 DEF Orderly, Settles
<1>23. Reading'
  BY <1>2 DEF Orderly, Reading
<1>24. Attempts'
  BY <1>2 DEF Orderly, Attempts
<1>25. Vocabulary'
  BY <1>2 DEF Orderly, Vocabulary
<1> QED
  BY <1>10, <1>11, <1>12, <1>13, <1>14, <1>15, <1>16, <1>17, <1>18, <1>19, <1>20, <1>21, <1>22,
     <1>23, <1>24, <1>25 DEF Orderly

(* When the sweep has left no attempt open, the workers start.             *)
LEMMA StartWorkersOrderly ==
    ASSUME OneCallAtATime, VerdictInv, Orderly, StartWorkers
    PROVE  Orderly'
<1>1. /\ mode = "reaping" /\ mode' = "up" /\ session["reaper"].pc = "idle"
      /\ \A t \in Steps : running[t] = 0
      /\ UNCHANGED <<request, step, running, deliverables, openDecisions, closedDecisions,
                     requestQueue, proofQueue, handler, session>>
  BY Zenon DEF StartWorkers, Reaping, At, decisions, queues
<1>2. /\ Worker' = Worker /\ Verifier' = Verifier /\ Reaper' = Reaper /\ Call' = Call
      /\ Queued' = Queued /\ ~Up /\ Up' /\ Reaper.pc = "idle"
      /\ \A t \in Steps : running[t] = 0
      /\ UNCHANGED <<request, step, running, deliverables, openDecisions, closedDecisions,
                     requestQueue, proofQueue>>
  BY <1>1 DEF Worker, Verifier, Reaper, Call, Queued
<1>10. /\ KnowsRows' /\ PlanAhead' /\ Starting' /\ SentBackAlone' /\ Working'
        /\ LeftBehind' /\ WorkerShape'
  BY <1>2, WorkerUndisturbed
<1>11. Stopped'
  BY <1>2 DEF Orderly, Stopped
<1>12. OneDriver'
  BY <1>2 DEF Orderly, OneDriver
<1>13. Unplanned'
  BY <1>2 DEF Orderly, Unplanned
<1>14. Planned'
  BY <1>2 DEF Orderly, Planned
<1>15. LatestUnderProof'
  BY <1>2 DEF Orderly, LatestUnderProof
<1>16. ReadyIsProven'
  BY <1>2 DEF Orderly, ReadyIsProven
<1>17. Waiting'
  BY <1>2 DEF Orderly, Waiting
<1>18. ReEngaging'
  BY <1>2 DEF Orderly, ReEngaging
<1>19. Finishing'
  BY <1>2 DEF Orderly, Finishing
<1>20. Settles(Worker)'
  BY <1>2 DEF Orderly, Settles
<1>21. Settles(Verifier)'
  BY <1>2 DEF Orderly, Settles
<1>22. Settles(Reaper)'
  BY <1>2 DEF Orderly, Settles
<1>23. Reading'
  BY <1>2 DEF Orderly, Reading
<1>24. Attempts'
  BY <1>2 DEF Orderly, Attempts
<1>25. Vocabulary'
  BY <1>2 DEF Orderly, Vocabulary
<1> QED
  BY <1>10, <1>11, <1>12, <1>13, <1>14, <1>15, <1>16, <1>17, <1>18, <1>19, <1>20, <1>21, <1>22,
     <1>23, <1>24, <1>25 DEF Orderly

(* Failing a RunAttempt that its process left behind keeps Orderly.        *)
LEMMA ReapAttemptOrderly ==
    ASSUME OneCallAtATime, VerdictInv, Orderly, NEW s \in Steps, ReapAttempt(s)
    PROVE  Orderly'
<1>t. Typed
  BY TypedParts
<1> DEFINE new == [Reaper EXCEPT !.pc = "reapStep", !.step = s]
<1>1. /\ mode = "reaping" /\ Reaper.pc = "idle" /\ running[s] > 0
      /\ running' = [running EXCEPT ![s] = @ - 1]
      /\ Become("reaper", new)
      /\ UNCHANGED <<request, step, deliverables, openDecisions, closedDecisions,
                     requestQueue, proofQueue, mode, handler>>
  BY Zenon DEF ReapAttempt, Reaping, At, decisions, queues, Reaper
<1>2. Reaper' = new /\ Worker' = Worker /\ Verifier' = Verifier
  BY <1>1, ReaperMoves
<1>3. new.pc = "reapStep" /\ new.step = s /\ new.view = Reaper.view
  BY <1>t DEF SessionType
<1>4. \A t \in Steps : running'[t] > 0 => running[t] > 0
  BY <1>t, <1>1
<1> HIDE DEF new
<1>5. /\ Reaper'.pc = "reapStep" /\ Reaper'.step = s /\ Reaper'.view = Reaper.view
      /\ Worker' = Worker /\ Verifier' = Verifier /\ Call' = Call /\ Queued' = Queued
      /\ mode = "reaping" /\ ~Up /\ Reaper.pc = "idle"
      /\ UNCHANGED <<request, step, deliverables, openDecisions, closedDecisions,
                     requestQueue, proofQueue, mode>>
  BY <1>1, <1>2, <1>3 DEF Call, Queued
<1>6. /\ requestQueue = <<>> /\ step[s] \notin {"verifying", "absent"}
      /\ request \notin {"absent", "open"}
      /\ Worker.pc = "idle" /\ Verifier.pc = "idle" /\ ~Calling
  <2>1. requestQueue = <<>> /\ step[s] \notin {"verifying", "absent"}
    BY <1>1 DEF Orderly, Attempts
  <2>2. Worker.pc = "idle" /\ Verifier.pc = "idle" /\ ~Calling
    BY <1>5 DEF Orderly, Stopped
  <2>3. request \notin {"absent", "open"}
    BY <2>1 DEF Orderly, Unplanned
  <2> QED
    BY <2>1, <2>2, <2>3
<1>10. /\ KnowsRows' /\ PlanAhead' /\ Starting' /\ SentBackAlone' /\ Working'
        /\ LeftBehind' /\ WorkerShape'
  BY <1>5, WorkerUndisturbed
<1>11. Stopped'
  BY <1>5, <1>6 DEF Orderly, Stopped
<1>12. OneDriver'
  BY <1>5, <1>6 DEF Orderly, OneDriver
<1>13. Unplanned'
  BY <1>5, <1>6 DEF Orderly, Unplanned
<1>14. Planned'
  BY <1>5, <1>6 DEF Orderly, Planned
<1>15. LatestUnderProof'
  BY <1>5, <1>6 DEF Orderly, LatestUnderProof
<1>16. ReadyIsProven'
  BY <1>5, <1>6 DEF Orderly, ReadyIsProven
<1>17. Waiting'
  BY <1>5, <1>6 DEF Orderly, Waiting
<1>18. ReEngaging'
  BY <1>5, <1>6 DEF Orderly, ReEngaging
<1>19. Finishing'
  BY <1>5, <1>6 DEF Orderly, Finishing
<1>20. Settles(Worker)'
  BY <1>5, <1>6 DEF Orderly, Settles
<1>21. Settles(Verifier)'
  BY <1>5, <1>6 DEF Orderly, Settles
<1>22. Settles(Reaper)'
  BY <1>5, <1>6 DEF Orderly, Settles
<1>23. Reading'
  BY <1>5, <1>6 DEF Orderly, Reading
<1>24. Attempts'
  BY <1>5, <1>6, <1>4 DEF Orderly, Attempts
<1>25. Vocabulary'
  BY <1>5, <1>6 DEF Orderly, Vocabulary
<1> QED
  BY <1>10, <1>11, <1>12, <1>13, <1>14, <1>15, <1>16, <1>17, <1>18, <1>19, <1>20, <1>21, <1>22,
     <1>23, <1>24, <1>25 DEF Orderly

(* Failing the WorkStep of such an attempt keeps Orderly: it was at work,  *)
(* and no verdict was coming for it.                                       *)
LEMMA ReapStepOrderly ==
    ASSUME OneCallAtATime, VerdictInv, Orderly, ReapStep
    PROVE  Orderly'
<1>t. Typed
  BY TypedParts
<1> DEFINE new == [Reaper EXCEPT !.pc = "finalize"]
           s == Reaper.step
<1>1. /\ mode = "reaping" /\ Reaper.pc = "reapStep"
      /\ step' = IF step[s] \in {"running", "verifying"} THEN [step EXCEPT ![s] = "failed"]
                 ELSE step
      /\ Become("reaper", new)
      /\ UNCHANGED <<request, running, deliverables, openDecisions, closedDecisions,
                     requestQueue, proofQueue, mode, handler>>
  BY Zenon DEF ReapStep, ReapStepTo, Reaping, Goto, At, decisions, queues, Reaper
<1>2. Reaper' = new /\ Worker' = Worker /\ Verifier' = Verifier
  BY <1>1, ReaperMoves
<1>3. new.pc = "finalize" /\ new.step = Reaper.step /\ new.view = Reaper.view
  BY <1>t DEF SessionType
<1>4. \A t \in Steps : step'[t] = IF t = s /\ step[t] = "running" THEN "failed" ELSE step[t]
  <2>1. step[s] # "verifying"
    BY <1>1 DEF Orderly, Attempts
  <2> QED
    BY <1>t, <1>1, <2>1
<1> HIDE DEF new
<1>5. /\ Reaper'.pc = "finalize" /\ Reaper'.step = Reaper.step /\ Reaper'.view = Reaper.view
      /\ Worker' = Worker /\ Verifier' = Verifier /\ Call' = Call /\ Queued' = Queued
      /\ mode = "reaping" /\ ~Up /\ Reaper.pc = "reapStep"
      /\ UNCHANGED <<request, running, deliverables, openDecisions, closedDecisions,
                     requestQueue, proofQueue, mode>>
  BY <1>1, <1>2, <1>3 DEF Call, Queued
<1>6. /\ requestQueue = <<>> /\ request \notin {"absent", "open"}
      /\ Worker.pc = "idle" /\ Verifier.pc = "idle" /\ ~Calling
  <2>1. requestQueue = <<>>
    BY <1>5 DEF Orderly, OneDriver
  <2>2. Worker.pc = "idle" /\ Verifier.pc = "idle" /\ ~Calling
    BY <1>5 DEF Orderly, Stopped
  <2>3. request \notin {"absent", "open"}
    BY <1>5 DEF Orderly, Unplanned
  <2> QED
    BY <2>1, <2>2, <2>3
<1>7. \A t \in Steps : /\ step[t] = "verifying" <=> step'[t] = "verifying"
                       /\ step[t] = "absent" <=> step'[t] = "absent"
                       /\ step[t] = "review_ready" <=> step'[t] = "review_ready"
                       /\ step'[t] = "skipped" => step[t] = "skipped"
                       /\ Ended(t) => Ended(t)'
  BY <1>4
<1>8. LatestUnderProof'
  <2>1. \A row \in Queued' : Coming(row[1], row[2])'
    <3>1. \A t \in Steps : step[t] = "verifying" =>
              step'[t] = "verifying" /\ Len(deliverables'[t]) = Len(deliverables[t])
      BY <1>5, <1>7
    <3> QED
      BY <1>5, <3>1, StillLatest DEF Orderly
  <2> QED
    BY <1>5, <1>6, <2>1 DEF LatestUnderProof
<1>10. Stopped'
  BY <1>5, <1>6, <1>7 DEF Orderly, Stopped
<1>11. OneDriver'
  BY <1>5, <1>6, <1>7 DEF Orderly, OneDriver
<1>12. Unplanned'
  BY <1>5, <1>6, <1>7 DEF Orderly, Unplanned
<1>13. Planned'
  BY <1>5, <1>6, <1>7 DEF Orderly, Planned
<1>14. LatestUnderProof'
  BY <1>8 DEF Orderly, LatestUnderProof
<1>15. ReadyIsProven'
  BY <1>5, <1>7 DEF Orderly, ReadyIsProven
<1>16. Waiting'
  BY <1>5, <1>6, <1>7 DEF Orderly, Waiting
<1>17. ReEngaging'
  BY <1>5, <1>6, <1>7 DEF Orderly, ReEngaging
<1>18. KnowsRows'
  BY <1>5, <1>6, <1>7 DEF Orderly, KnowsRows
<1>19. PlanAhead'
  BY <1>5, <1>6, <1>7 DEF Orderly, PlanAhead
<1>20. Starting'
  BY <1>5, <1>6, <1>7 DEF Orderly, Starting
<1>21. SentBackAlone'
  BY <1>5, <1>6, <1>7 DEF Orderly, SentBackAlone
<1>22. Working'
  BY <1>5, <1>6, <1>7 DEF Orderly, Working
<1>23. LeftBehind'
  BY <1>5, <1>6, <1>7 DEF Orderly, LeftBehind
<1>24. Finishing'
  BY <1>5, <1>6, <1>7 DEF Orderly, Finishing
<1>25. WorkerShape'
  BY <1>5, <1>6, <1>7 DEF Orderly, WorkerShape
<1>26. Settles(Worker)'
  BY <1>5, <1>6, <1>7 DEF Orderly, Settles
<1>27. Settles(Verifier)'
  BY <1>5, <1>6, <1>7 DEF Orderly, Settles
<1>28. Settles(Reaper)'
  BY <1>5, <1>6, <1>7 DEF Orderly, Settles
<1>29. Reading'
  BY <1>5, <1>6, <1>7 DEF Orderly, Reading
<1>30. Attempts'
  BY <1>5, <1>6, <1>7 DEF Orderly, Attempts
<1>31. Vocabulary'
  BY <1>5, <1>6, <1>7 DEF Orderly, Vocabulary
<1> QED
  BY <1>10, <1>11, <1>12, <1>13, <1>14, <1>15, <1>16, <1>17, <1>18, <1>19, <1>20, <1>21, <1>22,
     <1>23, <1>24, <1>25, <1>26, <1>27, <1>28, <1>29, <1>30, <1>31 DEF Orderly

(* Process death, restart and the sweep keep Orderly.                      *)
LEMMA ProcessOrderly ==
    ASSUME OneCallAtATime, VerdictInv, Orderly, ProcessNext
    PROVE  Orderly'
  BY CrashOrderly, RestartOrderly, StartWorkersOrderly, ReapAttemptOrderly, ReapStepOrderly
     DEF ProcessNext

(* An idle step changes nothing Orderly is about.                          *)
LEMMA IdleOrderly == ASSUME Orderly, UNCHANGED vars PROVE Orderly'
<1>1. /\ Worker' = Worker /\ Verifier' = Verifier /\ Reaper' = Reaper /\ Call' = Call
      /\ Queued' = Queued
      /\ UNCHANGED <<request, step, running, deliverables, openDecisions, closedDecisions,
                     requestQueue, proofQueue, mode>>
  BY DEF vars, Worker, Verifier, Reaper, Call, Queued
<1>10. /\ KnowsRows' /\ PlanAhead' /\ Starting' /\ SentBackAlone' /\ Working'
        /\ LeftBehind' /\ WorkerShape'
  BY <1>1, WorkerUndisturbed
<1>11. Stopped'
  BY <1>1 DEF Orderly, Stopped
<1>12. OneDriver'
  BY <1>1 DEF Orderly, OneDriver
<1>13. Unplanned'
  BY <1>1 DEF Orderly, Unplanned
<1>14. Planned'
  BY <1>1 DEF Orderly, Planned
<1>15. LatestUnderProof'
  BY <1>1 DEF Orderly, LatestUnderProof
<1>16. ReadyIsProven'
  BY <1>1 DEF Orderly, ReadyIsProven
<1>17. Waiting'
  BY <1>1 DEF Orderly, Waiting
<1>18. ReEngaging'
  BY <1>1 DEF Orderly, ReEngaging
<1>19. Finishing'
  BY <1>1 DEF Orderly, Finishing
<1>20. Settles(Worker)'
  BY <1>1 DEF Orderly, Settles
<1>21. Settles(Verifier)'
  BY <1>1 DEF Orderly, Settles
<1>22. Settles(Reaper)'
  BY <1>1 DEF Orderly, Settles
<1>23. Reading'
  BY <1>1 DEF Orderly, Reading
<1>24. Attempts'
  BY <1>1 DEF Orderly, Attempts
<1>25. Vocabulary'
  BY <1>1 DEF Orderly, Vocabulary
<1> QED
  BY <1>10, <1>11, <1>12, <1>13, <1>14, <1>15, <1>16, <1>17, <1>18, <1>19, <1>20, <1>21, <1>22,
     <1>23, <1>24, <1>25 DEF Orderly

(* A step of the verifier keeps Orderly.                                   *)
LEMMA VerifierOrderly ==
    ASSUME OneCallAtATime, VerdictInv, Orderly, KeepsVerdicts, VerifierNext
    PROVE  Orderly'
  BY ConsumeProofOrderly, RunVerificationOrderly, AdvanceReadOrderly, AdvanceStepOrderly
     DEF VerifierNext

-----------------------------------------------------------------------------
(* The invariant of the system: Orderly, the verdicts that are apart, and  *)
(* nobody who records work output by hand.                                 *)

(* A bound that is spent stays spent, and what it bounds does not happen.  *)
LEMMA SpentStaysSpent ==
    ASSUME TypeOK, Next
    PROVE  /\ left.post = 0 => left'.post = 0
           /\ left.reresolve = 0 => left'.reresolve = 0
           /\ left.crash = 0 => left'.crash = 0 /\ ~Crash
           /\ left.fault = 0 => left'.fault = 0
<1> DEFINE Kinds == {"resolve", "reresolve", "verify", "post", "crash", "fault"}
<1>0. left \in Bounds
  BY DEF TypeOK
<1>1. ASSUME NEW bound \in Kinds, Spend(bound)
      PROVE  /\ left.post = 0 => left'.post = 0
             /\ left.reresolve = 0 => left'.reresolve = 0
             /\ left.crash = 0 => left'.crash = 0
             /\ left.fault = 0 => left'.fault = 0
  BY <1>0, <1>1 DEF Spend, Bounds
<1>2. left.crash = 0 => ~Crash
  BY DEF Crash, Spend
<1>3. UNCHANGED left \/ \E bound \in Kinds : Spend(bound)
  <2>1. CASE WorkerNext \/ VerifierNext \/ \E p \in Sessions : FinalizeNext(p)
    BY <2>1 DEF WorkerNext, ConsumeRequest, PlanRequest, ReDispatchDecision, CreateRunAttempt,
                StartStep, WorkPhase, FinishUnconfigured, CreateDeliverable, MarkVerifying,
                PublishProof, ParkStep, FailStep, SurfacePartial, DiagnosePartial, NextStep,
                VerifierNext, ConsumeProof, RunVerification, AdvanceRead, AdvanceStep, AdvanceTo,
                FinalizeNext, FinalizeRead, FinalizeStuck, Asking, FinalizeDecide, FinalizeReady,
                ShipGate, FinalizeShip, CloseSession
  <2>2. CASE FounderNext \/ \E h \in Handlers : HandlerNext(h)
    BY <2>2 DEF FounderNext, PostDirection, ResolveDecision, VerifyDeliverable, PostDeliverable,
                UpsertExecutorConfig, HandlerNext, EnqueueRequest, ReEngageRead, ReEngageRequest,
                ReEngageStepRead, ReEngageStep, PublishReEngage, EnqueueProof
  <2>3. CASE ProcessNext
    BY <2>3 DEF ProcessNext, Crash, Restart, StartWorkers, ReapStep, ReapStepTo, ReapAttempt
  <2> QED
    BY <2>1, <2>2, <2>3 DEF Next
<1> QED
  BY <1>1, <1>2, <1>3

(* ShipInv is inductive.                                                   *)
LEMMA ShipStep == ASSUME OneCallAtATime, ShipInv, [Next]_vars PROVE ShipInv'
<1>1. VerdictInv' /\ (KeepsVerdicts \/ UNCHANGED vars)
  BY VerdictStep DEF ShipInv
<1>2. CASE UNCHANGED vars
  <2>1. left'.post = 0
    BY <1>2 DEF vars, ShipInv
  <2> QED
    BY <1>1, <1>2, <2>1, IdleOrderly DEF ShipInv
<1>3. CASE Next /\ KeepsVerdicts
  <2>1. left'.post = 0
    BY <1>3, SpentStaysSpent DEF ShipInv, VerdictInv, TypeInv
  <2>2. Orderly'
    BY <1>3, WorkerOrderly, VerifierOrderly, FinalizeOrderly, HandlerOrderly, FounderOrderly,
       ProcessOrderly DEF Next, ShipInv
  <2> QED
    BY <1>1, <2>1, <2>2 DEF ShipInv
<1> QED
  BY <1>1, <1>2, <1>3

(* It holds initially.                                                     *)
LEMMA ShipInit == ASSUME OneCallAtATime, Init PROVE ShipInv
<1>1. VerdictInv /\ left.post = 0
  BY VerdictInit DEF OneCallAtATime, Init
<1>t. Typed
  BY <1>1, TypedParts
<1>2. /\ Worker.pc = "idle" /\ Verifier.pc = "idle" /\ Reaper.pc = "idle"
      /\ Worker.kind = "none" /\ \A t \in Steps : Reaper.view[t] = "unread"
      /\ \A t \in Steps : Verifier.view[t] = "unread"
  <2>1. Worker = IdleSession /\ Verifier = IdleSession /\ Reaper = IdleSession
    BY DEF Init, Worker, Verifier, Reaper, Sessions
  <2> QED
    BY <2>1 DEF IdleSession
<1>3. Call.pc = "idle"
  BY <1>t DEF Init, IdleHandler, Call
<1>4. /\ request = "absent" /\ requestQueue = <<>> /\ proofQueue = <<>> /\ mode = "up"
      /\ \A t \in Steps : /\ step[t] = "absent" /\ running[t] = 0
                          /\ openDecisions[t] + closedDecisions[t] = 0
  BY DEF Init
<1>5. Queued = {}
  BY <1>1, <1>4, QueuedEmpty
<1>6. Orderly
  <2>1. Stopped /\ OneDriver /\ Unplanned /\ Planned
    BY <1>2, <1>3, <1>4 DEF Stopped, OneDriver, Unplanned, Planned
  <2>2. LatestUnderProof /\ ReadyIsProven /\ Waiting /\ ReEngaging
    BY <1>2, <1>3, <1>4, <1>5 DEF LatestUnderProof, ReadyIsProven, Waiting, ReEngaging
  <2>3. KnowsRows /\ PlanAhead /\ Starting /\ SentBackAlone /\ Working
    BY <1>2 DEF KnowsRows, PlanAhead, Starting, SentBackAlone, Working
  <2>4. LeftBehind /\ Finishing /\ WorkerShape
    BY <1>2 DEF LeftBehind, Finishing, WorkerShape
  <2>5. Settles(Worker) /\ Settles(Verifier) /\ Settles(Reaper) /\ Reading
    BY <1>2 DEF Settles, Reading
  <2>6. Attempts /\ Vocabulary
    BY <1>2, <1>4 DEF Attempts, Vocabulary
  <2> QED
    BY <2>1, <2>2, <2>3, <2>4, <2>5, <2>6 DEF Orderly
<1> QED
  BY <1>1, <1>6 DEF ShipInv

(* A founder who makes one call at a time and answers a Request only while *)
(* it waits: then what moves the Request on is always in one place, from   *)
(* the call to the entry to the worker to the proofs.                      *)
THEOREM RequestOrderly == ASSUME OneCallAtATime PROVE Spec => []ShipInv
<1>1. Init => ShipInv
  BY ShipInit
<1>2. ShipInv /\ [Next]_vars => ShipInv'
  BY ShipStep
<1> QED
  BY <1>1, <1>2, PTL DEF Spec

(* The proof contract: what ships is proven.                               *)
THEOREM OnlyProvenShips == ASSUME OneCallAtATime PROVE Spec => []ShippedIsProven
<1>1. ShipInv => ShippedIsProven
  BY DEF ShipInv, Orderly, Waiting, ReadyIsProven, ShippedIsProven, PlanSteps
<1> QED
  BY <1>1, RequestOrderly, PTL

-----------------------------------------------------------------------------
(* How the rows change.                                                    *)

(* One WorkStep of a running Request moves, along its transition table.    *)
OneStepMoves ==
    /\ request = "running" /\ UNCHANGED <<request, openDecisions>>
    /\ \E s \in Steps :
          /\ step[s] # "absent" /\ CanTransitionWorkStep(step[s], step'[s])
          /\ \A t \in Steps : t # s => step'[t] = step[t]

(* The plan is made.                                                       *)
PlanIsMade ==
    /\ request = "open" /\ request' = "running" /\ UNCHANGED openDecisions
    /\ \A s \in Steps : step[s] = "absent" /\ step'[s] \in {"absent", "pending"}
    /\ \E s \in Steps : step'[s] = "pending"

(* A worker's step moves a WorkStep as the table allows, although its      *)
(* guard is on the session's copy.                                         *)
LEMMA WorkerMovesSteps ==
    ASSUME OneCallAtATime, VerdictInv, Orderly, WorkerNext
    PROVE  UNCHANGED step \/ PlanIsMade \/ OneStepMoves
<1>t. Typed
  BY TypedParts
<1>1. CASE PlanRequest
  <2>1. SUFFICES ASSUME ~UNCHANGED step PROVE PlanIsMade
    OBVIOUS
  <2>2. PICK n \in Steps : step' = [s \in Steps |-> IF s <= n THEN "pending" ELSE "absent"]
    <3>1. 1 \in Steps
      BY StepsAssumption DEF Steps
    <3> QED
      BY <1>1, <2>1, <3>1 DEF PlanRequest
  <2>3. request = "open" /\ request' = "running" /\ UNCHANGED openDecisions
    BY <1>1, <2>1 DEF PlanRequest, decisions
  <2>4. \A s \in Steps : step[s] = "absent"
    BY <2>3 DEF Orderly, Unplanned
  <2>5. step'[n] = "pending"
    BY <2>2 DEF Steps
  <2> QED
    BY <2>2, <2>3, <2>4, <2>5 DEF PlanIsMade
<1>2. CASE StartStep
  <2> DEFINE s == Worker.step
  <2>1. SUFFICES ASSUME ~UNCHANGED step PROVE OneStepMoves
    OBVIOUS
  <2>2. /\ Worker.pc \in {"start", "startUnconfigured"}
        /\ CanTransitionWorkStep(Worker.view[s], "running")
        /\ step' = [step EXCEPT ![s] = "running"]
        /\ UNCHANGED <<request, openDecisions>>
    BY <1>2, <2>1 DEF StartStep, At, decisions, Worker
  <2>3. request = "running" /\ Worker.view[s] = step[s] /\ step[s] # "absent"
    BY <2>2 DEF Orderly, KnowsRows, Starting, WorkerShape
  <2> QED
    BY <1>t, <2>2, <2>3 DEF OneStepMoves
<1>3. CASE MarkVerifying \/ ParkStep \/ FailStep
  <2> DEFINE s == Worker.step
  <2>1. PICK target \in {"verifying", "needs_decision", "failed"} :
            step' = [step EXCEPT ![s] = target]
    BY <1>3 DEF MarkVerifying, ParkStep, FailStep, MoveStep
  <2>2. Worker.pc \in WorkingPCs /\ UNCHANGED <<request, openDecisions>>
    BY <1>3, Zenon DEF MarkVerifying, ParkStep, FailStep, At, decisions, Worker
  <2>3. request = "running" /\ step[s] = "running"
    BY <2>2 DEF Orderly, KnowsRows, Working
  <2>4. CanTransitionWorkStep("running", target)
    BY DEF CanTransitionWorkStep, WORK_STEP_TRANSITIONS
  <2> QED
    BY <1>t, <2>1, <2>2, <2>3, <2>4 DEF OneStepMoves
<1>4. PlanRequest \/ StartStep \/ MarkVerifying \/ ParkStep \/ FailStep \/ UNCHANGED step
  BY Zenon DEF WorkerNext, ConsumeRequest, ReDispatchDecision, CreateRunAttempt, WorkPhase,
         FinishUnconfigured, CreateDeliverable, PublishProof, SurfacePartial, DiagnosePartial,
         NextStep
<1> QED
  BY <1>1, <1>2, <1>3, <1>4

(* So does every other step.                                               *)
LEMMA StepsMove ==
    ASSUME OneCallAtATime, VerdictInv, Orderly, Next
    PROVE  UNCHANGED step \/ PlanIsMade \/ OneStepMoves
<1>t. Typed
  BY TypedParts
<1>1. CASE VerifierNext
  <2> DEFINE s == Verifier.step
  <2>1. SUFFICES ASSUME AdvanceStep PROVE OneStepMoves
    BY <1>1 DEF VerifierNext, ConsumeProof, RunVerification, AdvanceRead
  <2>2. PICK target \in {"review_ready", "failed"} : step' = [step EXCEPT ![s] = target]
    BY <2>1 DEF AdvanceStep, AdvanceTo
  <2>3. Verifier.pc = "move" /\ UNCHANGED <<request, openDecisions>>
    BY <2>1, Zenon DEF AdvanceStep, AdvanceTo, At, decisions, Verifier
  <2>4. step[s] = "verifying"
    BY <2>3 DEF Orderly, LatestUnderProof
  <2>5. request = "running"
    BY <1>t, <2>3, <2>4 DEF Orderly, OneDriver, Waiting
  <2>6. CanTransitionWorkStep("verifying", target)
    BY DEF CanTransitionWorkStep, WORK_STEP_TRANSITIONS
  <2> QED
    BY <1>t, <2>2, <2>3, <2>4, <2>5, <2>6 DEF OneStepMoves
<1>2. CASE \E h \in Handlers : HandlerNext(h)
  <2>1. PICK h \in Handlers : HandlerNext(h)
    BY <1>2
  <2>2. CASE ReEngageStep(h)
    <3> DEFINE s == Call.step
    <3>1. /\ Call.pc = "reEngageMove" /\ step' = [step EXCEPT ![s] = "running"]
          /\ UNCHANGED <<request, openDecisions>>
      <4>1. handler[h] = Call
        BY <1>t DEF Call
      <4> QED
        BY <2>2, <4>1 DEF ReEngageStep, decisions
    <3>2. request = "running" /\ step[s] \in Stuck
      BY <3>1 DEF Orderly, ReEngaging
    <3>3. CanTransitionWorkStep(step[s], "running")
      BY <3>2 DEF CanTransitionWorkStep, WORK_STEP_TRANSITIONS
    <3> QED
      BY <1>t, <3>1, <3>2, <3>3 DEF OneStepMoves
  <2>3. ReEngageStep(h) \/ UNCHANGED step
    BY <2>1, Zenon DEF HandlerNext, EnqueueRequest, ReEngageRead, ReEngageRequest,
         ReEngageStepRead, PublishReEngage, EnqueueProof
  <2> QED
    BY <2>2, <2>3
<1>3. CASE ProcessNext
  <2> DEFINE s == Reaper.step
  <2>1. CASE ReapStep
    <3>1. SUFFICES ASSUME ~UNCHANGED step PROVE OneStepMoves
      OBVIOUS
    <3>2. /\ Reaper.pc = "reapStep" /\ mode = "reaping" /\ step[s] \in {"running", "verifying"}
          /\ step' = [step EXCEPT ![s] = "failed"] /\ UNCHANGED <<request, openDecisions>>
      BY <2>1, <3>1 DEF ReapStep, ReapStepTo, At, Reaping, decisions, Reaper
    <3>3. request = "running"
      BY <1>t, <3>2 DEF Orderly, Unplanned, Waiting, Vocabulary, VerdictInv, TypeInv, TypeOK,
                        RequestStatuses
    <3>4. CanTransitionWorkStep(step[s], "failed")
      BY <3>2 DEF CanTransitionWorkStep, WORK_STEP_TRANSITIONS
    <3> QED
      BY <1>t, <3>2, <3>3, <3>4 DEF OneStepMoves
  <2>2. ReapStep \/ UNCHANGED step
    BY <1>3, Zenon DEF ProcessNext, Crash, Restart, StartWorkers, ReapAttempt
  <2> QED
    BY <2>1, <2>2
<1>4. CASE \E p \in Sessions : FinalizeNext(p)
  BY <1>4, Zenon DEF FinalizeNext, FinalizeRead, FinalizeStuck, Asking, FinalizeDecide,
       FinalizeReady, ShipGate, FinalizeShip, CloseSession
<1>5. CASE FounderNext
  BY <1>5, Zenon DEF FounderNext, PostDirection, ResolveDecision, VerifyDeliverable,
       PostDeliverable, UpsertExecutorConfig
<1> QED
  BY <1>1, <1>2, <1>3, <1>4, <1>5, WorkerMovesSteps DEF Next

(* A work_steps row changes only along WORK_STEP_TRANSITIONS, although     *)
(* every guard reads a session's copy of it.                               *)
THEOREM StepsStayLegal == ASSUME OneCallAtATime PROVE Spec => StepTransitionsLegal
<1> DEFINE Legal == \A s \in Steps : step'[s] # step[s] =>
                        \/ step[s] = "absent" /\ step'[s] = "pending"
                        \/ step[s] # "absent" /\ CanTransitionWorkStep(step[s], step'[s])
<1>1. ShipInv /\ [Next]_vars => [Legal]_vars
  <2> SUFFICES ASSUME ShipInv, Next PROVE Legal
    OBVIOUS
  <2> QED
    BY StepsMove DEF ShipInv, PlanIsMade, OneStepMoves
<1> QED
  BY <1>1, RequestOrderly, PTL DEF Spec, StepTransitionsLegal

(* The Request's own moves.                                                *)
RequestMoves(from, to) ==
    request = from /\ request' = to /\ UNCHANGED <<step, openDecisions>>

RequestAsks ==
    /\ request = "running" /\ request' = "needs_decision" /\ UNCHANGED step
    /\ \E s \in Steps : step[s] \in Stuck
    /\ \A s \in Steps : step[s] \in Stuck => openDecisions'[s] > 0

(* Work on the steps, or the answers and the questions about them.         *)
WorkGoesOn ==
    /\ UNCHANGED request
    /\ UNCHANGED openDecisions \/ request \in {"running", "needs_decision"}
    /\ UNCHANGED step \/ OneStepMoves

RowsMove ==
    \/ WorkGoesOn \/ PlanIsMade \/ RequestAsks
    \/ RequestMoves("absent", "open") \/ RequestMoves("needs_decision", "running")
    \/ RequestMoves("running", "review_ready") \/ RequestMoves("review_ready", "shipped")

(* Settling the Request moves it from where it is.                         *)
LEMMA FinalizeRows ==
    ASSUME OneCallAtATime, VerdictInv, Orderly, NEW p \in Sessions, FinalizeNext(p)
    PROVE  RowsMove
<1>t. Typed
  BY TypedParts
<1>1. Settles(session[p])
  BY DEF Orderly, Sessions, Worker, Verifier, Reaper
<1>2. CASE FinalizeDecide(p)
  <2>1. /\ session[p].pc = "decide" /\ request' = "needs_decision" /\ UNCHANGED step
        /\ openDecisions' = [s \in Steps |->
               openDecisions[s] + (IF s \in session[p].missing THEN 1 ELSE 0)]
    BY <1>2, Zenon DEF FinalizeDecide, At
  <2>2. request = "running"
    BY <1>1, <2>1 DEF Settles
  <2>3. /\ \E t \in Steps : step[t] \in Stuck
        /\ \A t \in Steps : step[t] \in Stuck => t \in session[p].missing \/ openDecisions[t] > 0
    BY <1>1, <2>1 DEF Settles
  <2>4. ASSUME NEW t \in Steps, step[t] \in Stuck PROVE openDecisions'[t] > 0
    <3>1. openDecisions[t] \in Nat
      BY <1>t
    <3>2. openDecisions'[t] = openDecisions[t] + (IF t \in session[p].missing THEN 1 ELSE 0)
      BY <2>1
    <3> QED
      BY <2>3, <2>4, <3>1, <3>2
  <2> QED
    BY <2>1, <2>2, <2>3, <2>4 DEF RowsMove, RequestAsks
<1>3. CASE FinalizeReady(p)
  <2>1. /\ session[p].pc = "ready" /\ request' = "review_ready"
        /\ UNCHANGED <<step, openDecisions>>
    BY <1>3, Zenon DEF FinalizeReady, At, decisions
  <2> QED
    BY <1>1, <2>1 DEF Settles, RowsMove, RequestMoves
<1>4. CASE FinalizeShip(p)
  <2>1. /\ session[p].pc = "ship" /\ request' = "shipped" /\ UNCHANGED <<step, openDecisions>>
    BY <1>4, Zenon DEF FinalizeShip, At, decisions
  <2> QED
    BY <1>1, <2>1 DEF Settles, RowsMove, RequestMoves
<1>5. CASE FinalizeRead(p) \/ FinalizeStuck(p) \/ ShipGate(p) \/ CloseSession(p)
  <2>1. UNCHANGED <<request, step, openDecisions>>
    BY <1>5, Zenon DEF FinalizeRead, FinalizeStuck, Asking, ShipGate, CloseSession, decisions
  <2> QED
    BY <2>1 DEF RowsMove, WorkGoesOn
<1> QED
  BY <1>2, <1>3, <1>4, <1>5 DEF FinalizeNext

(* The worker only plans the Request, and asks about a step it has parked. *)
LEMMA WorkerRows ==
    ASSUME OneCallAtATime, VerdictInv, Orderly, WorkerNext
    PROVE  RowsMove
<1>t. Typed
  BY TypedParts
<1>1. CASE PlanIsMade
  BY <1>1 DEF RowsMove
<1>2. CASE ~PlanIsMade
  <2>1. UNCHANGED step \/ OneStepMoves
    BY <1>2, WorkerMovesSteps
  <2>2. UNCHANGED request
    <3>1. CASE PlanRequest
      <4>1. SUFFICES ASSUME ~UNCHANGED request PROVE FALSE
        OBVIOUS
      <4>2. PICK n \in Steps : step' = [s \in Steps |-> IF s <= n THEN "pending" ELSE "absent"]
        <5>1. 1 \in Steps
          BY StepsAssumption DEF Steps
        <5> QED
          BY <3>1, <4>1, <5>1 DEF PlanRequest
      <4>3. step'[n] = "pending"
        BY <4>2 DEF Steps
      <4>4. request = "open" /\ request' = "running"
        BY <3>1, <4>1 DEF PlanRequest
      <4>5. step[n] = "absent"
        BY <4>4 DEF Orderly, Unplanned
      <4> QED
        BY <2>1, <4>3, <4>4, <4>5 DEF OneStepMoves
    <3>2. PlanRequest \/ UNCHANGED request
      BY Zenon DEF WorkerNext, ConsumeRequest, ReDispatchDecision, CreateRunAttempt, StartStep,
           WorkPhase, FinishUnconfigured, CreateDeliverable, MarkVerifying, PublishProof,
           ParkStep, FailStep, SurfacePartial, DiagnosePartial, NextStep
    <3> QED
      BY <3>1, <3>2
  <2>3. UNCHANGED openDecisions \/ request \in {"running", "needs_decision"}
    <3>1. CASE SurfacePartial
      <4>1. Worker.pc \in {"raise", "surface"}
        BY <3>1, Zenon DEF SurfacePartial, At, Worker
      <4>2. step[Worker.step] \in Stuck \cup {"running"}
        BY <4>1 DEF Orderly, LeftBehind
      <4>3. request \notin {"absent", "open"}
        BY <4>1 DEF Orderly, Unplanned
      <4>4. request \notin {"review_ready", "shipped", "abandoned"}
        BY <1>t, <4>2 DEF Orderly, Waiting, Vocabulary
      <4> QED
        BY <4>3, <4>4 DEF VerdictInv, TypeInv, TypeOK, RequestStatuses
    <3>2. SurfacePartial \/ UNCHANGED openDecisions
      BY Zenon DEF WorkerNext, ConsumeRequest, PlanRequest, ReDispatchDecision, CreateRunAttempt,
           StartStep, WorkPhase, FinishUnconfigured, CreateDeliverable, MarkVerifying,
           PublishProof, ParkStep, FailStep, DiagnosePartial, NextStep, decisions
    <3> QED
      BY <3>1, <3>2
  <2> QED
    BY <2>1, <2>2, <2>3 DEF RowsMove, WorkGoesOn
<1> QED
  BY <1>1, <1>2

(* Every step moves the rows in one of these ways.                         *)
LEMMA RowsMoveSo ==
    ASSUME OneCallAtATime, VerdictInv, Orderly, Next
    PROVE  RowsMove
<1>1. UNCHANGED step \/ PlanIsMade \/ OneStepMoves
  BY StepsMove
<1>2. CASE VerifierNext \/ ProcessNext
  <2>1. UNCHANGED <<request, openDecisions>>
    BY <1>2, Zenon DEF VerifierNext, ConsumeProof, RunVerification, AdvanceRead, AdvanceStep,
         AdvanceTo, ProcessNext, Crash, Restart, StartWorkers, ReapStep, ReapStepTo, ReapAttempt,
         decisions
  <2> QED
    BY <1>1, <2>1 DEF RowsMove, WorkGoesOn
<1>3. ASSUME NEW h \in Handlers, HandlerNext(h) PROVE RowsMove
  <2>1. CASE ReEngageRequest(h)
    <3>1. Call.pc = "reEngageRequest" /\ request' = "running" /\ UNCHANGED <<step, openDecisions>>
      <4>1. handler[h] = Call
        BY TypedParts DEF Call
      <4> QED
        BY <2>1, <4>1 DEF ReEngageRequest, decisions
    <3>2. request = "needs_decision"
      BY <3>1 DEF Orderly, ReEngaging
    <3> QED
      BY <3>1, <3>2 DEF RowsMove, RequestMoves
  <2>2. ReEngageRequest(h) \/ UNCHANGED <<request, openDecisions>>
    BY <1>3, Zenon DEF HandlerNext, EnqueueRequest, ReEngageRead, ReEngageStepRead, ReEngageStep,
         PublishReEngage, EnqueueProof, decisions
  <2> QED
    BY <1>1, <2>1, <2>2 DEF RowsMove, WorkGoesOn
<1>4. CASE FounderNext
  <2>1. ASSUME NEW h \in Handlers, PostDirection(h) PROVE RowsMove
    BY <2>1 DEF PostDirection, decisions, RowsMove, RequestMoves
  <2>2. ASSUME NEW h \in Handlers, NEW s \in Steps, ResolveDecision(h, s) PROVE RowsMove
    <3>1. request = "needs_decision" /\ UNCHANGED <<request, step>>
      BY <2>2 DEF ResolveDecision, OneCallAtATime
    <3> QED
      BY <3>1 DEF RowsMove, WorkGoesOn
  <2>3. ASSUME NEW h \in Handlers, NEW s \in Steps, NEW n, VerifyDeliverable(h, s, n)
        PROVE  RowsMove
    BY <2>3 DEF VerifyDeliverable, decisions, RowsMove, WorkGoesOn
  <2>4. ASSUME NEW s \in Steps, PostDeliverable(s) PROVE RowsMove
    BY <2>4 DEF PostDeliverable, decisions, RowsMove, WorkGoesOn
  <2>5. CASE UpsertExecutorConfig
    BY <2>5 DEF UpsertExecutorConfig, RowsMove, WorkGoesOn
  <2> QED
    BY <1>4, <2>1, <2>2, <2>3, <2>4, <2>5 DEF FounderNext
<1> QED
  BY <1>2, <1>3, <1>4, WorkerRows, FinalizeRows DEF Next

(* A requests row changes only along REQUEST_TRANSITIONS: a shipped        *)
(* Request stays shipped, and one that waits resumes only for an answer.   *)
THEOREM RequestStaysLegal == ASSUME OneCallAtATime PROVE Spec => RequestTransitionsLegal
<1> DEFINE Legal == request' # request =>
                        \/ request = "absent" /\ request' = "open"
                        \/ request # "absent" /\ CanTransitionRequest(request, request')
<1>1. ShipInv /\ [Next]_vars => [Legal]_vars
  <2> SUFFICES ASSUME ShipInv, Next PROVE Legal
    OBVIOUS
  <2>1. RowsMove
    BY RowsMoveSo DEF ShipInv
  <2> QED
    BY <2>1 DEF RowsMove, WorkGoesOn, PlanIsMade, RequestAsks, RequestMoves,
         CanTransitionRequest, REQUEST_TRANSITIONS
<1> QED
  BY <1>1, RequestOrderly, PTL DEF Spec, RequestTransitionsLegal

-----------------------------------------------------------------------------
(* The refinement of RequestContract.                                      *)
Asked == \E s \in Steps : openDecisions[s] > 0

(* The work is proven when every step is ready.                            *)
LEMMA ProvenWhenReady ==
    ASSUME Orderly
    PROVE  Proven <=> (\E s \in Steps : step[s] # "absent") /\ AllReady
  BY DEF Orderly, ReadyIsProven, Proven, PlanSteps

(* Each way the rows move is a step of the contract.                       *)
LEMMA ContractStep ==
    ASSUME Orderly, Orderly', RowsMove
    PROVE  [Contract!Next]_(Contract!vars)
<1>1. /\ Proven <=> (\E s \in Steps : step[s] # "absent") /\ AllReady
      /\ Proven' <=> (\E s \in Steps : step'[s] # "absent") /\ AllReady'
  <2>1. Proven' <=> ((\E s \in Steps : step[s] # "absent") /\ AllReady)'
    BY DEF Orderly, ReadyIsProven, Proven, PlanSteps
  <2> QED
    BY <2>1, ProvenWhenReady
<1>2. (UNCHANGED step => UNCHANGED Proven) /\ Proven \in BOOLEAN /\ Proven' \in BOOLEAN
  BY <1>1 DEF Proven
<1>3. UNCHANGED openDecisions => UNCHANGED Asked
  BY DEF Asked
<1>4. CASE WorkGoesOn
  <2>1. CASE UNCHANGED step /\ UNCHANGED openDecisions
    BY <1>2, <1>3, <1>4, <2>1 DEF WorkGoesOn, Contract!vars, Asked, Proven
  <2>2. CASE UNCHANGED step /\ request = "needs_decision"
    BY <1>2, <1>4, <2>2 DEF WorkGoesOn, Contract!Next, Contract!Answer, Asked, Proven
  <2>3. CASE request = "running"
    <3>1. Proven => Proven'
      BY <1>1, <1>2, <1>4, <2>3 DEF WorkGoesOn, OneStepMoves, CanTransitionWorkStep,
                                    WORK_STEP_TRANSITIONS
    <3> QED
      BY <1>2, <1>4, <2>3, <3>1 DEF WorkGoesOn, Contract!Next, Contract!Work
  <2> QED
    BY <1>4, <2>1, <2>2, <2>3 DEF WorkGoesOn, OneStepMoves
<1>5. CASE PlanIsMade
  <2>1. ~Proven /\ ~Proven'
    BY <1>1, <1>5 DEF PlanIsMade
  <2>2. UNCHANGED Proven
    BY <1>2, <2>1
  <2> QED
    BY <1>3, <1>5, <2>2 DEF PlanIsMade, Contract!Next, Contract!Start, Contract!Move, Asked
<1>6. CASE RequestAsks
  BY <1>2, <1>6 DEF RequestAsks, Contract!Next, Contract!Ask, Contract!Move, Asked
<1>7. CASE RequestMoves("absent", "open")
  BY <1>2, <1>3, <1>7 DEF RequestMoves, Contract!Next, Contract!Direct, Contract!Move, Asked
<1>8. CASE RequestMoves("needs_decision", "running")
  BY <1>2, <1>3, <1>8 DEF RequestMoves, Contract!Next, Contract!Resume, Contract!Move, Asked
<1>9. CASE RequestMoves("running", "review_ready")
  BY <1>1, <1>2, <1>3, <1>9
     DEF RequestMoves, Contract!Next, Contract!Approve, Contract!Move, Asked,
         Orderly, Waiting, Planned
<1>10. CASE RequestMoves("review_ready", "shipped")
  BY <1>1, <1>2, <1>3, <1>10
     DEF RequestMoves, Contract!Next, Contract!Ship, Contract!Move, Asked,
         Orderly, Waiting, Planned
<1> QED
  BY <1>4, <1>5, <1>6, <1>7, <1>8, <1>9, <1>10 DEF RowsMove

(* Whatever the workers, the streams and the reaper do underneath, the     *)
(* lifecycle does what RequestContract promises the founder.               *)
THEOREM LifecycleImplementsContract == ASSUME OneCallAtATime PROVE Spec => ImplementsContract
<1>1. Init => Contract!Init
  BY DEF Init, Contract!Init, Proven, PlanSteps
<1>2. ShipInv /\ ShipInv' /\ [Next]_vars => [Contract!Next]_(Contract!vars)
  <2> SUFFICES ASSUME ShipInv, ShipInv', [Next]_vars PROVE [Contract!Next]_(Contract!vars)
    OBVIOUS
  <2>1. CASE UNCHANGED vars
    BY <2>1 DEF vars, Contract!vars, Proven, PlanSteps
  <2>2. CASE Next
    BY <2>2, RowsMoveSo, ContractStep DEF ShipInv
  <2> QED
    BY <2>1, <2>2
<1> QED
  BY <1>1, <1>2, RequestOrderly, PTL DEF Spec, ImplementsContract, Contract!Spec
=============================================================================
