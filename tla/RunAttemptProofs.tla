-------------------------- MODULE RunAttemptProofs --------------------------
(***************************************************************************)
(* What holds of a dispatch for every value of the caps that keeps the     *)
(* headroom their comments ask for (HeadroomAssumption), any files and     *)
(* calls, and any number of calls in a turn: its types, that the work      *)
(* budget is what ends a first pass, that its end is announced, that       *)
(* written work is kept, and that every step is one of DispatchContract.   *)
(***************************************************************************)
EXTENDS RunAttempt, SequenceTheorems, TLAPS

OpenPCs == {"start", "llm", "tools", "probe", "converged", "verified", "summarized"}

(* The attempt's row is running exactly while the dispatch works on it.    *)
RowFollowsPc ==
    /\ Running <=> pc \in OpenPCs
    /\ pc \in OpenPCs => attempt.reason = "none"
    /\ used <= MaxContinuations
    /\ pc = "failed" => attempt.reason = "executor_error"
    /\ pc = "deliver" => attempt.reason = "summarized"

(* A turn of a first pass is a nudge or makes a call.                      *)
TurnsAreRounds ==
    /\ rounds = workRounds
    /\ pc \in OpenPCs => workRounds <= WorkBudget
    /\ loop.nudges <= MaxNudges
    /\ pc = "tools" => loop.calls > 0
    /\ pc = "start" => retries = 0 /\ loop.turn = 0
    /\ pc \in OpenPCs /\ retries = 0 => loop.cap = MaxIterations
    /\ pc = "llm" /\ retries = 0 => loop.turn <= loop.nudges + workRounds
    /\ pc = "tools" /\ retries = 0 => loop.turn <= loop.nudges + workRounds + 1

(* The soft-pressure message goes out as the rounds reach its threshold.   *)
PressureFollowsRounds ==
    pc \in OpenPCs => pressed = IF workRounds >= WorkBudget - SoftHeadroom THEN 1 ELSE 0

(* The loop's list is the files on disk.                                   *)
ListIsLanded == pc \notin {"create", "done"} => loop.written = landed

Inv ==
    /\ TypeOK /\ RowFollowsPc /\ TurnsAreRounds /\ PressureFollowsRounds /\ ListIsLanded
    /\ BudgetIsTheSignal /\ BudgetEndIsAnnounced /\ WorkIsKept

Loops == [turn : Nat, cap : Nat, nudges : Nat, calls : Nat, written : SUBSET Files]

(* What the loop's state is after a turn that makes n calls.               *)
LEMMA LoopAfterTurn ==
    ASSUME NEW l \in Loops, NEW n \in Nat
    PROVE  LET m == [l EXCEPT !.turn = @ + 1, !.calls = n]
           IN  /\ m \in Loops
               /\ m.turn = l.turn + 1 /\ m.calls = n
               /\ m.cap = l.cap /\ m.nudges = l.nudges /\ m.written = l.written
<1> DEFINE a == [l EXCEPT !.turn = @ + 1]
<1>1. /\ a \in Loops
      /\ a.turn = l.turn + 1 /\ a.cap = l.cap /\ a.nudges = l.nudges /\ a.written = l.written
  BY DEF Loops
<1> HIDE DEF a
<1>2. /\ [a EXCEPT !.calls = n] \in Loops
      /\ [a EXCEPT !.calls = n].calls = n /\ [a EXCEPT !.calls = n].turn = a.turn
      /\ [a EXCEPT !.calls = n].cap = a.cap /\ [a EXCEPT !.calls = n].nudges = a.nudges
      /\ [a EXCEPT !.calls = n].written = a.written
  BY <1>1 DEF Loops
<1> QED
  BY <1>1, <1>2 DEF a

(* What the loop's state is after a nudge.                                 *)
LEMMA LoopAfterNudge ==
    ASSUME NEW l \in Loops
    PROVE  LET m == [l EXCEPT !.turn = @ + 1, !.nudges = @ + 1]
           IN  /\ m \in Loops
               /\ m.turn = l.turn + 1 /\ m.nudges = l.nudges + 1
               /\ m.cap = l.cap /\ m.calls = l.calls /\ m.written = l.written
<1> DEFINE a == [l EXCEPT !.turn = @ + 1]
<1>1. /\ a \in Loops
      /\ a.turn = l.turn + 1 /\ a.cap = l.cap /\ a.nudges = l.nudges /\ a.written = l.written
      /\ a.calls = l.calls
  BY DEF Loops
<1> HIDE DEF a
<1>2. /\ [a EXCEPT !.nudges = l.nudges + 1] \in Loops
      /\ [a EXCEPT !.nudges = l.nudges + 1].nudges = l.nudges + 1
      /\ [a EXCEPT !.nudges = l.nudges + 1].turn = a.turn
      /\ [a EXCEPT !.nudges = l.nudges + 1].cap = a.cap
      /\ [a EXCEPT !.nudges = l.nudges + 1].calls = a.calls
      /\ [a EXCEPT !.nudges = l.nudges + 1].written = a.written
  BY <1>1 DEF Loops
<1> QED
  BY <1>1, <1>2 DEF a

(* What the loop's state is after a tool call that wrote the files w.      *)
LEMMA LoopAfterCall ==
    ASSUME NEW l \in Loops, l.calls > 0, NEW w \in SUBSET Files
    PROVE  LET m == [l EXCEPT !.calls = @ - 1, !.written = @ \cup w]
           IN  /\ m \in Loops
               /\ m.calls = l.calls - 1 /\ m.written = l.written \cup w
               /\ m.turn = l.turn /\ m.cap = l.cap /\ m.nudges = l.nudges
<1> DEFINE a == [l EXCEPT !.calls = @ - 1]
<1>1. /\ a \in Loops
      /\ a.calls = l.calls - 1 /\ a.turn = l.turn /\ a.cap = l.cap /\ a.nudges = l.nudges
      /\ a.written = l.written
  BY DEF Loops
<1> HIDE DEF a
<1>2. /\ [a EXCEPT !.written = l.written \cup w] \in Loops
      /\ [a EXCEPT !.written = l.written \cup w].written = l.written \cup w
      /\ [a EXCEPT !.written = l.written \cup w].calls = a.calls
      /\ [a EXCEPT !.written = l.written \cup w].turn = a.turn
      /\ [a EXCEPT !.written = l.written \cup w].cap = a.cap
      /\ [a EXCEPT !.written = l.written \cup w].nudges = a.nudges
  BY <1>1 DEF Loops
<1> QED
  BY <1>1, <1>2 DEF a

(* Before its first attempt a dispatch satisfies every part of Inv.        *)
LEMMA InvInit == Init => Inv
<1> SUFFICES ASSUME Init PROVE Inv
  OBVIOUS
<1>1. TypeOK
  BY CapsAssumption DEF Init, TypeOK, Pass, PCs, RunAttemptStatuses
<1> QED
  BY <1>1, CapsAssumption, HeadroomAssumption
     DEF Init, Inv, RowFollowsPc, Running, OpenPCs, TurnsAreRounds, PressureFollowsRounds,
         ListIsLanded, BudgetIsTheSignal, BudgetEndIsAnnounced, WorkIsKept, Pass

(* Closing an open attempt keeps Inv, for the reasons a tool call's event  *)
(* does not give.                                                          *)
LEMMA InvFinish ==
    ASSUME Inv, pc \in OpenPCs, NEW status \in RunAttemptStatuses \ {"running"},
           NEW reason \in {"work_loop_iteration_cap", "aspect_retry_budget_exhausted",
                           "no_workspace_write", "tool_event_error", "executor_error",
                           "summarized"},
           Finish(status, reason), pc' \in {"terminated", "failed", "deliver"},
           loop' = loop \/ \E n \in Nat : loop' = [loop EXCEPT !.turn = @ + 1, !.calls = n],
           UNCHANGED <<rounds, workRounds, recent, retries, used, landed, before, pressed,
                       workspace, carried>>,
           reason = "work_loop_iteration_cap" => retries > 0,
           pc' = "failed" => reason = "executor_error",
           pc' = "deliver" => reason = "summarized"
    PROVE  Inv'
<1>1. /\ loop' \in Loops
      /\ loop'.written = loop.written /\ loop'.nudges = loop.nudges
  <2>1. loop \in Loops
    BY DEF Inv, TypeOK, Loops
  <2>2. CASE loop' = loop
    BY <2>1, <2>2
  <2>3. ASSUME NEW n \in Nat, loop' = [loop EXCEPT !.turn = @ + 1, !.calls = n]
        PROVE  /\ loop' \in Loops
               /\ loop'.written = loop.written /\ loop'.nudges = loop.nudges
    BY <2>1, <2>3, LoopAfterTurn
  <2> QED
    BY <2>2, <2>3
<1>2. TypeOK'
  BY <1>1 DEF Loops, Inv, TypeOK, Finish, PCs, BudgetReasons, OtherReasons, RunAttemptStatuses
<1>3. RowFollowsPc' /\ WorkIsKept' /\ PressureFollowsRounds' /\ ListIsLanded'
  BY <1>1 DEF Inv, RowFollowsPc, Running, Finish, OpenPCs, WorkIsKept, PressureFollowsRounds,
              ListIsLanded, RunAttemptStatuses
<1>4. TurnsAreRounds'
  BY <1>1 DEF Inv, TurnsAreRounds, OpenPCs
<1>5. BudgetIsTheSignal' /\ BudgetEndIsAnnounced'
  BY DEF Inv, BudgetIsTheSignal, BudgetEndIsAnnounced, Finish
<1> QED
  BY <1>2, <1>3, <1>4, <1>5 DEF Inv

(* Opening an attempt keeps Inv: its counters start again.                 *)
LEMMA InvCreate == Inv /\ CreateRunAttempt => Inv'
<1> SUFFICES ASSUME Inv, CreateRunAttempt PROVE Inv'
  OBVIOUS
<1>1. TypeOK'
  BY CapsAssumption
     DEF Inv, TypeOK, CreateRunAttempt, Pass, PCs, RunAttemptStatuses
<1>2. RowFollowsPc' /\ WorkIsKept' /\ ListIsLanded'
  BY DEF Inv, RowFollowsPc, Running, OpenPCs, CreateRunAttempt, WorkIsKept, ListIsLanded, Pass
<1>3. TurnsAreRounds'
  BY CapsAssumption DEF Inv, CreateRunAttempt, TurnsAreRounds, OpenPCs, Pass
<1>4. PressureFollowsRounds'
  BY CapsAssumption, HeadroomAssumption DEF CreateRunAttempt, PressureFollowsRounds, OpenPCs
<1>5. BudgetIsTheSignal' /\ BudgetEndIsAnnounced'
  BY DEF CreateRunAttempt, BudgetIsTheSignal, BudgetEndIsAnnounced
<1> QED
  BY <1>1, <1>2, <1>3, <1>4, <1>5 DEF Inv

(* Advancing the phase of an open attempt keeps Inv.                       *)
LEMMA InvAdvance ==
    ASSUME Inv, pc \in {"start", "converged", "verified"},
           NEW target \in {"work", "verify", "summarize"}, Advance(target),
           pc' \in {"llm", "verified", "summarized"}, pc' = "llm" => pc = "start",
           UNCHANGED <<rounds, workRounds, recent, loop, retries, used, landed, before, pressed,
                       workspace, carried>>
    PROVE  Inv'
<1>1. attempt' \in [phase : {"prepare", "work", "verify", "summarize", "terminal"},
                    status : RunAttemptStatuses,
                    reason : {"none"} \cup BudgetReasons \cup OtherReasons]
      /\ attempt'.status = attempt.status /\ attempt'.reason = attempt.reason
  BY DEF Inv, TypeOK, Advance
<1>2. TypeOK'
  BY <1>1 DEF Inv, TypeOK, PCs
<1>3. RowFollowsPc' /\ WorkIsKept' /\ ListIsLanded' /\ PressureFollowsRounds'
  BY <1>1 DEF Inv, RowFollowsPc, Running, OpenPCs, WorkIsKept, ListIsLanded,
              PressureFollowsRounds
<1>4. TurnsAreRounds'
  BY DEF Inv, TypeOK, TurnsAreRounds, OpenPCs
<1>5. BudgetIsTheSignal' /\ BudgetEndIsAnnounced'
  BY <1>1 DEF Inv, BudgetIsTheSignal, BudgetEndIsAnnounced
<1> QED
  BY <1>2, <1>3, <1>4, <1>5 DEF Inv

(* A turn that calls tools keeps Inv: it is one turn ahead of its rounds.  *)
LEMMA InvToolTurn == Inv /\ ToolTurn => Inv'
<1> SUFFICES ASSUME Inv, ToolTurn PROVE Inv'
  OBVIOUS
<1>1. PICK n \in 1 .. MaxCalls : Turn(n)
  BY DEF ToolTurn
<1>2. /\ loop' \in Loops /\ loop'.calls = n /\ n \in Nat /\ n > 0
      /\ loop'.turn = loop.turn + 1 /\ loop'.cap = loop.cap /\ loop'.nudges = loop.nudges
      /\ loop'.written = loop.written
  <2>1. loop \in Loops /\ n \in Nat /\ n > 0
    BY CapsAssumption DEF Inv, TypeOK, Loops
  <2> QED
    BY <1>1, <2>1, LoopAfterTurn DEF Turn
<1>3. TypeOK'
  BY <1>2 DEF Loops, Inv, TypeOK, ToolTurn, PCs, row
<1>4. RowFollowsPc' /\ WorkIsKept' /\ ListIsLanded' /\ PressureFollowsRounds'
  BY <1>2 DEF Inv, ToolTurn, row, RowFollowsPc, Running, OpenPCs, WorkIsKept, ListIsLanded,
              PressureFollowsRounds
<1>5. TurnsAreRounds'
  BY <1>2 DEF Inv, TypeOK, ToolTurn, row, TurnsAreRounds, OpenPCs
<1>6. BudgetIsTheSignal' /\ BudgetEndIsAnnounced'
  BY DEF Inv, ToolTurn, row, BudgetIsTheSignal, BudgetEndIsAnnounced
<1> QED
  BY <1>3, <1>4, <1>5, <1>6 DEF Inv

(* A turn without calls keeps Inv, whether it converges, is nudged or is   *)
(* given up.                                                               *)
LEMMA InvPlainTurn == Inv /\ PlainTurn => Inv'
<1> SUFFICES ASSUME Inv, PlainTurn PROVE Inv'
  OBVIOUS
<1>1. CASE /\ Turn(0) /\ UNCHANGED attempt
           /\ pc' = IF workspace THEN "probe" ELSE "converged"
  <2>1. /\ loop' \in Loops
        /\ loop'.cap = loop.cap /\ loop'.nudges = loop.nudges /\ loop'.written = loop.written
    <3>1. loop \in Loops
      BY DEF Inv, TypeOK, Loops
    <3> QED
      BY <1>1, <3>1, LoopAfterTurn DEF Turn
  <2>2. TypeOK'
    BY <1>1, <2>1 DEF Loops, Inv, TypeOK, PlainTurn, PCs
  <2>3. RowFollowsPc' /\ WorkIsKept' /\ ListIsLanded' /\ PressureFollowsRounds'
    BY <1>1, <2>1 DEF Inv, PlainTurn, RowFollowsPc, Running, OpenPCs, WorkIsKept, ListIsLanded,
                      PressureFollowsRounds
  <2>4. TurnsAreRounds'
    BY <1>1, <2>1 DEF Inv, TypeOK, PlainTurn, TurnsAreRounds, OpenPCs
  <2>5. BudgetIsTheSignal' /\ BudgetEndIsAnnounced'
    BY <1>1 DEF Inv, PlainTurn, BudgetIsTheSignal, BudgetEndIsAnnounced
  <2> QED
    BY <2>2, <2>3, <2>4, <2>5 DEF Inv
<1>2. CASE /\ loop.nudges < MaxNudges /\ UNCHANGED <<attempt, pc>>
           /\ loop' = [loop EXCEPT !.turn = @ + 1, !.nudges = @ + 1]
  <2>1. /\ loop' \in Loops
        /\ loop'.cap = loop.cap /\ loop'.nudges = loop.nudges + 1
        /\ loop'.turn = loop.turn + 1 /\ loop'.written = loop.written
    <3>1. loop \in Loops
      BY DEF Inv, TypeOK, Loops
    <3> QED
      BY <1>2, <3>1, LoopAfterNudge
  <2>2. TypeOK'
    BY <1>2, <2>1 DEF Loops, Inv, TypeOK, PlainTurn
  <2>3. RowFollowsPc' /\ WorkIsKept' /\ ListIsLanded' /\ PressureFollowsRounds'
    BY <1>2, <2>1 DEF Inv, PlainTurn, RowFollowsPc, Running, OpenPCs, WorkIsKept, ListIsLanded,
                      PressureFollowsRounds
  <2>4. TurnsAreRounds'
    <3>1. /\ pc = "llm" /\ pc' = "llm" /\ UNCHANGED <<rounds, workRounds, retries>>
          /\ workRounds \in Nat /\ loop.turn \in Nat /\ loop.nudges \in Nat
          /\ MaxNudges \in Nat /\ loop.nudges < MaxNudges
      BY <1>2, CapsAssumption DEF PlainTurn, Inv, TypeOK
    <3>2. /\ rounds = workRounds /\ workRounds <= WorkBudget
          /\ retries = 0 => loop.cap = MaxIterations /\ loop.turn <= loop.nudges + workRounds
      BY <3>1 DEF Inv, TurnsAreRounds, OpenPCs
    <3> QED
      BY <2>1, <3>1, <3>2 DEF TurnsAreRounds
  <2>5. BudgetIsTheSignal' /\ BudgetEndIsAnnounced'
    BY <1>2 DEF Inv, PlainTurn, BudgetIsTheSignal, BudgetEndIsAnnounced
  <2> QED
    BY <2>2, <2>3, <2>4, <2>5 DEF Inv
<1>3. CASE Turn(0) /\ Finish("failed", "no_workspace_write") /\ pc' = "terminated"
  <2>1. pc \in OpenPCs /\ "failed" \in RunAttemptStatuses \ {"running"}
    BY DEF PlainTurn, OpenPCs, RunAttemptStatuses
  <2>2. \E n \in Nat : loop' = [loop EXCEPT !.turn = @ + 1, !.calls = n]
    BY <1>3 DEF Turn
  <2> QED
    BY <1>3, <2>1, <2>2, InvFinish DEF PlainTurn
<1> QED
  BY <1>1, <1>2, <1>3 DEF PlainTurn

(* The cap on turns keeps Inv: a first pass runs out of rounds before it.  *)
LEMMA InvIterationCap == Inv /\ IterationCap => Inv'
<1> SUFFICES ASSUME Inv, IterationCap PROVE Inv'
  OBVIOUS
<1>1. pc \in OpenPCs /\ "timed_out" \in RunAttemptStatuses \ {"running"}
  BY DEF IterationCap, OpenPCs, RunAttemptStatuses
<1>2. ASSUME retries = 0 PROVE FALSE
  <2>1. /\ loop.turn = MaxIterations /\ loop.nudges <= MaxNudges /\ workRounds <= WorkBudget
        /\ loop.turn <= loop.nudges + workRounds
    BY <1>1, <1>2 DEF IterationCap, Inv, TurnsAreRounds
  <2>2. /\ loop.nudges \in Nat /\ workRounds \in Nat /\ MaxIterations \in Nat
        /\ MaxNudges \in Nat /\ WorkBudget \in Nat
    BY CapsAssumption DEF Inv, TypeOK
  <2> QED
    BY <2>1, <2>2, HeadroomAssumption
<1>3. retries > 0
  BY <1>2 DEF Inv, TypeOK
<1> QED
  BY <1>1, <1>3, InvFinish DEF IterationCap

(* A tool call keeps Inv: its event is a round, its write joins the list.  *)
LEMMA InvToolCall == Inv /\ ToolCall => Inv'
<1> SUFFICES ASSUME Inv, ToolCall PROVE Inv'
  OBVIOUS
<1> DEFINE Wider(call, succeeds) ==
             /\ recent' = LastEvents(Append(recent, call))
             /\ landed' = landed \cup Wrote(call, succeeds)
             /\ loop' = [loop EXCEPT !.calls = @ - 1, !.written = @ \cup Wrote(call, succeeds)]
<1>1. PICK call \in Calls, succeeds \in BOOLEAN :
        /\ Wider(call, succeeds)
        /\ \/ /\ TerminalReason(call) # "none"
              /\ Finish(IF TerminalReason(call) = "repeated_tool_call" THEN "failed"
                        ELSE "timed_out", TerminalReason(call))
              /\ pc' = "terminated"
              /\ UNCHANGED pressed
           \/ /\ TerminalReason(call) = "none"
              /\ pressed' = IF NearBudget THEN pressed + 1 ELSE pressed
              /\ pc' = IF loop.calls = 1 THEN "llm" ELSE "tools"
              /\ UNCHANGED attempt
  BY DEF ToolCall
<1>2. /\ pc = "tools" /\ rounds' = rounds + 1 /\ workRounds' = workRounds + 1
      /\ UNCHANGED <<retries, used, before, workspace, carried>>
  BY DEF ToolCall
<1>3. recent' \in Seq(Calls)
  <2>1. Append(recent, call) \in Seq(Calls) /\ Len(Append(recent, call)) > 0
    BY AppendProperties DEF Inv, TypeOK
  <2>2. Append(recent, call) # <<>>
    BY <2>1, EmptySeq
  <2> QED
    BY <1>1, <2>1, <2>2, HeadTailProperties DEF LastEvents
<1>4. /\ loop' \in Loops
      /\ loop'.turn = loop.turn /\ loop'.cap = loop.cap /\ loop'.nudges = loop.nudges
      /\ loop'.calls = loop.calls - 1
      /\ loop'.written = loop.written \cup Wrote(call, succeeds)
      /\ Wrote(call, succeeds) \subseteq Files
  <2>1. loop \in Loops /\ loop.calls > 0 /\ Wrote(call, succeeds) \in SUBSET Files
    BY <1>2 DEF Inv, TypeOK, TurnsAreRounds, Wrote, Loops
  <2> QED
    BY <1>1, <2>1, LoopAfterCall
<1>5. /\ Running /\ attempt.reason = "none" /\ rounds = workRounds /\ workRounds <= WorkBudget
      /\ workRounds \in Nat /\ pressed \in Nat /\ loop.calls \in Nat /\ loop.calls > 0
      /\ loop.turn \in Nat /\ loop.nudges \in Nat
  BY <1>2 DEF Inv, TypeOK, RowFollowsPc, TurnsAreRounds, OpenPCs
<1>6. /\ {WorkBudget, CatastrophicCap, SoftHeadroom, MaxIterations, MaxNudges} \subseteq Nat
      /\ WorkBudget + 1 < CatastrophicCap /\ 0 < SoftHeadroom /\ SoftHeadroom < WorkBudget
  BY CapsAssumption, HeadroomAssumption
<1>7. pressed = IF workRounds >= WorkBudget - SoftHeadroom THEN 1 ELSE 0
  BY <1>2 DEF Inv, PressureFollowsRounds, OpenPCs
<1>8. ListIsLanded' /\ loop'.nudges <= MaxNudges /\ pc' # "start" /\ pc' # "done" /\ rounds' = workRounds'
  BY <1>1, <1>2, <1>4, <1>5 DEF Inv, ListIsLanded, TurnsAreRounds
<1>9. rounds' < CatastrophicCap
  BY <1>2, <1>5, <1>6
<1>10. CASE /\ TerminalReason(call) # "none"
            /\ Finish(IF TerminalReason(call) = "repeated_tool_call" THEN "failed"
                      ELSE "timed_out", TerminalReason(call))
            /\ pc' = "terminated"
            /\ UNCHANGED pressed
  <2>1. \/ TerminalReason(call) = "repeated_tool_call"
        \/ TerminalReason(call) = "phase_round_budget_exceeded" /\ workRounds' > WorkBudget
    BY <1>2, <1>5, <1>6, <1>9, <1>10 DEF TerminalReason
  <2>2. /\ attempt'.reason = TerminalReason(call) /\ attempt'.status \in {"failed", "timed_out"}
        /\ attempt' \in [phase : {"prepare", "work", "verify", "summarize", "terminal"},
                         status : RunAttemptStatuses,
                         reason : {"none"} \cup BudgetReasons \cup OtherReasons]
    BY <1>10, <2>1 DEF Finish, RunAttemptStatuses, BudgetReasons, OtherReasons
  <2>3. TypeOK'
    BY <1>2, <1>3, <1>4, <1>5, <1>10, <1>1, <2>2 DEF Loops, Inv, TypeOK, PCs
  <2>4. RowFollowsPc' /\ WorkIsKept' /\ PressureFollowsRounds' /\ TurnsAreRounds'
    BY <1>2, <1>8, <1>10, <2>2
       DEF Inv, RowFollowsPc, Running, OpenPCs, WorkIsKept, PressureFollowsRounds,
           TurnsAreRounds
  <2>5. BudgetIsTheSignal'
    BY <2>1, <2>2 DEF BudgetIsTheSignal
  <2>6. BudgetEndIsAnnounced'
    BY <1>2, <1>5, <1>6, <1>7, <1>10, <2>1, <2>2 DEF BudgetEndIsAnnounced
  <2> QED
    BY <1>8, <2>3, <2>4, <2>5, <2>6 DEF Inv
<1>11. CASE /\ TerminalReason(call) = "none"
            /\ pressed' = IF NearBudget THEN pressed + 1 ELSE pressed
            /\ pc' = IF loop.calls = 1 THEN "llm" ELSE "tools"
            /\ UNCHANGED attempt
  <2>1. workRounds' <= WorkBudget
    BY <1>2, <1>5, <1>6, <1>11 DEF TerminalReason
  <2>2. pressed' = IF workRounds' >= WorkBudget - SoftHeadroom THEN 1 ELSE 0
    BY <1>2, <1>5, <1>6, <1>7, <1>11 DEF NearBudget
  <2>3. TypeOK'
    <3>1. pressed' \in Nat /\ rounds' \in Nat /\ workRounds' \in Nat /\ pc' \in PCs
      BY <1>2, <1>5, <1>11, <2>2 DEF PCs
    <3>2. landed' \subseteq Files
      BY <1>1, <1>4 DEF Inv, TypeOK
    <3> QED
      BY <1>2, <1>3, <1>4, <1>11, <3>1, <3>2 DEF Loops, Inv, TypeOK
  <2>4. RowFollowsPc' /\ WorkIsKept' /\ PressureFollowsRounds'
    BY <1>2, <1>8, <1>11, <2>2
       DEF Inv, RowFollowsPc, Running, OpenPCs, WorkIsKept, PressureFollowsRounds
  <2>5. TurnsAreRounds'
    BY <1>2, <1>4, <1>5, <1>8, <1>11, <2>1 DEF Inv, TurnsAreRounds, OpenPCs
  <2>6. BudgetIsTheSignal' /\ BudgetEndIsAnnounced'
    BY <1>5, <1>11, <2>2 DEF BudgetIsTheSignal, BudgetEndIsAnnounced
  <2> QED
    BY <1>8, <2>3, <2>4, <2>5, <2>6 DEF Inv
<1> QED
  BY <1>1, <1>10, <1>11

(* Probing the aspects, giving up and re-entering the loop keep Inv.       *)
LEMMA InvAspectLoop == Inv /\ AspectLoop => Inv'
<1> SUFFICES ASSUME Inv, AspectLoop PROVE Inv'
  OBVIOUS
<1>1. CASE ProbeDone
  <2>1. TypeOK'
    BY <1>1 DEF Inv, TypeOK, ProbeDone, PCs, row
  <2>2. RowFollowsPc' /\ WorkIsKept' /\ PressureFollowsRounds' /\ ListIsLanded' /\ TurnsAreRounds'
    BY <1>1 DEF Inv, ProbeDone, row, RowFollowsPc, Running, OpenPCs, WorkIsKept,
                PressureFollowsRounds, ListIsLanded, TurnsAreRounds
  <2>3. BudgetIsTheSignal' /\ BudgetEndIsAnnounced'
    BY <1>1 DEF Inv, ProbeDone, row, BudgetIsTheSignal, BudgetEndIsAnnounced
  <2> QED
    BY <2>1, <2>2, <2>3 DEF Inv
<1>2. CASE ProbeGiveUp
  <2>1. pc \in OpenPCs /\ "timed_out" \in RunAttemptStatuses \ {"running"}
    BY <1>2 DEF ProbeGiveUp, Failing, OpenPCs, RunAttemptStatuses
  <2> QED
    BY <1>2, <2>1, InvFinish DEF ProbeGiveUp
<1>3. CASE ProbeRetry
  <2>1. /\ pc = "probe" /\ pc' = "llm" /\ retries' = retries + 1 /\ retries \in Nat
        /\ loop' = Pass(RetryIterations, loop.written)
        /\ UNCHANGED <<attempt, rounds, workRounds, recent, used, landed, before, pressed,
                       workspace, carried>>
    BY <1>3 DEF ProbeRetry, Reenter, Failing, row, Inv, TypeOK
  <2>2. /\ loop' \in Loops
        /\ loop'.written = loop.written /\ loop'.nudges = 0
    BY <2>1, CapsAssumption DEF Inv, TypeOK, Pass, Loops
  <2>3. TypeOK'
    BY <2>1, <2>2 DEF Loops, Inv, TypeOK, PCs
  <2>4. RowFollowsPc' /\ WorkIsKept' /\ PressureFollowsRounds' /\ ListIsLanded'
    BY <2>1, <2>2 DEF Inv, RowFollowsPc, Running, OpenPCs, WorkIsKept, PressureFollowsRounds,
                      ListIsLanded
  <2>5. TurnsAreRounds'
    BY <2>1, <2>2, CapsAssumption DEF Inv, TurnsAreRounds, OpenPCs
  <2>6. BudgetIsTheSignal' /\ BudgetEndIsAnnounced'
    BY <2>1 DEF Inv, BudgetIsTheSignal, BudgetEndIsAnnounced
  <2> QED
    BY <2>3, <2>4, <2>5, <2>6 DEF Inv
<1> QED
  BY <1>1, <1>2, <1>3 DEF AspectLoop

(* The end of an attempt and of the dispatch keep Inv.                     *)
LEMMA InvEnding == Inv /\ Ending => Inv'
<1> SUFFICES ASSUME Inv, Ending PROVE Inv'
  OBVIOUS
<1>1. CASE Verify
  BY <1>1, InvAdvance DEF Verify
<1>2. CASE Summarize
  BY <1>2, InvAdvance DEF Summarize
<1>3. CASE Complete
  <2>1. pc \in OpenPCs /\ "completed" \in RunAttemptStatuses \ {"running"}
    BY <1>3 DEF Complete, OpenPCs, RunAttemptStatuses
  <2> QED
    BY <1>3, <2>1, InvFinish DEF Complete
<1>4. CASE Handoff
  <2>1. TypeOK'
    BY <1>4 DEF Inv, TypeOK, Handoff, PCs, row
  <2>2. RowFollowsPc'
    BY <1>4, CapsAssumption
       DEF Inv, TypeOK, Handoff, row, RowFollowsPc, Running, OpenPCs, CanContinue
  <2>3. WorkIsKept' /\ PressureFollowsRounds' /\ ListIsLanded' /\ TurnsAreRounds'
    BY <1>4 DEF Inv, Handoff, row, OpenPCs, WorkIsKept, PressureFollowsRounds, ListIsLanded,
                TurnsAreRounds
  <2>4. BudgetIsTheSignal' /\ BudgetEndIsAnnounced'
    BY <1>4 DEF Inv, Handoff, row, BudgetIsTheSignal, BudgetEndIsAnnounced
  <2> QED
    BY <2>1, <2>2, <2>3, <2>4 DEF Inv
<1>5. CASE Deliver
  <2>1. TypeOK'
    BY <1>5 DEF Inv, TypeOK, Deliver, PCs, row
  <2>2. RowFollowsPc' /\ PressureFollowsRounds' /\ ListIsLanded' /\ TurnsAreRounds'
    BY <1>5 DEF Inv, Deliver, row, RowFollowsPc, Running, OpenPCs, PressureFollowsRounds,
                ListIsLanded, TurnsAreRounds
  <2>3. WorkIsKept'
    BY <1>5 DEF Inv, Deliver, row, ListIsLanded, WorkIsKept
  <2>4. BudgetIsTheSignal' /\ BudgetEndIsAnnounced'
    BY <1>5 DEF Inv, Deliver, row, BudgetIsTheSignal, BudgetEndIsAnnounced
  <2> QED
    BY <2>1, <2>2, <2>3, <2>4 DEF Inv
<1>6. CASE GiveUp
  <2>1. TypeOK'
    BY <1>6 DEF Inv, TypeOK, GiveUp, PCs, row
  <2>2. RowFollowsPc' /\ PressureFollowsRounds' /\ ListIsLanded' /\ TurnsAreRounds'
    BY <1>6 DEF Inv, GiveUp, row, RowFollowsPc, Running, OpenPCs, PressureFollowsRounds,
                ListIsLanded, TurnsAreRounds
  <2>3. WorkIsKept'
    BY <1>6 DEF Inv, GiveUp, row, RowFollowsPc, WorkIsKept
  <2>4. BudgetIsTheSignal' /\ BudgetEndIsAnnounced'
    BY <1>6 DEF Inv, GiveUp, row, BudgetIsTheSignal, BudgetEndIsAnnounced
  <2> QED
    BY <2>1, <2>2, <2>3, <2>4 DEF Inv
<1> QED
  BY <1>1, <1>2, <1>3, <1>4, <1>5, <1>6 DEF Ending

(* Inv is inductive: every step of a dispatch keeps it.                    *)
LEMMA InvStep == Inv /\ [Next]_vars => Inv'
<1> SUFFICES ASSUME Inv, [Next]_vars PROVE Inv'
  OBVIOUS
<1>1. CASE CreateRunAttempt
  BY <1>1, InvCreate
<1>2. CASE AdvanceToWork
  BY <1>2, InvAdvance DEF AdvanceToWork
<1>3. CASE WorkLoop
  <2>1. CASE ExecutorError
    <3>1. pc \in OpenPCs /\ "failed" \in RunAttemptStatuses \ {"running"}
      BY <2>1 DEF ExecutorError, OpenPCs, RunAttemptStatuses
    <3> QED
      BY <2>1, <3>1, InvFinish DEF ExecutorError
  <2>2. CASE RefusedCall
    <3>1. pc \in OpenPCs /\ "failed" \in RunAttemptStatuses \ {"running"}
      BY <2>2 DEF RefusedCall, OpenPCs, RunAttemptStatuses
    <3> QED
      BY <2>2, <3>1, InvFinish DEF RefusedCall
  <2> QED
    BY <1>3, <2>1, <2>2, InvToolTurn, InvPlainTurn, InvIterationCap, InvToolCall DEF WorkLoop
<1>4. CASE UNCHANGED vars
  BY <1>4 DEF vars, Inv, TypeOK, RowFollowsPc, Running, TurnsAreRounds, PressureFollowsRounds,
              ListIsLanded, BudgetIsTheSignal, BudgetEndIsAnnounced, WorkIsKept
<1> QED
  BY <1>1, <1>2, <1>3, <1>4, InvAspectLoop, InvEnding DEF Next

(* The row, the counters and the lists hold values of their kinds in every *)
(* state of every dispatch.                                                *)
THEOREM AttemptTypes == Spec => []TypeOK
<1>1. Inv => TypeOK
  BY DEF Inv
<1> QED
  BY <1>1, InvInit, InvStep, PTL DEF Spec

(* For every caps with the headroom their comments ask for: neither the    *)
(* catastrophic cap nor, in a first pass, the cap on turns ends an attempt *)
(* before the work budget does.                                            *)
THEOREM BudgetSignals == Spec => []BudgetIsTheSignal
<1>1. Inv => BudgetIsTheSignal
  BY DEF Inv
<1> QED
  BY <1>1, InvInit, InvStep, PTL DEF Spec

(* The soft-pressure message goes out at most once per attempt, and before *)
(* every end by budget.                                                    *)
THEOREM BudgetEndAnnounced == Spec => []BudgetEndIsAnnounced
<1>1. Inv => BudgetEndIsAnnounced
  BY DEF Inv
<1> QED
  BY <1>1, InvInit, InvStep, PTL DEF Spec

(* Whatever ends a dispatch but an executor error, its Deliverable names   *)
(* every file its last attempt wrote.                                      *)
THEOREM WorkKept == Spec => []WorkIsKept
<1>1. Inv => WorkIsKept
  BY DEF Inv
<1> QED
  BY <1>1, InvInit, InvStep, PTL DEF Spec

-----------------------------------------------------------------------------
(* A step within an attempt changes nothing the caller relies on.          *)
LEMMA WithinAttempt ==
    ASSUME Inv, Inv', pc \in OpenPCs, pc' \in OpenPCs, UNCHANGED used
    PROVE  UNCHANGED Dispatch!vars
<1>1. Running /\ Running'
  BY DEF Inv, RowFollowsPc
<1>2. Outcome = "none" /\ Outcome' = "none"
  BY DEF Outcome, OpenPCs
<1>3. pc # "terminated" /\ pc' # "terminated"
  BY DEF OpenPCs
<1> QED
  BY <1>1, <1>2, <1>3 DEF Dispatch!vars

(* Closing an attempt continues the dispatch, ends it, or exhausts it.     *)
LEMMA ClosesAttempt ==
    ASSUME Inv, Inv', pc \in OpenPCs, pc' \in {"terminated", "failed", "deliver"},
           UNCHANGED used
    PROVE  Dispatch!Next
<1>1. Running /\ ~Running' /\ Outcome = "none" /\ pc # "terminated"
  BY DEF Inv, RowFollowsPc, Outcome, OpenPCs
<1>2. /\ used \in Nat /\ MaxContinuations \in Nat /\ used <= MaxContinuations
      /\ pc' = "failed" => attempt'.reason = "executor_error"
      /\ pc' = "deliver" => attempt'.reason = "summarized"
  BY CapsAssumption DEF Inv, RowFollowsPc, TypeOK
<1>3. pc' # "terminated" => ~Exhaustion'
  BY <1>2 DEF Exhaustion, BudgetReasons
<1>4. CanContinue' <=> used < MaxContinuations
  BY DEF CanContinue
<1>5. CASE pc' = "terminated" /\ Exhaustion' /\ CanContinue'
  <2>1. Outcome' = "none"
    BY <1>5 DEF Outcome, Exhaustion, BudgetReasons
  <2> QED
    BY <1>1, <1>4, <1>5, <2>1 DEF Dispatch!Next, Dispatch!Continue, Dispatch!Close
<1>6. CASE Exhaustion' /\ ~CanContinue'
  <2>1. Outcome' = "exhausted" /\ used = MaxContinuations
    BY <1>2, <1>4, <1>6 DEF Outcome, Exhaustion, BudgetReasons
  <2> QED
    BY <1>1, <1>6, <2>1 DEF Dispatch!Next, Dispatch!Exhaust, Dispatch!Close
<1>7. CASE ~Exhaustion'
  <2>1. Outcome' \in {"converged", "failed"}
    BY <1>7 DEF Outcome
  <2> QED
    BY <1>1, <1>7, <2>1 DEF Dispatch!Next, Dispatch!End, Dispatch!Close
<1> QED
  BY <1>3, <1>5, <1>6, <1>7

(* Every step of a dispatch is one its caller expects, or none at all.     *)
LEMMA DispatchStep == Inv /\ Inv' /\ [Next]_vars => [Dispatch!Next]_(Dispatch!vars)
<1> SUFFICES ASSUME Inv, Inv', [Next]_vars
             PROVE  [Dispatch!Next]_(Dispatch!vars)
  OBVIOUS
<1>1. CASE CreateRunAttempt
  <2>1. ~Running /\ Running'
    BY <1>1 DEF Inv, RowFollowsPc, CreateRunAttempt, OpenPCs
  <2>2. Outcome = "none" /\ Outcome' = "none"
    BY <1>1 DEF CreateRunAttempt, Outcome
  <2> QED
    BY <1>1, <2>1, <2>2 DEF CreateRunAttempt, Dispatch!Next, Dispatch!Open
<1>2. CASE Handoff
  <2>1. UNCHANGED Running
    BY <1>2 DEF Handoff, row, Running
  <2>2. Outcome = "none" /\ Outcome' = "none"
    BY <1>2 DEF Handoff, Outcome, Exhaustion, BudgetReasons
  <2> QED
    BY <1>2, <2>1, <2>2 DEF Handoff, Dispatch!vars, Running
<1>3. CASE Deliver \/ GiveUp
  <2>1. /\ UNCHANGED <<attempt, used>> /\ pc' = "done"
        /\ pc \in {"deliver", "failed", "terminated"}
        /\ ~(pc = "terminated" /\ Exhaustion /\ CanContinue)
    BY <1>3 DEF Deliver, GiveUp, row
  <2>2. UNCHANGED <<Exhaustion, CanContinue>>
    BY <2>1 DEF Exhaustion, CanContinue
  <2>3. UNCHANGED Outcome
    BY <2>1, <2>2 DEF Outcome
  <2> QED
    BY <2>1, <2>3 DEF Dispatch!vars, Running
<1>4. CASE AdvanceToWork \/ ToolTurn \/ ProbeDone \/ ProbeRetry \/ Verify \/ Summarize
  BY <1>4, WithinAttempt
     DEF AdvanceToWork, ToolTurn, ProbeDone, ProbeRetry, Reenter, Failing, Verify, Summarize,
         OpenPCs
<1>5. CASE ExecutorError \/ IterationCap \/ RefusedCall \/ ProbeGiveUp \/ Complete
  BY <1>5, ClosesAttempt
     DEF ExecutorError, IterationCap, RefusedCall, ProbeGiveUp, Failing, Complete, OpenPCs
<1>6. CASE PlainTurn \/ ToolCall
  <2>1. /\ pc \in OpenPCs /\ UNCHANGED used
        /\ pc' \in OpenPCs \/ pc' = "terminated"
    BY <1>6 DEF PlainTurn, ToolCall, OpenPCs
  <2> QED
    BY <2>1, WithinAttempt, ClosesAttempt
<1>7. CASE UNCHANGED vars
  BY <1>7 DEF vars, Dispatch!vars, Running, Outcome, Exhaustion, CanContinue
<1> QED
  BY <1>1, <1>2, <1>3, <1>4, <1>5, <1>6, <1>7 DEF Next, WorkLoop, AspectLoop, Ending

(* dispatch_run_attempt implements what its caller relies on: one open     *)
(* attempt at a time, each closed, at most MaxContinuations continuations, *)
(* and exhaustion only when none is left.                                  *)
THEOREM DispatchImplemented == Spec => ImplementsDispatch
<1>1. Init => Dispatch!Init
  BY DEF Init, Dispatch!Init, Running, Outcome
<1>2. Spec => []Inv
  BY InvInit, InvStep, PTL DEF Spec
<1> QED
  BY <1>1, <1>2, DispatchStep, PTL DEF Spec, ImplementsDispatch, Dispatch!Spec
=============================================================================
