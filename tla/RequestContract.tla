--------------------------- MODULE RequestContract ---------------------------
(***************************************************************************)
(* What a founder may rely on, whatever the workers, the streams and the   *)
(* reaper do underneath: a Direction becomes a Request that runs, and a    *)
(* Request that runs either asks (and then there is a Decision to answer)  *)
(* or ships, and it ships only work that is proven.                        *)
(*                                                                         *)
(* `proven`: every WorkStep is review_ready and its latest Deliverable     *)
(* verified.  `asked`: some Decision of the Request is open.               *)
(***************************************************************************)
VARIABLES status, proven, asked

vars == <<status, proven, asked>>

Init == status = "absent" /\ ~proven /\ ~asked

Move(from, to) == status = from /\ status' = to

Direct == Move("absent", "open") /\ UNCHANGED <<proven, asked>>

Start == Move("open", "running") /\ UNCHANGED <<proven, asked>>

(* Work goes on: steps are proven and Decisions raised.  A proof is never  *)
(* taken back.                                                             *)
Work ==
    /\ status = "running"
    /\ proven' \in BOOLEAN /\ (proven => proven')
    /\ asked' \in BOOLEAN
    /\ UNCHANGED status

Ask == Move("running", "needs_decision") /\ asked' /\ UNCHANGED proven

(* The founder answers one of the open Decisions.                          *)
Answer == status = "needs_decision" /\ asked' \in BOOLEAN /\ UNCHANGED <<status, proven>>

Resume == Move("needs_decision", "running") /\ UNCHANGED <<proven, asked>>

Approve == Move("running", "review_ready") /\ proven /\ UNCHANGED <<proven, asked>>

Ship == Move("review_ready", "shipped") /\ proven /\ UNCHANGED <<proven, asked>>

Next == Direct \/ Start \/ Work \/ Ask \/ Answer \/ Resume \/ Approve \/ Ship

Spec == Init /\ [][Next]_vars

(* A Request does not sit at `running`.                                    *)
Settles == status = "running" ~> status \in {"shipped", "needs_decision"}
=============================================================================
