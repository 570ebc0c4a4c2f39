---------------------------- MODULE Verification ----------------------------
(***************************************************************************)
(* The verification engine: which aspects a work step's proof consists of,  *)
(* how each is run on the host or in the project's sandbox, and how their   *)
(* statuses roll up to the Deliverable's proof state.  The same selection   *)
(* and runners serve the dispatcher's probe of its own work.                *)
(*                                                                         *)
(* A repository is the set of the features the selection looks for.  What a *)
(* command does is decided by `broken`, the positions of the checks the     *)
(* work really fails, by the dependencies being there, and by Disturbances. *)
(***************************************************************************)
EXTENDS BSNexusDomain, VerificationContract, Integers, Sequences

CONSTANTS
    Workspaces,     \* records [features, changed_tests, type, contract]
    Modes,          \* "host", "sandbox": where command aspects run
    Judges,         \* "none", "some": is an executor wired for the judge
    Disturbances,   \* what may happen to commands: "timeout", "missing", "raised"
    JudgeNoise,     \* replies of the judge that are not a verdict per criterion
    MaxCalls        \* bound: probes and verifications of one workspace

ASSUME MaxCallsAssumption == MaxCalls \in Nat
ASSUME WorkspacesAssumption == \A w \in Workspaces : w.contract \in Seq(RawChecks)
ASSUME EnvironmentAssumption ==
    /\ Modes \subseteq {"host", "sandbox"} /\ Judges \subseteq {"none", "some"}
    /\ Disturbances \subseteq {"timeout", "missing", "raised"}
\* A judge may be wrong about work that holds, or answer too much or too little;
\* it does not pass every criterion of work that fails one.
ASSUME JudgeAssumption ==
    \A reply \in JudgeNoise : Len(reply) = 2 => \E k \in DOMAIN reply : reply[k] = "fail"

VARIABLES
    workspace,   \* the workspace and the contract its RunAttempt declared
    broken,      \* positions of the checks the work does not satisfy
    mode, judge, \* the verifier's environment
    dockerCli,      \* whether the verifier's host has the docker CLI
    weather,     \* the disturbances commands may meet
    call,        \* the call in progress: kind, where it is, the next aspect
    specs,       \* the AspectSpecs of the call
    statuses,    \* the status of each aspect
    verdicts,    \* the statuses the last verification ended with
    venv,        \* the verifier venv of the call
    deps,        \* the repository's dependencies are in the sandbox
    proof,       \* deliverable.proof_state
    status,      \* deliverable.status
    probed,      \* statuses of the last complete probe
    calls

inputs == <<workspace, broken, mode, judge, dockerCli, weather>>
verificationVars == <<workspace, broken, mode, judge, dockerCli, weather, call, specs, statuses,
          verdicts, venv, deps, proof, status, probed, calls>>

AspectStatuses == {"queued", "running", "passed", "failed", "skipped", "error"}
AspectTypes == {"code_test", "code_lint", "code_install_smoke", "code_build",
                "declared_command", "llm_judge"}

----------------------------------------------------------------------------
(* The declared contract.                                                  *)

ContractToAspectSpecs(checks) ==
    [i \in DOMAIN checks |->
        IF checks[i] = "command" THEN "declared_command" ELSE "llm_judge"]

----------------------------------------------------------------------------
(* Heuristic selection over the repository's features.                     *)

Has(repo, feature) == feature \in repo

PythonTestRunner(w) ==
    \/ w.features \cap {"pyproject", "pytest_config", "tests_dir", "root_tests"} # {}
    \/ w.changed_tests

\* A test script that is not npm's placeholder, or else a build script.
NodeTestRunner(w) ==
    /\ Has(w.features, "package_json")
    /\ w.features \cap {"test_script", "build_script"} # {}

CodeTestAspect(w) ==
    IF PythonTestRunner(w) \/ NodeTestRunner(w) THEN <<"code_test">> ELSE <<>>

CodeLintAspect(w) ==
    IF {"pyproject", "ruff"} \subseteq w.features THEN <<"code_lint">> ELSE <<>>

CodeInstallSmokeAspect(w) ==
    IF {"pyproject", "dependencies"} \subseteq w.features THEN <<"code_install_smoke">> ELSE <<>>

CodeBuildAspect(w) ==
    IF Has(w.features, "dockerfile") THEN <<"code_build">> ELSE <<>>

SelectVerificationAspects(w) ==
    IF w.type \in {"code", "pr", "preview"}
    THEN CodeTestAspect(w) \o CodeLintAspect(w) \o CodeInstallSmokeAspect(w) \o CodeBuildAspect(w)
    ELSE <<>>

Specs(w) ==
    LET checks == ParseVerificationContract(w.contract)
    IN  IF checks # <<>> THEN ContractToAspectSpecs(checks) ELSE SelectVerificationAspects(w)

\* The Python test runner, ruff and a declared command need the verifier venv.
NeedsVenv(w, spec) ==
    \/ spec \in {"declared_command", "code_lint"}
    \/ spec = "code_test" /\ PythonTestRunner(w)

\* The module the install smoke imports: the layout first, the declared name
\* last, and none if the repository gives no signal.
ImportTarget(repo) ==
    LET layout == SelectSeq(<<"root_entry", "src_package", "src_init", "src_entry",
                              "top_package", "project_name">>, LAMBDA f : Has(repo, f))
    IN  IF layout = <<>> THEN "none" ELSE Head(layout)

\* Whether that import finds its module after an editable install: modules at
\* the root are on the path anyway, those under src/ only if they are packaged.
Importable(repo) ==
    ImportTarget(repo) \in {"none", "root_entry", "src_init", "top_package"} \/ Has(repo, "packaged")

\* What the repository installs for itself in the sandbox: the devcontainer's
\* lifecycle commands, else one command for its manifest.
SetupCommands(repo) ==
    IF Has(repo, "devcontainer") THEN <<"onCreate", "postCreate">>
    ELSE IF repo \cap {"uv_lock", "pyproject"} # {} THEN <<"uv_sync">>
    ELSE IF Has(repo, "package_json") THEN <<"node_install">>
    ELSE <<>>

----------------------------------------------------------------------------
(* What running one aspect can yield.                                      *)

\* Checks run in the sandbox without the dependencies they need.
Starved == mode = "sandbox" /\ SetupCommands(workspace.features) # <<>> /\ ~deps

\* The check does not hold of the work.
Unsound(i) ==
    i \in broken \/ (specs[i] = "code_install_smoke" /\ ~Importable(workspace.features))

\* How the commands of the i-th aspect end: the first that does not exit 0.
Exits(i) ==
    (IF Unsound(i) \/ Starved THEN {"nonzero"} ELSE {"ok"}) \cup weather

\* `docker exec` in the sandbox.  The commands of install_smoke and code_build
\* are run as recorded, their <placeholders> unresolved: one cannot import its
\* module, the other finds no docker in the image.
SandboxExits(i) ==
    CASE specs[i] = "code_install_smoke" -> {"nonzero"} \cup weather
      [] specs[i] = "code_build" -> {"missing"}
      [] OTHER -> Exits(i)

(* Mutant: a docker exec that raises fails the work.                        *)
RunAspectInSandboxBlaming(exit) ==
    CASE exit = "ok" -> "passed"
      [] exit = "missing" -> "skipped"
      [] exit \in {"nonzero", "timeout", "raised"} -> "failed"

RunAspectInSandbox(exit) ==
    CASE exit = "ok" -> "passed"
      [] exit = "missing" -> "skipped"
      [] exit = "raised" -> "error"
      [] exit \in {"nonzero", "timeout"} -> "failed"

RunDefaultAspect(exit) ==
    CASE exit = "ok" -> "passed"
      [] exit = "raised" -> "error"
      [] exit \in {"nonzero", "timeout", "missing"} -> "failed"

\* A venv of its own, an install and, if there is a target, an import; a venv
\* that cannot be made (`missing` here) is nobody's failure.
RunInstallSmoke(exit) == IF exit = "missing" THEN "error" ELSE RunDefaultAspect(exit)

RunDockerBuild(exit) == IF dockerCli THEN RunDefaultAspect(exit) ELSE "skipped"

\* The judge's reply: "pass", "fail" or no object, one entry per criterion.
\* The number of entries is checked, then those that are no object are dropped.
JudgeCriteria(reply, criteria) ==
    IF Len(reply) # criteria THEN "error"
    ELSE IF \E k \in DOMAIN reply : reply[k] = "fail" THEN "failed" ELSE "passed"

\* A judge that does its work passes what holds and fails what does not.
Replies(i) ==
    {IF i \in broken THEN <<"pass", "fail">> ELSE <<"pass", "pass">>} \cup JudgeNoise

RunLlmJudge(i) ==
    IF judge = "none" THEN {"skipped"}
    ELSE {JudgeCriteria(reply, 2) : reply \in Replies(i)}
         \cup (IF "raised" \in weather THEN {"error"} ELSE {})

(* Mutant: a venv that cannot be made fails the work.                       *)
RunOnHostBlaming(i) ==
    IF NeedsVenv(workspace, specs[i]) /\ venv # "ready" THEN {"failed"}
    ELSE CASE specs[i] = "code_install_smoke" -> {RunInstallSmoke(x) : x \in Exits(i)}
           [] specs[i] = "code_build" -> {RunDockerBuild(x) : x \in Exits(i)}
           [] OTHER -> {RunDefaultAspect(x) : x \in Exits(i)}

RunOnHost(i) ==
    IF NeedsVenv(workspace, specs[i]) /\ venv # "ready" THEN {"error"}
    ELSE CASE specs[i] = "code_install_smoke" -> {RunInstallSmoke(x) : x \in Exits(i)}
           [] specs[i] = "code_build" -> {RunDockerBuild(x) : x \in Exits(i)}
           [] OTHER -> {RunDefaultAspect(x) : x \in Exits(i)}

RunOneAspect(i) ==
    CASE specs[i] = "llm_judge" -> RunLlmJudge(i)
      [] specs[i] # "llm_judge" /\ mode = "sandbox" ->
            {RunAspectInSandbox(x) : x \in SandboxExits(i)}
      [] specs[i] # "llm_judge" /\ mode = "host" -> RunOnHost(i)

----------------------------------------------------------------------------
(* The roll-up.  Every selected aspect is blocking.                        *)

(* Mutant: an error is passed over like a skip.                             *)
RollupProofStateLenient(sts) ==
    LET Some(s) == \E i \in DOMAIN sts : sts[i] = s
    IN  CASE sts = <<>> -> "human_review_required"
          [] Some("failed") -> "verification_failed"
          [] ~Some("failed") /\ (Some("queued") \/ Some("running")) -> "verifying"
          [] OTHER -> IF Some("passed") THEN "verified" ELSE "human_review_required"

RollupProofState(sts) ==
    LET Some(s) == \E i \in DOMAIN sts : sts[i] = s
    IN  CASE sts = <<>> -> "human_review_required"
          [] sts # <<>> /\ Some("error") -> "human_review_required"
          [] ~Some("error") /\ Some("failed") -> "verification_failed"
          [] ~Some("error") /\ ~Some("failed") /\ (Some("queued") \/ Some("running")) -> "verifying"
          [] OTHER -> IF Some("passed") THEN "verified" ELSE "human_review_required"

\* A skipped judge caps the proof: its criteria were not looked at.
JudgeCap(sts) ==
    \E i \in DOMAIN sts : specs[i] = "llm_judge" /\ sts[i] = "skipped"

FinalProofState(sts) ==
    IF RollupProofState(sts) = "verified" /\ JudgeCap(sts)
    THEN "human_review_required" ELSE RollupProofState(sts)

----------------------------------------------------------------------------

NoCall == [kind |-> "none", at |-> "idle", next |-> 1]

VerificationInit ==
    /\ workspace \in Workspaces
    /\ broken \in SUBSET DOMAIN Specs(workspace)
    /\ mode \in Modes /\ judge \in Judges /\ dockerCli \in BOOLEAN
    /\ weather \in SUBSET Disturbances
    /\ call = NoCall
    /\ specs = <<>> /\ statuses = <<>> /\ verdicts = <<>>
    /\ venv = "none" /\ deps = FALSE
    /\ proof = "verification_missing" /\ status = "draft"
    /\ probed = <<>>
    /\ calls = 0

\* probe_aspects and run_verification select alike; a verification with nothing
\* to check goes to the founder at once.
Begin(kind) ==
    /\ call = NoCall
    /\ calls < MaxCalls
    /\ calls' = calls + 1
    /\ specs' = Specs(workspace)
    /\ statuses' = [i \in DOMAIN Specs(workspace) |-> "queued"]
    /\ venv' = "none"
    /\ UNCHANGED <<inputs, verdicts, deps, probed>>

BeginProbe ==
    /\ Begin("probe")
    /\ call' = [kind |-> "probe", at |-> "venv", next |-> 1]
    /\ UNCHANGED <<proof, status>>

BeginVerification ==
    /\ Begin("run")
    /\ IF Specs(workspace) = <<>>
       THEN /\ proof' = "human_review_required"
            /\ call' = NoCall
            /\ UNCHANGED status
       ELSE /\ proof' = "verifying"
            /\ status' = "verifying"
            /\ call' = [kind |-> "run", next |-> 1,
                        at |-> IF mode = "sandbox" THEN "deps" ELSE "venv"]

\* The repository's own setup, command by command until one fails; a failure
\* is logged and the aspects run all the same.
EnsureRepoDependencies ==
    /\ call.at = "deps"
    /\ \/ deps' = deps
       \/ deps' = TRUE /\ SetupCommands(workspace.features) # <<>>
    /\ call' = [call EXCEPT !.at = "venv"]
    /\ UNCHANGED <<inputs, verdicts, specs, statuses, venv, proof, status, probed, calls>>

\* One venv for all aspects that need it, unless they run in the sandbox: it
\* is made, gets the workspace if that is a package, and the toolchain.
BuildAspectVenv ==
    /\ call.at = "venv"
    /\ IF mode = "host" /\ \E i \in DOMAIN specs : NeedsVenv(workspace, specs[i])
       THEN venv' \in {"ready", "broken"}
       ELSE venv' = "none"
    /\ call' = [call EXCEPT !.at = "aspects"]
    /\ UNCHANGED <<inputs, verdicts, specs, statuses, deps, proof, status, probed, calls>>

StartAspect ==
    /\ call.at = "aspects"
    /\ call.next \in DOMAIN specs
    /\ statuses[call.next] = "queued"
    /\ statuses' = [statuses EXCEPT ![call.next] = "running"]
    /\ UNCHANGED <<inputs, verdicts, call, specs, venv, deps, proof, status, probed, calls>>

EndAspect ==
    /\ call.at = "aspects"
    /\ call.next \in DOMAIN specs
    /\ statuses[call.next] = "running"
    /\ \E s \in RunOneAspect(call.next) : statuses' = [statuses EXCEPT ![call.next] = s]
    /\ call' = [call EXCEPT !.next = @ + 1]
    /\ UNCHANGED <<inputs, verdicts, specs, venv, deps, proof, status, probed, calls>>

EndProbe ==
    /\ call.kind = "probe" /\ call.at = "aspects"
    /\ call.next \notin DOMAIN specs
    /\ probed' = statuses
    /\ call' = NoCall
    /\ UNCHANGED <<inputs, verdicts, specs, statuses, venv, deps, proof, status, calls>>

EndVerification ==
    /\ call.kind = "run" /\ call.at = "aspects"
    /\ call.next \notin DOMAIN specs
    /\ proof' = FinalProofState(statuses)
    /\ status' = IF proof' = "verified" THEN "review_ready" ELSE status
    /\ verdicts' = statuses
    /\ call' = NoCall
    /\ UNCHANGED <<inputs, specs, statuses, venv, deps, probed, calls>>

InCall ==
    \/ EnsureRepoDependencies \/ BuildAspectVenv \/ StartAspect \/ EndAspect
    \/ EndProbe \/ EndVerification

VerificationNext == BeginProbe \/ BeginVerification \/ InCall

VerificationSpec == VerificationInit /\ [][VerificationNext]_verificationVars

----------------------------------------------------------------------------
(* Properties.                                                             *)

VerificationTypeOK ==
    /\ workspace \in Workspaces
    /\ mode \in Modes /\ judge \in Judges /\ dockerCli \in BOOLEAN
    /\ weather \subseteq Disturbances
    /\ call \in [kind : {"none", "probe", "run"}, at : {"idle", "deps", "venv", "aspects"}, next : Nat \ {0}]
    /\ specs \in Seq(AspectTypes)
    /\ statuses \in Seq(AspectStatuses) /\ DOMAIN statuses = DOMAIN specs
    /\ verdicts \in Seq(AspectStatuses)
    /\ venv \in {"none", "ready", "broken"}
    /\ deps \in BOOLEAN
    /\ proof \in ProofStates
    /\ status \in {"draft", "verifying", "review_ready"}
    /\ probed \in Seq(AspectStatuses)
    /\ calls \in 0 .. MaxCalls

Verified == proof = "verified" /\ call.kind # "run"
Failed == proof = "verification_failed" /\ call.kind # "run"

\* No aspect that the work fails hides behind `verified`, whatever broke on the
\* way: only a command whose tool the environment lacks may have been passed
\* over, never a criterion of the judge, and something was really run.  (An entry
\* of the judge's reply that is no object is dropped with its criterion; the
\* instance's JudgeNoise has none.)
VerifiedIsProven ==
    Verified =>
        /\ \A i \in DOMAIN specs :
              Unsound(i) => verdicts[i] = "skipped" /\ specs[i] # "llm_judge"
        /\ \E i \in DOMAIN specs : verdicts[i] = "passed"

\* What is not the work's fault is not held against it: a failed verification
\* has a check the work fails, a command that ran out of time, a tool missing on
\* the host or dependencies that would not install.  (And the install smoke in
\* the sandbox, whose recorded commands are not the ones that test it.)
FailureIsTheWorks ==
    Failed =>
        \E i \in DOMAIN specs :
            /\ verdicts[i] = "failed"
            /\ \/ Unsound(i)
               \/ specs[i] = "llm_judge" /\ JudgeNoise # {}
               \/ "timeout" \in weather /\ specs[i] # "llm_judge"
               \/ mode = "host" /\ "missing" \in weather
               \/ Starved
               \/ mode = "sandbox" /\ specs[i] = "code_install_smoke"

\* A probe and a verification of the same work agree when nothing disturbs the
\* commands: a probe of commands that all passed is not followed by a failure.
ProbeForetells ==
    (/\ weather = {} /\ probed # <<>>
     /\ \A i \in DOMAIN probed : probed[i] = "passed" /\ specs[i] # "llm_judge")
    => proof # "verification_failed"

=============================================================================
