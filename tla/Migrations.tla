----------------------------- MODULE Migrations -----------------------------
(***************************************************************************)
(* The schema's history: the 62 Alembic revisions as what they take from    *)
(* and add to a PostgreSQL database, and the `alembic upgrade` that every    *)
(* container start runs, with reverts, failures and a death in the middle.   *)
(*                                                                         *)
(* A schema is a set of tables and of those columns that some revision       *)
(* touches by itself.  Indexes, constraints, column types and the enum types *)
(* of the schema before the greenfield reset are left out; of the types      *)
(* after it the labels are kept, and of the rows what can stop a revision.   *)
(***************************************************************************)
EXTENDS BSNexusDomain, Integers, Sequences, FiniteSets, Functions

CONSTANTS
    Releases,     \* the heads of the releases that were deployed
    MaxReverts,   \* bound: downgrades of one revision
    MaxDeaths     \* bound: deaths of the process during a run

ASSUME MaxRevertsAssumption == MaxReverts \in Nat
ASSUME MaxDeathsAssumption == MaxDeaths \in Nat

Table(t) == <<t, "*">>
Tables(names) == {Table(t) : t \in names}
Columns(t, names) == {<<t, c>> : c \in names}

\* What a revision does in one direction: what it drops, what it drops if it is
\* there, what it alters, what it adds, and whether it can run at all.
Change(drops, adds) == [drops |-> drops, ifExists |-> {}, alters |-> {}, adds |-> adds, runs |-> TRUE]
Nothing == Change({}, {})
Refused == [Nothing EXCEPT !.runs = FALSE]

Revision(up, down) == [up |-> up, down |-> down]
Reversible(drops, adds) == Revision(Change(drops, adds), Change(adds, drops))

\* A dropped table takes its columns along.
Dropped(change, schema) ==
    {o \in schema : {o, Table(o[1])} \cap (change.drops \cup change.ifExists) # {}}

\* The revision finds what it drops or alters, its new names are free and its
\* new columns have a table.
Fits(change, schema) ==
    LET left == schema \ Dropped(change, schema)
    IN  /\ change.runs
        /\ (change.drops \cup change.alters) \subseteq schema
        /\ change.adds \cap left = {}
        /\ \A o \in change.adds : Table(o[1]) \in left \cup change.adds

Migrated(change, schema) == (schema \ Dropped(change, schema)) \cup change.adds

----------------------------------------------------------------------------
(* The revisions, in the order of their down_revision chain.               *)

InitialModels ==
    Revision(Change({}, Tables({"projects", "workers", "phases", "design_sessions", "design_messages",
                                "tasks", "task_dependencies", "task_history"})
                        \cup Columns("projects", {"repo_path", "status"})
                        \cup Columns("tasks", {"status", "worker_id", "reviewer_id"})),
             Change(Tables({"projects", "workers", "phases", "design_sessions", "design_messages",
                            "tasks", "task_dependencies", "task_history"}), {}))

\* The labels of an enum are exchanged: the column is only altered.
Relabelled(o) == Revision([Nothing EXCEPT !.alters = {o}], [Nothing EXCEPT !.alters = {o}])

AddBlockedStatus == Relabelled(<<"tasks", "status">>)
AddNameToDesignSessions == Reversible({}, Columns("design_sessions", {"name"}))
AddSettingsTable == Reversible({}, Tables({"settings"}))
AddRegistrationTokensTable == Reversible({}, Tables({"registration_tokens"}))
AddMessageTypeToDesignMessages == Reversible({}, Columns("design_messages", {"message_type"}))
AddWorkerProjectAssignment ==
    Reversible({}, Columns("workers", {"project_id"}) \cup Columns("design_sessions", {"worker_id"}))
ReplaceRejectedBlockedWithRedesign ==
    Reversible(Columns("tasks", {"status"}),
               Columns("tasks", {"status", "retry_count", "max_retries", "qa_feedback_history"}))
AddFkDesignSessionWorkerId == Relabelled(<<"design_sessions", "worker_id">>)
AddSecurityTables ==
    Reversible(Tables({"registration_tokens"}),
               Tables({"api_keys", "audit_logs", "consent_records", "data_processing_records",
                       "registration_tokens"}))
AddLivingProjectFields == Reversible({}, Columns("tasks", {"task_type", "source", "parent_task_id"}))
RemoveWorkerModels ==
    Reversible(Columns("tasks", {"worker_id", "reviewer_id"}) \cup Columns("design_sessions", {"worker_id"})
                   \cup Tables({"registration_tokens", "workers"}) \cup Columns("workers", {"project_id"}),
               {})
DropApiKeysTable == Reversible(Tables({"api_keys"}), {})
AddExecutorTypeAndMetadataToTasks == Reversible({}, Columns("tasks", {"executor_type", "executor_metadata"}))
AddTaskSuggestionsTable ==
    Revision(Change({}, Tables({"task_suggestions"})),
             [Nothing EXCEPT !.ifExists = Tables({"task_suggestions"})])

\* Its foreign keys were created without a name: no downgrade can drop them.
AddCompanyOsModels ==
    Revision(Change({}, Tables({"tenants", "agents", "tenant_members", "workers", "goals", "cost_records"})
                        \cup Columns("cost_records", {"task_id", "agent_id"})
                        \cup Columns("design_sessions", {"agent_id"})
                        \cup Columns("projects", {"max_concurrent_tasks"})
                        \cup Columns("tasks", {"agent_id", "goal_id", "output_type", "output_data"})),
             Refused)
AddExecutorConfigsTable ==
    Reversible({}, Tables({"executor_configs"}) \cup Columns("executor_configs", {"is_default"}))
AddUniqueIndexForOneDefault == Relabelled(<<"executor_configs", "is_default">>)
AddExecutorConfigIdToAgents == Revision(Change({}, Columns("agents", {"executor_config_id"})), Refused)
MakeRepoPathNullable == Relabelled(<<"projects", "repo_path">>)
AddWorkspaceColumnsToProjects ==
    Reversible({}, Columns("projects", {"workspace_type", "workspace_dir", "github_repo_url",
                                        "github_branch", "github_token_encrypted"}))
AddUniqueConstraintOnWorkers == Relabelled(Table("workers"))
AddNameNotEmptyCheck == Relabelled(Table("executor_configs"))
AddRoutingKeywords == Reversible({}, Columns("agents", {"routing_keywords"}))
AddConversationMessagesTable ==
    Reversible({}, Tables({"conversation_messages"})
                   \cup Columns("conversation_messages", {"agent_id", "agent_name"}))
DropRoutingKeywords == Reversible(Columns("agents", {"routing_keywords"}), {})
SimplifyTaskStatus ==
    Revision([Change(Columns("tasks", {"status", "source"}), Columns("tasks", {"status", "source"}))
                 EXCEPT !.ifExists = Tables({"design_messages", "design_sessions"})],
             Refused)
AddTaskActivities == Reversible({}, Tables({"task_activities"}))
AddAgentMemories == Reversible({}, Tables({"agent_memories"}))
AddProjectChannels == Reversible({}, Tables({"project_channels"}))
AddTenantInstallToken == Reversible({}, Columns("tenants", {"worker_install_token_hash"}))
AddPlanProposals == Reversible({}, Tables({"plan_proposals"}))
AddTaskIdToConversation == Reversible({}, Columns("conversation_messages", {"task_id"}))
AddAssignedAgentIdToTasks == Reversible({}, Columns("tasks", {"assigned_agent_id"}))
AddTaskTitleUniqueIndex == Relabelled(<<"tasks", "status">>)
RenameTaskAgentIdToCreator == Reversible(Columns("tasks", {"agent_id"}), Columns("tasks", {"creator_agent_id"}))

\* Its downgrade takes back what it added and restores nothing it dropped.
FounderMetaphorTables ==
    {"requests", "execution_runs", "composition_snapshots", "execution_run_dependencies",
     "execution_run_history", "execution_run_activities", "deliverables",
     "deliverable_versions", "decisions"}
FounderMetaphorUp ==
    Change(Columns("conversation_messages", {"task_id", "agent_id", "agent_name"})
           \cup Columns("cost_records", {"task_id", "agent_id"})
           \cup Columns("projects", {"max_concurrent_tasks"})
           \cup Tables({"task_activities", "task_history", "task_dependencies", "plan_proposals",
                        "agent_memories", "tasks", "phases", "goals", "agents"}),
           Columns("projects", {"max_concurrent_runs", "bsage_workspace_id", "bsupervisor_policy_id"})
           \cup Tables(FounderMetaphorTables)
           \cup Columns("execution_runs", {"worker_id"})
           \cup Columns("conversation_messages", {"request_id"})
           \cup Columns("cost_records", {"execution_run_id"}))
FounderMetaphorDown ==
    Change(Columns("conversation_messages", {"request_id"})
           \cup Columns("cost_records", {"execution_run_id"})
           \cup Columns("projects", {"max_concurrent_runs", "bsage_workspace_id", "bsupervisor_policy_id"})
           \cup Tables(FounderMetaphorTables),
           Columns("projects", {"max_concurrent_tasks"}))
FounderMetaphor == Revision(FounderMetaphorUp, FounderMetaphorDown)

AddIntegrationConfigs == Reversible({}, Tables({"tenant_integration_configs"}))
AddProjectTenantId == Reversible({}, Columns("projects", {"tenant_id"}))
RenameIsDefaultToIsSelected ==
    Reversible(Columns("executor_configs", {"is_default"}), Columns("executor_configs", {"is_selected"}))
DropBsgatewayIntegrationProvider == Relabelled(Table("tenant_integration_configs"))
AddDirectiveToExecutionRuns == Reversible({}, Columns("execution_runs", {"directive"}))
AddOriginatorAuthToRequests == Reversible({}, Columns("requests", {"originator_auth"}))
ConsolidateProjectStatus == Relabelled(<<"projects", "status">>)
AddAuditOutbox == Reversible({}, Tables({"audit_outbox"}))

\* Every drop of its upgrade looks first; the table does not come back.
DropWorkers ==
    Revision([Nothing EXCEPT !.ifExists = Columns("execution_runs", {"worker_id"}) \cup Tables({"workers"})],
             Change({}, Columns("execution_runs", {"worker_id"})))

\* The encryption of the rows' plaintext keys, the collapse of the executor
\* types and their renaming rewrite rows that no revision after them reads.
ExecutorConfigApiKeyEncrypted ==
    LET column == Columns("executor_configs", {"api_key_encrypted"})
    IN  Revision([Change({}, column) EXCEPT !.ifExists = column], [Nothing EXCEPT !.ifExists = column])
CollapseExecutorTypes == Relabelled(Table("executor_configs"))
RenameGenericLlm == Relabelled(Table("executor_configs"))
AddDeliverableProof ==
    Reversible({}, Columns("deliverables", {"proof_state", "verifier_type", "verifier_inputs",
                                            "verification_exit_code", "proof_summary", "proof_refs",
                                            "risk_summary", "verified_at"}))
AddRunSummary == Reversible({}, Columns("execution_runs", {"run_summary"}))

\* What the lifecycle runs on, and what its proofs and decisions are kept in.
GreenfieldWorkTables ==
    {"directions", "requests", "work_plans", "work_steps", "run_attempts", "tool_events"}
GreenfieldProofTables ==
    {"proof_policies", "deliverables", "proof_attempts", "decisions", "brief_snapshots"}
GreenfieldReset ==
    Revision([Change({}, Tables(GreenfieldWorkTables \cup GreenfieldProofTables)
                         \cup Columns("deliverables", {"proof_policy_id"}))
                 EXCEPT !.ifExists = Tables({"run_summaries", "execution_run_history",
                     "execution_run_activities", "execution_run_dependencies", "execution_runs",
                     "deliverable_versions", "deliverables", "decisions", "composition_snapshots",
                     "requests", "conversation_messages", "executor_configs"})],
             Refused)
AddExecutorConfig ==
    Reversible({}, Tables({"executor_configs"}) \cup Columns("executor_configs", {"enabled"}))
DropExecutorEnabled == Reversible(Columns("executor_configs", {"enabled"}), {})
AddDeliverablesCommitSha == Reversible({}, Columns("deliverables", {"commit_sha"}))
AddRequestsPrNumberAndPrUrl == Reversible({}, Columns("requests", {"pr_number", "pr_url"}))
MultiAspectVerifier ==
    Reversible(Columns("deliverables", {"proof_policy_id"}) \cup Tables({"proof_attempts", "proof_policies"}),
               Tables({"verification_aspects"}))
AddCodeBuildAspectType == Relabelled(Table("verification_aspects"))
AddRunAttemptHandoff == Reversible({}, Columns("run_attempts", {"handoff"}))
AddRunAttemptVerificationContract == Reversible({}, Columns("run_attempts", {"verification_contract"}))
DropTenantsSlugUnique == Relabelled(Table("tenants"))
ReplaceRequestBlocked == Reversible({}, Columns("decisions", {"guidance"}))

Chain == <<
    InitialModels, AddBlockedStatus, AddNameToDesignSessions, AddSettingsTable,
    AddRegistrationTokensTable, AddMessageTypeToDesignMessages, AddWorkerProjectAssignment,
    ReplaceRejectedBlockedWithRedesign, AddFkDesignSessionWorkerId, AddSecurityTables,
    AddLivingProjectFields, RemoveWorkerModels, DropApiKeysTable,
    AddExecutorTypeAndMetadataToTasks, AddTaskSuggestionsTable, AddCompanyOsModels,
    AddExecutorConfigsTable, AddUniqueIndexForOneDefault, AddExecutorConfigIdToAgents,
    MakeRepoPathNullable, AddWorkspaceColumnsToProjects, AddUniqueConstraintOnWorkers,
    AddNameNotEmptyCheck, AddRoutingKeywords, AddConversationMessagesTable, DropRoutingKeywords,
    SimplifyTaskStatus, AddTaskActivities, AddAgentMemories, AddProjectChannels,
    AddTenantInstallToken, AddPlanProposals, AddTaskIdToConversation, AddAssignedAgentIdToTasks,
    AddTaskTitleUniqueIndex, RenameTaskAgentIdToCreator, FounderMetaphor, AddIntegrationConfigs,
    AddProjectTenantId, RenameIsDefaultToIsSelected, DropBsgatewayIntegrationProvider,
    AddDirectiveToExecutionRuns, AddOriginatorAuthToRequests, ConsolidateProjectStatus,
    AddAuditOutbox, DropWorkers, ExecutorConfigApiKeyEncrypted, CollapseExecutorTypes,
    RenameGenericLlm, AddDeliverableProof, AddRunSummary, GreenfieldReset, AddExecutorConfig,
    DropExecutorEnabled, AddDeliverablesCommitSha, AddRequestsPrNumberAndPrUrl,
    MultiAspectVerifier, AddCodeBuildAspectType, AddRunAttemptHandoff,
    AddRunAttemptVerificationContract, DropTenantsSlugUnique, ReplaceRequestBlocked >>

Newest == Len(Chain)
ASSUME ReleasesAssumption == Releases \subseteq 0 .. Newest

Position(name) == CHOOSE n \in 1 .. Newest : Chain[n] = name

FirstSchema == Position(InitialModels)
TenantOnProjects == Position(AddProjectTenantId)
OneWay == Position(FounderMetaphor)
Reset == Position(GreenfieldReset)
Aspects == Position(MultiAspectVerifier)
CodeBuild == Aspects + 1
Contracts == Position(AddRunAttemptVerificationContract)
NeedsDecision == Position(ReplaceRequestBlocked)

----------------------------------------------------------------------------
(* The labels and the rows that a revision reads or rewrites.              *)

RequestStatusesAtReset == {"open", "running", "blocked", "review_ready", "shipped", "abandoned"}
RequestStatusesAtHead == {"open", "running", "needs_decision", "review_ready", "shipped", "abandoned"}

(* Mutant: the rows keep the label the swap drops.                          *)
StatusUpKept(s) == s

\* A row's status after the UPDATE of the last revision, one way and the other.
StatusUp(s) == IF s = "blocked" THEN "needs_decision" ELSE s
StatusDown(s) == IF s = "needs_decision" THEN "blocked" ELSE s

(* Mutant: the new label is added, the old one stays.                       *)
StatusLabelsAdded(n, up, labels) ==
    CASE n = Reset /\ up -> RequestStatusesAtReset
      [] n = NeedsDecision -> RequestStatusesAtReset \cup RequestStatusesAtHead
      [] OTHER -> labels

\* The labels of request_status after revision n, in the direction of the run.
StatusLabels(n, up, labels) ==
    CASE n = Reset /\ up -> RequestStatusesAtReset
      [] n = NeedsDecision -> IF up THEN RequestStatusesAtHead ELSE RequestStatusesAtReset
      [] OTHER -> labels

\* The labels of proof_aspect_type, which a type that is there already keeps,
\* and to which an autocommit block adds some.
AspectLabels(n, up, labels) ==
    CASE n = Aspects /\ up /\ labels = {} -> {"code_test", "code_lint", "code_install_smoke"}
      [] n = Aspects /\ ~up -> {}
      [] OTHER -> labels

BlockLabels(n) ==
    CASE n = CodeBuild -> <<"code_build">>
      [] n = Contracts -> <<"declared_command", "llm_judge">>
      [] OTHER -> <<>>

RequestRows(n, up, rows) ==
    CASE n = Reset /\ up -> {}
      [] n = NeedsDecision -> {IF up THEN StatusUp(s) ELSE StatusDown(s) : s \in rows}
      [] OTHER -> rows

\* A NOT NULL column without a default wants an empty table; a type swap wants
\* a label for every row.
RowsFit(n, up, db) ==
    /\ n = TenantOnProjects /\ up => ~db.projects
    /\ RequestRows(n, up, db.requests) \subseteq StatusLabels(n, up, db.statuses)

\* One revision's statements, without its autocommit block.
Runs(n, up, db) ==
    /\ Fits(IF up THEN Chain[n].up ELSE Chain[n].down, db.schema)
    /\ RowsFit(n, up, db)

Applied(n, up, db) ==
    [db EXCEPT !.schema = Migrated(IF up THEN Chain[n].up ELSE Chain[n].down, @),
               !.statuses = StatusLabels(n, up, @),
               !.aspects = AspectLabels(n, up, @),
               !.requests = RequestRows(n, up, @)]

EmptyDatabase ==
    [version |-> 0, schema |-> {}, statuses |-> {}, aspects |-> {}, projects |-> FALSE, requests |-> {}]

\* The database a fresh upgrade to version n makes.
FreshUpgrade[n \in 0 .. Newest] ==
    IF n = 0 THEN EmptyDatabase
    ELSE LET db == Applied(n, TRUE, FreshUpgrade[n - 1])
         IN  [db EXCEPT !.version = n, !.aspects = @ \cup Range(BlockLabels(n))]

Fresh == [n \in 0 .. Newest |-> FreshUpgrade[n]]

----------------------------------------------------------------------------

VARIABLES
    database,     \* what is committed
    run,          \* the alembic process, with its transaction's view of the database
    reverts,
    deaths

migrationVars == <<database, run, reverts, deaths>>

NoRun == [stage |-> "idle", up |-> TRUE, target |-> 0, db |-> EmptyDatabase, block |-> <<>>]

\* The revision a run is working on.
Current == IF run.up THEN run.db.version + 1 ELSE run.db.version

AnySchema == UNION {Chain[n].up.adds \cup Chain[n].down.adds : n \in 1 .. Newest}

MigrationTypeOK ==
    /\ database.version \in 0 .. Newest
    /\ database.schema \subseteq AnySchema
    /\ database.statuses \in {{}, RequestStatusesAtReset, RequestStatusesAtHead}
    /\ database.requests \subseteq database.statuses
    /\ run.stage \in {"idle", "revision", "block", "stamp", "failed", "refused"}
    /\ reverts \in 0 .. MaxReverts
    /\ deaths \in 0 .. MaxDeaths

MigrationInit ==
    /\ database = EmptyDatabase
    /\ run = NoRun
    /\ reverts = 0
    /\ deaths = 0

\* A container of a release starts: entrypoint.sh upgrades to its head.
Deploy(release) ==
    /\ run.stage = "idle"
    /\ database.version < release
    /\ run' = [stage |-> "revision", up |-> TRUE, target |-> release, db |-> database, block |-> <<>>]
    /\ UNCHANGED <<database, reverts, deaths>>

\* The operator goes back one revision.
Revert ==
    /\ run.stage = "idle"
    /\ database.version > 0
    /\ reverts < MaxReverts
    /\ reverts' = reverts + 1
    /\ run' = [stage |-> "revision", up |-> FALSE, target |-> database.version - 1,
               db |-> database, block |-> <<>>]
    /\ UNCHANGED <<database, deaths>>

\* upgrade() or downgrade() of the next revision.
RunRevision ==
    /\ run.stage = "revision"
    /\ run.db.version # run.target
    /\ Runs(Current, run.up, run.db)
    /\ LET block == IF run.up THEN BlockLabels(Current) ELSE <<>>
       IN  run' = [run EXCEPT !.db = Applied(Current, run.up, @),
                              !.stage = IF block = <<>> THEN "stamp" ELSE "block",
                              !.block = block]
    /\ UNCHANGED <<database, reverts, deaths>>

\* A statement that the database refuses ends the run and its transaction; a
\* downgrade that is not written only raises.
RunFails ==
    /\ run.stage = "revision"
    /\ run.db.version # run.target
    /\ ~Runs(Current, run.up, run.db)
    /\ run' = [run EXCEPT !.stage = IF ~run.up /\ ~Chain[Current].down.runs THEN "refused" ELSE "failed"]
    /\ UNCHANGED <<database, reverts, deaths>>

\* autocommit_block(): first it commits what the run has done so far, then every
\* ALTER TYPE .. ADD VALUE IF NOT EXISTS is a transaction of its own.
EnterBlock ==
    /\ run.stage = "block"
    /\ database # run.db
    /\ run.block = BlockLabels(Current)
    /\ database' = run.db
    /\ UNCHANGED <<run, reverts, deaths>>

AddLabel ==
    /\ run.stage = "block"
    /\ database = run.db
    /\ LET db == [run.db EXCEPT !.aspects = @ \cup {Head(run.block)}]
       IN  /\ database' = db
           /\ run' = [run EXCEPT !.db = db, !.block = Tail(@),
                                 !.stage = IF Len(run.block) = 1 THEN "stamp" ELSE "block"]
    /\ UNCHANGED <<reverts, deaths>>

\* alembic_version is updated in the run's transaction, after the revision.
Stamp ==
    /\ run.stage = "stamp"
    /\ run' = [run EXCEPT !.stage = "revision",
                          !.db.version = IF run.up THEN @ + 1 ELSE @ - 1]
    /\ UNCHANGED <<database, reverts, deaths>>

CommitRun ==
    /\ run.stage = "revision"
    /\ run.db.version = run.target
    /\ database' = run.db
    /\ run' = NoRun
    /\ UNCHANGED <<reverts, deaths>>

\* The process is gone and with it its transaction.
RunDies ==
    /\ run.stage \in {"revision", "block", "stamp"}
    /\ deaths < MaxDeaths
    /\ deaths' = deaths + 1
    /\ run' = NoRun
    /\ UNCHANGED <<database, reverts>>

\* A failed run is looked at, and another may be started.
RunEnds ==
    /\ run.stage \in {"failed", "refused"}
    /\ run' = NoRun
    /\ UNCHANGED <<database, reverts, deaths>>

\* The release that runs writes rows.
WriteProject ==
    /\ run.stage = "idle"
    /\ database.version >= FirstSchema
    /\ ~database.projects
    /\ database' = [database EXCEPT !.projects = TRUE]
    /\ UNCHANGED <<run, reverts, deaths>>

WriteRequest(status) ==
    /\ run.stage = "idle"
    /\ status \in database.statuses \ database.requests
    /\ database.projects
    /\ database' = [database EXCEPT !.requests = @ \cup {status}]
    /\ UNCHANGED <<run, reverts, deaths>>

MigrationNext ==
    \/ \E release \in Releases : Deploy(release)
    \/ Revert
    \/ RunRevision \/ RunFails \/ EnterBlock \/ AddLabel \/ Stamp \/ CommitRun
    \/ RunDies \/ RunEnds
    \/ WriteProject \/ \E status \in {"blocked", "needs_decision"} : WriteRequest(status)

MigrationSpec == MigrationInit /\ [][MigrationNext]_migrationVars

----------------------------------------------------------------------------
(* Properties.                                                             *)

\* What the models of the code at the newest revision read and write.
ModelTables ==
    {"brief_snapshots", "decisions", "deliverables", "directions", "executor_configs", "projects",
     "requests", "run_attempts", "tool_events", "tenants", "tenant_members",
     "verification_aspects", "work_plans", "work_steps", "audit_outbox", "project_channels",
     "settings", "tenant_integration_configs", "cost_records"}
ModelColumns ==
    Columns("decisions", {"guidance"})
    \cup Columns("deliverables", {"commit_sha"})
    \cup Columns("projects", {"tenant_id", "repo_path", "workspace_type", "workspace_dir",
                              "github_repo_url", "github_branch", "github_token_encrypted", "status",
                              "max_concurrent_runs", "bsage_workspace_id", "bsupervisor_policy_id"})
    \cup Columns("requests", {"pr_number", "pr_url"})
    \cup Columns("run_attempts", {"handoff", "verification_contract"})
    \cup Columns("tenants", {"worker_install_token_hash"})
    \cup Columns("cost_records", {"execution_run_id"})
ProofAspectTypes ==
    {"code_test", "code_lint", "code_install_smoke", "code_build", "declared_command", "llm_judge"}

\* However the database came to the newest revision, over whatever releases,
\* reverts, failures and deaths, it has the tables and columns the models read
\* and write and the labels the state machines and the verifier store.
HeadServesTheModels ==
    database.version = Newest =>
        /\ Tables(ModelTables) \cup ModelColumns \subseteq database.schema
        /\ database.statuses = RequestStatuses
        /\ database.aspects = ProofAspectTypes

\* The death of a run between the commit that autocommit_block makes and the
\* stamp of its revision has left a column behind.
TornColumn ==
    /\ database.version < Contracts
    /\ Columns("run_attempts", {"verification_contract"}) \subseteq database.schema

\* The way back over the founder metaphor was taken.
Stranded ==
    /\ database.version < OneWay
    /\ database.schema # Fresh[database.version].schema

\* `upgrade head` at a container's start and a revert fail for three reasons
\* only: projects from before the tenants' revision, the way back over the
\* founder metaphor, and a death inside the one revision that adds a column
\* before its autocommit block.
FailuresAreKnown ==
    run.stage = "failed" =>
        \/ run.up /\ Current = TenantOnProjects /\ database.projects
        \/ Stranded
        \/ run.up /\ Current = Contracts /\ TornColumn

=============================================================================
