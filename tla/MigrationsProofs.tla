-------------------------- MODULE MigrationsProofs --------------------------
(***************************************************************************)
(* What holds of the 62 revisions whatever the releases, the reverts, the    *)
(* failures and the deaths: the schema's types, that the newest revision     *)
(* serves the models, and that a run fails for known reasons only.           *)
(*                                                                         *)
(* The argument needs no induction over the chain but for the schema of a     *)
(* fresh upgrade: Present says in closed form what a schema of each revision  *)
(* consists of, Must and May what is there and what may be there after a      *)
(* revert or a death, and every revision is shown to fit a schema between     *)
(* the two and to lead from those of its revision to those of the next.      *)
(***************************************************************************)
EXTENDS Migrations, WellFoundedInduction, TLAPS

----------------------------------------------------------------------------
(* Induction and recursion over the numbers up to a bound, from the order    *)
(* of the natural numbers being well-founded.                               *)

LEMMA Least ==
    ASSUME NEW T, T \subseteq Nat, T # {}
    PROVE  \E n \in T : \A m \in T : n <= m
<1> DEFINE R == OpToRel(<, Nat)
<1>1. \E n \in T : \A m \in T : <<m, n>> \notin R
  BY NatLessThanWellFounded, WFMin, Zenon
<1>2. \A m, n \in Nat : m < n => <<m, n>> \in R
  BY DEF OpToRel
<1> HIDE DEF R
<1>3. PICK n \in T : \A m \in T : <<m, n>> \notin R
  BY <1>1, Zenon
<1>4. ASSUME NEW m \in T  PROVE n <= m
  <2>1. ~(m < n)
    BY <1>2, <1>3, Zenon
  <2> QED  BY <2>1
<1> QED  BY <1>4, Zenon

LEMMA Induct ==
    ASSUME NEW S, 0 \in S, \A n \in Nat : n \in S => n + 1 \in S
    PROVE  Nat \subseteq S
<1> SUFFICES ASSUME Nat \ S # {}  PROVE FALSE
  OBVIOUS
<1>1. PICK n \in Nat \ S : \A m \in Nat \ S : n <= m
  BY Least, Zenon
<1> QED  BY <1>1

\* A value computed from the one before it: the function exists.
Computed(f, N, base, step) == f[0] = base /\ \A n \in 1 .. N : f[n] = step[<<f[n - 1], n>>]

LEMMA Recursion ==
    ASSUME NEW T, NEW N \in Nat, NEW base \in T, NEW step \in [T \X (1 .. N) -> T]
    PROVE  \E f \in [0 .. N -> T] : Computed(f, N, base, step)
<1> DEFINE S == {n \in Nat : n <= N => \E f \in [0 .. n -> T] : Computed(f, n, base, step)}
<1>1. 0 \in S
  <2>1. [i \in 0 .. 0 |-> base] \in [0 .. 0 -> T] /\ Computed([i \in 0 .. 0 |-> base], 0, base, step)
    BY DEF Computed
  <2> QED  BY <2>1
<1>2. ASSUME NEW n \in Nat, n \in S, n + 1 <= N
      PROVE  \E f \in [0 .. n + 1 -> T] : Computed(f, n + 1, base, step)
  <2>1. PICK f \in [0 .. n -> T] : Computed(f, n, base, step)
    BY <1>2
  <2> DEFINE g == [i \in 0 .. n + 1 |-> IF i <= n THEN f[i] ELSE step[<<f[n], n + 1>>]]
  <2>2. f[n] \in T /\ n + 1 \in 1 .. N
    BY <1>2
  <2>3. step[<<f[n], n + 1>>] \in T
    BY <2>2
  <2>4. g \in [0 .. n + 1 -> T]
    BY <2>3
  <2>5. g[n + 1] = step[<<g[n], n + 1>>] /\ g[0] = base
    BY <2>1 DEF Computed
  <2>6. \A i \in 1 .. n : g[i] = step[<<g[i - 1], i>>]
    BY <2>1 DEF Computed
  <2> HIDE DEF g
  <2>7. ASSUME NEW i \in 1 .. n + 1  PROVE g[i] = step[<<g[i - 1], i>>]
    <3>1. CASE i = n + 1
      BY <2>5, <3>1
    <3>2. CASE i # n + 1
      <4>1. i \in 1 .. n
        BY <3>2
      <4> QED  BY <2>6, <4>1
    <3> QED  BY <3>1, <3>2
  <2>8. Computed(g, n + 1, base, step)
    BY <2>5, <2>7 DEF Computed
  <2> QED  BY <2>4, <2>8
<1>3. N \in S
  <2>1. \A n \in Nat : n \in S => n + 1 \in S
    BY <1>2
  <2> HIDE DEF S
  <2> QED  BY <1>1, <2>1, Induct
<1> QED  BY <1>3

\* What holds of 0 and passes on holds up to N.
LEMMA Climb ==
    ASSUME NEW N \in Nat, NEW S, 0 \in S, \A n \in 1 .. N : n - 1 \in S => n \in S
    PROVE  N \in S
<1> DEFINE Up == {n \in Nat : n <= N => n \in S}
<1>1. 0 \in Up
  OBVIOUS
<1>2. \A n \in Nat : n \in Up => n + 1 \in Up
  OBVIOUS
<1>3. Nat \subseteq Up
  <2> HIDE DEF Up
  <2> QED  BY <1>1, <1>2, Induct
<1> QED  BY <1>3

----------------------------------------------------------------------------
(* What a schema of each revision consists of.                             *)

At(n, first, last) == first <= n /\ n <= last

\* What a schema at revision n consists of, if it came there by upgrades.
Present(t, c, n) ==
    \/ At(n, 1, 11) /\ c = "*" /\ t \in {"workers"}
    \/ At(n, 1, 11) /\ t = "tasks" /\ c \in {"worker_id", "reviewer_id"}
    \/ At(n, 1, 26) /\ c = "*" /\ t \in {"design_sessions", "design_messages"}
    \/ At(n, 1, 36) /\ c = "*" /\ t \in {"phases", "tasks", "task_dependencies", "task_history"}
    \/ At(n, 1, 36) /\ t = "tasks" /\ c \in {"status"}
    \/ At(n, 1, 62) /\ c = "*" /\ t \in {"projects"}
    \/ At(n, 1, 62) /\ t = "projects" /\ c \in {"status", "repo_path"}
    \/ At(n, 3, 26) /\ t = "design_sessions" /\ c \in {"name"}
    \/ At(n, 4, 62) /\ c = "*" /\ t \in {"settings"}
    \/ At(n, 5, 11) /\ c = "*" /\ t \in {"registration_tokens"}
    \/ At(n, 6, 26) /\ t = "design_messages" /\ c \in {"message_type"}
    \/ At(n, 7, 11) /\ t = "workers" /\ c \in {"project_id"}
    \/ At(n, 7, 11) /\ t = "design_sessions" /\ c \in {"worker_id"}
    \/ At(n, 8, 36) /\ t = "tasks" /\ c \in {"retry_count", "max_retries", "qa_feedback_history"}
    \/ At(n, 10, 12) /\ c = "*" /\ t \in {"api_keys"}
    \/ At(n, 10, 62) /\ c = "*" /\ t \in {"audit_logs", "consent_records",
                                          "data_processing_records"}
    \/ At(n, 11, 36) /\ t = "tasks" /\ c \in {"task_type", "source", "parent_task_id"}
    \/ At(n, 14, 36) /\ t = "tasks" /\ c \in {"executor_type", "executor_metadata"}
    \/ At(n, 15, 62) /\ c = "*" /\ t \in {"task_suggestions"}
    \/ At(n, 16, 26) /\ t = "design_sessions" /\ c \in {"agent_id"}
    \/ At(n, 16, 35) /\ t = "tasks" /\ c \in {"agent_id"}
    \/ At(n, 16, 36) /\ c = "*" /\ t \in {"agents", "goals"}
    \/ At(n, 16, 36) /\ t = "projects" /\ c \in {"max_concurrent_tasks"}
    \/ At(n, 16, 36) /\ t = "tasks" /\ c \in {"goal_id", "output_type", "output_data"}
    \/ At(n, 16, 36) /\ t = "cost_records" /\ c \in {"task_id", "agent_id"}
    \/ At(n, 16, 45) /\ c = "*" /\ t \in {"workers"}
    \/ At(n, 16, 62) /\ c = "*" /\ t \in {"tenants", "tenant_members", "cost_records"}
    \/ At(n, 17, 39) /\ t = "executor_configs" /\ c \in {"is_default"}
    \/ At(n, 17, 51) /\ c = "*" /\ t \in {"executor_configs"}
    \/ At(n, 19, 36) /\ t = "agents" /\ c \in {"executor_config_id"}
    \/ At(n, 21, 62) /\ t = "projects" /\ c \in {"workspace_type", "workspace_dir",
                                                 "github_repo_url", "github_branch",
                                                 "github_token_encrypted"}
    \/ At(n, 24, 25) /\ t = "agents" /\ c \in {"routing_keywords"}
    \/ At(n, 25, 36) /\ t = "conversation_messages" /\ c \in {"agent_id", "agent_name"}
    \/ At(n, 25, 51) /\ c = "*" /\ t \in {"conversation_messages"}
    \/ At(n, 28, 36) /\ c = "*" /\ t \in {"task_activities"}
    \/ At(n, 29, 36) /\ c = "*" /\ t \in {"agent_memories"}
    \/ At(n, 30, 62) /\ c = "*" /\ t \in {"project_channels"}
    \/ At(n, 31, 62) /\ t = "tenants" /\ c \in {"worker_install_token_hash"}
    \/ At(n, 32, 36) /\ c = "*" /\ t \in {"plan_proposals"}
    \/ At(n, 33, 36) /\ t = "conversation_messages" /\ c \in {"task_id"}
    \/ At(n, 34, 36) /\ t = "tasks" /\ c \in {"assigned_agent_id"}
    \/ At(n, 36, 36) /\ t = "tasks" /\ c \in {"creator_agent_id"}
    \/ At(n, 37, 45) /\ t = "execution_runs" /\ c \in {"worker_id"}
    \/ At(n, 37, 51) /\ c = "*" /\ t \in {"execution_runs", "composition_snapshots",
                                          "execution_run_dependencies", "execution_run_history",
                                          "execution_run_activities", "deliverable_versions"}
    \/ At(n, 37, 51) /\ t = "conversation_messages" /\ c \in {"request_id"}
    \/ At(n, 37, 62) /\ c = "*" /\ t \in {"requests", "deliverables", "decisions"}
    \/ At(n, 37, 62) /\ t = "projects" /\ c \in {"max_concurrent_runs", "bsage_workspace_id",
                                                 "bsupervisor_policy_id"}
    \/ At(n, 37, 62) /\ t = "cost_records" /\ c \in {"execution_run_id"}
    \/ At(n, 38, 62) /\ c = "*" /\ t \in {"tenant_integration_configs"}
    \/ At(n, 39, 62) /\ t = "projects" /\ c \in {"tenant_id"}
    \/ At(n, 40, 51) /\ t = "executor_configs" /\ c \in {"is_selected"}
    \/ At(n, 42, 51) /\ t = "execution_runs" /\ c \in {"directive"}
    \/ At(n, 43, 51) /\ t = "requests" /\ c \in {"originator_auth"}
    \/ At(n, 45, 62) /\ c = "*" /\ t \in {"audit_outbox"}
    \/ At(n, 47, 51) /\ t = "executor_configs" /\ c \in {"api_key_encrypted"}
    \/ At(n, 50, 51) /\ t = "deliverables" /\ c \in {"proof_state", "verifier_type",
                                                     "verifier_inputs", "verification_exit_code",
                                                     "proof_summary", "proof_refs", "risk_summary",
                                                     "verified_at"}
    \/ At(n, 51, 51) /\ t = "execution_runs" /\ c \in {"run_summary"}
    \/ At(n, 52, 56) /\ c = "*" /\ t \in {"proof_policies", "proof_attempts"}
    \/ At(n, 52, 56) /\ t = "deliverables" /\ c \in {"proof_policy_id"}
    \/ At(n, 52, 62) /\ c = "*" /\ t \in {"directions", "work_plans", "work_steps", "run_attempts",
                                          "tool_events", "brief_snapshots"}
    \/ At(n, 53, 53) /\ t = "executor_configs" /\ c \in {"enabled"}
    \/ At(n, 53, 62) /\ c = "*" /\ t \in {"executor_configs"}
    \/ At(n, 55, 62) /\ t = "deliverables" /\ c \in {"commit_sha"}
    \/ At(n, 56, 62) /\ t = "requests" /\ c \in {"pr_number", "pr_url"}
    \/ At(n, 57, 62) /\ c = "*" /\ t \in {"verification_aspects"}
    \/ At(n, 59, 62) /\ t = "run_attempts" /\ c \in {"handoff"}
    \/ At(n, 60, 62) /\ t = "run_attempts" /\ c \in {"verification_contract"}
    \/ At(n, 62, 62) /\ t = "decisions" /\ c \in {"guidance"}

\* What is there for certain, and what may be there: the workers' table does not
\* come back when its removal is reverted, and a death between autocommit_block
\* and the stamp leaves a column behind.
Must(t, c, n) == Present(t, c, n) /\ ~(At(n, 37, 45) /\ t = "workers")
May(t, c, n) ==
    Present(t, c, n) \/ (At(n, 52, 59) /\ t = "run_attempts" /\ c = "verification_contract")

Gone(t, c, change) ==
    LET dropped == change.drops \cup change.ifExists
    IN  <<t, c>> \in dropped \/ <<t, "*">> \in dropped

\* A change can be made of every schema of revision n,
Fitting(change, n) ==
    /\ change.runs
    /\ \A o \in change.drops \cup change.alters : o = <<o[1], o[2]>> /\ Must(o[1], o[2], n)
    /\ \A t, c : <<t, c>> \in change.adds =>
          /\ May(t, c, n) => Gone(t, c, change)
          /\ <<t, "*">> \in change.adds \/ (Must(t, "*", n) /\ ~Gone(t, "*", change))

\* and makes a schema of revision m of it.
Leading(change, n, m) ==
    /\ \A t, c : Must(t, c, m) /\ ~Must(t, c, n) => <<t, c>> \in change.adds
    /\ \A t, c : Must(t, c, m) /\ Gone(t, c, change) => <<t, c>> \in change.adds
    /\ \A t, c : May(t, c, n) /\ ~May(t, c, m) => Gone(t, c, change)
    /\ \A o \in change.adds : o = <<o[1], o[2]>> /\ May(o[1], o[2], m)

LEMMA Chained ==
    /\ Newest = 62
    /\ Chain[1] = InitialModels
    /\ Chain[2] = AddBlockedStatus
    /\ Chain[3] = AddNameToDesignSessions
    /\ Chain[4] = AddSettingsTable
    /\ Chain[5] = AddRegistrationTokensTable
    /\ Chain[6] = AddMessageTypeToDesignMessages
    /\ Chain[7] = AddWorkerProjectAssignment
    /\ Chain[8] = ReplaceRejectedBlockedWithRedesign
    /\ Chain[9] = AddFkDesignSessionWorkerId
    /\ Chain[10] = AddSecurityTables
    /\ Chain[11] = AddLivingProjectFields
    /\ Chain[12] = RemoveWorkerModels
    /\ Chain[13] = DropApiKeysTable
    /\ Chain[14] = AddExecutorTypeAndMetadataToTasks
    /\ Chain[15] = AddTaskSuggestionsTable
    /\ Chain[16] = AddCompanyOsModels
    /\ Chain[17] = AddExecutorConfigsTable
    /\ Chain[18] = AddUniqueIndexForOneDefault
    /\ Chain[19] = AddExecutorConfigIdToAgents
    /\ Chain[20] = MakeRepoPathNullable
    /\ Chain[21] = AddWorkspaceColumnsToProjects
    /\ Chain[22] = AddUniqueConstraintOnWorkers
    /\ Chain[23] = AddNameNotEmptyCheck
    /\ Chain[24] = AddRoutingKeywords
    /\ Chain[25] = AddConversationMessagesTable
    /\ Chain[26] = DropRoutingKeywords
    /\ Chain[27] = SimplifyTaskStatus
    /\ Chain[28] = AddTaskActivities
    /\ Chain[29] = AddAgentMemories
    /\ Chain[30] = AddProjectChannels
    /\ Chain[31] = AddTenantInstallToken
    /\ Chain[32] = AddPlanProposals
    /\ Chain[33] = AddTaskIdToConversation
    /\ Chain[34] = AddAssignedAgentIdToTasks
    /\ Chain[35] = AddTaskTitleUniqueIndex
    /\ Chain[36] = RenameTaskAgentIdToCreator
    /\ Chain[37] = FounderMetaphor
    /\ Chain[38] = AddIntegrationConfigs
    /\ Chain[39] = AddProjectTenantId
    /\ Chain[40] = RenameIsDefaultToIsSelected
    /\ Chain[41] = DropBsgatewayIntegrationProvider
    /\ Chain[42] = AddDirectiveToExecutionRuns
    /\ Chain[43] = AddOriginatorAuthToRequests
    /\ Chain[44] = ConsolidateProjectStatus
    /\ Chain[45] = AddAuditOutbox
    /\ Chain[46] = DropWorkers
    /\ Chain[47] = ExecutorConfigApiKeyEncrypted
    /\ Chain[48] = CollapseExecutorTypes
    /\ Chain[49] = RenameGenericLlm
    /\ Chain[50] = AddDeliverableProof
    /\ Chain[51] = AddRunSummary
    /\ Chain[52] = GreenfieldReset
    /\ Chain[53] = AddExecutorConfig
    /\ Chain[54] = DropExecutorEnabled
    /\ Chain[55] = AddDeliverablesCommitSha
    /\ Chain[56] = AddRequestsPrNumberAndPrUrl
    /\ Chain[57] = MultiAspectVerifier
    /\ Chain[58] = AddCodeBuildAspectType
    /\ Chain[59] = AddRunAttemptHandoff
    /\ Chain[60] = AddRunAttemptVerificationContract
    /\ Chain[61] = DropTenantsSlugUnique
    /\ Chain[62] = ReplaceRequestBlocked
BY DEF Newest, Chain

LEMMA SimplifyTaskStatusUp ==
    SimplifyTaskStatus.up = [drops |-> Columns("tasks", {"status", "source"}),
       ifExists |-> Tables({"design_messages", "design_sessions"}), alters |-> {},
       adds |-> Columns("tasks", {"status", "source"}), runs |-> TRUE]
BY DEF SimplifyTaskStatus, Revision, Change, Nothing, Refused

LEMMA ExecutorConfigApiKeyEncryptedUp ==
    ExecutorConfigApiKeyEncrypted.up = [drops |-> {},
       ifExists |-> Columns("executor_configs", {"api_key_encrypted"}), alters |-> {},
       adds |-> Columns("executor_configs", {"api_key_encrypted"}), runs |-> TRUE]
BY DEF ExecutorConfigApiKeyEncrypted, Revision, Change, Nothing, Refused

LEMMA GreenfieldResetUp ==
    GreenfieldReset.up = [drops |-> {},
       ifExists |-> Tables({"run_summaries", "execution_run_history",
                 "execution_run_activities", "execution_run_dependencies", "execution_runs",
                 "deliverable_versions", "deliverables", "decisions", "composition_snapshots",
                 "requests", "conversation_messages", "executor_configs"}), alters |-> {},
       adds |-> Tables(GreenfieldWorkTables \cup GreenfieldProofTables)
                 \cup Columns("deliverables", {"proof_policy_id"}), runs |-> TRUE]
BY DEF GreenfieldReset, Revision, Change, Nothing, Refused

LEMMA NewestIs == Newest = 62
BY Chained

LEMMA UpgradesFitFirst ==
    \A n \in 1 .. 20 : n # 60 => Fitting(Chain[n].up, n - 1)
<1> USE DEF Fitting, Must, May, Gone, Present, At,
            Revision, Reversible, Change, Nothing, Refused, Relabelled, Columns, Tables, Table
<1>1. Fitting(InitialModels.up, 0)  BY DEF InitialModels
<1>2. Fitting(AddBlockedStatus.up, 1)  BY DEF AddBlockedStatus
<1>3. Fitting(AddNameToDesignSessions.up, 2)  BY DEF AddNameToDesignSessions
<1>4. Fitting(AddSettingsTable.up, 3)  BY DEF AddSettingsTable
<1>5. Fitting(AddRegistrationTokensTable.up, 4)  BY DEF AddRegistrationTokensTable
<1>6. Fitting(AddMessageTypeToDesignMessages.up, 5)  BY DEF AddMessageTypeToDesignMessages
<1>7. Fitting(AddWorkerProjectAssignment.up, 6)  BY DEF AddWorkerProjectAssignment
<1>8. Fitting(ReplaceRejectedBlockedWithRedesign.up, 7)  BY DEF ReplaceRejectedBlockedWithRedesign
<1>9. Fitting(AddFkDesignSessionWorkerId.up, 8)  BY DEF AddFkDesignSessionWorkerId
<1>10. Fitting(AddSecurityTables.up, 9)  BY DEF AddSecurityTables
<1>11. Fitting(AddLivingProjectFields.up, 10)  BY DEF AddLivingProjectFields
<1>12. Fitting(RemoveWorkerModels.up, 11)  BY DEF RemoveWorkerModels
<1>13. Fitting(DropApiKeysTable.up, 12)  BY DEF DropApiKeysTable
<1>14. Fitting(AddExecutorTypeAndMetadataToTasks.up, 13)  BY DEF AddExecutorTypeAndMetadataToTasks
<1>15. Fitting(AddTaskSuggestionsTable.up, 14)  BY DEF AddTaskSuggestionsTable
<1>16. Fitting(AddCompanyOsModels.up, 15)  BY DEF AddCompanyOsModels
<1>17. Fitting(AddExecutorConfigsTable.up, 16)  BY DEF AddExecutorConfigsTable
<1>18. Fitting(AddUniqueIndexForOneDefault.up, 17)  BY DEF AddUniqueIndexForOneDefault
<1>19. Fitting(AddExecutorConfigIdToAgents.up, 18)  BY DEF AddExecutorConfigIdToAgents
<1>20. Fitting(MakeRepoPathNullable.up, 19)  BY DEF MakeRepoPathNullable
<1> HIDE DEF Fitting, Must, May, Gone, Present, At,
            Revision, Reversible, Change, Nothing, Refused, Relabelled, Columns, Tables, Table
<1> QED
  BY <1>1, <1>2, <1>3, <1>4, <1>5, <1>6, <1>7, <1>8, <1>9, <1>10, <1>11, <1>12, <1>13, <1>14,
     <1>15, <1>16, <1>17, <1>18, <1>19, <1>20, Chained

LEMMA UpgradesFitMiddle ==
    \A n \in 21 .. 41 : n # 60 => Fitting(Chain[n].up, n - 1)
<1> USE DEF Fitting, Must, May, Gone, Present, At,
            Revision, Reversible, Change, Nothing, Refused, Relabelled, Columns, Tables, Table
<1>21. Fitting(AddWorkspaceColumnsToProjects.up, 20)  BY DEF AddWorkspaceColumnsToProjects
<1>22. Fitting(AddUniqueConstraintOnWorkers.up, 21)  BY DEF AddUniqueConstraintOnWorkers
<1>23. Fitting(AddNameNotEmptyCheck.up, 22)  BY DEF AddNameNotEmptyCheck
<1>24. Fitting(AddRoutingKeywords.up, 23)  BY DEF AddRoutingKeywords
<1>25. Fitting(AddConversationMessagesTable.up, 24)  BY DEF AddConversationMessagesTable
<1>26. Fitting(DropRoutingKeywords.up, 25)  BY DEF DropRoutingKeywords
<1>27. Fitting(SimplifyTaskStatus.up, 26)
  BY SimplifyTaskStatusUp
<1>28. Fitting(AddTaskActivities.up, 27)  BY DEF AddTaskActivities
<1>29. Fitting(AddAgentMemories.up, 28)  BY DEF AddAgentMemories
<1>30. Fitting(AddProjectChannels.up, 29)  BY DEF AddProjectChannels
<1>31. Fitting(AddTenantInstallToken.up, 30)  BY DEF AddTenantInstallToken
<1>32. Fitting(AddPlanProposals.up, 31)  BY DEF AddPlanProposals
<1>33. Fitting(AddTaskIdToConversation.up, 32)  BY DEF AddTaskIdToConversation
<1>34. Fitting(AddAssignedAgentIdToTasks.up, 33)  BY DEF AddAssignedAgentIdToTasks
<1>35. Fitting(AddTaskTitleUniqueIndex.up, 34)  BY DEF AddTaskTitleUniqueIndex
<1>36. Fitting(RenameTaskAgentIdToCreator.up, 35)  BY DEF RenameTaskAgentIdToCreator
<1>37. Fitting(FounderMetaphor.up, 36)  BY DEF FounderMetaphor, FounderMetaphorUp, FounderMetaphorDown, FounderMetaphorTables
<1>38. Fitting(AddIntegrationConfigs.up, 37)  BY DEF AddIntegrationConfigs
<1>39. Fitting(AddProjectTenantId.up, 38)  BY DEF AddProjectTenantId
<1>40. Fitting(RenameIsDefaultToIsSelected.up, 39)  BY DEF RenameIsDefaultToIsSelected
<1>41. Fitting(DropBsgatewayIntegrationProvider.up, 40)  BY DEF DropBsgatewayIntegrationProvider
<1> HIDE DEF Fitting, Must, May, Gone, Present, At,
            Revision, Reversible, Change, Nothing, Refused, Relabelled, Columns, Tables, Table
<1> QED
  BY <1>21, <1>22, <1>23, <1>24, <1>25, <1>26, <1>27, <1>28, <1>29, <1>30, <1>31, <1>32, <1>33,
     <1>34, <1>35, <1>36, <1>37, <1>38, <1>39, <1>40, <1>41, Chained

LEMMA UpgradesFitLast ==
    \A n \in 42 .. Newest : n # 60 => Fitting(Chain[n].up, n - 1)
<1> USE DEF Fitting, Must, May, Gone, Present, At,
            Revision, Reversible, Change, Nothing, Refused, Relabelled, Columns, Tables, Table
<1>42. Fitting(AddDirectiveToExecutionRuns.up, 41)  BY DEF AddDirectiveToExecutionRuns
<1>43. Fitting(AddOriginatorAuthToRequests.up, 42)  BY DEF AddOriginatorAuthToRequests
<1>44. Fitting(ConsolidateProjectStatus.up, 43)  BY DEF ConsolidateProjectStatus
<1>45. Fitting(AddAuditOutbox.up, 44)  BY DEF AddAuditOutbox
<1>46. Fitting(DropWorkers.up, 45)  BY DEF DropWorkers
<1>47. Fitting(ExecutorConfigApiKeyEncrypted.up, 46)
  BY ExecutorConfigApiKeyEncryptedUp
<1>48. Fitting(CollapseExecutorTypes.up, 47)  BY DEF CollapseExecutorTypes
<1>49. Fitting(RenameGenericLlm.up, 48)  BY DEF RenameGenericLlm
<1>50. Fitting(AddDeliverableProof.up, 49)  BY DEF AddDeliverableProof
<1>51. Fitting(AddRunSummary.up, 50)  BY DEF AddRunSummary
<1>52. Fitting(GreenfieldReset.up, 51)
  BY GreenfieldResetUp DEF GreenfieldWorkTables, GreenfieldProofTables
<1>53. Fitting(AddExecutorConfig.up, 52)  BY DEF AddExecutorConfig
<1>54. Fitting(DropExecutorEnabled.up, 53)  BY DEF DropExecutorEnabled
<1>55. Fitting(AddDeliverablesCommitSha.up, 54)  BY DEF AddDeliverablesCommitSha
<1>56. Fitting(AddRequestsPrNumberAndPrUrl.up, 55)  BY DEF AddRequestsPrNumberAndPrUrl
<1>57. Fitting(MultiAspectVerifier.up, 56)  BY DEF MultiAspectVerifier
<1>58. Fitting(AddCodeBuildAspectType.up, 57)  BY DEF AddCodeBuildAspectType
<1>59. Fitting(AddRunAttemptHandoff.up, 58)  BY DEF AddRunAttemptHandoff
<1>61. Fitting(DropTenantsSlugUnique.up, 60)  BY DEF DropTenantsSlugUnique
<1>62. Fitting(ReplaceRequestBlocked.up, 61)  BY DEF ReplaceRequestBlocked
<1> HIDE DEF Fitting, Must, May, Gone, Present, At,
            Revision, Reversible, Change, Nothing, Refused, Relabelled, Columns, Tables, Table
<1> QED
  BY <1>42, <1>43, <1>44, <1>45, <1>46, <1>47, <1>48, <1>49, <1>50, <1>51, <1>52, <1>53, <1>54,
     <1>55, <1>56, <1>57, <1>58, <1>59, <1>61, <1>62, Chained

LEMMA UpgradesFit ==
    \A n \in 1 .. Newest : n # 60 => Fitting(Chain[n].up, n - 1)
<1>1. \A n \in 1 .. Newest : n \in 1 .. 20 \/ n \in 21 .. 41 \/ n \in 42 .. Newest
  BY NewestIs
<1> QED  BY <1>1, UpgradesFitFirst, UpgradesFitMiddle, UpgradesFitLast, Zenon

LEMMA UpgradesLeadFirst ==
    \A n \in 1 .. 20 : Leading(Chain[n].up, n - 1, n)
<1> USE DEF Leading, Must, May, Gone, Present, At,
            Revision, Reversible, Change, Nothing, Refused, Relabelled, Columns, Tables, Table
<1>1. Leading(InitialModels.up, 0, 1)  BY DEF InitialModels
<1>2. Leading(AddBlockedStatus.up, 1, 2)  BY DEF AddBlockedStatus
<1>3. Leading(AddNameToDesignSessions.up, 2, 3)  BY DEF AddNameToDesignSessions
<1>4. Leading(AddSettingsTable.up, 3, 4)  BY DEF AddSettingsTable
<1>5. Leading(AddRegistrationTokensTable.up, 4, 5)  BY DEF AddRegistrationTokensTable
<1>6. Leading(AddMessageTypeToDesignMessages.up, 5, 6)  BY DEF AddMessageTypeToDesignMessages
<1>7. Leading(AddWorkerProjectAssignment.up, 6, 7)  BY DEF AddWorkerProjectAssignment
<1>8. Leading(ReplaceRejectedBlockedWithRedesign.up, 7, 8)  BY DEF ReplaceRejectedBlockedWithRedesign
<1>9. Leading(AddFkDesignSessionWorkerId.up, 8, 9)  BY DEF AddFkDesignSessionWorkerId
<1>10. Leading(AddSecurityTables.up, 9, 10)  BY DEF AddSecurityTables
<1>11. Leading(AddLivingProjectFields.up, 10, 11)  BY DEF AddLivingProjectFields
<1>12. Leading(RemoveWorkerModels.up, 11, 12)  BY DEF RemoveWorkerModels
<1>13. Leading(DropApiKeysTable.up, 12, 13)  BY DEF DropApiKeysTable
<1>14. Leading(AddExecutorTypeAndMetadataToTasks.up, 13, 14)  BY DEF AddExecutorTypeAndMetadataToTasks
<1>15. Leading(AddTaskSuggestionsTable.up, 14, 15)  BY DEF AddTaskSuggestionsTable
<1>16. Leading(AddCompanyOsModels.up, 15, 16)  BY DEF AddCompanyOsModels
<1>17. Leading(AddExecutorConfigsTable.up, 16, 17)  BY DEF AddExecutorConfigsTable
<1>18. Leading(AddUniqueIndexForOneDefault.up, 17, 18)  BY DEF AddUniqueIndexForOneDefault
<1>19. Leading(AddExecutorConfigIdToAgents.up, 18, 19)  BY DEF AddExecutorConfigIdToAgents
<1>20. Leading(MakeRepoPathNullable.up, 19, 20)  BY DEF MakeRepoPathNullable
<1> HIDE DEF Leading, Must, May, Gone, Present, At,
            Revision, Reversible, Change, Nothing, Refused, Relabelled, Columns, Tables, Table
<1> QED
  BY <1>1, <1>2, <1>3, <1>4, <1>5, <1>6, <1>7, <1>8, <1>9, <1>10, <1>11, <1>12, <1>13, <1>14,
     <1>15, <1>16, <1>17, <1>18, <1>19, <1>20, Chained

LEMMA UpgradesLeadMiddle ==
    \A n \in 21 .. 41 : Leading(Chain[n].up, n - 1, n)
<1> USE DEF Leading, Must, May, Gone, Present, At,
            Revision, Reversible, Change, Nothing, Refused, Relabelled, Columns, Tables, Table
<1>21. Leading(AddWorkspaceColumnsToProjects.up, 20, 21)  BY DEF AddWorkspaceColumnsToProjects
<1>22. Leading(AddUniqueConstraintOnWorkers.up, 21, 22)  BY DEF AddUniqueConstraintOnWorkers
<1>23. Leading(AddNameNotEmptyCheck.up, 22, 23)  BY DEF AddNameNotEmptyCheck
<1>24. Leading(AddRoutingKeywords.up, 23, 24)  BY DEF AddRoutingKeywords
<1>25. Leading(AddConversationMessagesTable.up, 24, 25)  BY DEF AddConversationMessagesTable
<1>26. Leading(DropRoutingKeywords.up, 25, 26)  BY DEF DropRoutingKeywords
<1>27. Leading(SimplifyTaskStatus.up, 26, 27)
  BY SimplifyTaskStatusUp
<1>28. Leading(AddTaskActivities.up, 27, 28)  BY DEF AddTaskActivities
<1>29. Leading(AddAgentMemories.up, 28, 29)  BY DEF AddAgentMemories
<1>30. Leading(AddProjectChannels.up, 29, 30)  BY DEF AddProjectChannels
<1>31. Leading(AddTenantInstallToken.up, 30, 31)  BY DEF AddTenantInstallToken
<1>32. Leading(AddPlanProposals.up, 31, 32)  BY DEF AddPlanProposals
<1>33. Leading(AddTaskIdToConversation.up, 32, 33)  BY DEF AddTaskIdToConversation
<1>34. Leading(AddAssignedAgentIdToTasks.up, 33, 34)  BY DEF AddAssignedAgentIdToTasks
<1>35. Leading(AddTaskTitleUniqueIndex.up, 34, 35)  BY DEF AddTaskTitleUniqueIndex
<1>36. Leading(RenameTaskAgentIdToCreator.up, 35, 36)  BY DEF RenameTaskAgentIdToCreator
<1>37. Leading(FounderMetaphor.up, 36, 37)  BY DEF FounderMetaphor, FounderMetaphorUp, FounderMetaphorDown, FounderMetaphorTables
<1>38. Leading(AddIntegrationConfigs.up, 37, 38)  BY DEF AddIntegrationConfigs
<1>39. Leading(AddProjectTenantId.up, 38, 39)  BY DEF AddProjectTenantId
<1>40. Leading(RenameIsDefaultToIsSelected.up, 39, 40)  BY DEF RenameIsDefaultToIsSelected
<1>41. Leading(DropBsgatewayIntegrationProvider.up, 40, 41)  BY DEF DropBsgatewayIntegrationProvider
<1> HIDE DEF Leading, Must, May, Gone, Present, At,
            Revision, Reversible, Change, Nothing, Refused, Relabelled, Columns, Tables, Table
<1> QED
  BY <1>21, <1>22, <1>23, <1>24, <1>25, <1>26, <1>27, <1>28, <1>29, <1>30, <1>31, <1>32, <1>33,
     <1>34, <1>35, <1>36, <1>37, <1>38, <1>39, <1>40, <1>41, Chained

LEMMA UpgradesLeadLast ==
    \A n \in 42 .. Newest : Leading(Chain[n].up, n - 1, n)
<1> USE DEF Leading, Must, May, Gone, Present, At,
            Revision, Reversible, Change, Nothing, Refused, Relabelled, Columns, Tables, Table
<1>42. Leading(AddDirectiveToExecutionRuns.up, 41, 42)  BY DEF AddDirectiveToExecutionRuns
<1>43. Leading(AddOriginatorAuthToRequests.up, 42, 43)  BY DEF AddOriginatorAuthToRequests
<1>44. Leading(ConsolidateProjectStatus.up, 43, 44)  BY DEF ConsolidateProjectStatus
<1>45. Leading(AddAuditOutbox.up, 44, 45)  BY DEF AddAuditOutbox
<1>46. Leading(DropWorkers.up, 45, 46)  BY DEF DropWorkers
<1>47. Leading(ExecutorConfigApiKeyEncrypted.up, 46, 47)
  BY ExecutorConfigApiKeyEncryptedUp
<1>48. Leading(CollapseExecutorTypes.up, 47, 48)  BY DEF CollapseExecutorTypes
<1>49. Leading(RenameGenericLlm.up, 48, 49)  BY DEF RenameGenericLlm
<1>50. Leading(AddDeliverableProof.up, 49, 50)  BY DEF AddDeliverableProof
<1>51. Leading(AddRunSummary.up, 50, 51)  BY DEF AddRunSummary
<1>52. Leading(GreenfieldReset.up, 51, 52)
  BY GreenfieldResetUp DEF GreenfieldWorkTables, GreenfieldProofTables
<1>53. Leading(AddExecutorConfig.up, 52, 53)  BY DEF AddExecutorConfig
<1>54. Leading(DropExecutorEnabled.up, 53, 54)  BY DEF DropExecutorEnabled
<1>55. Leading(AddDeliverablesCommitSha.up, 54, 55)  BY DEF AddDeliverablesCommitSha
<1>56. Leading(AddRequestsPrNumberAndPrUrl.up, 55, 56)  BY DEF AddRequestsPrNumberAndPrUrl
<1>57. Leading(MultiAspectVerifier.up, 56, 57)  BY DEF MultiAspectVerifier
<1>58. Leading(AddCodeBuildAspectType.up, 57, 58)  BY DEF AddCodeBuildAspectType
<1>59. Leading(AddRunAttemptHandoff.up, 58, 59)  BY DEF AddRunAttemptHandoff
<1>60. Leading(AddRunAttemptVerificationContract.up, 59, 60)  BY DEF AddRunAttemptVerificationContract
<1>61. Leading(DropTenantsSlugUnique.up, 60, 61)  BY DEF DropTenantsSlugUnique
<1>62. Leading(ReplaceRequestBlocked.up, 61, 62)  BY DEF ReplaceRequestBlocked
<1> HIDE DEF Leading, Must, May, Gone, Present, At,
            Revision, Reversible, Change, Nothing, Refused, Relabelled, Columns, Tables, Table
<1> QED
  BY <1>42, <1>43, <1>44, <1>45, <1>46, <1>47, <1>48, <1>49, <1>50, <1>51, <1>52, <1>53, <1>54,
     <1>55, <1>56, <1>57, <1>58, <1>59, <1>60, <1>61, <1>62, Chained

LEMMA UpgradesLead ==
    \A n \in 1 .. Newest : Leading(Chain[n].up, n - 1, n)
<1>1. \A n \in 1 .. Newest : n \in 1 .. 20 \/ n \in 21 .. 41 \/ n \in 42 .. Newest
  BY NewestIs
<1> QED  BY <1>1, UpgradesLeadFirst, UpgradesLeadMiddle, UpgradesLeadLast, Zenon

LEMMA DowngradesFitFirst ==
    \A n \in 1 .. 20 : Chain[n].down.runs => Fitting(Chain[n].down, n)
<1> USE DEF Fitting, Must, May, Gone, Present, At,
            Revision, Reversible, Change, Nothing, Refused, Relabelled, Columns, Tables, Table
<1>1. Fitting(InitialModels.down, 1)  BY DEF InitialModels
<1>2. Fitting(AddBlockedStatus.down, 2)  BY DEF AddBlockedStatus
<1>3. Fitting(AddNameToDesignSessions.down, 3)  BY DEF AddNameToDesignSessions
<1>4. Fitting(AddSettingsTable.down, 4)  BY DEF AddSettingsTable
<1>5. Fitting(AddRegistrationTokensTable.down, 5)  BY DEF AddRegistrationTokensTable
<1>6. Fitting(AddMessageTypeToDesignMessages.down, 6)  BY DEF AddMessageTypeToDesignMessages
<1>7. Fitting(AddWorkerProjectAssignment.down, 7)  BY DEF AddWorkerProjectAssignment
<1>8. Fitting(ReplaceRejectedBlockedWithRedesign.down, 8)  BY DEF ReplaceRejectedBlockedWithRedesign
<1>9. Fitting(AddFkDesignSessionWorkerId.down, 9)  BY DEF AddFkDesignSessionWorkerId
<1>10. Fitting(AddSecurityTables.down, 10)  BY DEF AddSecurityTables
<1>11. Fitting(AddLivingProjectFields.down, 11)  BY DEF AddLivingProjectFields
<1>12. Fitting(RemoveWorkerModels.down, 12)  BY DEF RemoveWorkerModels
<1>13. Fitting(DropApiKeysTable.down, 13)  BY DEF DropApiKeysTable
<1>14. Fitting(AddExecutorTypeAndMetadataToTasks.down, 14)  BY DEF AddExecutorTypeAndMetadataToTasks
<1>15. Fitting(AddTaskSuggestionsTable.down, 15)  BY DEF AddTaskSuggestionsTable
<1>16. ~AddCompanyOsModels.down.runs  BY DEF AddCompanyOsModels
<1>17. Fitting(AddExecutorConfigsTable.down, 17)  BY DEF AddExecutorConfigsTable
<1>18. Fitting(AddUniqueIndexForOneDefault.down, 18)  BY DEF AddUniqueIndexForOneDefault
<1>19. ~AddExecutorConfigIdToAgents.down.runs  BY DEF AddExecutorConfigIdToAgents
<1>20. Fitting(MakeRepoPathNullable.down, 20)  BY DEF MakeRepoPathNullable
<1> HIDE DEF Fitting, Must, May, Gone, Present, At,
            Revision, Reversible, Change, Nothing, Refused, Relabelled, Columns, Tables, Table
<1> QED
  BY <1>1, <1>2, <1>3, <1>4, <1>5, <1>6, <1>7, <1>8, <1>9, <1>10, <1>11, <1>12, <1>13, <1>14,
     <1>15, <1>16, <1>17, <1>18, <1>19, <1>20, Chained

LEMMA DowngradesFitMiddle ==
    \A n \in 21 .. 41 : Chain[n].down.runs => Fitting(Chain[n].down, n)
<1> USE DEF Fitting, Must, May, Gone, Present, At,
            Revision, Reversible, Change, Nothing, Refused, Relabelled, Columns, Tables, Table
<1>21. Fitting(AddWorkspaceColumnsToProjects.down, 21)  BY DEF AddWorkspaceColumnsToProjects
<1>22. Fitting(AddUniqueConstraintOnWorkers.down, 22)  BY DEF AddUniqueConstraintOnWorkers
<1>23. Fitting(AddNameNotEmptyCheck.down, 23)  BY DEF AddNameNotEmptyCheck
<1>24. Fitting(AddRoutingKeywords.down, 24)  BY DEF AddRoutingKeywords
<1>25. Fitting(AddConversationMessagesTable.down, 25)  BY DEF AddConversationMessagesTable
<1>26. Fitting(DropRoutingKeywords.down, 26)  BY DEF DropRoutingKeywords
<1>27. ~SimplifyTaskStatus.down.runs  BY DEF SimplifyTaskStatus
<1>28. Fitting(AddTaskActivities.down, 28)  BY DEF AddTaskActivities
<1>29. Fitting(AddAgentMemories.down, 29)  BY DEF AddAgentMemories
<1>30. Fitting(AddProjectChannels.down, 30)  BY DEF AddProjectChannels
<1>31. Fitting(AddTenantInstallToken.down, 31)  BY DEF AddTenantInstallToken
<1>32. Fitting(AddPlanProposals.down, 32)  BY DEF AddPlanProposals
<1>33. Fitting(AddTaskIdToConversation.down, 33)  BY DEF AddTaskIdToConversation
<1>34. Fitting(AddAssignedAgentIdToTasks.down, 34)  BY DEF AddAssignedAgentIdToTasks
<1>35. Fitting(AddTaskTitleUniqueIndex.down, 35)  BY DEF AddTaskTitleUniqueIndex
<1>36. Fitting(RenameTaskAgentIdToCreator.down, 36)  BY DEF RenameTaskAgentIdToCreator
<1>37. Fitting(FounderMetaphor.down, 37)  BY DEF FounderMetaphor, FounderMetaphorUp, FounderMetaphorDown, FounderMetaphorTables
<1>38. Fitting(AddIntegrationConfigs.down, 38)  BY DEF AddIntegrationConfigs
<1>39. Fitting(AddProjectTenantId.down, 39)  BY DEF AddProjectTenantId
<1>40. Fitting(RenameIsDefaultToIsSelected.down, 40)  BY DEF RenameIsDefaultToIsSelected
<1>41. Fitting(DropBsgatewayIntegrationProvider.down, 41)  BY DEF DropBsgatewayIntegrationProvider
<1> HIDE DEF Fitting, Must, May, Gone, Present, At,
            Revision, Reversible, Change, Nothing, Refused, Relabelled, Columns, Tables, Table
<1> QED
  BY <1>21, <1>22, <1>23, <1>24, <1>25, <1>26, <1>27, <1>28, <1>29, <1>30, <1>31, <1>32, <1>33,
     <1>34, <1>35, <1>36, <1>37, <1>38, <1>39, <1>40, <1>41, Chained

LEMMA DowngradesFitLast ==
    \A n \in 42 .. Newest : Chain[n].down.runs => Fitting(Chain[n].down, n)
<1> USE DEF Fitting, Must, May, Gone, Present, At,
            Revision, Reversible, Change, Nothing, Refused, Relabelled, Columns, Tables, Table
<1>42. Fitting(AddDirectiveToExecutionRuns.down, 42)  BY DEF AddDirectiveToExecutionRuns
<1>43. Fitting(AddOriginatorAuthToRequests.down, 43)  BY DEF AddOriginatorAuthToRequests
<1>44. Fitting(ConsolidateProjectStatus.down, 44)  BY DEF ConsolidateProjectStatus
<1>45. Fitting(AddAuditOutbox.down, 45)  BY DEF AddAuditOutbox
<1>46. Fitting(DropWorkers.down, 46)  BY DEF DropWorkers
<1>47. Fitting(ExecutorConfigApiKeyEncrypted.down, 47)  BY DEF ExecutorConfigApiKeyEncrypted
<1>48. Fitting(CollapseExecutorTypes.down, 48)  BY DEF CollapseExecutorTypes
<1>49. Fitting(RenameGenericLlm.down, 49)  BY DEF RenameGenericLlm
<1>50. Fitting(AddDeliverableProof.down, 50)  BY DEF AddDeliverableProof
<1>51. Fitting(AddRunSummary.down, 51)  BY DEF AddRunSummary
<1>52. ~GreenfieldReset.down.runs  BY DEF GreenfieldReset, GreenfieldWorkTables, GreenfieldProofTables
<1>53. Fitting(AddExecutorConfig.down, 53)  BY DEF AddExecutorConfig
<1>54. Fitting(DropExecutorEnabled.down, 54)  BY DEF DropExecutorEnabled
<1>55. Fitting(AddDeliverablesCommitSha.down, 55)  BY DEF AddDeliverablesCommitSha
<1>56. Fitting(AddRequestsPrNumberAndPrUrl.down, 56)  BY DEF AddRequestsPrNumberAndPrUrl
<1>57. Fitting(MultiAspectVerifier.down, 57)  BY DEF MultiAspectVerifier
<1>58. Fitting(AddCodeBuildAspectType.down, 58)  BY DEF AddCodeBuildAspectType
<1>59. Fitting(AddRunAttemptHandoff.down, 59)  BY DEF AddRunAttemptHandoff
<1>60. Fitting(AddRunAttemptVerificationContract.down, 60)  BY DEF AddRunAttemptVerificationContract
<1>61. Fitting(DropTenantsSlugUnique.down, 61)  BY DEF DropTenantsSlugUnique
<1>62. Fitting(ReplaceRequestBlocked.down, 62)  BY DEF ReplaceRequestBlocked
<1> HIDE DEF Fitting, Must, May, Gone, Present, At,
            Revision, Reversible, Change, Nothing, Refused, Relabelled, Columns, Tables, Table
<1> QED
  BY <1>42, <1>43, <1>44, <1>45, <1>46, <1>47, <1>48, <1>49, <1>50, <1>51, <1>52, <1>53, <1>54,
     <1>55, <1>56, <1>57, <1>58, <1>59, <1>60, <1>61, <1>62, Chained

LEMMA DowngradesFit ==
    \A n \in 1 .. Newest : Chain[n].down.runs => Fitting(Chain[n].down, n)
<1>1. \A n \in 1 .. Newest : n \in 1 .. 20 \/ n \in 21 .. 41 \/ n \in 42 .. Newest
  BY NewestIs
<1> QED  BY <1>1, DowngradesFitFirst, DowngradesFitMiddle, DowngradesFitLast, Zenon

LEMMA DowngradesLeadFirst ==
    \A n \in 1 .. 20 : Chain[n].down.runs /\ n # 37 => Leading(Chain[n].down, n, n - 1)
<1> USE DEF Leading, Must, May, Gone, Present, At,
            Revision, Reversible, Change, Nothing, Refused, Relabelled, Columns, Tables, Table
<1>1. Leading(InitialModels.down, 1, 0)  BY DEF InitialModels
<1>2. Leading(AddBlockedStatus.down, 2, 1)  BY DEF AddBlockedStatus
<1>3. Leading(AddNameToDesignSessions.down, 3, 2)  BY DEF AddNameToDesignSessions
<1>4. Leading(AddSettingsTable.down, 4, 3)  BY DEF AddSettingsTable
<1>5. Leading(AddRegistrationTokensTable.down, 5, 4)  BY DEF AddRegistrationTokensTable
<1>6. Leading(AddMessageTypeToDesignMessages.down, 6, 5)  BY DEF AddMessageTypeToDesignMessages
<1>7. Leading(AddWorkerProjectAssignment.down, 7, 6)  BY DEF AddWorkerProjectAssignment
<1>8. Leading(ReplaceRejectedBlockedWithRedesign.down, 8, 7)  BY DEF ReplaceRejectedBlockedWithRedesign
<1>9. Leading(AddFkDesignSessionWorkerId.down, 9, 8)  BY DEF AddFkDesignSessionWorkerId
<1>10. Leading(AddSecurityTables.down, 10, 9)  BY DEF AddSecurityTables
<1>11. Leading(AddLivingProjectFields.down, 11, 10)  BY DEF AddLivingProjectFields
<1>12. Leading(RemoveWorkerModels.down, 12, 11)  BY DEF RemoveWorkerModels
<1>13. Leading(DropApiKeysTable.down, 13, 12)  BY DEF DropApiKeysTable
<1>14. Leading(AddExecutorTypeAndMetadataToTasks.down, 14, 13)  BY DEF AddExecutorTypeAndMetadataToTasks
<1>15. Leading(AddTaskSuggestionsTable.down, 15, 14)  BY DEF AddTaskSuggestionsTable
<1>16. ~AddCompanyOsModels.down.runs  BY DEF AddCompanyOsModels
<1>17. Leading(AddExecutorConfigsTable.down, 17, 16)  BY DEF AddExecutorConfigsTable
<1>18. Leading(AddUniqueIndexForOneDefault.down, 18, 17)  BY DEF AddUniqueIndexForOneDefault
<1>19. ~AddExecutorConfigIdToAgents.down.runs  BY DEF AddExecutorConfigIdToAgents
<1>20. Leading(MakeRepoPathNullable.down, 20, 19)  BY DEF MakeRepoPathNullable
<1> HIDE DEF Leading, Must, May, Gone, Present, At,
            Revision, Reversible, Change, Nothing, Refused, Relabelled, Columns, Tables, Table
<1> QED
  BY <1>1, <1>2, <1>3, <1>4, <1>5, <1>6, <1>7, <1>8, <1>9, <1>10, <1>11, <1>12, <1>13, <1>14,
     <1>15, <1>16, <1>17, <1>18, <1>19, <1>20, Chained

LEMMA DowngradesLeadMiddle ==
    \A n \in 21 .. 41 : Chain[n].down.runs /\ n # 37 => Leading(Chain[n].down, n, n - 1)
<1> USE DEF Leading, Must, May, Gone, Present, At,
            Revision, Reversible, Change, Nothing, Refused, Relabelled, Columns, Tables, Table
<1>21. Leading(AddWorkspaceColumnsToProjects.down, 21, 20)  BY DEF AddWorkspaceColumnsToProjects
<1>22. Leading(AddUniqueConstraintOnWorkers.down, 22, 21)  BY DEF AddUniqueConstraintOnWorkers
<1>23. Leading(AddNameNotEmptyCheck.down, 23, 22)  BY DEF AddNameNotEmptyCheck
<1>24. Leading(AddRoutingKeywords.down, 24, 23)  BY DEF AddRoutingKeywords
<1>25. Leading(AddConversationMessagesTable.down, 25, 24)  BY DEF AddConversationMessagesTable
<1>26. Leading(DropRoutingKeywords.down, 26, 25)  BY DEF DropRoutingKeywords
<1>27. ~SimplifyTaskStatus.down.runs  BY DEF SimplifyTaskStatus
<1>28. Leading(AddTaskActivities.down, 28, 27)  BY DEF AddTaskActivities
<1>29. Leading(AddAgentMemories.down, 29, 28)  BY DEF AddAgentMemories
<1>30. Leading(AddProjectChannels.down, 30, 29)  BY DEF AddProjectChannels
<1>31. Leading(AddTenantInstallToken.down, 31, 30)  BY DEF AddTenantInstallToken
<1>32. Leading(AddPlanProposals.down, 32, 31)  BY DEF AddPlanProposals
<1>33. Leading(AddTaskIdToConversation.down, 33, 32)  BY DEF AddTaskIdToConversation
<1>34. Leading(AddAssignedAgentIdToTasks.down, 34, 33)  BY DEF AddAssignedAgentIdToTasks
<1>35. Leading(AddTaskTitleUniqueIndex.down, 35, 34)  BY DEF AddTaskTitleUniqueIndex
<1>36. Leading(RenameTaskAgentIdToCreator.down, 36, 35)  BY DEF RenameTaskAgentIdToCreator
<1>38. Leading(AddIntegrationConfigs.down, 38, 37)  BY DEF AddIntegrationConfigs
<1>39. Leading(AddProjectTenantId.down, 39, 38)  BY DEF AddProjectTenantId
<1>40. Leading(RenameIsDefaultToIsSelected.down, 40, 39)  BY DEF RenameIsDefaultToIsSelected
<1>41. Leading(DropBsgatewayIntegrationProvider.down, 41, 40)  BY DEF DropBsgatewayIntegrationProvider
<1> HIDE DEF Leading, Must, May, Gone, Present, At,
            Revision, Reversible, Change, Nothing, Refused, Relabelled, Columns, Tables, Table
<1> QED
  BY <1>21, <1>22, <1>23, <1>24, <1>25, <1>26, <1>27, <1>28, <1>29, <1>30, <1>31, <1>32, <1>33,
     <1>34, <1>35, <1>36, <1>38, <1>39, <1>40, <1>41, Chained

LEMMA DowngradesLeadLast ==
    \A n \in 42 .. Newest : Chain[n].down.runs /\ n # 37 => Leading(Chain[n].down, n, n - 1)
<1> USE DEF Leading, Must, May, Gone, Present, At,
            Revision, Reversible, Change, Nothing, Refused, Relabelled, Columns, Tables, Table
<1>42. Leading(AddDirectiveToExecutionRuns.down, 42, 41)  BY DEF AddDirectiveToExecutionRuns
<1>43. Leading(AddOriginatorAuthToRequests.down, 43, 42)  BY DEF AddOriginatorAuthToRequests
<1>44. Leading(ConsolidateProjectStatus.down, 44, 43)  BY DEF ConsolidateProjectStatus
<1>45. Leading(AddAuditOutbox.down, 45, 44)  BY DEF AddAuditOutbox
<1>46. Leading(DropWorkers.down, 46, 45)  BY DEF DropWorkers
<1>47. Leading(ExecutorConfigApiKeyEncrypted.down, 47, 46)  BY DEF ExecutorConfigApiKeyEncrypted
<1>48. Leading(CollapseExecutorTypes.down, 48, 47)  BY DEF CollapseExecutorTypes
<1>49. Leading(RenameGenericLlm.down, 49, 48)  BY DEF RenameGenericLlm
<1>50. Leading(AddDeliverableProof.down, 50, 49)  BY DEF AddDeliverableProof
<1>51. Leading(AddRunSummary.down, 51, 50)  BY DEF AddRunSummary
<1>52. ~GreenfieldReset.down.runs  BY DEF GreenfieldReset, GreenfieldWorkTables, GreenfieldProofTables
<1>53. Leading(AddExecutorConfig.down, 53, 52)  BY DEF AddExecutorConfig
<1>54. Leading(DropExecutorEnabled.down, 54, 53)  BY DEF DropExecutorEnabled
<1>55. Leading(AddDeliverablesCommitSha.down, 55, 54)  BY DEF AddDeliverablesCommitSha
<1>56. Leading(AddRequestsPrNumberAndPrUrl.down, 56, 55)  BY DEF AddRequestsPrNumberAndPrUrl
<1>57. Leading(MultiAspectVerifier.down, 57, 56)  BY DEF MultiAspectVerifier
<1>58. Leading(AddCodeBuildAspectType.down, 58, 57)  BY DEF AddCodeBuildAspectType
<1>59. Leading(AddRunAttemptHandoff.down, 59, 58)  BY DEF AddRunAttemptHandoff
<1>60. Leading(AddRunAttemptVerificationContract.down, 60, 59)  BY DEF AddRunAttemptVerificationContract
<1>61. Leading(DropTenantsSlugUnique.down, 61, 60)  BY DEF DropTenantsSlugUnique
<1>62. Leading(ReplaceRequestBlocked.down, 62, 61)  BY DEF ReplaceRequestBlocked
<1> HIDE DEF Leading, Must, May, Gone, Present, At,
            Revision, Reversible, Change, Nothing, Refused, Relabelled, Columns, Tables, Table
<1> QED
  BY <1>42, <1>43, <1>44, <1>45, <1>46, <1>47, <1>48, <1>49, <1>50, <1>51, <1>52, <1>53, <1>54,
     <1>55, <1>56, <1>57, <1>58, <1>59, <1>60, <1>61, <1>62, Chained

LEMMA DowngradesLead ==
    \A n \in 1 .. Newest : Chain[n].down.runs /\ n # 37 => Leading(Chain[n].down, n, n - 1)
<1>1. \A n \in 1 .. Newest : n \in 1 .. 20 \/ n \in 21 .. 41 \/ n \in 42 .. Newest
  BY NewestIs
<1> QED  BY <1>1, DowngradesLeadFirst, DowngradesLeadMiddle, DowngradesLeadLast, Zenon

----------------------------------------------------------------------------
(* What a change makes of a schema.                                        *)

Sound(schema, n) ==
    /\ \A t, c : Must(t, c, n) => <<t, c>> \in schema
    /\ \A o \in schema : o = <<o[1], o[2]>> /\ May(o[1], o[2], n)

LEMMA GoneIsDropped ==
    ASSUME NEW change, NEW schema, NEW o \in schema, o = <<o[1], o[2]>>
    PROVE  o \in Dropped(change, schema) <=> Gone(o[1], o[2], change)
<1>1. Table(o[1]) = <<o[1], "*">>
  BY DEF Table
<1>2. o \in Dropped(change, schema) <=> {o, Table(o[1])} \cap (change.drops \cup change.ifExists) # {}
  BY DEF Dropped
<1>3. {o, Table(o[1])} \cap (change.drops \cup change.ifExists) # {}
      <=> o \in change.drops \cup change.ifExists \/ Table(o[1]) \in change.drops \cup change.ifExists
  OBVIOUS
<1> QED  BY <1>1, <1>2, <1>3 DEF Gone

LEMMA FittingFits ==
    ASSUME NEW change, NEW n, NEW schema, Sound(schema, n), Fitting(change, n),
           \A o \in change.adds : o = <<o[1], o[2]>>
    PROVE  Fits(change, schema)
<1> DEFINE left == schema \ Dropped(change, schema)
<1>1. (change.drops \cup change.alters) \subseteq schema
  BY DEF Fitting, Sound
<1>2. ASSUME NEW o \in change.adds, o \in left  PROVE FALSE
  <2>1. May(o[1], o[2], n) /\ o = <<o[1], o[2]>>
    BY <1>2 DEF Sound
  <2>2. Gone(o[1], o[2], change)
    BY <2>1 DEF Fitting
  <2> QED  BY <1>2, <2>1, <2>2, GoneIsDropped
<1>3. ASSUME NEW o \in change.adds  PROVE Table(o[1]) \in left \cup change.adds
  <2> DEFINE t == o[1]
  <2>1. Table(t) = <<t, "*">> /\ o = <<t, o[2]>>
    BY DEF Table
  <2>2. CASE <<t, "*">> \in change.adds
    BY <2>1, <2>2
  <2>3. CASE <<t, "*">> \notin change.adds
    <3>1. Must(t, "*", n) /\ ~Gone(t, "*", change)
      BY <2>1, <2>3 DEF Fitting
    <3>2. <<t, "*">> \in schema
      BY <3>1 DEF Sound
    <3>3. <<t, "*">> = <<<<t, "*">>[1], <<t, "*">>[2]>> /\ <<t, "*">>[1] = t /\ <<t, "*">>[2] = "*"
      OBVIOUS
    <3>4. <<t, "*">> \notin Dropped(change, schema)
      BY <3>1, <3>2, <3>3, GoneIsDropped
    <3> QED  BY <2>1, <3>2, <3>4
  <2> QED  BY <2>2, <2>3
<1>4. change.runs
  BY DEF Fitting
<1> QED  BY <1>1, <1>2, <1>3, <1>4 DEF Fits

LEMMA LeadingLeads ==
    ASSUME NEW change, NEW n, NEW m, NEW schema, Sound(schema, n), Leading(change, n, m)
    PROVE  Sound(Migrated(change, schema), m)
<1>1. ASSUME NEW t, NEW c, Must(t, c, m)  PROVE <<t, c>> \in Migrated(change, schema)
  <2>1. CASE <<t, c>> \in change.adds
    BY <2>1 DEF Migrated
  <2>2. CASE <<t, c>> \notin change.adds
    <3>1. Must(t, c, n) /\ ~Gone(t, c, change)
      BY <1>1, <2>2 DEF Leading
    <3>2. <<t, c>> \in schema
      BY <3>1 DEF Sound
    <3>3. <<t, c>> = <<<<t, c>>[1], <<t, c>>[2]>> /\ <<t, c>>[1] = t /\ <<t, c>>[2] = c
      OBVIOUS
    <3>4. <<t, c>> \notin Dropped(change, schema)
      BY <3>1, <3>2, <3>3, GoneIsDropped
    <3> QED  BY <3>2, <3>4 DEF Migrated
  <2> QED  BY <2>1, <2>2
<1>2. ASSUME NEW o \in Migrated(change, schema)  PROVE o = <<o[1], o[2]>> /\ May(o[1], o[2], m)
  <2>1. CASE o \in change.adds
    BY <2>1 DEF Leading
  <2>2. CASE o \notin change.adds
    <3>1. o \in schema /\ o \notin Dropped(change, schema)
      BY <1>2, <2>2 DEF Migrated
    <3>2. o = <<o[1], o[2]>> /\ May(o[1], o[2], n)
      BY <3>1 DEF Sound
    <3>3. ~Gone(o[1], o[2], change)
      BY <3>1, <3>2, GoneIsDropped
    <3> QED  BY <3>2, <3>3 DEF Leading
  <2> QED  BY <2>1, <2>2
<1> QED  BY <1>1, <1>2 DEF Sound

\* A revision that can be run, up or down, on a schema of its version.
LEMMA UpgradeSound ==
    ASSUME NEW n \in 1 .. Newest, NEW schema, Sound(schema, n - 1)
    PROVE  /\ Sound(Migrated(Chain[n].up, schema), n)
           /\ n # 60 => Fits(Chain[n].up, schema)
<1>1. Leading(Chain[n].up, n - 1, n)
  BY UpgradesLead
<1>2. Sound(Migrated(Chain[n].up, schema), n)
  BY <1>1, LeadingLeads
<1>3. ASSUME n # 60  PROVE Fits(Chain[n].up, schema)
  <2>1. Fitting(Chain[n].up, n - 1)
    BY <1>3, UpgradesFit
  <2>2. \A o \in Chain[n].up.adds : o = <<o[1], o[2]>>
    BY <1>1 DEF Leading
  <2> QED  BY <2>1, <2>2, FittingFits
<1> QED  BY <1>2, <1>3

LEMMA DowngradeSound ==
    ASSUME NEW n \in 1 .. Newest, NEW schema, Sound(schema, n), Chain[n].down.runs
    PROVE  /\ n # 37 => Sound(Migrated(Chain[n].down, schema), n - 1)
           /\ Fits(Chain[n].down, schema)
<1>1. Fitting(Chain[n].down, n)
  BY DowngradesFit
<1>2. CASE n = 37
  <2>1. Chain[n].down = FounderMetaphorDown
    BY <1>2, Chained DEF FounderMetaphor, Revision
  <2>2. \A o \in Chain[n].down.adds : o = <<o[1], o[2]>>
    BY <2>1 DEF FounderMetaphorDown, Change, Columns
  <2> QED  BY <1>1, <1>2, <2>2, FittingFits
<1>3. CASE n # 37
  <2>1. Leading(Chain[n].down, n, n - 1)
    BY <1>3, DowngradesLead
  <2>2. \A o \in Chain[n].down.adds : o = <<o[1], o[2]>>
    BY <2>1 DEF Leading
  <2> QED  BY <1>1, <2>1, <2>2, FittingFits, LeadingLeads
<1> QED  BY <1>2, <1>3

\* The way back over the founder metaphor: what it dropped is not restored, and
\* neither of the revisions next to it can be run then.
Lost(schema) == <<"tasks", "*">> \notin schema /\ <<"tasks", "creator_agent_id">> \notin schema

LEMMA OneWayLoses ==
    ASSUME NEW schema, Sound(schema, 37)
    PROVE  Lost(Migrated(Chain[37].down, schema))
<1>1. Chain[37].down = FounderMetaphorDown
  BY Chained DEF FounderMetaphor, Revision
<1>2. <<"tasks", "*">> \notin Chain[37].down.adds /\ <<"tasks", "creator_agent_id">> \notin Chain[37].down.adds
  BY <1>1 DEF FounderMetaphorDown, Change, Columns
<1>3. \A c : ~May("tasks", c, 37)
  BY DEF May, Present, At
<1>4. \A c : <<"tasks", c>> \notin schema
  <2>1. ASSUME NEW c, <<"tasks", c>> \in schema  PROVE FALSE
    <3>1. <<"tasks", c>>[1] = "tasks" /\ <<"tasks", c>>[2] = c
      OBVIOUS
    <3> QED  BY <1>3, <2>1, <3>1 DEF Sound
  <2> QED  BY <2>1
<1> QED  BY <1>2, <1>4 DEF Lost, Migrated

LEMMA LostIsStuck ==
    ASSUME NEW schema, Lost(schema)
    PROVE  ~Fits(Chain[37].up, schema) /\ ~Fits(Chain[36].down, schema)
<1>1. Chain[37].up = FounderMetaphorUp /\ Chain[36].down = RenameTaskAgentIdToCreator.down
  BY Chained DEF FounderMetaphor, Revision
<1>2. <<"tasks", "*">> \in Chain[37].up.drops
  BY <1>1 DEF FounderMetaphorUp, Change, Tables, Table
<1>3. <<"tasks", "creator_agent_id">> \in Chain[36].down.drops
  BY <1>1 DEF RenameTaskAgentIdToCreator, Reversible, Revision, Change, Columns
<1> QED  BY <1>2, <1>3 DEF Lost, Fits

\* The revision that adds a column before its autocommit block.
TornPair == <<"run_attempts", "verification_contract">>

LEMMA TearingFits ==
    ASSUME NEW schema, Sound(schema, 59), TornPair \notin schema
    PROVE  Fits(Chain[60].up, schema)
<1>1. Chain[60].up = AddRunAttemptVerificationContract.up
  BY Chained
<1>2. /\ Chain[60].up.drops = {} /\ Chain[60].up.ifExists = {} /\ Chain[60].up.alters = {}
      /\ Chain[60].up.adds = {TornPair} /\ Chain[60].up.runs
  BY <1>1 DEF AddRunAttemptVerificationContract, Reversible, Revision, Change, Columns, TornPair
<1>3. Must("run_attempts", "*", 59)
  BY DEF Must, Present, At
<1>4. <<"run_attempts", "*">> \in schema
  BY <1>3 DEF Sound
<1>5. Dropped(Chain[60].up, schema) = {}
  BY <1>2 DEF Dropped
<1>6. Table(TornPair[1]) = <<"run_attempts", "*">>
  BY DEF Table, TornPair
<1> QED  BY <1>2, <1>4, <1>5, <1>6 DEF Fits

\* A block commits the schema of its revision under the version before it.
LEMMA BlockCommits ==
    ASSUME NEW schema, NEW n \in {58, 60}, Sound(schema, n)
    PROVE  Sound(schema, n - 1)
<1>1. \A t, c : Must(t, c, 57) => Must(t, c, 58)
  BY DEF Must, Present, At
<1>2. \A t, c : Must(t, c, 59) => Must(t, c, 60)
  BY DEF Must, Present, At
<1>3. \A t, c : May(t, c, 58) => May(t, c, 57)
  BY DEF May, Present, At
<1>4. \A t, c : May(t, c, 60) => May(t, c, 59)
  BY DEF May, Present, At
<1>5. n - 1 = IF n = 58 THEN 57 ELSE 59
  OBVIOUS
<1> QED  BY <1>1, <1>2, <1>3, <1>4, <1>5 DEF Sound

----------------------------------------------------------------------------
(* Where the revisions stand that the labels and the rows depend on.        *)

\* What a revision adds and does not drop was not there before it.
LEMMA AddedOnce ==
    ASSUME NEW n \in 1 .. Newest, NEW t, NEW c,
           <<t, c>> \in Chain[n].up.adds, ~Gone(t, c, Chain[n].up)
    PROVE  May(t, c, n) /\ (n # 60 => ~May(t, c, n - 1))
<1>1. Leading(Chain[n].up, n - 1, n) /\ (n # 60 => Fitting(Chain[n].up, n - 1))
  BY UpgradesLead, UpgradesFit
<1>2. <<t, c>>[1] = t /\ <<t, c>>[2] = c
  OBVIOUS
<1>3. May(t, c, n)
  BY <1>1, <1>2 DEF Leading
<1>4. n # 60 => ~May(t, c, n - 1)
  BY <1>1 DEF Fitting
<1> QED  BY <1>3, <1>4

LEMMA Positioned ==
    ASSUME NEW revision, NEW k \in 1 .. Newest, Chain[k] = revision,
           \A n \in 1 .. Newest : Chain[n] = revision => n = k
    PROVE  Position(revision) = k
BY DEF Position

BeginsAt(t, c, k) == \A n \in 1 .. Newest : May(t, c, n) /\ ~May(t, c, n - 1) => n = k

\* A revision is found by an object of which it alone is the beginning.
LEMMA Placed ==
    ASSUME NEW revision, NEW k \in 1 .. Newest, NEW t, NEW c,
           Chain[k] = revision, <<t, c>> \in revision.up.adds, ~Gone(t, c, revision.up),
           <<t, c>> # TornPair,
           BeginsAt(t, c, k)
    PROVE  Position(revision) = k
<1>1. ASSUME NEW n \in 1 .. Newest, Chain[n] = revision  PROVE n = k
  <2>1. May(t, c, n) /\ (n # 60 => ~May(t, c, n - 1))
    BY <1>1, AddedOnce
  <2>2. CASE n = 60
    <3>1. Chain[60].up.adds = {TornPair}
      BY Chained DEF AddRunAttemptVerificationContract, Reversible, Revision, Change, Columns, TornPair
    <3> QED  BY <1>1, <2>2, <3>1
  <2>3. CASE n # 60
    BY <2>1, <2>3 DEF BeginsAt
  <2> QED  BY <2>2, <2>3
<1> QED  BY <1>1, Positioned

LEMMA Places ==
    /\ OneWay = 37 /\ TenantOnProjects = 39 /\ Reset = 52 /\ Aspects = 57 /\ CodeBuild = 58
    /\ Contracts = 60 /\ NeedsDecision = 62
<1>7. /\ Chain[37] = FounderMetaphor /\ Chain[39] = AddProjectTenantId /\ Chain[52] = GreenfieldReset
      /\ Chain[57] = MultiAspectVerifier /\ Chain[60] = AddRunAttemptVerificationContract
      /\ Chain[62] = ReplaceRequestBlocked /\ Newest = 62
  BY Chained
<1> USE <1>7
<1>8. {37, 39, 52, 57, 60, 62} \subseteq 1 .. Newest
  OBVIOUS
<1>1. OneWay = 37
  <2> DEFINE t == "composition_snapshots"
             c == "*"
  <2>1. <<t, c>> \in FounderMetaphor.up.adds
    BY DEF FounderMetaphor, FounderMetaphorUp, FounderMetaphorTables, Revision, Change, Tables, Table
  <2>2. ~Gone(t, c, FounderMetaphor.up)
    BY DEF Gone, FounderMetaphor, FounderMetaphorUp, Revision, Change, Columns, Tables, Table
  <2>3. BeginsAt(t, c, 37)
    BY DEF BeginsAt, May, Present, At
  <2>4. <<t, c>> # TornPair
    BY DEF TornPair
  <2> HIDE DEF t, c
  <2>9. 37 \in 1 .. Newest
    BY <1>8
  <2> QED  BY <2>1, <2>2, <2>3, <2>4, <2>9, Placed, Zenon DEF OneWay
<1>2. TenantOnProjects = 39
  <2> DEFINE t == "projects"
             c == "tenant_id"
  <2>1. <<t, c>> \in AddProjectTenantId.up.adds /\ ~Gone(t, c, AddProjectTenantId.up)
    BY DEF Gone, AddProjectTenantId, Reversible, Revision, Change, Columns
  <2>2. BeginsAt(t, c, 39)
    BY DEF BeginsAt, May, Present, At
  <2>3. <<t, c>> # TornPair
    BY DEF TornPair
  <2> HIDE DEF t, c
  <2>9. 39 \in 1 .. Newest
    BY <1>8
  <2> QED  BY <2>1, <2>2, <2>3, <2>9, Placed, Zenon DEF TenantOnProjects
<1>3. Reset = 52
  <2> DEFINE t == "directions"
             c == "*"
  <2>1. <<t, c>> \in GreenfieldReset.up.adds
    BY DEF GreenfieldReset, GreenfieldWorkTables, Revision, Change, Tables, Table
  <2>2. ~Gone(t, c, GreenfieldReset.up)
    BY DEF Gone, GreenfieldReset, Revision, Change, Tables, Table
  <2>3. BeginsAt(t, c, 52)
    BY DEF BeginsAt, May, Present, At
  <2>4. <<t, c>> # TornPair
    BY DEF TornPair
  <2> HIDE DEF t, c
  <2>9. 52 \in 1 .. Newest
    BY <1>8
  <2> QED  BY <2>1, <2>2, <2>3, <2>4, <2>9, Placed, Zenon DEF Reset
<1>4. Aspects = 57
  <2> DEFINE t == "verification_aspects"
             c == "*"
  <2>1. <<t, c>> \in MultiAspectVerifier.up.adds /\ ~Gone(t, c, MultiAspectVerifier.up)
    BY DEF Gone, MultiAspectVerifier, Reversible, Revision, Change, Columns, Tables, Table
  <2>2. BeginsAt(t, c, 57)
    BY DEF BeginsAt, May, Present, At
  <2>3. <<t, c>> # TornPair
    BY DEF TornPair
  <2> HIDE DEF t, c
  <2>9. 57 \in 1 .. Newest
    BY <1>8
  <2> QED  BY <2>1, <2>2, <2>3, <2>9, Placed, Zenon DEF Aspects
<1>5. Contracts = 60
  <2>1. ASSUME NEW n \in 1 .. Newest, Chain[n] = AddRunAttemptVerificationContract, n # 60  PROVE FALSE
    <3>1. TornPair \in Chain[n].up.adds /\ ~Gone("run_attempts", "verification_contract", Chain[n].up)
      BY <2>1 DEF Gone, AddRunAttemptVerificationContract, Reversible, Revision, Change, Columns, TornPair
    <3>2. May("run_attempts", "verification_contract", n) /\ ~May("run_attempts", "verification_contract", n - 1)
      BY <2>1, <3>1, AddedOnce DEF TornPair
    <3>3. n = 52
      BY <3>2 DEF May, Present, At
    <3>4. TornPair \notin GreenfieldReset.up.adds
      BY DEF TornPair, GreenfieldReset, GreenfieldWorkTables, GreenfieldProofTables, Revision, Change,
             Columns, Tables, Table
    <3> QED  BY <3>1, <3>3, <3>4
  <2> QED  BY <2>1, Positioned DEF Contracts
<1>6. NeedsDecision = 62
  <2> DEFINE t == "decisions"
             c == "guidance"
  <2>1. <<t, c>> \in ReplaceRequestBlocked.up.adds /\ ~Gone(t, c, ReplaceRequestBlocked.up)
    BY DEF Gone, ReplaceRequestBlocked, Reversible, Revision, Change, Columns
  <2>2. BeginsAt(t, c, 62)
    BY DEF BeginsAt, May, Present, At
  <2>3. <<t, c>> # TornPair
    BY DEF TornPair
  <2> HIDE DEF t, c
  <2>9. 62 \in 1 .. Newest
    BY <1>8
  <2> QED  BY <2>1, <2>2, <2>3, <2>9, Placed, Zenon DEF NeedsDecision
<1> QED  BY <1>1, <1>2, <1>3, <1>4, <1>5, <1>6 DEF CodeBuild

\* The column of the contracts is added by its own revision only.
LEMMA TornByOne ==
    ASSUME NEW n \in 1 .. 59
    PROVE  TornPair \notin Chain[n].up.adds
<1> SUFFICES ASSUME TornPair \in Chain[n].up.adds  PROVE FALSE
  OBVIOUS
<1>1. TornPair[1] = "run_attempts" /\ TornPair[2] = "verification_contract"
  BY DEF TornPair
<1>2. May("run_attempts", "verification_contract", n)
  <2>1. Leading(Chain[n].up, n - 1, n)
    BY Chained, UpgradesLead
  <2> QED  BY <1>1, <2>1 DEF Leading
<1>3. n \in 52 .. 59
  BY <1>2 DEF May, Present, At
<1>4. n \in {52, 53, 54, 55, 56, 57, 58, 59}
  BY <1>3
<1>5. TornPair \notin GreenfieldReset.up.adds
  BY DEF TornPair, GreenfieldReset, GreenfieldWorkTables, GreenfieldProofTables, Revision, Change,
         Columns, Tables, Table
<1>6. /\ TornPair \notin AddExecutorConfig.up.adds
      /\ TornPair \notin DropExecutorEnabled.up.adds
      /\ TornPair \notin AddDeliverablesCommitSha.up.adds
      /\ TornPair \notin AddRequestsPrNumberAndPrUrl.up.adds
      /\ TornPair \notin MultiAspectVerifier.up.adds
      /\ TornPair \notin AddCodeBuildAspectType.up.adds
      /\ TornPair \notin AddRunAttemptHandoff.up.adds
  BY DEF TornPair, AddExecutorConfig, DropExecutorEnabled, AddDeliverablesCommitSha,
         AddRequestsPrNumberAndPrUrl, MultiAspectVerifier, AddCodeBuildAspectType, AddRunAttemptHandoff,
         Relabelled, Nothing, Reversible, Revision, Change, Columns, Tables, Table
<1> QED  BY <1>4, <1>5, <1>6, Chained

----------------------------------------------------------------------------
(* What a revision makes of a database.                                    *)

DatabaseRecords ==
    [version : 0 .. Newest, schema : SUBSET AnySchema,
     statuses : {{}, RequestStatusesAtReset, RequestStatusesAtHead},
     aspects : SUBSET ProofAspectTypes, projects : BOOLEAN,
     requests : SUBSET (RequestStatusesAtReset \cup RequestStatusesAtHead)]

ChangeOf(n, up) == IF up THEN Chain[n].up ELSE Chain[n].down

LEMMA EmptyIsRecord == EmptyDatabase \in DatabaseRecords
<1>1. 0 \in 0 .. Newest
  BY Chained
<1>2. FALSE \in BOOLEAN
  OBVIOUS
<1> QED  BY <1>1, <1>2 DEF EmptyDatabase, DatabaseRecords

LEMMA AddsAreObjects ==
    ASSUME NEW n \in 1 .. Newest, NEW up \in BOOLEAN
    PROVE  ChangeOf(n, up).adds \subseteq AnySchema
BY DEF ChangeOf, AnySchema

LEMMA AppliedFields ==
    ASSUME NEW n \in 1 .. Newest, NEW up \in BOOLEAN, NEW db \in DatabaseRecords
    PROVE  /\ Applied(n, up, db).version = db.version
           /\ Applied(n, up, db).schema = Migrated(ChangeOf(n, up), db.schema)
           /\ Applied(n, up, db).statuses = StatusLabels(n, up, db.statuses)
           /\ Applied(n, up, db).aspects = AspectLabels(n, up, db.aspects)
           /\ Applied(n, up, db).projects = db.projects
           /\ Applied(n, up, db).requests = RequestRows(n, up, db.requests)
<1>1. Applied(n, up, db) =
        [db EXCEPT !.schema = Migrated(ChangeOf(n, up), db.schema),
                   !.statuses = StatusLabels(n, up, db.statuses),
                   !.aspects = AspectLabels(n, up, db.aspects),
                   !.requests = RequestRows(n, up, db.requests)]
  BY DEF Applied, ChangeOf
<1>2. DOMAIN db = {"version", "schema", "statuses", "aspects", "projects", "requests"}
  BY DEF DatabaseRecords
<1> QED  BY <1>1, <1>2

LEMMA AppliedIsRecord ==
    ASSUME NEW n \in 1 .. Newest, NEW up \in BOOLEAN, NEW db \in DatabaseRecords
    PROVE  Applied(n, up, db) \in DatabaseRecords
<1>1. /\ db.version \in 0 .. Newest /\ db.projects \in BOOLEAN /\ db.schema \subseteq AnySchema
      /\ db.statuses \in {{}, RequestStatusesAtReset, RequestStatusesAtHead}
      /\ db.aspects \subseteq ProofAspectTypes
      /\ db.requests \subseteq RequestStatusesAtReset \cup RequestStatusesAtHead
  BY DEF DatabaseRecords
<1>2. Migrated(ChangeOf(n, up), db.schema) \subseteq AnySchema
  BY <1>1, AddsAreObjects DEF Migrated
<1>3. StatusLabels(n, up, db.statuses) \in {{}, RequestStatusesAtReset, RequestStatusesAtHead}
  <2>1. CASE n = Reset /\ up
    BY <2>1 DEF StatusLabels
  <2>2. CASE ~(n = Reset /\ up) /\ n = NeedsDecision
    BY <2>2 DEF StatusLabels
  <2>3. CASE ~(n = Reset /\ up) /\ n # NeedsDecision
    BY <2>3, <1>1 DEF StatusLabels
  <2> QED  BY <2>1, <2>2, <2>3
<1>4. AspectLabels(n, up, db.aspects) \subseteq ProofAspectTypes
  BY <1>1 DEF AspectLabels, ProofAspectTypes
<1>5. RequestRows(n, up, db.requests) \subseteq RequestStatusesAtReset \cup RequestStatusesAtHead
  <2>1. \A s \in db.requests : StatusUp(s) \in RequestStatusesAtReset \cup RequestStatusesAtHead
    BY <1>1 DEF StatusUp, RequestStatusesAtReset, RequestStatusesAtHead
  <2>2. \A s \in db.requests : StatusDown(s) \in RequestStatusesAtReset \cup RequestStatusesAtHead
    BY <1>1 DEF StatusDown, RequestStatusesAtReset, RequestStatusesAtHead
  <2> QED  BY <1>1, <2>1, <2>2 DEF RequestRows
<1>6. Applied(n, up, db) =
        [db EXCEPT !.schema = Migrated(ChangeOf(n, up), db.schema),
                   !.statuses = StatusLabels(n, up, db.statuses),
                   !.aspects = AspectLabels(n, up, db.aspects),
                   !.requests = RequestRows(n, up, db.requests)]
  BY DEF Applied, ChangeOf
<1> QED  BY <1>1, <1>2, <1>3, <1>4, <1>5, <1>6 DEF DatabaseRecords

LEMMA BlockRange ==
    /\ Range(<<>>) = {}
    /\ \A a : Range(<<a>>) = {a}
    /\ \A a, b : Range(<<a, b>>) = {a, b}
    /\ Range(BlockLabels(58)) = {"code_build"}
    /\ Range(BlockLabels(60)) = {"declared_command", "llm_judge"}
    /\ \A n : n # 58 /\ n # 60 => Range(BlockLabels(n)) = {}
<1>1. Range(<<>>) = {}
  BY DEF Range
<1>2. \A a : Range(<<a>>) = {a}
  BY DEF Range
<1>3. ASSUME NEW a, NEW b  PROVE Range(<<a, b>>) = {a, b}
  <2>1. DOMAIN <<a, b>> = {1, 2} /\ <<a, b>>[1] = a /\ <<a, b>>[2] = b
    OBVIOUS
  <2> QED  BY <2>1 DEF Range
<1>4. ASSUME NEW n
      PROVE  BlockLabels(n) = IF n = 58 THEN <<"code_build">>
                              ELSE IF n = 60 THEN <<"declared_command", "llm_judge">>
                              ELSE <<>>
  BY Places DEF BlockLabels
<1> QED  BY <1>1, <1>2, <1>3, <1>4

\* A schema that upgrades alone have made: what FreshUpgrade returns.
FreshStep(n, before) ==
    LET db == Applied(n, TRUE, before)
    IN  [db EXCEPT !.version = n, !.aspects = @ \cup Range(BlockLabels(n))]

LEMMA FreshStepIsRecord ==
    ASSUME NEW n \in 1 .. Newest, NEW before \in DatabaseRecords
    PROVE  /\ FreshStep(n, before) \in DatabaseRecords
           /\ FreshStep(n, before).schema = Migrated(Chain[n].up, before.schema)
<1> DEFINE db == Applied(n, TRUE, before)
<1>1. db \in DatabaseRecords
  BY AppliedIsRecord
<1>2. db.schema = Migrated(Chain[n].up, before.schema)
  <2>1. TRUE \in BOOLEAN
    OBVIOUS
  <2>2. db.schema = Migrated(ChangeOf(n, TRUE), before.schema)
    BY <2>1, AppliedFields, Zenon
  <2> HIDE DEF db
  <2> QED  BY <2>2 DEF ChangeOf
<1>3. Range(BlockLabels(n)) \subseteq ProofAspectTypes
  <2>1. CASE n = 58
    BY <2>1, BlockRange DEF ProofAspectTypes
  <2>2. CASE n = 60
    BY <2>2, BlockRange DEF ProofAspectTypes
  <2>3. CASE n # 58 /\ n # 60
    <3>1. Range(BlockLabels(n)) = {}
      BY <2>3, BlockRange, Zenon
    <3> QED  BY <3>1
  <2> QED  BY <2>1, <2>2, <2>3
<1>4. n \in 0 .. Newest
  BY Chained
<1> HIDE DEF db
<1>5. [db EXCEPT !.version = n, !.aspects = @ \cup Range(BlockLabels(n))] \in DatabaseRecords
  BY <1>1, <1>3, <1>4 DEF DatabaseRecords
<1>6. [db EXCEPT !.version = n, !.aspects = @ \cup Range(BlockLabels(n))].schema = db.schema
  BY <1>1 DEF DatabaseRecords
<1> QED  BY <1>2, <1>5, <1>6 DEF FreshStep, db

LEMMA FreshComputed ==
    FreshUpgrade = [n \in 0 .. Newest |-> IF n = 0 THEN EmptyDatabase ELSE FreshStep(n, FreshUpgrade[n - 1])]
<1> DEFINE T == DatabaseRecords
           N == Newest
           step == [p \in T \X (1 .. N) |-> FreshStep(p[2], p[1])]
           Is(f) == f = [n \in 0 .. N |-> IF n = 0 THEN EmptyDatabase ELSE FreshStep(n, f[n - 1])]
<1>1. N \in Nat /\ EmptyDatabase \in T
  BY Chained, EmptyIsRecord
<1>2. step \in [T \X (1 .. N) -> T]
  <2>1. \A p \in T \X (1 .. N) : p[1] \in T /\ p[2] \in 1 .. N
    OBVIOUS
  <2> HIDE DEF T
  <2>2. \A p \in T \X (1 .. N) : FreshStep(p[2], p[1]) \in T
    BY <2>1, FreshStepIsRecord DEF T
  <2> QED  BY <2>2, Zenon
<1>3. PICK f \in [0 .. N -> T] : Computed(f, N, EmptyDatabase, step)
  <2> HIDE DEF T, N, step
  <2> QED  BY <1>1, <1>2, Recursion
<1>4. Is(f)
  <2>1. f[0] = EmptyDatabase /\ \A n \in 1 .. N : f[n] = step[<<f[n - 1], n>>]
    BY <1>3 DEF Computed
  <2>2. ASSUME NEW n \in 1 .. N  PROVE step[<<f[n - 1], n>>] = FreshStep(n, f[n - 1])
    <3>1. n - 1 \in 0 .. N
      BY <1>1
    <3> HIDE DEF T, N
    <3>2. f[n - 1] \in T /\ <<f[n - 1], n>> \in T \X (1 .. N)
      BY <3>1
    <3>3. step[<<f[n - 1], n>>] = FreshStep(<<f[n - 1], n>>[2], <<f[n - 1], n>>[1])
      BY <3>2, Zenon
    <3> HIDE DEF step
    <3> QED  BY <3>3
  <2>3. \A n \in 0 .. N : f[n] = IF n = 0 THEN EmptyDatabase ELSE FreshStep(n, f[n - 1])
    <3> HIDE DEF T, step
    <3>1. \A n \in 0 .. N : n = 0 \/ n \in 1 .. N
      BY <1>1
    <3> QED  BY <2>1, <2>2, <3>1
  <2> HIDE DEF T, N, step
  <2> QED  BY <2>3
<1>5. Is(CHOOSE g : Is(g))
  <2> HIDE DEF Is
  <2> QED  BY <1>4
<1>6. FreshUpgrade = CHOOSE g : Is(g)
  BY DEF FreshUpgrade, FreshStep
<1> QED  BY <1>5, <1>6

LEMMA FreshIsSound ==
    ASSUME NEW n \in 0 .. Newest
    PROVE  Sound(Fresh[n].schema, n)
<1> DEFINE S == {k \in 0 .. n : FreshUpgrade[k] \in DatabaseRecords /\ Sound(FreshUpgrade[k].schema, k)}
<1>1. n \in Nat /\ n <= Newest /\ Newest \in Nat
  BY Chained
<1>2. 0 \in S
  <2>1. FreshUpgrade[0] = EmptyDatabase
    BY <1>1, FreshComputed
  <2>2. Sound({}, 0)
    BY DEF Sound, Must, Present, At
  <2> QED  BY <1>1, <2>1, <2>2, EmptyIsRecord DEF EmptyDatabase
<1>3. ASSUME NEW k \in 1 .. n, k - 1 \in S  PROVE k \in S
  <2>1. FreshUpgrade[k] = FreshStep(k, FreshUpgrade[k - 1])
    BY <1>1, FreshComputed
  <2>2. k \in 1 .. Newest /\ FreshUpgrade[k - 1] \in DatabaseRecords /\ Sound(FreshUpgrade[k - 1].schema, k - 1)
    BY <1>1, <1>3
  <2>3. Sound(Migrated(Chain[k].up, FreshUpgrade[k - 1].schema), k)
    BY <2>2, UpgradeSound
  <2> QED  BY <1>1, <2>1, <2>2, <2>3, FreshStepIsRecord
<1>4. n \in S
  <2> HIDE DEF S
  <2> QED  BY <1>1, <1>2, <1>3, Climb
<1> QED  BY <1>4 DEF Fresh

----------------------------------------------------------------------------
(* The invariant of a run.                                                 *)

LabelsBy(n) ==
    (IF n >= 57 THEN {"code_test", "code_lint", "code_install_smoke"} ELSE {})
    \cup (IF n >= 58 THEN {"code_build"} ELSE {})
    \cup (IF n >= 60 THEN {"declared_command", "llm_judge"} ELSE {})

\* What a database is at revision n, but for the labels a block has yet to add.
Serving(db, n, pending) ==
    /\ Sound(db.schema, n) \/ (n = 36 /\ Lost(db.schema))
    /\ db.statuses \in (IF n = 62 THEN {RequestStatusesAtHead} ELSE {{}, RequestStatusesAtReset})
    /\ n < 57 => db.aspects = {}
    /\ LabelsBy(n) \subseteq db.aspects \cup pending

LEMMA LostIsNotSound == ASSUME NEW schema, Sound(schema, 36)  PROVE ~Lost(schema)
<1>1. Must("tasks", "*", 36)
  BY DEF Must, Present, At
<1> QED  BY <1>1 DEF Sound, Lost

LEMMA LabelsMovedUp ==
    ASSUME NEW n, NEW up \in BOOLEAN, up, NEW labels
    PROVE  /\ n = 52 => StatusLabels(n, up, labels) = RequestStatusesAtReset
           /\ n = 62 => StatusLabels(n, up, labels) = RequestStatusesAtHead
           /\ n \notin {52, 62} => StatusLabels(n, up, labels) = labels
           /\ n = 57 /\ labels = {} =>
                 AspectLabels(n, up, labels) = {"code_test", "code_lint", "code_install_smoke"}
           /\ n # 57 => AspectLabels(n, up, labels) = labels
<1>1. Reset = 52 /\ NeedsDecision = 62 /\ Aspects = 57 /\ 52 # 62
  BY Places
<1>2. n = 52 => StatusLabels(n, up, labels) = RequestStatusesAtReset
  BY <1>1, Zenon DEF StatusLabels
<1>3. n = 62 => StatusLabels(n, up, labels) = RequestStatusesAtHead
  BY <1>1, Zenon DEF StatusLabels
<1>4. n \notin {52, 62} => StatusLabels(n, up, labels) = labels
  BY <1>1, Zenon DEF StatusLabels
<1>5. n = 57 /\ labels = {} =>
        AspectLabels(n, up, labels) = {"code_test", "code_lint", "code_install_smoke"}
  BY <1>1, Zenon DEF AspectLabels
<1>6. n # 57 => AspectLabels(n, up, labels) = labels
  BY <1>1, Zenon DEF AspectLabels
<1> QED  BY <1>2, <1>3, <1>4, <1>5, <1>6, Zenon

LEMMA LabelsMovedDown ==
    ASSUME NEW n, NEW up \in BOOLEAN, ~up, NEW labels
    PROVE  /\ n = 62 => StatusLabels(n, up, labels) = RequestStatusesAtReset
           /\ n # 62 => StatusLabels(n, up, labels) = labels
           /\ n = 57 => AspectLabels(n, up, labels) = {}
           /\ n # 57 => AspectLabels(n, up, labels) = labels
<1>1. NeedsDecision = 62 /\ Aspects = 57
  BY Places
<1>2. n = 62 => StatusLabels(n, up, labels) = RequestStatusesAtReset
  BY <1>1, Zenon DEF StatusLabels
<1>3. n # 62 => StatusLabels(n, up, labels) = labels
  BY <1>1, Zenon DEF StatusLabels
<1>4. n = 57 => AspectLabels(n, up, labels) = {}
  BY <1>1, Zenon DEF AspectLabels
<1>5. n # 57 => AspectLabels(n, up, labels) = labels
  BY <1>1, Zenon DEF AspectLabels
<1> QED  BY <1>2, <1>3, <1>4, <1>5, Zenon

LEMMA UpServes ==
    ASSUME NEW n \in 1 .. Newest, NEW db \in DatabaseRecords, Serving(db, n - 1, {}),
           NEW up \in BOOLEAN, up, Runs(n, up, db)
    PROVE  /\ Serving(Applied(n, up, db), n, Range(BlockLabels(n)))
           /\ Sound(Applied(n, up, db).schema, n)
           /\ Applied(n, up, db).requests \subseteq Applied(n, up, db).statuses
<1> DEFINE after == Applied(n, up, db)
<1>1. /\ after.schema = Migrated(Chain[n].up, db.schema)
      /\ after.statuses = StatusLabels(n, up, db.statuses)
      /\ after.aspects = AspectLabels(n, up, db.aspects)
      /\ after.requests = RequestRows(n, up, db.requests)
  BY AppliedFields DEF ChangeOf
<1>2. Fits(Chain[n].up, db.schema) /\ RowsFit(n, up, db)
  BY DEF Runs
<1>3. Newest = 62 /\ n \in Int
  BY Chained
<1> USE <1>3
<1>4. Sound(after.schema, n)
  <2>1. Sound(db.schema, n - 1)
    <3>1. CASE n = 37 /\ Lost(db.schema)
      BY <1>2, <3>1, LostIsStuck
    <3>2. n - 1 = 36 <=> n = 37
      OBVIOUS
    <3> QED  BY <3>1, <3>2 DEF Serving
  <2> QED  BY <1>1, <2>1, UpgradeSound
<1>5. after.requests \subseteq after.statuses
  BY <1>1, <1>2 DEF RowsFit
<1>6. after.statuses \in (IF n = 62 THEN {RequestStatusesAtHead} ELSE {{}, RequestStatusesAtReset})
  <2>1. db.statuses \in {{}, RequestStatusesAtReset}
    BY DEF Serving
  <2>2. n = 62 => after.statuses = RequestStatusesAtHead
    <3>1. n = 62 => StatusLabels(n, up, db.statuses) = RequestStatusesAtHead
      BY LabelsMovedUp, ZenonT(40)
    <3> QED  BY <1>1, <3>1, Zenon
  <2>3. n = 52 => after.statuses = RequestStatusesAtReset
    <3>1. n = 52 => StatusLabels(n, up, db.statuses) = RequestStatusesAtReset
      BY LabelsMovedUp, ZenonT(40)
    <3> QED  BY <1>1, <3>1, Zenon
  <2>4. n \notin {52, 62} => after.statuses = db.statuses
    <3>1. n \notin {52, 62} => StatusLabels(n, up, db.statuses) = db.statuses
      BY LabelsMovedUp, ZenonT(40)
    <3> QED  BY <1>1, <3>1, Zenon
  <2> HIDE DEF after
  <2> QED  BY <2>1, <2>2, <2>3, <2>4
<1>7. /\ n < 57 => after.aspects = {}
      /\ LabelsBy(n) \subseteq after.aspects \cup Range(BlockLabels(n))
  <2>1. /\ n - 1 < 57 => db.aspects = {}
        /\ LabelsBy(n - 1) \subseteq db.aspects
    BY DEF Serving
  <2>2. CASE n = 57
    <3>1. after.aspects = {"code_test", "code_lint", "code_install_smoke"}
      <4>1. db.aspects = {}
        BY <2>1, <2>2
      <4> QED  BY <1>1, <2>2, <4>1, LabelsMovedUp, ZenonT(40)
    <3>2. ~(n < 57) /\ LabelsBy(57) = {"code_test", "code_lint", "code_install_smoke"}
      BY <2>2 DEF LabelsBy
    <3> HIDE DEF after
    <3> QED  BY <2>2, <3>1, <3>2
  <2>3. CASE n # 57
    <3>1. after.aspects = db.aspects
      BY <1>1, <2>3, LabelsMovedUp, ZenonT(40)
    <3>2. CASE n = 58
      <4>1. Range(BlockLabels(n)) = {"code_build"}
        BY <3>2, BlockRange
      <4>2. LabelsBy(58) = LabelsBy(57) \cup {"code_build"}
        BY DEF LabelsBy
      <4> HIDE DEF after
      <4> QED  BY <2>1, <3>1, <3>2, <4>1, <4>2
    <3>3. CASE n = 60
      <4>1. Range(BlockLabels(n)) = {"declared_command", "llm_judge"}
        BY <3>3, BlockRange
      <4>2. LabelsBy(60) = LabelsBy(59) \cup {"declared_command", "llm_judge"}
        BY DEF LabelsBy
      <4> HIDE DEF after
      <4> QED  BY <2>1, <3>1, <3>3, <4>1, <4>2
    <3>4. CASE n # 58 /\ n # 60
      <4>1. LabelsBy(n) = LabelsBy(n - 1)
        BY <2>3, <3>4 DEF LabelsBy
      <4> HIDE DEF after
      <4> QED  BY <2>1, <2>3, <3>1, <4>1
    <3> QED  BY <3>2, <3>3, <3>4
  <2> QED  BY <2>2, <2>3
<1> HIDE DEF after
<1> QED  BY <1>4, <1>5, <1>6, <1>7 DEF Serving, after

LEMMA DownServes ==
    ASSUME NEW n \in 1 .. Newest, NEW db \in DatabaseRecords, Serving(db, n, {}),
           NEW up \in BOOLEAN, ~up, Runs(n, up, db)
    PROVE  /\ Serving(Applied(n, up, db), n - 1, {})
           /\ n # 37 => Sound(Applied(n, up, db).schema, n - 1)
           /\ Applied(n, up, db).requests \subseteq Applied(n, up, db).statuses
<1> DEFINE after == Applied(n, up, db)
<1>1. /\ after.schema = Migrated(Chain[n].down, db.schema)
      /\ after.statuses = StatusLabels(n, up, db.statuses)
      /\ after.aspects = AspectLabels(n, up, db.aspects)
      /\ after.requests = RequestRows(n, up, db.requests)
  BY AppliedFields DEF ChangeOf
<1>2. Fits(Chain[n].down, db.schema) /\ RowsFit(n, up, db)
  BY DEF Runs
<1>3. Newest = 62 /\ n \in Int
  BY Chained
<1> USE <1>3
<1>4. /\ n # 37 => Sound(after.schema, n - 1)
      /\ n = 37 => Lost(after.schema)
  <2>1. Sound(db.schema, n)
    <3>1. CASE n = 36 /\ Lost(db.schema)
      BY <1>2, <3>1, LostIsStuck
    <3> QED  BY <3>1 DEF Serving
  <2>2. Chain[n].down.runs
    BY <1>2 DEF Fits
  <2> QED  BY <1>1, <2>1, <2>2, DowngradeSound, OneWayLoses
<1>5. after.requests \subseteq after.statuses
  BY <1>1, <1>2 DEF RowsFit
<1>6. after.statuses \in (IF n - 1 = 62 THEN {RequestStatusesAtHead} ELSE {{}, RequestStatusesAtReset})
  <2>1. n # 62 => db.statuses \in {{}, RequestStatusesAtReset}
    BY DEF Serving
  <2>2. n - 1 # 62
    OBVIOUS
  <2>3. n = 62 => after.statuses = RequestStatusesAtReset
    <3>1. n = 62 => StatusLabels(n, up, db.statuses) = RequestStatusesAtReset
      BY LabelsMovedDown
    <3> QED  BY <1>1, <3>1, Zenon
  <2>4. n # 62 => after.statuses = db.statuses
    <3>1. n # 62 => StatusLabels(n, up, db.statuses) = db.statuses
      BY LabelsMovedDown, ZenonT(40)
    <3> QED  BY <1>1, <3>1, Zenon
  <2> HIDE DEF after
  <2> QED  BY <2>1, <2>2, <2>3, <2>4
<1>7. /\ n - 1 < 57 => after.aspects = {}
      /\ LabelsBy(n - 1) \subseteq after.aspects
  <2>1. /\ n < 57 => db.aspects = {}
        /\ LabelsBy(n) \subseteq db.aspects
    BY DEF Serving
  <2>2. LabelsBy(n - 1) \subseteq LabelsBy(n)
    BY DEF LabelsBy
  <2>3. CASE n = 57
    <3>1. after.aspects = {}
      BY <1>1, <2>3, LabelsMovedDown, ZenonT(40)
    <3> QED  BY <2>3, <3>1 DEF LabelsBy
  <2>4. CASE n # 57
    <3>1. after.aspects = db.aspects
      <4>1. n # 57 => AspectLabels(n, up, db.aspects) = db.aspects
        BY LabelsMovedDown
      <4> QED  BY <1>1, <2>4, <4>1, Zenon
    <3> QED  BY <2>1, <2>2, <2>4, <3>1
  <2> QED  BY <2>3, <2>4
<1> HIDE DEF after
<1>8. Sound(after.schema, n - 1) \/ (n - 1 = 36 /\ Lost(after.schema))
  BY <1>4
<1> QED  BY <1>4, <1>5, <1>6, <1>7, <1>8 DEF Serving, after

LEMMA BlockServes ==
    ASSUME NEW n \in {58, 60}, NEW db, Serving(db, n, Range(BlockLabels(n)))
    PROVE  Serving(db, n - 1, {})
<1>1. Sound(db.schema, n - 1)
  <2>1. Sound(db.schema, n)
    BY DEF Serving
  <2> QED  BY <2>1, BlockCommits
<1>2. db.statuses \in {{}, RequestStatusesAtReset}
  BY DEF Serving
<1>3. LabelsBy(n - 1) \subseteq db.aspects
  <2>1. LabelsBy(n) \subseteq db.aspects \cup Range(BlockLabels(n))
    BY DEF Serving
  <2>2. CASE n = 58
    <3>1. Range(BlockLabels(n)) = {"code_build"}
      BY <2>2, BlockRange
    <3>2. /\ LabelsBy(57) = {"code_test", "code_lint", "code_install_smoke"}
          /\ LabelsBy(57) \subseteq LabelsBy(58)
      BY DEF LabelsBy
    <3> QED  BY <2>1, <2>2, <3>1, <3>2
  <2>3. CASE n = 60
    <3>1. Range(BlockLabels(n)) = {"declared_command", "llm_judge"}
      BY <2>3, BlockRange
    <3>2. /\ LabelsBy(59) = {"code_test", "code_lint", "code_install_smoke", "code_build"}
          /\ LabelsBy(59) \subseteq LabelsBy(60)
      BY DEF LabelsBy
    <3> QED  BY <2>1, <2>3, <3>1, <3>2
  <2> QED  BY <2>2, <2>3
<1>4. n - 1 # 62 /\ ~(n - 1 < 57)
  OBVIOUS
<1> QED  BY <1>1, <1>2, <1>3, <1>4 DEF Serving

----------------------------------------------------------------------------
(* The inductive invariant, of the database and of the run.                *)

Stages == {"idle", "revision", "block", "stamp", "failed", "refused"}
Blocks == {<<>>, <<"code_build">>, <<"declared_command", "llm_judge">>, <<"llm_judge">>}

RunRecords ==
    [stage : Stages, up : BOOLEAN, target : 0 .. Newest, db : DatabaseRecords, block : Blocks]

\* The revision whose statements the run's transaction has seen, stamped or not,
\* and the one it works on.
Reached(r) ==
    IF r.stage \in {"block", "stamp"} THEN (IF r.up THEN r.db.version + 1 ELSE r.db.version - 1)
    ELSE r.db.version
Pursued(r) == IF r.up THEN r.db.version + 1 ELSE r.db.version

WellFormed(d, r) ==
    /\ d \in DatabaseRecords
    /\ d.requests \subseteq d.statuses
    /\ r \in RunRecords
    /\ r.db.requests \subseteq r.db.statuses

\* A run goes from the database's revision to its target, and only a block that
\* labels are still to be added in is pending.
OnCourse(d, r) ==
    /\ r.stage = "idle" => r = NoRun
    /\ r.stage # "idle" =>
          /\ r.db.projects = d.projects
          /\ r.up => d.version <= r.db.version /\ r.db.version <= r.target
          /\ ~r.up => r.target <= r.db.version /\ r.db.version <= r.target + 1
    /\ r.stage \in {"block", "stamp"} => r.db.version # r.target
    /\ r.stage = "block" =>
          /\ r.up
          /\ \/ r.db.version = 57 /\ r.block = <<"code_build">>
             \/ r.db.version = 59 /\ r.block \in {<<"declared_command", "llm_judge">>, <<"llm_judge">>}
    /\ r.stage # "block" => r.block = <<>>

BothServing(d, r) ==
    /\ Serving(d, d.version, {})
    /\ Serving(r.db, Reached(r), Range(r.block))

\* The two places where a run can get stuck are in the database it began with,
\* or are where it stops by itself.
LossKnown(d, r) ==
    r.stage # "idle" /\ Reached(r) = 36 /\ Lost(r.db.schema) =>
        (~r.up /\ r.target = 36) \/ (d.version = 36 /\ Lost(d.schema))
TearKnown(d, r) ==
    r.stage # "idle" /\ r.up /\ Reached(r) < 60 /\ TornPair \in r.db.schema => TornPair \in d.schema

\* A run has failed at a revision that cannot be run.
FailureKept(r) ==
    r.stage = "failed" =>
        /\ r.db.version # r.target
        /\ ~Runs(Pursued(r), r.up, r.db)
        /\ r.up \/ Chain[Pursued(r)].down.runs

Consistent(d, r) ==
    /\ WellFormed(d, r)
    /\ OnCourse(d, r)
    /\ BothServing(d, r)
    /\ LossKnown(d, r)
    /\ TearKnown(d, r)
    /\ FailureKept(r)

MigrationInv ==
    /\ Consistent(database, run)
    /\ reverts \in 0 .. MaxReverts
    /\ deaths \in 0 .. MaxDeaths

LEMMA NoRunServes == NoRun \in RunRecords /\ Serving(EmptyDatabase, 0, {})
<1>1. Serving(EmptyDatabase, 0, {})
  <2>1. Sound({}, 0)
    BY DEF Sound, Must, Present, At
  <2>2. LabelsBy(0) = {}
    BY DEF LabelsBy
  <2> QED  BY <2>1, <2>2 DEF Serving, EmptyDatabase
<1>2. NoRun \in RunRecords
  <2>1. TRUE \in BOOLEAN /\ 0 \in 0 .. Newest
    BY Chained
  <2>2. <<>> \in Blocks
    BY Zenon DEF Blocks
  <2> QED  BY <2>1, <2>2, EmptyIsRecord DEF NoRun, RunRecords, Stages
<1> QED  BY <1>1, <1>2

\* Without a run the database alone matters.
LEMMA RunGone ==
    ASSUME NEW d \in DatabaseRecords, d.requests \subseteq d.statuses, Serving(d, d.version, {})
    PROVE  Consistent(d, NoRun)
<1>1. /\ NoRun.stage = "idle" /\ NoRun.db = EmptyDatabase /\ NoRun.block = <<>>
      /\ EmptyDatabase.version = 0 /\ EmptyDatabase.requests = {}
  BY DEF NoRun, EmptyDatabase
<1>2. Reached(NoRun) = 0
  BY <1>1 DEF Reached
<1>3. Range(<<>>) = {}
  BY BlockRange
<1>4. WellFormed(d, NoRun)
  BY <1>1, NoRunServes DEF WellFormed
<1>5. OnCourse(d, NoRun)
  BY <1>1 DEF OnCourse
<1>6. BothServing(d, NoRun)
  BY <1>1, <1>2, <1>3, NoRunServes DEF BothServing
<1> QED  BY <1>1, <1>4, <1>5, <1>6 DEF Consistent, LossKnown, TearKnown, FailureKept

\* A run begins with what is committed.
LEMMA RunBegins ==
    ASSUME NEW d \in DatabaseRecords, d.requests \subseteq d.statuses, Serving(d, d.version, {}),
           NEW up \in BOOLEAN, NEW target \in 0 .. Newest,
           up => d.version <= target, ~up => target <= d.version /\ d.version <= target + 1
    PROVE  Consistent(d, [stage |-> "revision", up |-> up, target |-> target, db |-> d, block |-> <<>>])
<1> DEFINE r == [stage |-> "revision", up |-> up, target |-> target, db |-> d, block |-> <<>>]
<1>1. r.stage = "revision" /\ r.up = up /\ r.target = target /\ r.db = d /\ r.block = <<>>
  OBVIOUS
<1>2. r \in RunRecords
  <2>1. <<>> \in Blocks
    BY Zenon DEF Blocks
  <2> QED  BY <2>1 DEF RunRecords, Stages
<1>3. d.version \in Int
  BY Chained DEF DatabaseRecords
<1> HIDE DEF r
<1>4. Reached(r) = d.version
  BY <1>1 DEF Reached
<1>5. Range(<<>>) = {}
  BY BlockRange
<1>6. WellFormed(d, r)
  BY <1>1, <1>2 DEF WellFormed
<1>7. OnCourse(d, r)
  BY <1>1, <1>3 DEF OnCourse
<1>8. BothServing(d, r)
  BY <1>1, <1>4, <1>5 DEF BothServing
<1>9. LossKnown(d, r) /\ TearKnown(d, r) /\ FailureKept(r)
  BY <1>1, <1>4 DEF LossKnown, TearKnown, FailureKept
<1> QED  BY <1>6, <1>7, <1>8, <1>9 DEF Consistent, r

LEMMA Blocked ==
    /\ BlockLabels(58) = <<"code_build">>
    /\ BlockLabels(60) = <<"declared_command", "llm_judge">>
    /\ \A n : n # 58 /\ n # 60 => BlockLabels(n) = <<>>
    /\ \A n : BlockLabels(n) \in Blocks
<1>1. CodeBuild = 58 /\ Contracts = 60 /\ 58 # 60
  BY Places
<1>2. BlockLabels(58) = <<"code_build">>
  BY <1>1, Zenon DEF BlockLabels
<1>3. BlockLabels(60) = <<"declared_command", "llm_judge">>
  BY <1>1, Zenon DEF BlockLabels
<1>4. \A n : n # 58 /\ n # 60 => BlockLabels(n) = <<>>
  BY <1>1, Zenon DEF BlockLabels
<1>5. ASSUME NEW n  PROVE BlockLabels(n) \in Blocks
  <2>1. CASE n = 58
    BY <1>2, <2>1, Zenon DEF Blocks
  <2>2. CASE n = 60
    BY <1>3, <2>2, Zenon DEF Blocks
  <2>3. CASE n # 58 /\ n # 60
    <3>1. BlockLabels(n) = <<>>
      BY <1>4, <2>3, Zenon
    <3> QED  BY <3>1, Zenon DEF Blocks
  <2> QED  BY <2>1, <2>2, <2>3, Zenon
<1> QED  BY <1>2, <1>3, <1>4, <1>5, Zenon

\* What is known of a run that is about to run a revision.
LEMMA Pursuing ==
    ASSUME NEW d, NEW r, Consistent(d, r), r.stage = "revision", r.db.version # r.target
    PROVE  /\ r \in RunRecords /\ r.up \in BOOLEAN /\ r.db \in DatabaseRecords
           /\ r.db.version \in Int /\ r.target \in 0 .. 62 /\ d.version \in Int
           /\ r.block = <<>>
           /\ Pursued(r) \in 1 .. Newest
           /\ r.up => Serving(r.db, Pursued(r) - 1, {})
           /\ ~r.up => Serving(r.db, Pursued(r), {})
<1>1. /\ r \in RunRecords /\ r.up \in BOOLEAN /\ r.db \in DatabaseRecords
      /\ d \in DatabaseRecords /\ r.target \in 0 .. Newest
  BY DEF Consistent, WellFormed, RunRecords
<1>2. r.block = <<>>
  BY DEF Consistent, OnCourse
<1>3. Newest = 62 /\ r.db.version \in 0 .. 62 /\ d.version \in 0 .. 62
  BY <1>1, NewestIs DEF DatabaseRecords
<1>4. Pursued(r) \in 1 .. Newest
  <2>1. CASE r.up
    <3>1. r.db.version <= r.target
      BY <2>1 DEF Consistent, OnCourse
    <3> QED  BY <1>1, <1>3, <2>1, <3>1 DEF Pursued
  <2>2. CASE ~r.up
    <3>1. r.target <= r.db.version
      BY <2>2 DEF Consistent, OnCourse
    <3> QED  BY <1>1, <1>3, <2>2, <3>1 DEF Pursued
  <2> QED  BY <2>1, <2>2
<1>5. Serving(r.db, r.db.version, {})
  <2>1. Reached(r) = r.db.version
    BY DEF Reached
  <2>2. Range(r.block) = {}
    BY <1>2, BlockRange
  <2> QED  BY <2>1, <2>2 DEF Consistent, BothServing
<1>6. (r.up => Pursued(r) - 1 = r.db.version) /\ (~r.up => Pursued(r) = r.db.version)
  BY <1>3 DEF Pursued
<1>7. r.up => Serving(r.db, Pursued(r) - 1, {})
  BY <1>5, <1>6
<1>8. ~r.up => Serving(r.db, Pursued(r), {})
  BY <1>5, <1>6
<1>9. r.db.version \in Int /\ r.target \in 0 .. 62 /\ d.version \in Int
  BY <1>1, <1>3
<1> QED  BY <1>1, <1>2, <1>4, <1>7, <1>8, <1>9

LEMMA RevisionRuns ==
    ASSUME NEW d, NEW r, Consistent(d, r), r.stage = "revision", r.db.version # r.target,
           NEW n, n = Pursued(r), Runs(n, r.up, r.db), NEW block,
           block = IF r.up THEN BlockLabels(n) ELSE <<>>
    PROVE  Consistent(d, [r EXCEPT !.db = Applied(n, r.up, r.db),
                                   !.stage = IF block = <<>> THEN "stamp" ELSE "block",
                                   !.block = block])
<1> DEFINE after == Applied(n, r.up, r.db)
           s == [r EXCEPT !.db = after, !.stage = IF block = <<>> THEN "stamp" ELSE "block", !.block = block]
<1>1. /\ r \in RunRecords /\ r.up \in BOOLEAN /\ r.db \in DatabaseRecords
      /\ r.db.version \in Int /\ r.target \in 0 .. 62 /\ d.version \in Int
      /\ r.block = <<>>
      /\ n \in 1 .. Newest
      /\ r.up => Serving(r.db, n - 1, {})
      /\ ~r.up => Serving(r.db, n, {})
  BY Pursuing
<1>2. /\ after \in DatabaseRecords
      /\ after.version = r.db.version
      /\ after.projects = r.db.projects
      /\ after.schema = Migrated(ChangeOf(n, r.up), r.db.schema)
  BY <1>1, AppliedIsRecord, AppliedFields
<1>3. block \in Blocks
  <2>1. <<>> \in Blocks
    BY Zenon DEF Blocks
  <2> QED  BY <2>1, Blocked
<1>4. n = (IF r.up THEN r.db.version + 1 ELSE r.db.version) /\ n \in Int
  BY <1>1, NewestIs DEF Pursued
<1>5. Runs(n, r.up, r.db)
  OBVIOUS
<1>6. block = IF r.up THEN BlockLabels(n) ELSE <<>>
  OBVIOUS
<1> HIDE DEF after
<1>7. /\ s \in RunRecords
      /\ s.db = after /\ s.up = r.up /\ s.target = r.target /\ s.block = block
      /\ s.stage = IF block = <<>> THEN "stamp" ELSE "block"
  BY <1>1, <1>2, <1>3 DEF RunRecords, Stages
<1> HIDE DEF s
<1>8. s.stage \in {"stamp", "block"} /\ Reached(s) = IF r.up THEN n ELSE n - 1
  BY <1>1, <1>2, <1>4, <1>7 DEF Reached
<1>9. Range(<<>>) = {}
  BY BlockRange
<1>10. /\ Serving(after, Reached(s), Range(block))
       /\ after.requests \subseteq after.statuses
  <2>1. CASE r.up
    <3>1. /\ Serving(after, n, Range(BlockLabels(n)))
          /\ after.requests \subseteq after.statuses
      BY <1>1, <1>5, <2>1, UpServes DEF after
    <3> QED  BY <1>6, <1>8, <2>1, <3>1
  <2>2. CASE ~r.up
    <3>1. /\ Serving(after, n - 1, {})
          /\ after.requests \subseteq after.statuses
      BY <1>1, <1>5, <2>2, DownServes DEF after
    <3> QED  BY <1>6, <1>8, <1>9, <2>2, <3>1
  <2> QED  BY <2>1, <2>2
<1>11. WellFormed(d, s)
  BY <1>7, <1>10 DEF Consistent, WellFormed
<1>12. OnCourse(d, s)
  <2>1. s.stage # "idle" /\ s.stage \in {"block", "stamp"} /\ s.db.version = r.db.version
    BY <1>2, <1>7, <1>8
  <2>2. s.db.projects = d.projects
    BY <1>2, <1>7 DEF Consistent, OnCourse
  <2>3. /\ r.up => d.version <= r.db.version /\ r.db.version <= r.target
        /\ ~r.up => r.target <= r.db.version /\ r.db.version <= r.target + 1
    BY DEF Consistent, OnCourse
  <2>4. s.stage # "block" => s.block = <<>>
    BY <1>7
  <2>5. s.stage = "block" =>
          /\ s.up
          /\ \/ s.db.version = 57 /\ s.block = <<"code_build">>
             \/ s.db.version = 59 /\ s.block \in {<<"declared_command", "llm_judge">>, <<"llm_judge">>}
    <3> SUFFICES ASSUME s.stage = "block"
                 PROVE  /\ s.up
                        /\ \/ s.db.version = 57 /\ s.block = <<"code_build">>
                           \/ s.db.version = 59
                              /\ s.block \in {<<"declared_command", "llm_judge">>, <<"llm_judge">>}
      OBVIOUS
    <3>1. block # <<>>
      BY <1>7
    <3>2. r.up /\ block = BlockLabels(n)
      BY <1>6, <3>1
    <3>3. n = 58 \/ n = 60
      BY <3>1, <3>2, Blocked, Zenon
    <3>4. CASE n = 58
      <4>1. block = <<"code_build">> /\ r.db.version = 57
        BY <1>1, <1>4, <3>2, <3>4, Blocked
      <4> QED  BY <1>7, <2>1, <3>2, <4>1
    <3>5. CASE n = 60
      <4>1. block = <<"declared_command", "llm_judge">> /\ r.db.version = 59
        BY <1>1, <1>4, <3>2, <3>5, Blocked
      <4>2. s.block \in {<<"declared_command", "llm_judge">>, <<"llm_judge">>}
        BY <1>7, <4>1, Zenon
      <4> QED  BY <1>7, <2>1, <3>2, <4>1, <4>2
    <3> QED  BY <3>3, <3>4, <3>5
  <2>6. s.db.version # s.target /\ s.up = r.up /\ s.target = r.target
    BY <1>7, <2>1
  <2> QED  BY <2>1, <2>2, <2>3, <2>4, <2>5, <2>6 DEF OnCourse
<1>13. BothServing(d, s)
  BY <1>7, <1>10 DEF Consistent, BothServing
<1>14. LossKnown(d, s)
  <2> SUFFICES ASSUME Reached(s) = 36, Lost(after.schema)
               PROVE  ~s.up /\ s.target = 36
    BY <1>7 DEF LossKnown
  <2>1. CASE r.up
    <3>1. Sound(after.schema, n)
      BY <1>1, <1>5, <2>1, UpServes DEF after
    <3> QED  BY <1>8, <2>1, <3>1, LostIsNotSound
  <2>2. CASE ~r.up
    <3>1. r.target <= r.db.version /\ r.db.version <= r.target + 1
      BY <2>2 DEF Consistent, OnCourse
    <3>2. r.db.version = 37
      BY <1>1, <1>4, <1>8, <2>2
    <3>3. r.target = 36
      <4>1. r.target \in 0 .. 62
        BY <1>1
      <4>2. r.target # 37 /\ r.target <= 37 /\ 37 <= r.target + 1
        BY <3>1, <3>2
      <4>3. \A k \in 0 .. 62 : k # 37 /\ k <= 37 /\ 37 <= k + 1 => k = 36
        OBVIOUS
      <4> QED  BY <4>1, <4>2, <4>3, Zenon
    <3> QED  BY <1>7, <2>2, <3>3
  <2> QED  BY <2>1, <2>2
<1>15. TearKnown(d, s)
  <2> SUFFICES ASSUME r.up, Reached(s) < 60, TornPair \in after.schema
               PROVE  TornPair \in d.schema
    BY <1>7 DEF TearKnown
  <2>1. n \in 1 .. 59
    <3>1. n \in 1 .. Newest
      BY <1>1
    <3>2. n < 60
      BY <1>8
    <3> QED  BY <3>1, <3>2, NewestIs
  <2>2. TornPair \notin ChangeOf(n, r.up).adds
    BY <2>1, TornByOne DEF ChangeOf
  <2>3. TornPair \in r.db.schema
    BY <1>2, <2>2 DEF Migrated
  <2>4. Reached(r) < 60
    <3>1. Reached(r) = r.db.version
      BY DEF Reached
    <3>2. n = r.db.version + 1 /\ r.db.version \in Int
      BY <1>1, <1>4
    <3> QED  BY <2>1, <3>1, <3>2
  <2> QED  BY <2>3, <2>4 DEF Consistent, TearKnown
<1>16. FailureKept(s)
  BY <1>8 DEF FailureKept
<1> QED  BY <1>11, <1>12, <1>13, <1>14, <1>15, <1>16 DEF Consistent, s, after

LEMMA RevisionFails ==
    ASSUME NEW d, NEW r, Consistent(d, r), r.stage = "revision", r.db.version # r.target,
           ~Runs(Pursued(r), r.up, r.db), NEW stage,
           stage = IF ~r.up /\ ~Chain[Pursued(r)].down.runs THEN "refused" ELSE "failed"
    PROVE  Consistent(d, [r EXCEPT !.stage = stage])
<1> DEFINE s == [r EXCEPT !.stage = stage]
<1>1. r \in RunRecords /\ r.up \in BOOLEAN
  BY DEF Consistent, WellFormed, RunRecords
<1>2. stage \in {"refused", "failed"}
  OBVIOUS
<1>3. stage = "failed" => r.up \/ Chain[Pursued(r)].down.runs
  BY Zenon
<1>4. /\ s \in RunRecords
      /\ s.db = r.db /\ s.up = r.up /\ s.target = r.target /\ s.block = r.block /\ s.stage = stage
  BY <1>1, <1>2 DEF RunRecords, Stages
<1> HIDE DEF s
<1>5. Reached(s) = Reached(r) /\ Pursued(s) = Pursued(r)
  BY <1>2, <1>4 DEF Reached, Pursued
<1>6. WellFormed(d, s)
  BY <1>4 DEF Consistent, WellFormed
<1>7. OnCourse(d, s)
  BY <1>2, <1>4 DEF Consistent, OnCourse
<1>8. BothServing(d, s)
  BY <1>4, <1>5 DEF Consistent, BothServing
<1>9. LossKnown(d, s)
  BY <1>2, <1>4, <1>5 DEF Consistent, LossKnown
<1>10. TearKnown(d, s)
  BY <1>2, <1>4, <1>5 DEF Consistent, TearKnown
<1>11. FailureKept(s)
  <2> SUFFICES ASSUME s.stage = "failed"
               PROVE  /\ s.db.version # s.target
                      /\ ~Runs(Pursued(s), s.up, s.db)
                      /\ s.up \/ Chain[Pursued(s)].down.runs
    BY DEF FailureKept
  <2>1. r.up \/ Chain[Pursued(r)].down.runs
    BY <1>3, <1>4
  <2> QED  BY <1>4, <1>5, <2>1, Zenon
<1> QED  BY <1>6, <1>7, <1>8, <1>9, <1>10, <1>11 DEF Consistent, s

\* What is known of a run inside an autocommit block.
LEMMA InBlock ==
    ASSUME NEW d, NEW r, Consistent(d, r), r.stage = "block"
    PROVE  /\ d \in DatabaseRecords /\ r \in RunRecords /\ r.db \in DatabaseRecords
           /\ r.up
           /\ r.db.requests \subseteq r.db.statuses
           /\ r.db.version \in {57, 59}
           /\ Reached(r) = r.db.version + 1
           /\ \/ r.db.version = 57 /\ r.block = <<"code_build">>
              \/ r.db.version = 59 /\ r.block = <<"declared_command", "llm_judge">>
              \/ r.db.version = 59 /\ r.block = <<"llm_judge">>
           /\ r.db.version <= r.target /\ r.db.version # r.target
           /\ Serving(r.db, Reached(r), Range(r.block))
<1>1. d \in DatabaseRecords /\ r \in RunRecords /\ r.db.requests \subseteq r.db.statuses
  BY DEF Consistent, WellFormed
<1>2. r.db \in DatabaseRecords
  BY <1>1 DEF RunRecords
<1>3. /\ r.up
      /\ \/ r.db.version = 57 /\ r.block = <<"code_build">>
         \/ r.db.version = 59 /\ r.block \in {<<"declared_command", "llm_judge">>, <<"llm_judge">>}
  BY DEF Consistent, OnCourse
<1>4. r.db.version <= r.target /\ r.db.version # r.target
  BY <1>3 DEF Consistent, OnCourse
<1>5. Serving(r.db, Reached(r), Range(r.block))
  BY DEF Consistent, BothServing
<1>6. Reached(r) = r.db.version + 1
  BY <1>3 DEF Reached
<1>7. \/ r.db.version = 57 /\ r.block = <<"code_build">>
      \/ r.db.version = 59 /\ r.block = <<"declared_command", "llm_judge">>
      \/ r.db.version = 59 /\ r.block = <<"llm_judge">>
  BY <1>3, Zenon
<1>8. r.db.version \in {57, 59}
  BY <1>3
<1> QED  BY <1>1, <1>2, <1>3, <1>4, <1>5, <1>6, <1>7, <1>8

LEMMA BlockBegins ==
    ASSUME NEW d, NEW r, Consistent(d, r), r.stage = "block", r.block = BlockLabels(Pursued(r))
    PROVE  Consistent(r.db, r)
<1>1. /\ d \in DatabaseRecords /\ r \in RunRecords /\ r.db \in DatabaseRecords
      /\ r.up
      /\ r.db.requests \subseteq r.db.statuses
      /\ r.db.version \in {57, 59}
      /\ Reached(r) = r.db.version + 1
      /\ Serving(r.db, Reached(r), Range(r.block))
  BY InBlock
<1>2. Serving(r.db, r.db.version, {})
  <2>1. Pursued(r) = Reached(r)
    BY <1>1 DEF Pursued
  <2>2. Reached(r) \in {58, 60} /\ Reached(r) - 1 = r.db.version
    BY <1>1
  <2>3. Serving(r.db, Reached(r), Range(BlockLabels(Reached(r))))
    BY <1>1, <2>1
  <2>4. Serving(r.db, Reached(r) - 1, {})
    BY <2>2, <2>3, BlockServes, ZenonT(40)
  <2> QED  BY <2>2, <2>4
<1>3. WellFormed(r.db, r)
  BY <1>1 DEF WellFormed
<1>4. OnCourse(r.db, r)
  <2>1. r.db.version <= r.db.version
    BY <1>1
  <2> QED  BY <1>1, <2>1 DEF Consistent, OnCourse
<1>5. BothServing(r.db, r)
  BY <1>1, <1>2 DEF BothServing
<1>6. LossKnown(r.db, r)
  BY <1>1 DEF LossKnown
<1>7. TearKnown(r.db, r)
  BY DEF TearKnown
<1>8. FailureKept(r)
  BY DEF FailureKept
<1> QED  BY <1>3, <1>4, <1>5, <1>6, <1>7, <1>8 DEF Consistent

LEMMA LabelAdded ==
    ASSUME NEW r, NEW db, Consistent(r.db, r), r.stage = "block",
           db = [r.db EXCEPT !.aspects = r.db.aspects \cup {Head(r.block)}]
    PROVE  Consistent(db, [r EXCEPT !.db = db, !.block = Tail(r.block),
                                    !.stage = IF Len(r.block) = 1 THEN "stamp" ELSE "block"])
<1> DEFINE s == [r EXCEPT !.db = db, !.block = Tail(r.block),
                          !.stage = IF Len(r.block) = 1 THEN "stamp" ELSE "block"]
<1>1. /\ r \in RunRecords /\ r.db \in DatabaseRecords
      /\ r.up
      /\ r.db.requests \subseteq r.db.statuses
      /\ r.db.version \in {57, 59}
      /\ Reached(r) = r.db.version + 1
      /\ \/ r.db.version = 57 /\ r.block = <<"code_build">>
         \/ r.db.version = 59 /\ r.block = <<"declared_command", "llm_judge">>
         \/ r.db.version = 59 /\ r.block = <<"llm_judge">>
      /\ r.db.version <= r.target /\ r.db.version # r.target
      /\ Serving(r.db, Reached(r), Range(r.block))
  BY InBlock
<1>2. /\ Head(r.block) \in ProofAspectTypes
      /\ Range(r.block) = {Head(r.block)} \cup Range(Tail(r.block))
      /\ \/ Len(r.block) = 1 /\ Tail(r.block) = <<>>
         \/ Len(r.block) = 2 /\ r.db.version = 59 /\ Tail(r.block) = <<"llm_judge">>
  <2>1. ASSUME NEW a, r.block = <<a>>, a \in ProofAspectTypes
        PROVE  /\ Head(r.block) \in ProofAspectTypes
               /\ Range(r.block) = {Head(r.block)} \cup Range(Tail(r.block))
               /\ Len(r.block) = 1 /\ Tail(r.block) = <<>>
    <3>1. Head(r.block) = a /\ Tail(r.block) = <<>> /\ Len(r.block) = 1
      BY <2>1
    <3>2. Range(r.block) = {a} /\ Range(Tail(r.block)) = {}
      BY <2>1, <3>1, BlockRange
    <3> QED  BY <2>1, <3>1, <3>2
  <2>2. CASE r.db.version = 59 /\ r.block = <<"declared_command", "llm_judge">>
    <3>1. Head(r.block) = "declared_command" /\ Tail(r.block) = <<"llm_judge">> /\ Len(r.block) = 2
      BY <2>2
    <3>2. Range(r.block) = {"declared_command", "llm_judge"} /\ Range(Tail(r.block)) = {"llm_judge"}
      BY <2>2, <3>1, BlockRange
    <3> QED  BY <2>2, <3>1, <3>2 DEF ProofAspectTypes
  <2>3. "code_build" \in ProofAspectTypes /\ "llm_judge" \in ProofAspectTypes
    BY DEF ProofAspectTypes
  <2> QED  BY <1>1, <2>1, <2>2, <2>3
<1>3. /\ db \in DatabaseRecords
      /\ db.version = r.db.version /\ db.schema = r.db.schema /\ db.statuses = r.db.statuses
      /\ db.requests = r.db.requests /\ db.projects = r.db.projects
      /\ db.aspects = r.db.aspects \cup {Head(r.block)}
  BY <1>1, <1>2 DEF DatabaseRecords
<1>4. Tail(r.block) \in Blocks
  BY <1>2, Zenon DEF Blocks
<1>5. /\ s \in RunRecords
      /\ s.db = db /\ s.up = r.up /\ s.target = r.target /\ s.block = Tail(r.block)
      /\ s.stage = IF Len(r.block) = 1 THEN "stamp" ELSE "block"
  BY <1>1, <1>3, <1>4 DEF RunRecords, Stages
<1> HIDE DEF s
<1>6. s.stage \in {"stamp", "block"} /\ Reached(s) = Reached(r)
  BY <1>1, <1>3, <1>5 DEF Reached
<1>7. WellFormed(db, s)
  BY <1>1, <1>3, <1>5 DEF WellFormed
<1>8. OnCourse(db, s)
  <2>1. s.stage # "idle" /\ s.up /\ s.db.projects = db.projects
    BY <1>1, <1>5, <1>6
  <2>2. s.db.version = r.db.version /\ s.target = r.target /\ db.version = r.db.version
    BY <1>3, <1>5
  <2>3. db.version <= s.db.version /\ s.db.version <= s.target /\ s.db.version # s.target
    <3>1. r.db.version <= r.db.version
      BY <1>1
    <3> QED  BY <1>1, <2>2, <3>1
  <2>4. s.stage # "block" => s.block = <<>>
    <3>1. CASE Len(r.block) = 1
      <4>1. Tail(r.block) = <<>>
        BY <1>2, <3>1
      <4> QED  BY <1>5, <4>1
    <3>2. CASE Len(r.block) # 1
      BY <1>5, <3>2
    <3> QED  BY <3>1, <3>2
  <2>5. s.stage = "block" => s.db.version = 59 /\ s.block = <<"llm_judge">>
    BY <1>2, <1>5, <2>2
  <2>6. <<"llm_judge">> \in {<<"declared_command", "llm_judge">>, <<"llm_judge">>}
    BY Zenon
  <2> QED  BY <2>1, <2>3, <2>4, <2>5, <2>6 DEF OnCourse
<1>9. Serving(db, db.version, {})
  <2>1. Serving(r.db, r.db.version, {})
    BY DEF Consistent, BothServing
  <2>2. ~(r.db.version < 57)
    BY <1>1
  <2> QED  BY <1>3, <2>1, <2>2 DEF Serving
<1>10. Serving(db, Reached(s), Range(Tail(r.block)))
  <2>1. ~(Reached(r) < 57)
    BY <1>1
  <2>2. LabelsBy(Reached(r)) \subseteq r.db.aspects \cup Range(r.block)
    BY <1>1 DEF Serving
  <2>3. LabelsBy(Reached(r)) \subseteq db.aspects \cup Range(Tail(r.block))
    BY <1>2, <1>3, <2>2
  <2>4. Serving(r.db, Reached(r), Range(r.block))
    BY <1>1
  <2> QED  BY <1>3, <1>6, <2>1, <2>3, <2>4 DEF Serving
<1>11. BothServing(db, s)
  BY <1>5, <1>9, <1>10 DEF BothServing
<1>12. LossKnown(db, s)
  BY <1>1, <1>6 DEF LossKnown
<1>13. TearKnown(db, s)
  BY <1>5 DEF TearKnown
<1>14. FailureKept(s)
  BY <1>6 DEF FailureKept
<1> QED  BY <1>7, <1>8, <1>11, <1>12, <1>13, <1>14 DEF Consistent, s

LEMMA RevisionStamped ==
    ASSUME NEW d, NEW r, Consistent(d, r), r.stage = "stamp"
    PROVE  Consistent(d, [r EXCEPT !.stage = "revision",
                                   !.db.version = IF r.up THEN @ + 1 ELSE @ - 1])
<1> DEFINE v == r.db.version
           to == IF r.up THEN v + 1 ELSE v - 1
           s == [r EXCEPT !.stage = "revision", !.db.version = IF r.up THEN @ + 1 ELSE @ - 1]
<1>1. /\ r \in RunRecords /\ r.up \in BOOLEAN /\ r.db \in DatabaseRecords
      /\ d \in DatabaseRecords /\ r.target \in 0 .. Newest
  BY DEF Consistent, WellFormed, RunRecords
<1>2. Newest = 62 /\ v \in 0 .. 62 /\ r.target \in 0 .. 62 /\ d.version \in 0 .. 62
  BY <1>1, NewestIs DEF DatabaseRecords
<1>3. r.block = <<>> /\ v # r.target
  BY DEF Consistent, OnCourse
<1>4. /\ r.up => d.version <= v /\ v <= r.target
      /\ ~r.up => r.target <= v /\ v <= r.target + 1
  BY DEF Consistent, OnCourse
<1>5. /\ to \in 0 .. 62
      /\ r.up => d.version <= to /\ to <= r.target
      /\ ~r.up => r.target <= to /\ to <= r.target + 1
  <2>1. CASE r.up
    <3>1. \A w, x, y \in 0 .. 62 : w # x /\ y <= w /\ w <= x => w + 1 \in 0 .. 62 /\ y <= w + 1 /\ w + 1 <= x
      OBVIOUS
    <3>2. v + 1 \in 0 .. 62 /\ d.version <= v + 1 /\ v + 1 <= r.target
      BY <1>2, <1>3, <1>4, <2>1, <3>1, Zenon
    <3> QED  BY <2>1, <3>2
  <2>2. CASE ~r.up
    <3>1. \A w, x \in 0 .. 62 : w # x /\ x <= w /\ w <= x + 1 => w - 1 \in 0 .. 62 /\ x <= w - 1 /\ w - 1 <= x + 1
      OBVIOUS
    <3>2. v - 1 \in 0 .. 62 /\ r.target <= v - 1 /\ v - 1 <= r.target + 1
      BY <1>2, <1>3, <1>4, <2>2, <3>1, Zenon
    <3> QED  BY <2>2, <3>2
  <2> QED  BY <2>1, <2>2
<1>6. s = [r EXCEPT !.stage = "revision", !.db = [r.db EXCEPT !.version = to]]
  BY <1>1 DEF RunRecords, DatabaseRecords
<1> HIDE DEF to
<1>7. /\ [r.db EXCEPT !.version = to] \in DatabaseRecords
      /\ [r.db EXCEPT !.version = to].version = to
      /\ [r.db EXCEPT !.version = to].schema = r.db.schema
      /\ [r.db EXCEPT !.version = to].statuses = r.db.statuses
      /\ [r.db EXCEPT !.version = to].aspects = r.db.aspects
      /\ [r.db EXCEPT !.version = to].requests = r.db.requests
      /\ [r.db EXCEPT !.version = to].projects = r.db.projects
  BY <1>1, <1>2, <1>5 DEF DatabaseRecords
<1>8. /\ s \in RunRecords
      /\ s.db = [r.db EXCEPT !.version = to]
      /\ s.up = r.up /\ s.target = r.target /\ s.block = r.block /\ s.stage = "revision"
  BY <1>1, <1>6, <1>7 DEF RunRecords, Stages
<1> HIDE DEF s
<1>9. Reached(r) = to /\ Reached(s) = to
  <2>1. Reached(r) = to
    BY DEF Reached, to
  <2>2. Reached(s) = s.db.version
    BY <1>8 DEF Reached
  <2> QED  BY <1>7, <1>8, <2>1, <2>2
<1>10. WellFormed(d, s)
  BY <1>7, <1>8 DEF Consistent, WellFormed
<1>11. OnCourse(d, s)
  <2>1. s.db.projects = d.projects
    BY <1>7, <1>8 DEF Consistent, OnCourse
  <2>2. s.db.version = to
    BY <1>7, <1>8
  <2> QED  BY <1>3, <1>5, <1>8, <2>1, <2>2 DEF OnCourse
<1>12. BothServing(d, s)
  <2>1. Serving(r.db, to, Range(r.block))
    BY <1>9 DEF Consistent, BothServing
  <2>2. Serving(s.db, to, Range(s.block))
    BY <1>7, <1>8, <2>1 DEF Serving
  <2> QED  BY <1>9, <2>2 DEF Consistent, BothServing
<1>13. LossKnown(d, s)
  BY <1>7, <1>8, <1>9 DEF Consistent, LossKnown
<1>14. TearKnown(d, s)
  BY <1>7, <1>8, <1>9 DEF Consistent, TearKnown
<1>15. FailureKept(s)
  BY <1>8 DEF FailureKept
<1> QED  BY <1>10, <1>11, <1>12, <1>13, <1>14, <1>15 DEF Consistent, s

----------------------------------------------------------------------------
(* Every step keeps the invariant.                                         *)

LEMMA MigrationInitInv == MigrationInit => MigrationInv
<1> SUFFICES ASSUME MigrationInit  PROVE MigrationInv
  OBVIOUS
<1>1. database = EmptyDatabase /\ run = NoRun
  BY DEF MigrationInit
<1>2. Consistent(EmptyDatabase, NoRun)
  <2>1. EmptyDatabase.version = 0 /\ EmptyDatabase.requests = {}
    BY DEF EmptyDatabase
  <2> QED  BY <2>1, EmptyIsRecord, NoRunServes, RunGone
<1>3. reverts \in 0 .. MaxReverts /\ deaths \in 0 .. MaxDeaths
  BY MaxRevertsAssumption, MaxDeathsAssumption DEF MigrationInit
<1> QED  BY <1>1, <1>2, <1>3 DEF MigrationInv

\* The bounds are kept: what is left of a step is the database and the run.
LEMMA BoundsKept ==
    ASSUME MigrationInv, [MigrationNext]_migrationVars
    PROVE  reverts' \in 0 .. MaxReverts /\ deaths' \in 0 .. MaxDeaths
<1> USE MaxRevertsAssumption, MaxDeathsAssumption DEF MigrationInv
<1>1. CASE Revert
  BY <1>1 DEF Revert
<1>2. CASE RunDies
  BY <1>2 DEF RunDies
<1>3. CASE UNCHANGED <<reverts, deaths>>
  BY <1>3
<1>4. Revert \/ RunDies \/ UNCHANGED <<reverts, deaths>>
  BY DEF MigrationNext, migrationVars, Deploy, RunRevision, RunFails, EnterBlock, AddLabel, Stamp,
         CommitRun, RunEnds, WriteProject, WriteRequest
<1> QED  BY <1>1, <1>2, <1>3, <1>4

\* The database by itself, which a run begins with and which it may leave.
LEMMA DatabaseKept ==
    ASSUME Consistent(database, run)
    PROVE  /\ database \in DatabaseRecords /\ database.requests \subseteq database.statuses
           /\ Serving(database, database.version, {})
BY DEF Consistent, WellFormed, BothServing

LEMMA DeployInv ==
    ASSUME NEW release \in Releases, Consistent(database, run), Deploy(release)
    PROVE  Consistent(database, run)'
<1>1. /\ database \in DatabaseRecords /\ database.requests \subseteq database.statuses
      /\ Serving(database, database.version, {})
  BY DatabaseKept
<1>2. database.version <= release /\ release \in 0 .. Newest /\ TRUE \in BOOLEAN
  <2>1. database.version \in 0 .. Newest
    BY <1>1 DEF DatabaseRecords
  <2>2. release \in 0 .. Newest /\ database.version < release
    BY ReleasesAssumption DEF Deploy
  <2>3. database.version <= release
    BY <2>1, <2>2, NewestIs
  <2> QED  BY <2>2, <2>3
<1>3. /\ run' = [stage |-> "revision", up |-> TRUE, target |-> release, db |-> database, block |-> <<>>]
      /\ database' = database
  BY DEF Deploy
<1>4. ASSUME NEW up \in BOOLEAN, up
      PROVE  Consistent(database, [stage |-> "revision", up |-> up, target |-> release, db |-> database,
                                   block |-> <<>>])
  <2>1. /\ up => database.version <= release
        /\ ~up => release <= database.version /\ database.version <= release + 1
    BY <1>2, <1>4
  <2> QED  BY <1>1, <1>2, <2>1, RunBegins, Zenon
<1>5. Consistent(database, [stage |-> "revision", up |-> TRUE, target |-> release, db |-> database,
                            block |-> <<>>])
  BY <1>2, <1>4, Zenon
<1> QED  BY <1>3, <1>5

LEMMA RevertInv ==
    ASSUME Consistent(database, run), Revert
    PROVE  Consistent(database, run)'
<1> DEFINE target == database.version - 1
<1>1. /\ database \in DatabaseRecords /\ database.requests \subseteq database.statuses
      /\ Serving(database, database.version, {})
  BY DatabaseKept
<1>2. /\ target <= database.version /\ database.version <= target + 1
      /\ target \in 0 .. Newest /\ FALSE \in BOOLEAN
  <2>1. database.version \in 0 .. 62
    BY <1>1, NewestIs DEF DatabaseRecords
  <2>2. database.version > 0
    BY DEF Revert
  <2>3. /\ target <= database.version /\ database.version <= target + 1
        /\ target \in 0 .. 62
    BY <2>1, <2>2
  <2> QED  BY <2>3, NewestIs
<1>3. /\ run' = [stage |-> "revision", up |-> FALSE, target |-> target, db |-> database, block |-> <<>>]
      /\ database' = database
  BY DEF Revert
<1> HIDE DEF target
<1>4. ASSUME NEW up \in BOOLEAN, ~up
      PROVE  Consistent(database, [stage |-> "revision", up |-> up, target |-> target, db |-> database,
                                   block |-> <<>>])
  <2>1. /\ up => database.version <= target
        /\ ~up => target <= database.version /\ database.version <= target + 1
    BY <1>2, <1>4
  <2> QED  BY <1>1, <1>2, <2>1, RunBegins, Zenon
<1>5. Consistent(database, [stage |-> "revision", up |-> FALSE, target |-> target, db |-> database,
                            block |-> <<>>])
  BY <1>2, <1>4, Zenon
<1> QED  BY <1>3, <1>5

LEMMA RunRevisionInv ==
    ASSUME Consistent(database, run), RunRevision
    PROVE  Consistent(database, run)'
<1>1. PICK block : block = IF run.up THEN BlockLabels(Current) ELSE <<>>
  OBVIOUS
<1>2. Current = Pursued(run)
  BY DEF Current, Pursued
<1>3. /\ run.stage = "revision" /\ run.db.version # run.target
      /\ Runs(Current, run.up, run.db)
      /\ run' = [run EXCEPT !.db = Applied(Current, run.up, run.db),
                            !.stage = IF block = <<>> THEN "stamp" ELSE "block",
                            !.block = block]
      /\ database' = database
  BY <1>1 DEF RunRevision
<1>4. Consistent(database, [run EXCEPT !.db = Applied(Current, run.up, run.db),
                                       !.stage = IF block = <<>> THEN "stamp" ELSE "block",
                                       !.block = block])
  BY <1>1, <1>2, <1>3, RevisionRuns
<1> QED  BY <1>3, <1>4

LEMMA RunFailsInv ==
    ASSUME Consistent(database, run), RunFails
    PROVE  Consistent(database, run)'
<1>1. PICK stage : stage = IF ~run.up /\ ~Chain[Pursued(run)].down.runs THEN "refused" ELSE "failed"
  OBVIOUS
<1>2. Current = Pursued(run)
  BY DEF Current, Pursued
<1>3. /\ run.stage = "revision" /\ run.db.version # run.target
      /\ ~Runs(Pursued(run), run.up, run.db)
      /\ run' = [run EXCEPT !.stage = stage]
      /\ database' = database
  BY <1>1, <1>2 DEF RunFails
<1>4. Consistent(database, [run EXCEPT !.stage = stage])
  BY <1>1, <1>3, RevisionFails
<1> QED  BY <1>3, <1>4

LEMMA EnterBlockInv ==
    ASSUME Consistent(database, run), EnterBlock
    PROVE  Consistent(database, run)'
<1>1. /\ run.stage = "block" /\ run.block = BlockLabels(Current)
      /\ database' = run.db /\ run' = run
  BY DEF EnterBlock
<1>2. Current = Pursued(run)
  BY DEF Current, Pursued
<1>3. Consistent(run.db, run)
  BY <1>1, <1>2, BlockBegins
<1> QED  BY <1>1, <1>3

LEMMA AddLabelInv ==
    ASSUME Consistent(database, run), AddLabel
    PROVE  Consistent(database, run)'
<1>1. PICK db : db = [run.db EXCEPT !.aspects = run.db.aspects \cup {Head(run.block)}]
  OBVIOUS
<1>2. /\ run.stage = "block" /\ database = run.db
      /\ database' = db
      /\ run' = [run EXCEPT !.db = db, !.block = Tail(run.block),
                            !.stage = IF Len(run.block) = 1 THEN "stamp" ELSE "block"]
  BY <1>1 DEF AddLabel
<1>3. Consistent(run.db, run)
  BY <1>2
<1>4. Consistent(db, [run EXCEPT !.db = db, !.block = Tail(run.block),
                                 !.stage = IF Len(run.block) = 1 THEN "stamp" ELSE "block"])
  BY <1>1, <1>2, <1>3, LabelAdded
<1> QED  BY <1>2, <1>4

LEMMA StampInv ==
    ASSUME Consistent(database, run), Stamp
    PROVE  Consistent(database, run)'
<1>1. /\ run.stage = "stamp" /\ database' = database
      /\ run' = [run EXCEPT !.stage = "revision", !.db.version = IF run.up THEN @ + 1 ELSE @ - 1]
  BY DEF Stamp
<1>2. Consistent(database, [run EXCEPT !.stage = "revision",
                                       !.db.version = IF run.up THEN @ + 1 ELSE @ - 1])
  BY <1>1, RevisionStamped
<1> QED  BY <1>1, <1>2

LEMMA CommitRunInv ==
    ASSUME Consistent(database, run), CommitRun
    PROVE  Consistent(database, run)'
<1>1. run.stage = "revision" /\ database' = run.db /\ run' = NoRun
  BY DEF CommitRun
<1>2. /\ run.db \in DatabaseRecords /\ run.db.requests \subseteq run.db.statuses
  BY DEF Consistent, WellFormed, RunRecords
<1>3. Reached(run) = run.db.version
  BY <1>1 DEF Reached
<1>4. Range(run.block) = {}
  BY <1>1, BlockRange DEF Consistent, OnCourse
<1>5. Serving(run.db, run.db.version, {})
  BY <1>3, <1>4 DEF Consistent, BothServing
<1>6. Consistent(run.db, NoRun)
  BY <1>2, <1>5, RunGone
<1> QED  BY <1>1, <1>6

LEMMA RunLostInv ==
    ASSUME Consistent(database, run), RunDies \/ RunEnds
    PROVE  Consistent(database, run)'
<1>1. database' = database /\ run' = NoRun
  BY DEF RunDies, RunEnds
<1>2. Consistent(database, NoRun)
  BY DatabaseKept, RunGone
<1> QED  BY <1>1, <1>2

LEMMA WriteProjectInv ==
    ASSUME Consistent(database, run), WriteProject
    PROVE  Consistent(database, run)'
<1> DEFINE d == [database EXCEPT !.projects = TRUE]
<1>1. run.stage = "idle" /\ run = NoRun
  BY DEF WriteProject, Consistent, OnCourse
<1>2. database' = d /\ run' = run
  BY DEF WriteProject
<1>3. /\ database \in DatabaseRecords /\ database.requests \subseteq database.statuses
      /\ Serving(database, database.version, {})
  BY DatabaseKept
<1>4. /\ d \in DatabaseRecords
      /\ d.version = database.version /\ d.schema = database.schema /\ d.statuses = database.statuses
      /\ d.aspects = database.aspects /\ d.requests = database.requests
  BY <1>3 DEF DatabaseRecords
<1> HIDE DEF d
<1>5. Serving(d, d.version, {})
  BY <1>3, <1>4 DEF Serving
<1>6. Consistent(d, NoRun)
  BY <1>3, <1>4, <1>5, RunGone
<1> QED  BY <1>1, <1>2, <1>6

LEMMA WriteRequestInv ==
    ASSUME NEW status, Consistent(database, run), WriteRequest(status)
    PROVE  Consistent(database, run)'
<1> DEFINE d == [database EXCEPT !.requests = database.requests \cup {status}]
<1>1. run.stage = "idle" /\ run = NoRun
  BY DEF WriteRequest, Consistent, OnCourse
<1>2. database' = d /\ run' = run /\ status \in database.statuses
  BY DEF WriteRequest
<1>3. /\ database \in DatabaseRecords /\ database.requests \subseteq database.statuses
      /\ Serving(database, database.version, {})
  BY DatabaseKept
<1>4. database.requests \cup {status} \subseteq RequestStatusesAtReset \cup RequestStatusesAtHead
  BY <1>2, <1>3 DEF DatabaseRecords
<1>5. /\ d \in DatabaseRecords
      /\ d.version = database.version /\ d.schema = database.schema /\ d.statuses = database.statuses
      /\ d.aspects = database.aspects /\ d.requests = database.requests \cup {status}
  BY <1>3, <1>4 DEF DatabaseRecords
<1> HIDE DEF d
<1>6. Serving(d, d.version, {})
  BY <1>3, <1>5 DEF Serving
<1>7. Consistent(d, NoRun)
  BY <1>2, <1>3, <1>5, <1>6, RunGone
<1> QED  BY <1>1, <1>2, <1>7

LEMMA MigrationStepInv == MigrationInv /\ [MigrationNext]_migrationVars => MigrationInv'
<1> SUFFICES ASSUME MigrationInv, [MigrationNext]_migrationVars  PROVE MigrationInv'
  OBVIOUS
<1>1. Consistent(database, run)
  BY DEF MigrationInv
<1>2. Consistent(database, run)'
  <2>1. CASE \E release \in Releases : Deploy(release)
    BY <1>1, <2>1, DeployInv
  <2>2. CASE Revert
    BY <1>1, <2>2, RevertInv
  <2>3. CASE RunRevision
    BY <1>1, <2>3, RunRevisionInv
  <2>4. CASE RunFails
    BY <1>1, <2>4, RunFailsInv
  <2>5. CASE EnterBlock
    BY <1>1, <2>5, EnterBlockInv
  <2>6. CASE AddLabel
    BY <1>1, <2>6, AddLabelInv
  <2>7. CASE Stamp
    BY <1>1, <2>7, StampInv
  <2>8. CASE CommitRun
    BY <1>1, <2>8, CommitRunInv
  <2>9. CASE RunDies \/ RunEnds
    BY <1>1, <2>9, RunLostInv
  <2>10. CASE WriteProject
    BY <1>1, <2>10, WriteProjectInv
  <2>11. CASE \E status \in {"blocked", "needs_decision"} : WriteRequest(status)
    BY <1>1, <2>11, WriteRequestInv
  <2>12. CASE UNCHANGED migrationVars
    BY <1>1, <2>12 DEF migrationVars
  <2> QED  BY <2>1, <2>2, <2>3, <2>4, <2>5, <2>6, <2>7, <2>8, <2>9, <2>10, <2>11, <2>12 DEF MigrationNext
<1>3. reverts' \in 0 .. MaxReverts /\ deaths' \in 0 .. MaxDeaths
  BY BoundsKept
<1> QED  BY <1>2, <1>3 DEF MigrationInv

\* The committed database and the view of the run's transaction are consistent
\* in every reachable state, between any two of the statements, commits and
\* stamps that `alembic upgrade` and a downgrade make.
THEOREM MigrationInvariant == MigrationSpec => []MigrationInv
BY MigrationInitInv, MigrationStepInv, PTL DEF MigrationSpec

\* The database has only tables and columns of the revisions, one of the three
\* sets of request_status labels, and rows that carry a label of that type,
\* whatever releases are deployed and wherever a run fails or dies.
THEOREM MigrationTypeCorrect == MigrationSpec => []MigrationTypeOK
<1>1. MigrationInv => MigrationTypeOK
  <2> SUFFICES ASSUME MigrationInv  PROVE MigrationTypeOK
    OBVIOUS
  <2>1. /\ database \in DatabaseRecords /\ database.requests \subseteq database.statuses
        /\ run \in RunRecords
    BY DEF MigrationInv, Consistent, WellFormed
  <2>2. /\ database.version \in 0 .. Newest /\ database.schema \subseteq AnySchema
        /\ database.statuses \in {{}, RequestStatusesAtReset, RequestStatusesAtHead}
    BY <2>1 DEF DatabaseRecords
  <2>3. run.stage \in {"idle", "revision", "block", "stamp", "failed", "refused"}
    BY <2>1 DEF RunRecords, Stages
  <2> QED  BY <2>1, <2>2, <2>3 DEF MigrationInv, MigrationTypeOK
<1> QED  BY <1>1, MigrationInvariant, PTL

----------------------------------------------------------------------------
(* What a database at the newest revision offers, and why a run fails.      *)

LEMMA ModelsAreThere ==
    ASSUME NEW o \in Tables(ModelTables) \cup ModelColumns
    PROVE  o = <<o[1], o[2]>> /\ Must(o[1], o[2], 62)
<1>1. CASE o \in Tables(ModelTables)
  <2>1. PICK t \in ModelTables : o = <<t, "*">>
    BY <1>1 DEF Tables, Table
  <2>2. \A n \in ModelTables : Must(n, "*", 62)
    <3> SUFFICES ASSUME NEW n \in ModelTables  PROVE Must(n, "*", 62)
      OBVIOUS
    <3>1. CASE n \in {"brief_snapshots", "decisions", "deliverables", "directions", "executor_configs",
                      "projects", "requests", "run_attempts", "tool_events"}
      BY <3>1 DEF Must, Present, At
    <3>2. CASE n \in {"tenants", "tenant_members", "verification_aspects", "work_plans", "work_steps",
                      "audit_outbox", "project_channels", "settings", "tenant_integration_configs",
                      "cost_records"}
      BY <3>2 DEF Must, Present, At
    <3> QED  BY <3>1, <3>2 DEF ModelTables
  <2>3. o[1] = t /\ o[2] = "*"
    BY <2>1
  <2> QED  BY <2>1, <2>2, <2>3
<1>2. CASE o \in ModelColumns
  <2>1. ASSUME NEW t, NEW names, o \in Columns(t, names), \A c \in names : Must(t, c, 62)
        PROVE  o = <<o[1], o[2]>> /\ Must(o[1], o[2], 62)
    <3>1. PICK c \in names : o = <<t, c>>
      BY <2>1 DEF Columns
    <3>2. o[1] = t /\ o[2] = c
      BY <3>1
    <3> QED  BY <2>1, <3>1, <3>2
  <2>2. \A c \in {"guidance"} : Must("decisions", c, 62)
    BY DEF Must, Present, At
  <2>3. \A c \in {"commit_sha"} : Must("deliverables", c, 62)
    BY DEF Must, Present, At
  <2> DEFINE ofProjects == {"tenant_id", "repo_path", "workspace_type", "workspace_dir", "github_repo_url",
                            "github_branch", "github_token_encrypted", "status",
                            "max_concurrent_runs", "bsage_workspace_id", "bsupervisor_policy_id"}
  <2>4. \A c \in ofProjects : Must("projects", c, 62)
    BY DEF Must, Present, At
  <2>5. \A c \in {"pr_number", "pr_url"} : Must("requests", c, 62)
    BY DEF Must, Present, At
  <2>6. \A c \in {"handoff", "verification_contract"} : Must("run_attempts", c, 62)
    BY DEF Must, Present, At
  <2>7. \A c \in {"worker_install_token_hash"} : Must("tenants", c, 62)
    BY DEF Must, Present, At
  <2>8. \A c \in {"execution_run_id"} : Must("cost_records", c, 62)
    BY DEF Must, Present, At
  <2>9. \/ o \in Columns("decisions", {"guidance"}) \/ o \in Columns("deliverables", {"commit_sha"})
        \/ o \in Columns("projects", ofProjects) \/ o \in Columns("requests", {"pr_number", "pr_url"})
        \/ o \in Columns("run_attempts", {"handoff", "verification_contract"})
        \/ o \in Columns("tenants", {"worker_install_token_hash"})
        \/ o \in Columns("cost_records", {"execution_run_id"})
    BY <1>2 DEF ModelColumns
  <2> HIDE DEF ofProjects
  <2>10. CASE o \in Columns("decisions", {"guidance"})
    BY <2>1, <2>2, <2>10
  <2>11. CASE o \in Columns("deliverables", {"commit_sha"})
    BY <2>1, <2>3, <2>11
  <2>12. CASE o \in Columns("projects", ofProjects)
    BY <2>1, <2>4, <2>12
  <2>13. CASE o \in Columns("requests", {"pr_number", "pr_url"})
    BY <2>1, <2>5, <2>13
  <2>14. CASE o \in Columns("run_attempts", {"handoff", "verification_contract"})
    BY <2>1, <2>6, <2>14
  <2>15. CASE o \in Columns("tenants", {"worker_install_token_hash"})
    BY <2>1, <2>7, <2>15
  <2>16. CASE o \in Columns("cost_records", {"execution_run_id"})
    BY <2>1, <2>8, <2>16
  <2> QED  BY <2>9, <2>10, <2>11, <2>12, <2>13, <2>14, <2>15, <2>16
<1> QED  BY <1>1, <1>2

\* However a database came to the newest revision, the tables and columns that
\* the models read and write are there, and the labels of request_status and
\* proof_aspect_type are those of the code.
THEOREM NewestServesTheModels == MigrationSpec => []HeadServesTheModels
<1>1. MigrationInv => HeadServesTheModels
  <2> SUFFICES ASSUME MigrationInv, database.version = Newest
               PROVE  /\ Tables(ModelTables) \cup ModelColumns \subseteq database.schema
                      /\ database.statuses = RequestStatuses
                      /\ database.aspects = ProofAspectTypes
    BY DEF HeadServesTheModels
  <2>1. database.version = 62
    BY NewestIs
  <2>2. database \in DatabaseRecords /\ Serving(database, 62, {})
    BY <2>1, DatabaseKept DEF MigrationInv
  <2>3. Sound(database.schema, 62)
    BY <2>2 DEF Serving
  <2>4. \A o \in Tables(ModelTables) \cup ModelColumns : o \in database.schema
    <3> SUFFICES ASSUME NEW o \in Tables(ModelTables) \cup ModelColumns  PROVE o \in database.schema
      OBVIOUS
    <3>1. o = <<o[1], o[2]>> /\ Must(o[1], o[2], 62)
      BY ModelsAreThere
    <3>2. <<o[1], o[2]>> \in database.schema
      BY <2>3, <3>1 DEF Sound
    <3> QED  BY <3>1, <3>2
  <2>5. database.statuses = RequestStatuses
    <3>1. database.statuses = RequestStatusesAtHead
      BY <2>2 DEF Serving
    <3> QED  BY <3>1 DEF RequestStatuses, RequestStatusesAtHead
  <2>6. database.aspects = ProofAspectTypes
    <3>1. LabelsBy(62) = ProofAspectTypes
      BY DEF LabelsBy, ProofAspectTypes
    <3>2. LabelsBy(62) \subseteq database.aspects
      BY <2>2 DEF Serving
    <3>3. database.aspects \subseteq ProofAspectTypes
      BY <2>2 DEF DatabaseRecords
    <3> QED  BY <3>1, <3>2, <3>3
  <2> QED  BY <2>4, <2>5, <2>6
<1> QED  BY <1>1, MigrationInvariant, PTL

LEMMA LossStrands ==
    ASSUME database.version = 36, Lost(database.schema)
    PROVE  Stranded
<1>1. Sound(Fresh[36].schema, 36)
  BY NewestIs, FreshIsSound
<1>2. ~Lost(Fresh[36].schema)
  BY <1>1, LostIsNotSound
<1>3. database.schema # Fresh[database.version].schema
  BY <1>2
<1> QED  BY <1>3, Places DEF Stranded

\* Of the rows only the projects can stop a revision.
LEMMA RowsStop ==
    ASSUME NEW n \in 1 .. Newest, NEW up \in BOOLEAN, NEW db \in DatabaseRecords,
           db.requests \subseteq db.statuses, up => Serving(db, n - 1, {}), ~RowsFit(n, up, db)
    PROVE  n = 39 /\ up /\ db.projects
<1>0. Newest = 62 /\ n \in Int
  BY NewestIs
<1>1. Reset = 52 /\ NeedsDecision = 62 /\ TenantOnProjects = 39 /\ 52 # 62
  BY Places
<1>2. RequestRows(n, up, db.requests) \subseteq StatusLabels(n, up, db.statuses)
  <2>1. CASE n = 52 /\ up
    <3>1. RequestRows(n, up, db.requests) = {}
      BY <1>1, <2>1, Zenon DEF RequestRows
    <3> QED  BY <3>1
  <2>2. CASE n = 62 /\ up
    <3>1. /\ RequestRows(n, up, db.requests) = {StatusUp(s) : s \in db.requests}
          /\ StatusLabels(n, up, db.statuses) = RequestStatusesAtHead
      <4>1. RequestRows(n, up, db.requests) = {IF up THEN StatusUp(s) ELSE StatusDown(s) : s \in db.requests}
        BY <1>1, <2>2, Zenon DEF RequestRows
      <4>2. StatusLabels(n, up, db.statuses) = RequestStatusesAtHead
        BY <2>2, LabelsMovedUp
      <4> QED  BY <2>2, <4>1, <4>2
    <3>2. db.requests \subseteq RequestStatusesAtReset
      BY <2>2 DEF Serving
    <3>3. \A s \in db.requests : StatusUp(s) \in RequestStatusesAtHead
      BY <3>2 DEF StatusUp, RequestStatusesAtReset, RequestStatusesAtHead
    <3> QED  BY <3>1, <3>3
  <2>3. CASE n = 62 /\ ~up
    <3>1. /\ RequestRows(n, up, db.requests) = {StatusDown(s) : s \in db.requests}
          /\ StatusLabels(n, up, db.statuses) = RequestStatusesAtReset
      <4>1. RequestRows(n, up, db.requests) = {IF up THEN StatusUp(s) ELSE StatusDown(s) : s \in db.requests}
        BY <1>1, <2>3, Zenon DEF RequestRows
      <4>2. StatusLabels(n, up, db.statuses) = RequestStatusesAtReset
        BY <2>3, LabelsMovedDown
      <4> QED  BY <2>3, <4>1, <4>2
    <3>2. db.requests \subseteq RequestStatusesAtReset \cup RequestStatusesAtHead
      BY DEF DatabaseRecords
    <3>3. \A s \in db.requests : StatusDown(s) \in RequestStatusesAtReset
      BY <3>2 DEF StatusDown, RequestStatusesAtReset, RequestStatusesAtHead
    <3> QED  BY <3>1, <3>3
  <2>4. CASE n # 62 /\ ~(n = 52 /\ up)
    <3>1. RequestRows(n, up, db.requests) = db.requests
      BY <1>1, <2>4, Zenon DEF RequestRows
    <3>2. StatusLabels(n, up, db.statuses) = db.statuses
      BY <1>1, <2>4, Zenon DEF StatusLabels
    <3> QED  BY <3>1, <3>2
  <2> QED  BY <2>1, <2>2, <2>3, <2>4
<1> QED  BY <1>1, <1>2, Zenon DEF RowsFit

\* A run that has failed: its revision is one of the three that can.
LEMMA FailureFound ==
    ASSUME Consistent(database, run), run.stage = "failed"
    PROVE  \/ run.up /\ Pursued(run) = 39 /\ database.projects
           \/ Stranded
           \/ run.up /\ Pursued(run) = 60 /\ TornColumn
<1> DEFINE n == Pursued(run)
<1>1. /\ database \in DatabaseRecords /\ run \in RunRecords /\ run.up \in BOOLEAN
      /\ run.db \in DatabaseRecords /\ run.target \in 0 .. 62
      /\ run.db.requests \subseteq run.db.statuses
  BY NewestIs DEF Consistent, WellFormed, RunRecords
<1>2. Newest = 62 /\ run.db.version \in 0 .. 62 /\ database.version \in 0 .. 62
  BY <1>1, NewestIs DEF DatabaseRecords
<1>3. /\ run.db.version # run.target
      /\ ~Runs(n, run.up, run.db)
      /\ run.up \/ Chain[n].down.runs
  BY DEF Consistent, FailureKept
<1>4. /\ run.db.projects = database.projects /\ run.block = <<>>
      /\ run.up => database.version <= run.db.version /\ run.db.version <= run.target
      /\ ~run.up => run.target <= run.db.version
  BY DEF Consistent, OnCourse
<1>5. n = (IF run.up THEN run.db.version + 1 ELSE run.db.version) /\ n \in 1 .. Newest
  <2>1. CASE run.up
    <3>1. \A w, x \in 0 .. 62 : w # x /\ w <= x => w + 1 \in 1 .. 62
      OBVIOUS
    <3>2. n = run.db.version + 1
      BY <2>1 DEF Pursued
    <3> QED  BY <1>1, <1>2, <1>3, <1>4, <2>1, <3>1, <3>2
  <2>2. CASE ~run.up
    <3>1. \A w, x \in 0 .. 62 : w # x /\ x <= w => w \in 1 .. 62
      OBVIOUS
    <3>2. n = run.db.version
      BY <2>2 DEF Pursued
    <3> QED  BY <1>1, <1>2, <1>3, <1>4, <2>2, <3>1, <3>2
  <2> QED  BY <2>1, <2>2
<1> HIDE DEF n
<1>6. Reached(run) = run.db.version
  BY DEF Reached
<1>7. Serving(run.db, run.db.version, {})
  BY <1>4, <1>6, BlockRange DEF Consistent, BothServing
<1>8. run.up => Serving(run.db, n - 1, {})
  <2> SUFFICES ASSUME run.up  PROVE Serving(run.db, n - 1, {})
    OBVIOUS
  <2>1. n - 1 = run.db.version
    BY <1>2, <1>5
  <2> QED  BY <1>7, <2>1
<1>9. CASE ~RowsFit(n, run.up, run.db)
  <2>1. n = 39 /\ run.up /\ run.db.projects
    BY <1>1, <1>5, <1>8, <1>9, RowsStop, Zenon
  <2> QED  BY <1>4, <2>1 DEF n
<1>10. CASE Lost(run.db.schema) /\ run.db.version = 36
  <2>1. database.version = 36 /\ Lost(database.schema)
    BY <1>3, <1>6, <1>10 DEF Consistent, LossKnown
  <2> QED  BY <2>1, LossStrands
<1>11. CASE RowsFit(n, run.up, run.db) /\ Sound(run.db.schema, run.db.version)
  <2>1. ~Fits(ChangeOf(n, run.up), run.db.schema)
    BY <1>3, <1>11 DEF Runs, ChangeOf
  <2>2. CASE ~run.up
    <3>1. n = run.db.version /\ Chain[n].down.runs
      BY <1>3, <1>5, <2>2
    <3>2. Fits(Chain[n].down, run.db.schema)
      BY <1>5, <1>11, <3>1, DowngradeSound
    <3> QED  BY <2>1, <2>2, <3>2 DEF ChangeOf
  <2>3. CASE run.up
    <3>1. n - 1 = run.db.version /\ n = run.db.version + 1
      BY <1>2, <1>5, <2>3
    <3>2. ~Fits(Chain[n].up, run.db.schema)
      BY <2>1, <2>3 DEF ChangeOf
    <3>3. Sound(run.db.schema, n - 1)
      BY <1>11, <3>1
    <3>4. n = 60
      BY <1>5, <3>2, <3>3, UpgradeSound
    <3>5. TornPair \in run.db.schema
      <4>1. Sound(run.db.schema, 59)
        BY <3>3, <3>4
      <4> QED  BY <3>2, <3>4, <4>1, TearingFits
    <3>6. run.db.version = 59
      BY <1>2, <3>1, <3>4
    <3>7. TornPair \in database.schema
      BY <1>6, <2>3, <3>5, <3>6 DEF Consistent, TearKnown
    <3>8. database.version < 60
      <4>1. database.version <= 59
        BY <1>4, <2>3, <3>6
      <4>2. \A w \in 0 .. 62 : w <= 59 => w < 60
        OBVIOUS
      <4> QED  BY <1>2, <4>1, <4>2, Zenon
    <3>9. Columns("run_attempts", {"verification_contract"}) = {TornPair}
      BY DEF Columns, TornPair
    <3>10. TornColumn
      BY <3>7, <3>8, <3>9, Places DEF TornColumn
    <3> QED  BY <2>3, <3>4, <3>10 DEF n
  <2> QED  BY <2>2, <2>3
<1>12. Sound(run.db.schema, run.db.version) \/ (run.db.version = 36 /\ Lost(run.db.schema))
  BY <1>7 DEF Serving
<1> QED  BY <1>9, <1>10, <1>11, <1>12

\* A run of upgrade() or downgrade() that the database refuses is at the
\* tenants' revision with projects, on a database that went back over the
\* founder metaphor, or at the revision whose column a death left behind.
THEOREM FailuresHaveAReason == MigrationSpec => []FailuresAreKnown
<1>1. MigrationInv => FailuresAreKnown
  <2> SUFFICES ASSUME MigrationInv, run.stage = "failed"
               PROVE  \/ run.up /\ Current = TenantOnProjects /\ database.projects
                      \/ Stranded
                      \/ run.up /\ Current = Contracts /\ TornColumn
    BY DEF FailuresAreKnown
  <2>1. Current = Pursued(run)
    BY DEF Current, Pursued
  <2>2. \/ run.up /\ Pursued(run) = 39 /\ database.projects
        \/ Stranded
        \/ run.up /\ Pursued(run) = 60 /\ TornColumn
    BY FailureFound DEF MigrationInv
  <2>3. TenantOnProjects = 39 /\ Contracts = 60
    BY Places
  <2> QED  BY <2>1, <2>2, <2>3, Zenon
<1> QED  BY <1>1, MigrationInvariant, PTL

=============================================================================
