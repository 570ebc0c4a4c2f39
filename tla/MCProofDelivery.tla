--------------------------- MODULE MCProofDelivery ---------------------------
(* From a tool call to the pull request: the tools of the work phase, the    *)
(* verification of what they leave, its delivery, and the history of the      *)
(* schema that records it.  Each is explored with the others at rest: they    *)
(* meet in RequestLifecycle, which abstracts from all four.                  *)
EXTENDS Tools, Verification, Delivery, Migrations, TLC

VARIABLE component

proofDeliveryVars == <<toolVars, verificationVars, deliveryVars, migrationVars, component>>

\* Files before, between and after the calls; the last one is longer than what
\* file_edit reads.
MCShellContents ==
    {<<"x">>, <<"y", "bad", "x", "x">>, <<"x", "x", "y", "y", "y", "y">>}
MCTexts == {<<>>, <<"x", "x">>}
MCRawContracts == {<<"judge", "unusable">>, <<"unusable">>}

\* One workspace per route of the selection.
Workspace(features, type, raw) ==
    [features |-> features, changed_tests |-> FALSE, type |-> type, contract |-> raw]

PythonPackage == {"pyproject", "ruff", "tests_dir", "src_package", "packaged"}
LooseScripts == {"pyproject", "dependencies", "src_entry"}

MCWorkspaces ==
    {Workspace(PythonPackage, "code", raw) :
        raw \in {<<"command", "judge">>, <<"judge", "unusable">>, <<"command", "command">>, <<"unusable">>}}
    \cup {Workspace(LooseScripts, "code", <<>>),
          Workspace({"package_json", "test_script"}, "code", <<>>),
          Workspace({"dockerfile", "package_json", "build_script", "devcontainer"}, "code", <<>>),
          Workspace({"package_json"}, "code", <<>>),
          Workspace(PythonPackage, "doc", <<>>),
          [Workspace({}, "preview", <<>>) EXCEPT !.changed_tests = TRUE]}

\* Too few entries, and a verdict against a criterion that holds.
MCJudgeNoise == {<<>>, <<"pass", "fail">>}

AtRest(c) ==
    CASE c = "tools" -> contents = [p \in WorkFiles |-> Missing]
      [] c = "verification" ->
            /\ workspace = Workspace(PythonPackage, "doc", <<>>)
            /\ broken = {} /\ mode = "host" /\ judge = "none" /\ dockerCli /\ weather = {}
      [] c = "delivery" -> binding = None
      [] OTHER -> TRUE

Components == {"tools", "verification", "delivery", "migrations"}

Init ==
    /\ component \in Components
    /\ ToolsInit /\ VerificationInit /\ DeliveryInit /\ MigrationInit
    /\ \A c \in Components \ {component} : AtRest(c)

Next ==
    /\ UNCHANGED component
    /\ \/ /\ component = "tools" /\ ToolsNext
          /\ UNCHANGED <<verificationVars, deliveryVars, migrationVars>>
       \/ /\ component = "verification" /\ VerificationNext
          /\ UNCHANGED <<toolVars, deliveryVars, migrationVars>>
       \/ /\ component = "delivery" /\ DeliveryNext
          /\ UNCHANGED <<toolVars, verificationVars, migrationVars>>
       \/ /\ component = "migrations" /\ MigrationNext
          /\ UNCHANGED <<toolVars, verificationVars, deliveryVars>>

ProofDeliverySpec == Init /\ [][Next]_proofDeliveryVars

\* The requests of a project are alike.
RequestSymmetry == Permutations(Requests)

\* Every component's variables have their types.
ProofDeliveryTypeOK ==
    ToolsTypeOK /\ VerificationTypeOK /\ DeliveryTypeOK /\ MigrationTypeOK

=============================================================================
