------------------------------ MODULE Delivery ------------------------------
(***************************************************************************)
(* Repo-native delivery of one project: the clone of the bound repository   *)
(* into the workspace, the work that the RequestWorker's dispatches write    *)
(* there, the VerifierWorker's process_one (verdict, commit of the artifact  *)
(* files, shipping) and the pull request, which the ship hook and the API    *)
(* open.  All requests of a project share its one workspace.                 *)
(*                                                                         *)
(* A file's content is who wrote it last: a Request, or the repository.      *)
(* GitHub is external; every call to it may fail.                            *)
(***************************************************************************)
EXTENDS Integers, FiniteSets

CONSTANTS
    Requests,      \* requests of the project, each with one Deliverable
    Paths,         \* paths in the workspace
    BasePaths,     \* the paths the repositories hold at their base branch
    Repos,         \* repositories the founder may bind
    Incidents,     \* the kinds of failure and intervention
    MaxIncidents   \* bound: how many kinds happen, each once

ASSUME BasePathsAssumption == BasePaths \subseteq Paths
ASSUME MaxIncidentsAssumption == MaxIncidents \in Nat

VARIABLES
    binding,    \* project.github_repo_url, None if there is none or no token
    gitDir,     \* the repository whose .git is in the workspace
    merged,     \* the repository's entries that were moved into the workspace
    files,      \* the workspace
    written,    \* deliverable.artifact_refs
    queued,     \* Requests whose Deliverable is on proof:queue
    proven,     \* Requests with a verified Deliverable and the content verified
    commitSha,  \* Requests whose Deliverable has a commit_sha
    branches,   \* the request branches on GitHub and their content
    pulls,      \* the pull requests on GitHub: how many open, how many closed
    prNumber,   \* request.pr_number, as the repository it is in
    work,       \* the RequestWorker's dispatch
    verifier,   \* the VerifierWorker
    opener,     \* the two callers of open_request_pr
    incidents   \* the kinds of incident so far

workspaceVars == <<gitDir, merged, files, written>>
remoteVars == <<branches, pulls>>
deliveryVars == <<binding, workspaceVars, queued, proven, commitSha, remoteVars,
                  prNumber, work, verifier, opener, incidents>>

None == "none"
Absent == "absent"

ASSUME RequestsAssumption == Absent \notin Requests

NoBranch == [ahead |-> FALSE]
Contents == {Absent} \cup Repos \cup Requests
Openers == {"hook", "api"}
OpenerIdle == [at |-> "idle", request |-> None, repo |-> None]
VerifierIdle == [at |-> "idle", request |-> None, repo |-> None, todo |-> {}, put |-> {}]

DeliveryTypeOK ==
    /\ binding \in Repos \cup {None} /\ gitDir \in Repos \cup {None}
    /\ merged \subseteq BasePaths
    /\ files \in [Paths -> Contents]
    /\ written \in [Requests -> SUBSET Paths]
    /\ queued \subseteq Requests /\ commitSha \subseteq Requests
    /\ DOMAIN proven \subseteq Requests
    /\ branches \in [Repos \X Requests -> [files : [Paths -> Contents], ahead : BOOLEAN] \cup {NoBranch}]
    /\ pulls \in [Repos \X Requests -> [open : 0 .. 1, closed : 0 .. 2]]
    /\ prNumber \in [Requests -> Repos \cup {None}]
    /\ work.at \in {"idle", "clone", "write"}
    /\ verifier.at \in {"idle", "verify", "branch", "put", "advance", "pr"}
    /\ \A o \in Openers : opener[o].at \in {"idle", "branch", "list", "create", "update", "record"}
    /\ incidents \subseteq Incidents

DeliveryInit ==
    /\ binding \in Repos \cup {None}
    /\ gitDir = None /\ merged = {}
    /\ files = [p \in Paths |-> Absent]
    /\ written = [q \in Requests |-> {}]
    /\ queued = {} /\ commitSha = {}
    /\ proven = [q \in {} |-> {}]
    /\ branches = [b \in Repos \X Requests |-> NoBranch]
    /\ pulls = [b \in Repos \X Requests |-> [open |-> 0, closed |-> 0]]
    /\ prNumber = [q \in Requests |-> None]
    /\ work = [at |-> "idle", request |-> None]
    /\ verifier = VerifierIdle
    /\ opener = [o \in Openers |-> OpenerIdle]
    /\ incidents = {}

Incident(kind) ==
    /\ kind \in Incidents \ incidents
    /\ Cardinality(incidents) < MaxIncidents
    /\ incidents' = incidents \cup {kind}

Smooth == UNCHANGED incidents

\* A call to GitHub that fails: any status, or a transport error.
GithubFails == Incident("github")

----------------------------------------------------------------------------
(* The founder's repo-config.                                              *)

UpsertRepoConfig(r) ==
    /\ binding # r
    /\ Incident("bind")
    /\ binding' = r
    /\ UNCHANGED <<workspaceVars, queued, proven, commitSha, remoteVars, prNumber, work, verifier, opener>>

DeleteRepoConfig ==
    /\ binding # None
    /\ Incident("unbind")
    /\ binding' = None
    /\ UNCHANGED <<workspaceVars, queued, proven, commitSha, remoteVars, prNumber, work, verifier, opener>>

----------------------------------------------------------------------------
(* A dispatch: clone if there is no checkout yet, then write.              *)

StartWork(q) ==
    /\ work.at = "idle"
    /\ written[q] = {}
    /\ work' = [request |-> q, at |-> IF binding = None \/ gitDir # None THEN "write" ELSE "clone"]
    /\ Smooth
    /\ UNCHANGED <<binding, workspaceVars, queued, proven, commitSha, remoteVars, prNumber, verifier, opener>>

\* The entries are moved over one by one and replace what is there.
MergeInto(repo, entries) ==
    /\ merged' = entries
    /\ files' = [p \in Paths |-> IF p \in entries THEN repo ELSE files[p]]

\* A failed clone is logged and the work phase still runs.
EnsureRepoCloned ==
    /\ work.at = "clone"
    /\ binding # None
    /\ work' = [work EXCEPT !.at = "write"]
    /\ \/ gitDir' = binding /\ MergeInto(binding, BasePaths) /\ Smooth
       \/ GithubFails /\ UNCHANGED <<gitDir, merged, files>>
    /\ UNCHANGED <<binding, written, queued, proven, commitSha, remoteVars, prNumber, verifier, opener>>

\* The process dies with some entries moved, .git among them or not.
CrashInMerge ==
    /\ work.at = "clone"
    /\ binding # None
    /\ Incident("crash")
    /\ \E entries \in SUBSET BasePaths :
          /\ MergeInto(binding, entries)
          /\ gitDir' \in {None, binding}
    /\ work' = [at |-> "idle", request |-> None]
    /\ verifier' = VerifierIdle
    /\ opener' = [o \in Openers |-> OpenerIdle]
    /\ UNCHANGED <<binding, written, queued, proven, commitSha, remoteVars, prNumber>>

\* The work ends with a Deliverable that lists the files it wrote, and its
\* verification is asked for.  A shell command may remove a file on the way.
Write(paths, removed) ==
    /\ work.at = "write"
    /\ IF removed = {} THEN Smooth ELSE Incident("remove")
    /\ files' = [p \in Paths |-> CASE p \in paths -> work.request
                                   [] p \in removed -> Absent
                                   [] OTHER -> files[p]]
    /\ written' = [written EXCEPT ![work.request] = paths]
    /\ queued' = queued \cup {work.request}
    /\ work' = [at |-> "idle", request |-> None]
    /\ UNCHANGED <<binding, gitDir, merged, proven, commitSha, remoteVars, prNumber, verifier, opener>>

----------------------------------------------------------------------------
(* GitHub's side of a request branch.                                      *)

\* ensure_request_branch: the existing ref, or a new one off the base.
EnsureRequestBranch(repo, q) ==
    branches' = IF branches[repo, q] # NoBranch THEN branches
                ELSE [branches EXCEPT ![<<repo, q>>] =
                        [files |-> [p \in Paths |-> IF p \in BasePaths THEN repo ELSE Absent],
                         ahead |-> FALSE]]

Existed(repo, q) == branches[repo, q] # NoBranch

\* The branch has commits of its own.
Ahead(repo, q) == branches[repo, q].ahead

\* A commit, of the same content too.
Put(repo, q, p) ==
    branches' = [branches EXCEPT ![<<repo, q>>].files[p] = files[p], ![<<repo, q>>].ahead = TRUE]

----------------------------------------------------------------------------
(* process_one.                                                            *)

\* The binding is read with the project and not again.
TakeProof(q) ==
    /\ verifier.at = "idle"
    /\ q \in queued
    /\ queued' = queued \ {q}
    /\ verifier' = [at |-> "verify", request |-> q, repo |-> binding, todo |-> written[q], put |-> {}]
    /\ Smooth
    /\ UNCHANGED <<binding, workspaceVars, proven, commitSha, remoteVars, prNumber, work, opener>>

\* run_verification over the workspace as it is: proven or not.
RunVerification ==
    LET q == verifier.request
        Keep(set) == [x \in set |-> IF x = q THEN files ELSE proven[x]]
    IN  /\ verifier.at = "verify"
        /\ \/ /\ proven' = Keep(DOMAIN proven \cup {q})
              /\ verifier' = [verifier EXCEPT !.at = IF verifier.repo = None THEN "advance" ELSE "branch"]
           \/ /\ proven' = Keep(DOMAIN proven \ {q})
              /\ verifier' = [verifier EXCEPT !.at = "advance"]
        /\ Smooth
        /\ UNCHANGED <<binding, workspaceVars, queued, commitSha, remoteVars, prNumber, work, opener>>

(* Mutant: a branch that is there has the work already.                     *)
CommitBranchOnce ==
    /\ verifier.at = "branch"
    /\ EnsureRequestBranch(verifier.repo, verifier.request)
    /\ verifier' = [verifier EXCEPT !.at =
                        IF Existed(verifier.repo, verifier.request) THEN "advance" ELSE "put"]
    /\ Smooth
    /\ UNCHANGED <<binding, workspaceVars, queued, proven, commitSha, pulls, prNumber, work, opener>>

\* A CommitOpError is logged: the verdict stands.
CommitBranch ==
    /\ verifier.at = "branch"
    /\ \/ /\ EnsureRequestBranch(verifier.repo, verifier.request)
          /\ verifier' = [verifier EXCEPT !.at = "put"]
          /\ Smooth
       \/ /\ GithubFails
          /\ verifier' = [verifier EXCEPT !.at = "advance"]
          /\ UNCHANGED branches
    /\ UNCHANGED <<binding, workspaceVars, queued, proven, commitSha, pulls, prNumber, work, opener>>

\* One artifact file: read it now, look up its blob, put it.  A file that is
\* not there and a failed put are skipped; a rejected token ends the commit.
PutFile(p) ==
    /\ verifier.at = "put"
    /\ p \in verifier.todo
    /\ \/ /\ files[p] = Absent
          /\ verifier' = [verifier EXCEPT !.todo = @ \ {p}]
          /\ Smooth
          /\ UNCHANGED branches
       \/ /\ files[p] # Absent
          /\ Existed(verifier.repo, verifier.request)
          /\ Put(verifier.repo, verifier.request, p)
          /\ verifier' = [verifier EXCEPT !.todo = @ \ {p}, !.put = @ \cup {p}]
          /\ Smooth
       \/ /\ files[p] # Absent
          /\ IF Existed(verifier.repo, verifier.request) THEN GithubFails ELSE Smooth
          /\ verifier' = [verifier EXCEPT !.todo = @ \ {p}]
          /\ UNCHANGED branches
       \/ /\ files[p] # Absent
          /\ GithubFails
          /\ verifier' = [verifier EXCEPT !.at = "advance"]
          /\ UNCHANGED branches
    /\ UNCHANGED <<binding, workspaceVars, queued, proven, commitSha, pulls, prNumber, work, opener>>

\* The last commit's SHA goes on the Deliverable if one file landed.
CommitDone ==
    /\ verifier.at = "put"
    /\ verifier.todo = {}
    /\ commitSha' = IF verifier.put # {} THEN commitSha \cup {verifier.request} ELSE commitSha
    /\ verifier' = [verifier EXCEPT !.at = "advance"]
    /\ Smooth
    /\ UNCHANGED <<binding, workspaceVars, queued, proven, remoteVars, prNumber, work, opener>>

\* A Request with verified proof ships; the hook opens its pull request.
AdvanceRequestAfterProof ==
    /\ verifier.at = "advance"
    /\ IF verifier.request \in DOMAIN proven /\ verifier.repo # None
       THEN /\ verifier' = [verifier EXCEPT !.at = "pr"]
            /\ opener' = [opener EXCEPT !["hook"] =
                             [at |-> "branch", request |-> verifier.request, repo |-> verifier.repo]]
       ELSE /\ verifier' = VerifierIdle
            /\ UNCHANGED opener
    /\ Smooth
    /\ UNCHANGED <<binding, workspaceVars, queued, proven, commitSha, remoteVars, prNumber, work>>

HookReturned ==
    /\ verifier.at = "pr"
    /\ opener["hook"].at = "idle"
    /\ verifier' = VerifierIdle
    /\ Smooth
    /\ UNCHANGED <<binding, workspaceVars, queued, proven, commitSha, remoteVars, prNumber, work, opener>>

----------------------------------------------------------------------------
(* open_request_pr, by the hook and by POST /requests/{id}/pr.             *)

prFrame == <<binding, workspaceVars, queued, proven, commitSha, work, verifier>>

OpenPrForRequest(q) ==
    /\ opener["api"].at = "idle"
    /\ binding # None
    /\ Incident("api")
    /\ opener' = [opener EXCEPT !["api"] = [at |-> "branch", request |-> q, repo |-> binding]]
    /\ UNCHANGED <<prFrame, remoteVars, prNumber>>

\* A branch that had to be created has nothing to open a pull request for.
PrBranch(o) ==
    LET repo == opener[o].repo
        q == opener[o].request
    IN  /\ opener[o].at = "branch"
        /\ \/ /\ EnsureRequestBranch(repo, q)
              /\ opener' = [opener EXCEPT ![o] = IF Existed(repo, q) THEN [@ EXCEPT !.at = "list"] ELSE OpenerIdle]
              /\ Smooth
           \/ /\ GithubFails
              /\ opener' = [opener EXCEPT ![o] = OpenerIdle]
              /\ UNCHANGED branches
        /\ UNCHANGED <<prFrame, pulls, prNumber>>

(* Mutant: GitHub is asked for the open pull requests.                      *)
ListedOpenPulls(repo, q) == pulls[repo, q].open

\* Pull requests of the branch in any state.
ListedPulls(repo, q) == pulls[repo, q].open + pulls[repo, q].closed

PrList(o) ==
    /\ opener[o].at = "list"
    /\ \/ /\ opener' = [opener EXCEPT ![o].at =
                IF ListedPulls(opener[o].repo, opener[o].request) > 0 THEN "update" ELSE "create"]
          /\ Smooth
       \/ GithubFails /\ opener' = [opener EXCEPT ![o] = OpenerIdle]
    /\ UNCHANGED <<prFrame, remoteVars, prNumber>>

\* A stale body is a soft failure, a rejected token is not.
PrUpdate(o) ==
    /\ opener[o].at = "update"
    /\ \/ opener' = [opener EXCEPT ![o].at = "record"] /\ Smooth
       \/ GithubFails /\ opener' = [opener EXCEPT ![o] = OpenerIdle]
    /\ UNCHANGED <<prFrame, remoteVars, prNumber>>

\* GitHub refuses a second open pull request of a branch, and one without
\* commits.  A call that fails may have had its effect.
PrCreate(o) ==
    LET repo == opener[o].repo
        q == opener[o].request
        opened == [pulls EXCEPT ![<<repo, q>>].open = 1]
        refused == pulls[repo, q].open > 0 \/ ~Ahead(repo, q)
    IN  /\ opener[o].at = "create"
        /\ \/ ~refused /\ pulls' = opened /\ Smooth /\ opener' = [opener EXCEPT ![o].at = "record"]
           \/ ~refused /\ pulls' \in {pulls, opened} /\ GithubFails /\ opener' = [opener EXCEPT ![o] = OpenerIdle]
           \/ refused /\ pulls' = pulls /\ Smooth /\ opener' = [opener EXCEPT ![o] = OpenerIdle]
        /\ UNCHANGED <<prFrame, branches, prNumber>>

PrRecord(o) ==
    /\ opener[o].at = "record"
    /\ prNumber' = [prNumber EXCEPT ![opener[o].request] = opener[o].repo]
    /\ opener' = [opener EXCEPT ![o] = OpenerIdle]
    /\ Smooth
    /\ UNCHANGED <<prFrame, remoteVars>>

----------------------------------------------------------------------------
(* Interventions.                                                          *)

VerifyDeliverable(q) ==
    /\ written[q] # {} /\ q \notin queued
    /\ Incident("reverify")
    /\ queued' = queued \cup {q}
    /\ UNCHANGED <<binding, workspaceVars, proven, commitSha, remoteVars, prNumber, work, verifier, opener>>

\* POST /requests/{id}/branch.
EnsureBranchForRequest(q) ==
    /\ binding # None
    /\ Incident("branch")
    /\ EnsureRequestBranch(binding, q)
    /\ UNCHANGED <<prFrame, pulls, prNumber, opener>>

\* The founder merges or closes on GitHub; the branch may go with it.
ClosePull(repo, q) ==
    /\ pulls[repo, q].open > 0
    /\ Incident("close")
    /\ pulls' = [pulls EXCEPT ![<<repo, q>>] = [open |-> 0, closed |-> @.closed + 1]]
    /\ branches' \in {branches, [branches EXCEPT ![<<repo, q>>] = NoBranch]}
    /\ UNCHANGED <<prFrame, prNumber, opener>>

\* What was in the hands of a worker is gone; what is committed stays.
CrashOutsideMerge ==
    /\ Incident("crash")
    /\ work' = [at |-> "idle", request |-> None]
    /\ verifier' = VerifierIdle
    /\ opener' = [o \in Openers |-> OpenerIdle]
    /\ UNCHANGED <<binding, workspaceVars, queued, proven, commitSha, remoteVars, prNumber>>

----------------------------------------------------------------------------

Verifying ==
    \/ RunVerification \/ CommitBranch \/ CommitDone \/ AdvanceRequestAfterProof
    \/ HookReturned \/ \E p \in Paths : PutFile(p)

OpeningPr(o) == PrBranch(o) \/ PrList(o) \/ PrUpdate(o) \/ PrCreate(o) \/ PrRecord(o)

Working ==
    \/ EnsureRepoCloned
    \/ \E paths \in (SUBSET Paths) \ {{}} : \E removed \in SUBSET (Paths \ paths) : Write(paths, removed)

Interventions ==
    \/ DeleteRepoConfig \/ CrashOutsideMerge \/ CrashInMerge
    \/ \E r \in Repos : UpsertRepoConfig(r)
    \/ \E q \in Requests :
          \/ OpenPrForRequest(q) \/ VerifyDeliverable(q) \/ EnsureBranchForRequest(q)
          \/ \E r \in Repos : ClosePull(r, q)

DeliveryNext ==
    \/ \E q \in Requests : StartWork(q) \/ TakeProof(q)
    \/ Working \/ Verifying \/ Interventions
    \/ \E o \in Openers : OpeningPr(o)

DeliverySpec == DeliveryInit /\ [][DeliveryNext]_deliveryVars

----------------------------------------------------------------------------
(* Properties.                                                             *)

\* However often a Request ships, is retried, loses an answer or crashes
\* between the call and its record, its branch has one pull request: the look
\* at the list comes before every creation and counts the closed ones.  (A pull
\* request that is closed between the look of one caller and the creation of
\* the other is the exception.)
OnePullRequest ==
    \A b \in Repos \X Requests :
        pulls[b].open + pulls[b].closed <= 1 \/ {"api", "close"} \subseteq incidents

\* Without a failure and with the binding left alone, a verified Deliverable of
\* a bound project is on its request's branch as a whole before its Request
\* ships, whatever the other requests write in the shared workspace.
VerifiedIsCommitted ==
    (incidents \subseteq {"api", "branch", "reverify"} /\ binding # None) =>
        \A q \in DOMAIN proven :
            (q = verifier.request => verifier.at \in {"advance", "pr"}) =>
                /\ q \in commitSha
                /\ \A p \in written[q] : branches[binding, q].files[p] \in Requests

=============================================================================
