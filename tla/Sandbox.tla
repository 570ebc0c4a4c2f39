------------------------------ MODULE Sandbox ------------------------------
(***************************************************************************)
(* The per-project sandbox containers: DockerSandboxManager over the DinD   *)
(* daemon, its two callers (the RequestWorker's dispatch and the            *)
(* VerifierWorker, `Users` here) and the reaper loop of the process.        *)
(*                                                                         *)
(* The manager runs on one asyncio loop: a step goes from one await to the  *)
(* next.  An asyncio.Lock that is free is taken without a suspension, so a  *)
(* step that ends at a free lock takes it.                                  *)
(***************************************************************************)
EXTENDS Integers, FiniteSets

CONSTANTS
    Projects,        \* projects with a workspace
    Users,           \* the tasks that acquire sandboxes
    MaxConcurrent,   \* settings.sandbox_max_concurrent
    Mishaps,         \* the kinds of failure of docker and of the process
    MaxMishaps       \* bound: how many kinds happen, each once

ASSUME MaxConcurrentAssumption == MaxConcurrent \in Nat \ {0}
ASSUME MaxMishapsAssumption == MaxMishaps \in Nat

Reaper == "reaper"
NoOne == "no_one"
NoProject == "no_project"
Actors == Users \cup {Reaper}

ASSUME UsersAssumption == IsFiniteSet(Users) /\ Reaper \notin Users /\ NoOne \notin Users
ASSUME ProjectsAssumption == IsFiniteSet(Projects) /\ NoProject \notin Projects

VARIABLES
    docker,    \* what the daemon runs under the project's container name
    entry,     \* _containers: absent, or how long ago it was last acquired
    held,      \* _held: the projects that own a permit
    permits,   \* the semaphore's free permits
    lock,      \* _locks: the actor inside a project's critical section
    task,      \* where each actor is, and for which project
    sweep,     \* projects the reaper has collected and not yet released
    mishaps    \* the kinds of failure so far

sandboxVars == <<docker, entry, held, permits, lock, task, sweep, mishaps>>

ContainerStates == {"absent", "running", "dead"}
EntryAges == {"none", "fresh", "idle"}
Places == {"idle", "lock", "inspect", "rm", "dind", "orphan", "permit", "run",
           "using", "host", "sweeping"}

SandboxTypeOK ==
    /\ docker \in [Projects -> ContainerStates]
    /\ entry \in [Projects -> EntryAges]
    /\ held \in SUBSET Projects
    /\ permits \in 0 .. MaxConcurrent
    /\ lock \in [Projects -> Actors \cup {NoOne}]
    /\ task \in [Actors -> [at : Places, project : Projects \cup {NoProject}]]
    /\ sweep \in SUBSET Projects
    /\ mishaps \in SUBSET Mishaps

----------------------------------------------------------------------------

At(a, place) == task[a].at = place
Of(a) == task[a].project

Go(a, place) == [task EXCEPT ![a].at = place]
GoFor(a, place, p) == [task EXCEPT ![a] = [at |-> place, project |-> p]]

\* A failure of kind `kind`, which the instance allows.
Mishap(kind) ==
    /\ kind \in Mishaps \ mishaps
    /\ Cardinality(mishaps) < MaxMishaps
    /\ mishaps' = mishaps \cup {kind}

Fine == UNCHANGED mishaps

\* A lock nobody has and nobody waits for: a waiter is never overtaken.
Free(p) == lock[p] = NoOne /\ \A a \in Actors : ~(At(a, "lock") /\ Of(a) = p)

(* Mutant: a second teardown returns the permit again.                      *)
ReturnPermitAgain(p) ==
    /\ held' = held \ {p}
    /\ permits' = permits + 1

\* A project gives its permit back at most once.
ReturnPermit(p) ==
    /\ held' = held \ {p}
    /\ permits' = IF p \in held THEN permits + 1 ELSE permits

SandboxInit ==
    /\ docker = [p \in Projects |-> "absent"]
    /\ entry = [p \in Projects |-> "none"]
    /\ held = {}
    /\ permits = MaxConcurrent
    /\ lock = [p \in Projects |-> NoOne]
    /\ task = [a \in Actors |-> [at |-> "idle", project |-> NoProject]]
    /\ sweep = {}
    /\ mishaps = {}

(* Mutant: every acquire creates.                                           *)
EnteredAnew(u, p) ==
    /\ lock' = [lock EXCEPT ![p] = u]
    /\ task' = GoFor(u, "dind", p)
    /\ UNCHANGED <<docker, entry, held, permits, sweep>>

\* acquire(), the lock in hand: reuse what is registered or create.
Entered(u, p) ==
    /\ lock' = [lock EXCEPT ![p] = u]
    /\ task' = GoFor(u, IF entry[p] = "none" THEN "dind" ELSE "inspect", p)
    /\ UNCHANGED <<docker, entry, held, permits, sweep>>

\* A dispatch or a verification asks for its project's sandbox.
Acquire(u, p) ==
    /\ At(u, "idle")
    /\ Fine
    /\ \/ /\ Free(p)
          /\ Entered(u, p)
       \/ /\ ~Free(p)
          /\ task' = GoFor(u, "lock", p)
          /\ UNCHANGED <<docker, entry, held, permits, lock, sweep>>

LockAcquired(u) ==
    /\ At(u, "lock")
    /\ lock[Of(u)] = NoOne
    /\ Fine
    /\ Entered(u, Of(u))

\* The caller leaves the critical section with a session, or without one and
\* then works on the host.
Leave(u, place) ==
    /\ lock' = [lock EXCEPT ![Of(u)] = NoOne]
    /\ task' = Go(u, place)

Reuse(u) ==
    /\ At(u, "inspect")
    /\ docker[Of(u)] = "running"
    /\ entry' = [entry EXCEPT ![Of(u)] = "fresh"]
    /\ Leave(u, "using")
    /\ Fine
    /\ UNCHANGED <<docker, held, permits, sweep>>

\* The container has died, or `docker inspect` times out on a live one: the
\* entry is popped before docker is asked to remove the container.
DropStale(u) ==
    /\ At(u, "inspect")
    /\ \/ docker[Of(u)] # "running" /\ Fine
       \/ Mishap("timeout")
    /\ entry' = [entry EXCEPT ![Of(u)] = "none"]
    /\ task' = Go(u, "rm")
    /\ UNCHANGED <<docker, held, permits, lock, sweep>>

----------------------------------------------------------------------------
(* The reaper: collect what is idle, then release it one by one.           *)

Sweep ==
    /\ At(Reaper, "idle")
    /\ \E p \in Projects : entry[p] = "idle"
    /\ sweep' = {p \in Projects : entry[p] = "idle"}
    /\ task' = Go(Reaper, "sweeping")
    /\ Fine
    /\ UNCHANGED <<docker, entry, held, permits, lock>>

(* Mutant: the permit goes back before docker is asked.                     *)
ReleaseEarly(p) ==
    /\ docker' = docker
    /\ ReturnPermit(p)
    /\ \/ /\ entry[p] # "none"
          /\ entry' = [entry EXCEPT ![p] = "none"]
          /\ lock' = [lock EXCEPT ![p] = Reaper]
          /\ task' = GoFor(Reaper, "rm", p)
       \/ /\ entry[p] = "none"
          /\ task' = GoFor(Reaper, "sweeping", NoProject)
          /\ UNCHANGED <<entry, lock>>

\* _teardown() up to its await, the lock in hand: the entry is popped without a
\* second look at its age; with no entry only a permit that is still held is
\* given back.
Release(p) ==
    /\ docker' = docker
    /\ \/ /\ entry[p] # "none"
          /\ entry' = [entry EXCEPT ![p] = "none"]
          /\ lock' = [lock EXCEPT ![p] = Reaper]
          /\ task' = GoFor(Reaper, "rm", p)
          /\ UNCHANGED <<held, permits>>
       \/ /\ entry[p] = "none"
          /\ ReturnPermit(p)
          /\ task' = GoFor(Reaper, "sweeping", NoProject)
          /\ UNCHANGED <<entry, lock>>

\* release() of the next collected project, which waits if somebody is inside.
ReapNext ==
    /\ At(Reaper, "sweeping")
    /\ \E p \in sweep :
          /\ sweep' = sweep \ {p}
          /\ \/ Free(p) /\ Release(p)
             \/ /\ ~Free(p)
                /\ task' = GoFor(Reaper, "lock", p)
                /\ UNCHANGED <<docker, entry, held, permits, lock>>
    /\ Fine

SweepDone ==
    /\ At(Reaper, "sweeping")
    /\ sweep = {}
    /\ task' = GoFor(Reaper, "idle", NoProject)
    /\ Fine
    /\ UNCHANGED <<docker, entry, held, permits, lock, sweep>>

ReapLocked ==
    /\ At(Reaper, "lock")
    /\ lock[Of(Reaper)] = NoOne
    /\ Release(Of(Reaper))
    /\ Fine
    /\ UNCHANGED sweep

----------------------------------------------------------------------------
(* docker rm -f of a teardown, and what follows it without an await.       *)

\* The daemon has removed the container; or the command timed out, its exit
\* code is not looked at, and the container is still there.
Torn(p) ==
    \/ docker' = [docker EXCEPT ![p] = "absent"] /\ Fine
    \/ docker' = docker /\ Mishap("timeout")

TearDownStale(u) ==
    /\ At(u, "rm")
    /\ Torn(Of(u))
    /\ ReturnPermit(Of(u))
    /\ task' = Go(u, "dind")
    /\ UNCHANGED <<entry, lock, sweep>>

(* Mutant: the reaper keeps the permit.                                     *)
TearDownIdleKeeping ==
    /\ At(Reaper, "rm")
    /\ Torn(Of(Reaper))
    /\ lock' = [lock EXCEPT ![Of(Reaper)] = NoOne]
    /\ task' = Go(Reaper, "sweeping")
    /\ UNCHANGED <<entry, held, permits, sweep>>

TearDownIdle ==
    /\ At(Reaper, "rm")
    /\ Torn(Of(Reaper))
    /\ ReturnPermit(Of(Reaper))
    /\ lock' = [lock EXCEPT ![Of(Reaper)] = NoOne]
    /\ task' = Go(Reaper, "sweeping")
    /\ UNCHANGED <<entry, sweep>>

\* The docker command could not even be started: the error leaves _teardown
\* with the entry gone and the permit still held.
TearDownRaised(a) ==
    /\ At(a, "rm")
    /\ Mishap("spawn")
    /\ Leave(a, "idle")
    /\ sweep' = IF a = Reaper THEN {} ELSE sweep
    /\ UNCHANGED <<docker, entry, held, permits>>

----------------------------------------------------------------------------
(* _create.                                                                *)

DindReady(u) ==
    /\ At(u, "dind")
    /\ task' = Go(u, "orphan")
    /\ Fine
    /\ UNCHANGED <<docker, entry, held, permits, lock, sweep>>

\* No answer within the start-up timeout: SandboxUnavailable, which the caller
\* turns into the host path.
DindUnreachable(u) ==
    /\ At(u, "dind")
    /\ Mishap("timeout")
    /\ Leave(u, "host")
    /\ UNCHANGED <<docker, entry, held, permits, sweep>>

RemoveOrphan(u) ==
    /\ At(u, "orphan")
    /\ Torn(Of(u))
    /\ task' = Go(u, "permit")
    /\ UNCHANGED <<entry, held, permits, lock, sweep>>

TakePermit(u) ==
    /\ At(u, "permit")
    /\ permits > 0
    /\ permits' = permits - 1
    /\ task' = Go(u, "run")
    /\ Fine
    /\ UNCHANGED <<docker, entry, held, lock, sweep>>

Created(u) ==
    /\ At(u, "run")
    /\ docker[Of(u)] = "absent"
    /\ docker' = [docker EXCEPT ![Of(u)] = "running"]
    /\ entry' = [entry EXCEPT ![Of(u)] = "fresh"]
    /\ held' = held \cup {Of(u)}
    /\ Leave(u, "using")
    /\ Fine
    /\ UNCHANGED <<permits, sweep>>

(* Mutant: a creation that fails keeps its permit.                          *)
CreateFailedKeeping(u) ==
    /\ At(u, "run")
    /\ docker' = docker
    /\ docker[Of(u)] = "absent" => Mishap("timeout")
    /\ docker[Of(u)] # "absent" => Fine
    /\ Leave(u, "host")
    /\ UNCHANGED <<entry, held, permits, sweep>>

\* A name that is still taken, an error of the daemon, or a timeout after
\* which the daemon may have started the container all the same.
CreateFailed(u) ==
    /\ At(u, "run")
    /\ \/ docker[Of(u)] # "absent" /\ docker' = docker /\ Fine
       \/ docker' = docker /\ Mishap("timeout")
       \/ /\ docker[Of(u)] = "absent"
          /\ docker' = [docker EXCEPT ![Of(u)] = "running"]
          /\ Mishap("timeout")
    /\ permits' = permits + 1
    /\ Leave(u, "host")
    /\ UNCHANGED <<entry, held, sweep>>

\* A docker command that cannot be started raises out of acquire(); only the
\* one that creates gives its permit back on the way.
AcquireRaised(u) ==
    /\ task[u].at \in {"inspect", "dind", "orphan", "run"}
    /\ Mishap("spawn")
    /\ permits' = IF At(u, "run") THEN permits + 1 ELSE permits
    /\ Leave(u, "idle")
    /\ UNCHANGED <<docker, entry, held, sweep>>

----------------------------------------------------------------------------
(* Use, age and failure.                                                   *)

\* The dispatch or the verification is over; nothing is handed back.
Finish(u) ==
    /\ task[u].at \in {"using", "host"}
    /\ task' = GoFor(u, "idle", NoProject)
    /\ Fine
    /\ UNCHANGED <<docker, entry, held, permits, lock, sweep>>

\* idle_reap_seconds have passed since the last acquire, used or not.
Age(p) ==
    /\ entry[p] = "fresh"
    /\ entry' = [entry EXCEPT ![p] = "idle"]
    /\ Fine
    /\ UNCHANGED <<docker, held, permits, lock, task, sweep>>

\* The container is killed (its memory limit, a restart of the daemon).
Die(p) ==
    /\ docker[p] = "running"
    /\ Mishap("death")
    /\ docker' = [docker EXCEPT ![p] = "dead"]
    /\ UNCHANGED <<entry, held, permits, lock, task, sweep>>

\* The process restarts with nothing registered and every permit free; the
\* daemon keeps its containers.
Restart ==
    /\ Mishap("restart")
    /\ entry' = [p \in Projects |-> "none"]
    /\ held' = {}
    /\ permits' = MaxConcurrent
    /\ lock' = [p \in Projects |-> NoOne]
    /\ task' = [a \in Actors |-> [at |-> "idle", project |-> NoProject]]
    /\ sweep' = {}
    /\ UNCHANGED docker

----------------------------------------------------------------------------

Acquiring(u) ==
    \/ LockAcquired(u) \/ Reuse(u) \/ DropStale(u) \/ TearDownStale(u)
    \/ DindReady(u) \/ DindUnreachable(u) \/ RemoveOrphan(u) \/ TakePermit(u)
    \/ Created(u) \/ CreateFailed(u) \/ AcquireRaised(u) \/ TearDownRaised(u)

Reaping ==
    Sweep \/ ReapNext \/ SweepDone \/ ReapLocked \/ TearDownIdle \/ TearDownRaised(Reaper)

SandboxNext ==
    \/ \E u \in Users : Acquiring(u) \/ Finish(u) \/ \E p \in Projects : Acquire(u, p)
    \/ Reaping
    \/ \E p \in Projects : Age(p) \/ Die(p)
    \/ Restart

SandboxSpec == SandboxInit /\ [][SandboxNext]_sandboxVars

\* Every task is scheduled again after its await, the reaper's timer fires and
\* time passes.  Locks and the semaphore queue their waiters first come first
\* served, so one that is free again and again is got: strong fairness.
SandboxFairness ==
    /\ \A u \in Users : /\ WF_sandboxVars(Acquiring(u)) /\ WF_sandboxVars(Finish(u))
                         /\ SF_sandboxVars(LockAcquired(u)) /\ SF_sandboxVars(TakePermit(u))
    /\ WF_sandboxVars(Reaping) /\ SF_sandboxVars(ReapLocked)
    /\ \A p \in Projects : WF_sandboxVars(Age(p))

SandboxFairSpec == SandboxSpec /\ SandboxFairness

----------------------------------------------------------------------------
(* Properties.                                                             *)

\* Every permit is free, owned by one project, or in the hands of one creation
\* that is running: a failed creation, a repeated teardown, a dead container or
\* a timeout neither lose nor mint one.  Only a teardown whose docker command
\* cannot be started loses one, to the next sandbox of the same project.
PermitsAccounted ==
    LET accounted == permits + Cardinality(held) + Cardinality({u \in Users : At(u, "run")})
    IN  /\ accounted <= MaxConcurrent
        /\ "spawn" \notin mishaps => accounted = MaxConcurrent

\* The docstring of the manager: the permits bound the live containers.  True
\* while docker answers and the process lives.
LiveBounded ==
    mishaps \cap {"timeout", "restart"} = {} =>
        Cardinality({p \in Projects : docker[p] = "running"}) <= MaxConcurrent

\* A container that a task works in goes away by the reaper's hand or by a
\* failure, never because another task asks for the same project's sandbox.
OnlyReaperTearsDownInUse ==
    [][\A u \in Users :
          (/\ At(u, "using") /\ docker[Of(u)] = "running" /\ docker'[Of(u)] # "running")
          => TearDownIdle \/ Die(Of(u)) \/ mishaps' \cap {"timeout", "spawn"} # {}]_sandboxVars

\* Nobody asks for a sandbox any more.
QuietAtLast == <>[][\A u \in Users : At(u, "idle") => At(u, "idle")']_sandboxVars

\* Every acquire comes to an end, with a session or on the host, however many
\* projects share the permits: whoever waits for a permit is served when the
\* reaper has taken an idle sandbox.  Sandboxes that are asked for again and
\* again never become idle, and the wait may last as long as that does.
AcquireSettles ==
    QuietAtLast =>
    \A u \in Users :
        (task[u].at \notin {"idle", "using", "host"})
        ~> (task[u].at \in {"idle", "using", "host"} \/ mishaps # {})

\* The docstring of the reaper loop: driven by it, idle sandboxes do not
\* accumulate.  A sandbox that has become idle is taken down or used again.
IdleIsReaped ==
    \A p \in Projects : entry[p] = "idle" ~> entry[p] # "idle"

=============================================================================
