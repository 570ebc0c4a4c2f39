---------------------------- MODULE SandboxProofs ----------------------------
(***************************************************************************)
(* The permits of the sandbox manager, for any number of projects, tasks     *)
(* and permits.  The argument is in four steps.  A task between two awaits   *)
(* of its project's critical section owns the project's lock (Inside), so    *)
(* what it has seen of the project stays true until it leaves (Creating).    *)
(* A project that owns a permit is then registered or being torn down, and a *)
(* creation never meets a permit of its own project (HeldIsKnown): each step *)
(* moves one permit from one place to another (Accounted).  While docker     *)
(* answers and the process lives, what runs owns a permit (RunningIsHeld).   *)
(***************************************************************************)
EXTENDS Sandbox, FiniteSetTheorems, TLAPS

TaskRecords == [at : Places, project : Projects \cup {NoProject}]

SandboxTypes ==
    /\ docker \in [Projects -> ContainerStates]
    /\ entry \in [Projects -> EntryAges]
    /\ held \in SUBSET Projects
    /\ permits \in Nat
    /\ lock \in [Projects -> Actors \cup {NoOne}]
    /\ task \in [Actors -> TaskRecords]
    /\ sweep \in SUBSET Projects
    /\ mishaps \in SUBSET Mishaps

Critical == {"inspect", "rm", "dind", "orphan", "permit", "run"}

\* Whoever is in a project's critical section owns its lock.
Inside ==
    \A a \in Actors :
        /\ task[a].at \in Critical \cup {"lock"} => task[a].project \in Projects
        /\ task[a].at \in Critical => lock[task[a].project] = a
        /\ task[a].at = "sweeping" => a = Reaper

\* What is being torn down or created is not registered.
Creating ==
    \A a \in Actors :
        task[a].at \in Critical \ {"inspect"} => entry[task[a].project] = "none"

\* A permit's project is registered or being torn down.
HeldIsKnown ==
    "spawn" \notin mishaps =>
        \A p \in held : \/ entry[p] # "none"
                        \/ \E a \in Actors : task[a].at = "rm" /\ task[a].project = p

InCreation == {u \in Users : task[u].at = "run"}

Sum == permits + Cardinality(held) + Cardinality(InCreation)

Accounted ==
    /\ Sum <= MaxConcurrent
    /\ "spawn" \notin mishaps => Sum = MaxConcurrent

ReaperOwes(p) == p \in sweep \/ (task[Reaper].at = "lock" /\ task[Reaper].project = p)

\* What the reaper has collected and somebody else has dropped does not run.
RunningIsHeld ==
    /\ task[Reaper].at \in {"lock", "rm"} => task[Reaper].project \notin sweep
    /\ mishaps \cap {"timeout", "restart"} = {} =>
          \A p \in Projects : docker[p] = "running" =>
              p \in held /\ (ReaperOwes(p) => entry[p] # "none")

SandboxInv ==
    /\ SandboxTypes
    /\ Inside
    /\ Creating
    /\ HeldIsKnown
    /\ Accounted
    /\ RunningIsHeld

----------------------------------------------------------------------------

\* Actor a, and nobody else, goes to a place, for project p.
Moves(a, place, p) ==
    /\ task' \in [Actors -> TaskRecords]
    /\ task'[a].at = place /\ task'[a].project = p
    /\ \A b \in Actors \ {a} : task'[b] = task[b]

LEMMA GoMoves ==
    ASSUME task \in [Actors -> TaskRecords], NEW a \in Actors, NEW place \in Places,
           task' = Go(a, place)
    PROVE  Moves(a, place, task[a].project)
BY DEF Go, TaskRecords, Moves

LEMMA GoForMoves ==
    ASSUME task \in [Actors -> TaskRecords], NEW a \in Actors, NEW place \in Places,
           NEW p \in Projects \cup {NoProject}, task' = GoFor(a, place, p)
    PROVE  Moves(a, place, p)
BY DEF GoFor, TaskRecords, Moves

----------------------------------------------------------------------------
\* Who is creating a sandbox after a move.
LEMMA MovesInCreation ==
    ASSUME NEW a \in Actors, NEW place, NEW p, Moves(a, place, p)
    PROVE  InCreation' = IF place = "run" /\ a \in Users THEN InCreation \cup {a} ELSE InCreation \ {a}
BY DEF InCreation, Moves, Actors

LEMMA Counted ==
    ASSUME NEW S, IsFiniteSet(S), NEW x
    PROVE  /\ Cardinality(S) \in Nat
           /\ Cardinality(S \cup {x}) = IF x \in S THEN Cardinality(S) ELSE Cardinality(S) + 1
           /\ Cardinality(S \ {x}) = IF x \in S THEN Cardinality(S) - 1 ELSE Cardinality(S)
BY FS_AddElement, FS_RemoveElement, FS_CardinalityType

LEMMA Counts ==
    ASSUME SandboxTypes, NEW a, NEW p
    PROVE  /\ Cardinality(held) \in Nat /\ Cardinality(InCreation) \in Nat
           /\ Cardinality(held \cup {p}) =
                 IF p \in held THEN Cardinality(held) ELSE Cardinality(held) + 1
           /\ Cardinality(held \ {p}) =
                 IF p \in held THEN Cardinality(held) - 1 ELSE Cardinality(held)
           /\ Cardinality(InCreation \cup {a}) =
                 IF a \in InCreation THEN Cardinality(InCreation) ELSE Cardinality(InCreation) + 1
           /\ Cardinality(InCreation \ {a}) =
                 IF a \in InCreation THEN Cardinality(InCreation) - 1 ELSE Cardinality(InCreation)
<1>1. IsFiniteSet(held)
  BY ProjectsAssumption, FS_Subset DEF SandboxTypes
<1>2. IsFiniteSet(InCreation)
  BY UsersAssumption, FS_Subset DEF InCreation
<1> QED  BY <1>1, <1>2, Counted

LEMMA SumKept ==
    ASSUME Accounted, Sum' = Sum, mishaps \subseteq mishaps'
    PROVE  Accounted'
BY DEF Accounted

----------------------------------------------------------------------------

\* acquire(), the lock in hand.
LEMMA EnteredInv ==
    ASSUME SandboxInv, NEW u \in Users, NEW p \in Projects, lock[p] = NoOne,
           task[u].at \in {"idle", "lock"}, Entered(u, p), Fine
    PROVE  SandboxInv'
<1> USE UsersAssumption DEF SandboxInv
<1>1. u \in Actors /\ (IF entry[p] = "none" THEN "dind" ELSE "inspect") \in Places /\ (u \in Users \/ u = Reaper)
  BY DEF Actors, Places
<1>2. Moves(u, (IF entry[p] = "none" THEN "dind" ELSE "inspect"), p)
  BY <1>1, GoForMoves DEF Entered, SandboxTypes
<1>3. /\ UNCHANGED <<docker, entry, held, permits, sweep, mishaps>>
      /\ lock' = [lock EXCEPT ![p] = u]
  BY <1>1 DEF Entered, Fine, At, Of, Inside, Critical
<1>4. SandboxTypes'
  BY <1>1, <1>2, <1>3, MaxConcurrentAssumption DEF Moves, SandboxTypes, ContainerStates, EntryAges
<1>5. Inside'
  BY <1>1, <1>2, <1>3 DEF Moves, Inside, Critical, SandboxTypes, Actors, NoOne, Reaper
<1>6. Creating'
  BY <1>1, <1>2, <1>3 DEF Moves, Creating, Inside, Critical, SandboxTypes
<1>7. HeldIsKnown'
  BY <1>1, <1>2, <1>3 DEF Moves, HeldIsKnown, Creating, Inside, Critical, SandboxTypes
<1>8. RunningIsHeld'
  BY <1>1, <1>2, <1>3 DEF Moves, RunningIsHeld, ReaperOwes, Creating, Inside, Critical, Actors, SandboxTypes
<1>9. Accounted'
  <2>1. InCreation' = InCreation
    BY <1>1, <1>2, <1>3, MovesInCreation DEF InCreation
  <2>2. Sum' = Sum
    BY <2>1, <1>3 DEF Sum
  <2> QED  BY <2>2, <1>3, SumKept
<1> QED  BY <1>4, <1>5, <1>6, <1>7, <1>8, <1>9

\* Whoever finds the lock taken waits for it.
LEMMA WaitsInv ==
    ASSUME SandboxInv, NEW a \in Actors, NEW p \in Projects, task[a].at \in {"idle", "sweeping"},
           task' = GoFor(a, "lock", p), UNCHANGED <<docker, entry, held, permits, lock, mishaps>>,
           sweep' = IF a = Reaper THEN sweep \ {p} ELSE sweep, a = Reaper => p \in sweep
    PROVE  SandboxInv'
<1> USE UsersAssumption DEF SandboxInv
<1>1. a \in Actors /\ "lock" \in Places /\ (a \in Users \/ a = Reaper)
  BY DEF Actors, Places
<1>2. Moves(a, "lock", p)
  BY <1>1, GoForMoves DEF SandboxTypes
<1>3. /\ UNCHANGED <<docker, entry, held, permits, lock, mishaps>>
      /\ sweep' = IF a = Reaper THEN sweep \ {p} ELSE sweep
  BY <1>1 DEF SandboxTypes, At, Of, Inside, Critical
<1>4. SandboxTypes'
  BY <1>1, <1>2, <1>3, MaxConcurrentAssumption DEF Moves, SandboxTypes, ContainerStates, EntryAges
<1>5. Inside'
  BY <1>1, <1>2, <1>3 DEF Moves, Inside, Critical, SandboxTypes
<1>6. Creating'
  BY <1>1, <1>2, <1>3 DEF Moves, Creating, Inside, Critical, SandboxTypes
<1>7. HeldIsKnown'
  BY <1>1, <1>2, <1>3 DEF Moves, HeldIsKnown, Creating, Inside, Critical, SandboxTypes
<1>8. RunningIsHeld'
  BY <1>1, <1>2, <1>3 DEF Moves, RunningIsHeld, ReaperOwes, Creating, Inside, Critical, Actors, SandboxTypes
<1>9. Accounted'
  <2>1. InCreation' = InCreation
    BY <1>1, <1>2, <1>3, MovesInCreation DEF InCreation
  <2>2. Sum' = Sum
    BY <2>1, <1>3 DEF Sum
  <2> QED  BY <2>2, <1>3, SumKept
<1> QED  BY <1>4, <1>5, <1>6, <1>7, <1>8, <1>9

LEMMA ReuseInv ==
    ASSUME SandboxInv, NEW u \in Users, Reuse(u)
    PROVE  SandboxInv'
<1> USE UsersAssumption DEF SandboxInv
<1>1. u \in Actors /\ "using" \in Places /\ (u \in Users \/ u = Reaper)
  BY DEF Actors, Places
<1>2. Moves(u, "using", task[u].project)
  BY <1>1, GoMoves DEF Reuse, Leave, Fine, SandboxTypes
<1>3. /\ task[u].at = "inspect" /\ task[u].project \in Projects
      /\ UNCHANGED <<docker, held, permits, sweep, mishaps>>
      /\ entry' = [entry EXCEPT ![task[u].project] = "fresh"]
      /\ lock' = [lock EXCEPT ![task[u].project] = NoOne]
  BY <1>1 DEF Reuse, Leave, Fine, At, Of, Inside, Critical
<1>4. SandboxTypes'
  BY <1>1, <1>2, <1>3, MaxConcurrentAssumption DEF Moves, SandboxTypes, ContainerStates, EntryAges
<1>5. Inside'
  BY <1>1, <1>2, <1>3 DEF Moves, Inside, Critical, SandboxTypes
<1>6. Creating'
  BY <1>1, <1>2, <1>3 DEF Moves, Creating, Inside, Critical, SandboxTypes
<1>7. HeldIsKnown'
  BY <1>1, <1>2, <1>3 DEF Moves, HeldIsKnown, Creating, Inside, Critical, SandboxTypes
<1>8. RunningIsHeld'
  BY <1>1, <1>2, <1>3 DEF Moves, RunningIsHeld, ReaperOwes, Creating, Inside, Critical, Actors, SandboxTypes
<1>9. Accounted'
  <2>1. InCreation' = InCreation
    BY <1>1, <1>2, <1>3, MovesInCreation DEF InCreation
  <2>2. Sum' = Sum
    BY <2>1, <1>3 DEF Sum
  <2> QED  BY <2>2, <1>3, SumKept
<1> QED  BY <1>4, <1>5, <1>6, <1>7, <1>8, <1>9

LEMMA DropStaleInv ==
    ASSUME SandboxInv, NEW u \in Users, DropStale(u)
    PROVE  SandboxInv'
<1> USE UsersAssumption DEF SandboxInv
<1>1. u \in Actors /\ "rm" \in Places /\ (u \in Users \/ u = Reaper)
  BY DEF Actors, Places
<1>2. Moves(u, "rm", task[u].project)
  BY <1>1, GoMoves DEF DropStale, Mishap, Fine, SandboxTypes
<1>3. /\ task[u].at = "inspect" /\ task[u].project \in Projects
      /\ UNCHANGED <<docker, held, permits, lock, sweep>>
      /\ entry' = [entry EXCEPT ![task[u].project] = "none"]
      /\ \/ docker[task[u].project] # "running" /\ mishaps' = mishaps
         \/ "timeout" \in Mishaps /\ mishaps' = mishaps \cup {"timeout"}
  BY <1>1 DEF DropStale, Mishap, Fine, At, Of, Inside, Critical
<1>4. SandboxTypes'
  BY <1>1, <1>2, <1>3, MaxConcurrentAssumption DEF Moves, SandboxTypes, ContainerStates, EntryAges
<1>5. Inside'
  BY <1>1, <1>2, <1>3 DEF Moves, Inside, Critical, SandboxTypes
<1>6. Creating'
  BY <1>1, <1>2, <1>3 DEF Moves, Creating, Inside, Critical, SandboxTypes
<1>7. HeldIsKnown'
  BY <1>1, <1>2, <1>3 DEF Moves, HeldIsKnown, Creating, Inside, Critical, SandboxTypes
<1>8. RunningIsHeld'
  BY <1>1, <1>2, <1>3 DEF Moves, RunningIsHeld, ReaperOwes, Creating, Inside, Critical, Actors, SandboxTypes
<1>9. Accounted'
  <2>1. InCreation' = InCreation
    BY <1>1, <1>2, <1>3, MovesInCreation DEF InCreation
  <2>2. Sum' = Sum
    BY <2>1, <1>3 DEF Sum
  <2> QED  BY <2>2, <1>3, SumKept
<1> QED  BY <1>4, <1>5, <1>6, <1>7, <1>8, <1>9

LEMMA TearDownStaleInv ==
    ASSUME SandboxInv, NEW u \in Users, TearDownStale(u)
    PROVE  SandboxInv'
<1> USE UsersAssumption DEF SandboxInv
<1>1. u \in Actors /\ "dind" \in Places /\ (u \in Users \/ u = Reaper)
  BY DEF Actors, Places
<1>2. Moves(u, "dind", task[u].project)
  BY <1>1, GoMoves DEF TearDownStale, Torn, Mishap, Fine, ReturnPermit, SandboxTypes
<1>3. /\ task[u].at = "rm" /\ task[u].project \in Projects
      /\ UNCHANGED <<entry, lock, sweep>>
      /\ held' = held \ {task[u].project}
      /\ permits' = IF task[u].project \in held THEN permits + 1 ELSE permits
      /\ \/ docker' = [docker EXCEPT ![task[u].project] = "absent"] /\ mishaps' = mishaps
         \/ docker' = docker /\ "timeout" \in Mishaps /\ mishaps' = mishaps \cup {"timeout"}
  BY <1>1 DEF TearDownStale, Torn, Mishap, Fine, ReturnPermit, At, Of, Inside, Critical
<1>4. SandboxTypes'
  BY <1>1, <1>2, <1>3, MaxConcurrentAssumption DEF Moves, SandboxTypes, ContainerStates, EntryAges
<1>5. Inside'
  BY <1>1, <1>2, <1>3 DEF Moves, Inside, Critical, SandboxTypes
<1>6. Creating'
  BY <1>1, <1>2, <1>3 DEF Moves, Creating, Inside, Critical, SandboxTypes
<1>7. HeldIsKnown'
  BY <1>1, <1>2, <1>3 DEF Moves, HeldIsKnown, Creating, Inside, Critical, SandboxTypes
<1>8. RunningIsHeld'
  BY <1>1, <1>2, <1>3 DEF Moves, RunningIsHeld, ReaperOwes, Creating, Inside, Critical, Actors, SandboxTypes
<1>9. Accounted'
  <2>1. InCreation' = InCreation
    BY <1>1, <1>2, <1>3, MovesInCreation DEF InCreation
  <2>2. /\ permits \in Nat /\ Cardinality(held) \in Nat /\ Cardinality(InCreation) \in Nat
        /\ Cardinality(held') = IF task[u].project \in held THEN Cardinality(held) - 1 ELSE Cardinality(held)
        /\ Cardinality(InCreation') = Cardinality(InCreation)
    BY <2>1, <1>3, Counts DEF SandboxTypes
  <2>3. Sum' = Sum
    BY <2>2, <1>3 DEF Sum
  <2> QED  BY <2>3, <1>3, SumKept
<1> QED  BY <1>4, <1>5, <1>6, <1>7, <1>8, <1>9

LEMMA DindReadyInv ==
    ASSUME SandboxInv, NEW u \in Users, DindReady(u)
    PROVE  SandboxInv'
<1> USE UsersAssumption DEF SandboxInv
<1>1. u \in Actors /\ "orphan" \in Places /\ (u \in Users \/ u = Reaper)
  BY DEF Actors, Places
<1>2. Moves(u, "orphan", task[u].project)
  BY <1>1, GoMoves DEF DindReady, Fine, SandboxTypes
<1>3. /\ task[u].at = "dind" /\ task[u].project \in Projects
      /\ UNCHANGED <<docker, entry, held, permits, lock, sweep, mishaps>>
  BY <1>1 DEF DindReady, Fine, At, Of, Inside, Critical
<1>4. SandboxTypes'
  BY <1>1, <1>2, <1>3, MaxConcurrentAssumption DEF Moves, SandboxTypes, ContainerStates, EntryAges
<1>5. Inside'
  BY <1>1, <1>2, <1>3 DEF Moves, Inside, Critical, SandboxTypes
<1>6. Creating'
  BY <1>1, <1>2, <1>3 DEF Moves, Creating, Inside, Critical, SandboxTypes
<1>7. HeldIsKnown'
  BY <1>1, <1>2, <1>3 DEF Moves, HeldIsKnown, Creating, Inside, Critical, SandboxTypes
<1>8. RunningIsHeld'
  BY <1>1, <1>2, <1>3 DEF Moves, RunningIsHeld, ReaperOwes, Creating, Inside, Critical, Actors, SandboxTypes
<1>9. Accounted'
  <2>1. InCreation' = InCreation
    BY <1>1, <1>2, <1>3, MovesInCreation DEF InCreation
  <2>2. Sum' = Sum
    BY <2>1, <1>3 DEF Sum
  <2> QED  BY <2>2, <1>3, SumKept
<1> QED  BY <1>4, <1>5, <1>6, <1>7, <1>8, <1>9

LEMMA DindUnreachableInv ==
    ASSUME SandboxInv, NEW u \in Users, DindUnreachable(u)
    PROVE  SandboxInv'
<1> USE UsersAssumption DEF SandboxInv
<1>1. u \in Actors /\ "host" \in Places /\ (u \in Users \/ u = Reaper)
  BY DEF Actors, Places
<1>2. Moves(u, "host", task[u].project)
  BY <1>1, GoMoves DEF DindUnreachable, Mishap, Leave, SandboxTypes
<1>3. /\ task[u].at = "dind" /\ task[u].project \in Projects
      /\ UNCHANGED <<docker, entry, held, permits, sweep>>
      /\ lock' = [lock EXCEPT ![task[u].project] = NoOne]
      /\ "timeout" \in Mishaps /\ mishaps' = mishaps \cup {"timeout"}
  BY <1>1 DEF DindUnreachable, Mishap, Leave, At, Of, Inside, Critical
<1>4. SandboxTypes'
  BY <1>1, <1>2, <1>3, MaxConcurrentAssumption DEF Moves, SandboxTypes, ContainerStates, EntryAges
<1>5. Inside'
  BY <1>1, <1>2, <1>3 DEF Moves, Inside, Critical, SandboxTypes
<1>6. Creating'
  BY <1>1, <1>2, <1>3 DEF Moves, Creating, Inside, Critical, SandboxTypes
<1>7. HeldIsKnown'
  BY <1>1, <1>2, <1>3 DEF Moves, HeldIsKnown, Creating, Inside, Critical, SandboxTypes
<1>8. RunningIsHeld'
  BY <1>1, <1>2, <1>3 DEF Moves, RunningIsHeld, ReaperOwes, Creating, Inside, Critical, Actors, SandboxTypes
<1>9. Accounted'
  <2>1. InCreation' = InCreation
    BY <1>1, <1>2, <1>3, MovesInCreation DEF InCreation
  <2>2. Sum' = Sum
    BY <2>1, <1>3 DEF Sum
  <2> QED  BY <2>2, <1>3, SumKept
<1> QED  BY <1>4, <1>5, <1>6, <1>7, <1>8, <1>9

LEMMA RemoveOrphanInv ==
    ASSUME SandboxInv, NEW u \in Users, RemoveOrphan(u)
    PROVE  SandboxInv'
<1> USE UsersAssumption DEF SandboxInv
<1>1. u \in Actors /\ "permit" \in Places /\ (u \in Users \/ u = Reaper)
  BY DEF Actors, Places
<1>2. Moves(u, "permit", task[u].project)
  BY <1>1, GoMoves DEF RemoveOrphan, Torn, Mishap, Fine, SandboxTypes
<1>3. /\ task[u].at = "orphan" /\ task[u].project \in Projects
      /\ UNCHANGED <<entry, held, permits, lock, sweep>>
      /\ \/ docker' = [docker EXCEPT ![task[u].project] = "absent"] /\ mishaps' = mishaps
         \/ docker' = docker /\ "timeout" \in Mishaps /\ mishaps' = mishaps \cup {"timeout"}
  BY <1>1 DEF RemoveOrphan, Torn, Mishap, Fine, At, Of, Inside, Critical
<1>4. SandboxTypes'
  BY <1>1, <1>2, <1>3, MaxConcurrentAssumption DEF Moves, SandboxTypes, ContainerStates, EntryAges
<1>5. Inside'
  BY <1>1, <1>2, <1>3 DEF Moves, Inside, Critical, SandboxTypes
<1>6. Creating'
  BY <1>1, <1>2, <1>3 DEF Moves, Creating, Inside, Critical, SandboxTypes
<1>7. HeldIsKnown'
  BY <1>1, <1>2, <1>3 DEF Moves, HeldIsKnown, Creating, Inside, Critical, SandboxTypes
<1>8. RunningIsHeld'
  BY <1>1, <1>2, <1>3 DEF Moves, RunningIsHeld, ReaperOwes, Creating, Inside, Critical, Actors, SandboxTypes
<1>9. Accounted'
  <2>1. InCreation' = InCreation
    BY <1>1, <1>2, <1>3, MovesInCreation DEF InCreation
  <2>2. Sum' = Sum
    BY <2>1, <1>3 DEF Sum
  <2> QED  BY <2>2, <1>3, SumKept
<1> QED  BY <1>4, <1>5, <1>6, <1>7, <1>8, <1>9

LEMMA TakePermitInv ==
    ASSUME SandboxInv, NEW u \in Users, TakePermit(u)
    PROVE  SandboxInv'
<1> USE UsersAssumption DEF SandboxInv
<1>1. u \in Actors /\ "run" \in Places /\ (u \in Users \/ u = Reaper)
  BY DEF Actors, Places
<1>2. Moves(u, "run", task[u].project)
  BY <1>1, GoMoves DEF TakePermit, Fine, SandboxTypes
<1>3. /\ task[u].at = "permit" /\ task[u].project \in Projects
      /\ UNCHANGED <<docker, entry, held, lock, sweep, mishaps>>
      /\ permits > 0 /\ permits' = permits - 1
  BY <1>1 DEF TakePermit, Fine, At, Of, Inside, Critical
<1>4. SandboxTypes'
  BY <1>1, <1>2, <1>3, MaxConcurrentAssumption DEF Moves, SandboxTypes, ContainerStates, EntryAges
<1>5. Inside'
  BY <1>1, <1>2, <1>3 DEF Moves, Inside, Critical, SandboxTypes
<1>6. Creating'
  BY <1>1, <1>2, <1>3 DEF Moves, Creating, Inside, Critical, SandboxTypes
<1>7. HeldIsKnown'
  BY <1>1, <1>2, <1>3 DEF Moves, HeldIsKnown, Creating, Inside, Critical, SandboxTypes
<1>8. RunningIsHeld'
  BY <1>1, <1>2, <1>3 DEF Moves, RunningIsHeld, ReaperOwes, Creating, Inside, Critical, Actors, SandboxTypes
<1>9. Accounted'
  <2>1. u \notin InCreation /\ InCreation' = InCreation \cup {u}
    BY <1>1, <1>2, <1>3, MovesInCreation DEF InCreation
  <2>2. /\ permits \in Nat /\ Cardinality(held) \in Nat /\ Cardinality(InCreation) \in Nat
        /\ Cardinality(held') = Cardinality(held)
        /\ Cardinality(InCreation') = Cardinality(InCreation) + 1
    BY <2>1, <1>3, Counts DEF SandboxTypes
  <2>3. Sum' = Sum
    BY <2>2, <1>3 DEF Sum
  <2> QED  BY <2>3, <1>3, SumKept
<1> QED  BY <1>4, <1>5, <1>6, <1>7, <1>8, <1>9

\* A creation that succeeds: no permit of the project is about.
LEMMA CreatedInv ==
    ASSUME SandboxInv, NEW u \in Users, Created(u)
    PROVE  SandboxInv'
<1> USE UsersAssumption DEF SandboxInv
<1>1. u \in Actors /\ "using" \in Places /\ (u \in Users \/ u = Reaper)
  BY DEF Actors, Places
<1>2. Moves(u, "using", task[u].project)
  BY <1>1, GoMoves DEF Created, Leave, Fine, SandboxTypes
<1>3. /\ task[u].at = "run" /\ task[u].project \in Projects
      /\ UNCHANGED <<permits, sweep, mishaps>>
      /\ docker' = [docker EXCEPT ![task[u].project] = "running"]
      /\ entry' = [entry EXCEPT ![task[u].project] = "fresh"]
      /\ held' = held \cup {task[u].project}
      /\ lock' = [lock EXCEPT ![task[u].project] = NoOne]
  BY <1>1 DEF Created, Leave, Fine, At, Of, Inside, Critical
<1>4. SandboxTypes'
  BY <1>1, <1>2, <1>3, MaxConcurrentAssumption DEF Moves, SandboxTypes, ContainerStates, EntryAges
<1>5. Inside'
  BY <1>1, <1>2, <1>3 DEF Moves, Inside, Critical, SandboxTypes
<1>6. Creating'
  BY <1>1, <1>2, <1>3 DEF Moves, Creating, Inside, Critical, SandboxTypes
<1>7. HeldIsKnown'
  BY <1>1, <1>2, <1>3 DEF Moves, HeldIsKnown, Creating, Inside, Critical, SandboxTypes
<1>8. RunningIsHeld'
  BY <1>1, <1>2, <1>3 DEF Moves, RunningIsHeld, ReaperOwes, Creating, Inside, Critical, Actors, SandboxTypes
<1>9. Accounted'
  <2>1. u \in InCreation /\ InCreation' = InCreation \ {u}
    BY <1>1, <1>2, <1>3, MovesInCreation DEF InCreation
  <2>2. "spawn" \notin mishaps => task[u].project \notin held
    BY <1>1, <1>3 DEF HeldIsKnown, Creating, Inside, Critical
  <2>3. /\ permits' = permits /\ permits \in Nat
        /\ Cardinality(held) \in Nat /\ Cardinality(InCreation) \in Nat
        /\ Cardinality(held') =
              IF task[u].project \in held THEN Cardinality(held) ELSE Cardinality(held) + 1
        /\ Cardinality(InCreation') = Cardinality(InCreation) - 1
    BY <2>1, <1>3, Counts DEF SandboxTypes
  <2>4. Sum \in Nat /\ Sum' \in Int /\ Sum' <= Sum
    BY <2>3 DEF Sum
  <2>5. "spawn" \notin mishaps => Sum' = Sum
    BY <2>2, <2>3 DEF Sum
  <2> QED  BY <2>4, <2>5, <1>3, MaxConcurrentAssumption DEF Accounted
<1> QED  BY <1>4, <1>5, <1>6, <1>7, <1>8, <1>9

LEMMA CreateFailedInv ==
    ASSUME SandboxInv, NEW u \in Users, CreateFailed(u)
    PROVE  SandboxInv'
<1> USE UsersAssumption DEF SandboxInv
<1>1. u \in Actors /\ "host" \in Places /\ (u \in Users \/ u = Reaper)
  BY DEF Actors, Places
<1>2. Moves(u, "host", task[u].project)
  BY <1>1, GoMoves DEF CreateFailed, Mishap, Fine, Leave, SandboxTypes
<1>3. /\ task[u].at = "run" /\ task[u].project \in Projects
      /\ UNCHANGED <<entry, held, sweep>>
      /\ permits' = permits + 1
      /\ lock' = [lock EXCEPT ![task[u].project] = NoOne]
      /\ \/ docker' = docker /\ mishaps' = mishaps
         \/ docker' = docker /\ "timeout" \in Mishaps /\ mishaps' = mishaps \cup {"timeout"}
         \/ docker' = [docker EXCEPT ![task[u].project] = "running"] /\ "timeout" \in Mishaps /\ mishaps' = mishaps \cup {"timeout"}
  BY <1>1 DEF CreateFailed, Mishap, Fine, Leave, At, Of, Inside, Critical
<1>4. SandboxTypes'
  BY <1>1, <1>2, <1>3, MaxConcurrentAssumption DEF Moves, SandboxTypes, ContainerStates, EntryAges
<1>5. Inside'
  BY <1>1, <1>2, <1>3 DEF Moves, Inside, Critical, SandboxTypes
<1>6. Creating'
  BY <1>1, <1>2, <1>3 DEF Moves, Creating, Inside, Critical, SandboxTypes
<1>7. HeldIsKnown'
  BY <1>1, <1>2, <1>3 DEF Moves, HeldIsKnown, Creating, Inside, Critical, SandboxTypes
<1>8. RunningIsHeld'
  BY <1>1, <1>2, <1>3 DEF Moves, RunningIsHeld, ReaperOwes, Creating, Inside, Critical, Actors, SandboxTypes
<1>9. Accounted'
  <2>1. u \in InCreation /\ InCreation' = InCreation \ {u}
    BY <1>1, <1>2, <1>3, MovesInCreation DEF InCreation
  <2>2. /\ permits \in Nat /\ Cardinality(held) \in Nat /\ Cardinality(InCreation) \in Nat
        /\ Cardinality(held') = Cardinality(held)
        /\ Cardinality(InCreation') = Cardinality(InCreation) - 1
    BY <2>1, <1>3, Counts DEF SandboxTypes
  <2>3. Sum' = Sum
    BY <2>2, <1>3 DEF Sum
  <2> QED  BY <2>3, <1>3, SumKept
<1> QED  BY <1>4, <1>5, <1>6, <1>7, <1>8, <1>9

LEMMA AcquireRaisedInv ==
    ASSUME SandboxInv, NEW u \in Users, AcquireRaised(u)
    PROVE  SandboxInv'
<1> USE UsersAssumption DEF SandboxInv
<1>1. u \in Actors /\ "idle" \in Places /\ (u \in Users \/ u = Reaper)
  BY DEF Actors, Places
<1>2. Moves(u, "idle", task[u].project)
  BY <1>1, GoMoves DEF AcquireRaised, Mishap, Leave, SandboxTypes
<1>3. /\ task[u].at \in {"inspect", "dind", "orphan", "run"} /\ task[u].project \in Projects
      /\ UNCHANGED <<docker, entry, held, sweep>>
      /\ permits' = IF task[u].at = "run" THEN permits + 1 ELSE permits
      /\ lock' = [lock EXCEPT ![task[u].project] = NoOne]
      /\ "spawn" \in Mishaps /\ mishaps' = mishaps \cup {"spawn"}
  BY <1>1 DEF AcquireRaised, Mishap, Leave, At, Of, Inside, Critical
<1>4. SandboxTypes'
  BY <1>1, <1>2, <1>3, MaxConcurrentAssumption DEF Moves, SandboxTypes, ContainerStates, EntryAges
<1>5. Inside'
  BY <1>1, <1>2, <1>3 DEF Moves, Inside, Critical, SandboxTypes
<1>6. Creating'
  BY <1>1, <1>2, <1>3 DEF Moves, Creating, Inside, Critical, SandboxTypes
<1>7. HeldIsKnown'
  BY <1>1, <1>2, <1>3 DEF Moves, HeldIsKnown, Creating, Inside, Critical, SandboxTypes
<1>8. RunningIsHeld'
  BY <1>1, <1>2, <1>3 DEF Moves, RunningIsHeld, ReaperOwes, Creating, Inside, Critical, Actors, SandboxTypes
<1>9. Accounted'
  <2>1. CASE task[u].at = "run"
    <3>1. u \in InCreation /\ InCreation' = InCreation \ {u}
      BY <2>1, <1>1, <1>2, MovesInCreation DEF InCreation
    <3>2. /\ permits \in Nat /\ Cardinality(held) \in Nat /\ Cardinality(InCreation) \in Nat
          /\ held' = held /\ Cardinality(InCreation') = Cardinality(InCreation) - 1
      BY <3>1, <1>3, Counts DEF SandboxTypes
    <3>3. Sum' = Sum
      BY <2>1, <3>2, <1>3 DEF Sum
    <3> QED  BY <3>3, <1>3, SumKept
  <2>2. CASE task[u].at # "run"
    <3>1. InCreation' = InCreation
      BY <2>2, <1>1, <1>2, MovesInCreation DEF InCreation
    <3>2. Sum' = Sum
      BY <2>2, <3>1, <1>3, Counts DEF Sum, SandboxTypes
    <3> QED  BY <3>2, <1>3, SumKept
  <2> QED  BY <2>1, <2>2
<1> QED  BY <1>4, <1>5, <1>6, <1>7, <1>8, <1>9

LEMMA FinishInv ==
    ASSUME SandboxInv, NEW u \in Users, Finish(u)
    PROVE  SandboxInv'
<1> USE UsersAssumption DEF SandboxInv
<1>1. u \in Actors /\ "idle" \in Places /\ (u \in Users \/ u = Reaper)
  BY DEF Actors, Places
<1>2. Moves(u, "idle", NoProject)
  BY <1>1, GoForMoves DEF Finish, SandboxTypes
<1>3. /\ task[u].at \in {"using", "host"}
      /\ UNCHANGED <<docker, entry, held, permits, lock, sweep, mishaps>>
  BY <1>1 DEF Finish, Fine, At, Of, Inside, Critical
<1>4. SandboxTypes'
  BY <1>1, <1>2, <1>3, MaxConcurrentAssumption DEF Moves, SandboxTypes, ContainerStates, EntryAges
<1>5. Inside'
  BY <1>1, <1>2, <1>3 DEF Moves, Inside, Critical, SandboxTypes
<1>6. Creating'
  BY <1>1, <1>2, <1>3 DEF Moves, Creating, Inside, Critical, SandboxTypes
<1>7. HeldIsKnown'
  BY <1>1, <1>2, <1>3 DEF Moves, HeldIsKnown, Creating, Inside, Critical, SandboxTypes
<1>8. RunningIsHeld'
  BY <1>1, <1>2, <1>3 DEF Moves, RunningIsHeld, ReaperOwes, Creating, Inside, Critical, Actors, SandboxTypes
<1>9. Accounted'
  <2>1. InCreation' = InCreation
    BY <1>1, <1>2, <1>3, MovesInCreation DEF InCreation
  <2>2. Sum' = Sum
    BY <2>1, <1>3 DEF Sum
  <2> QED  BY <2>2, <1>3, SumKept
<1> QED  BY <1>4, <1>5, <1>6, <1>7, <1>8, <1>9

----------------------------------------------------------------------------

LEMMA SweepInv ==
    ASSUME SandboxInv, Sweep
    PROVE  SandboxInv'
<1> USE UsersAssumption DEF SandboxInv
<1>1. Reaper \in Actors /\ "sweeping" \in Places /\ (Reaper \in Users \/ Reaper = Reaper)
  BY DEF Actors, Places
<1>2. Moves(Reaper, "sweeping", task[Reaper].project)
  BY <1>1, GoMoves DEF Sweep, SandboxTypes
<1>3. /\ task[Reaper].at = "idle"
      /\ sweep' = {p \in Projects : entry[p] = "idle"}
      /\ UNCHANGED <<docker, entry, held, permits, lock, mishaps>>
  BY <1>1 DEF Sweep, Fine, At, Of, Inside, Critical
<1>4. SandboxTypes'
  BY <1>1, <1>2, <1>3, MaxConcurrentAssumption DEF Moves, SandboxTypes, ContainerStates, EntryAges
<1>5. Inside'
  BY <1>1, <1>2, <1>3 DEF Moves, Inside, Critical, SandboxTypes
<1>6. Creating'
  BY <1>1, <1>2, <1>3 DEF Moves, Creating, Inside, Critical, SandboxTypes
<1>7. HeldIsKnown'
  BY <1>1, <1>2, <1>3 DEF Moves, HeldIsKnown, Creating, Inside, Critical, SandboxTypes
<1>8. RunningIsHeld'
  BY <1>1, <1>2, <1>3 DEF Moves, RunningIsHeld, ReaperOwes, Creating, Inside, Critical, Actors, SandboxTypes
<1>9. Accounted'
  <2>1. InCreation' = InCreation
    BY <1>1, <1>2, <1>3, MovesInCreation DEF InCreation
  <2>2. Sum' = Sum
    BY <2>1, <1>3 DEF Sum
  <2> QED  BY <2>2, <1>3, SumKept
<1> QED  BY <1>4, <1>5, <1>6, <1>7, <1>8, <1>9

LEMMA SweepDoneInv ==
    ASSUME SandboxInv, SweepDone
    PROVE  SandboxInv'
<1> USE UsersAssumption DEF SandboxInv
<1>1. Reaper \in Actors /\ "idle" \in Places /\ (Reaper \in Users \/ Reaper = Reaper)
  BY DEF Actors, Places
<1>2. Moves(Reaper, "idle", NoProject)
  BY <1>1, GoForMoves DEF SweepDone, SandboxTypes
<1>3. /\ task[Reaper].at = "sweeping"
      /\ UNCHANGED <<docker, entry, held, permits, lock, sweep, mishaps>>
  BY <1>1 DEF SweepDone, Fine, At, Of, Inside, Critical
<1>4. SandboxTypes'
  BY <1>1, <1>2, <1>3, MaxConcurrentAssumption DEF Moves, SandboxTypes, ContainerStates, EntryAges
<1>5. Inside'
  BY <1>1, <1>2, <1>3 DEF Moves, Inside, Critical, SandboxTypes
<1>6. Creating'
  BY <1>1, <1>2, <1>3 DEF Moves, Creating, Inside, Critical, SandboxTypes
<1>7. HeldIsKnown'
  BY <1>1, <1>2, <1>3 DEF Moves, HeldIsKnown, Creating, Inside, Critical, SandboxTypes
<1>8. RunningIsHeld'
  BY <1>1, <1>2, <1>3 DEF Moves, RunningIsHeld, ReaperOwes, Creating, Inside, Critical, Actors, SandboxTypes
<1>9. Accounted'
  <2>1. InCreation' = InCreation
    BY <1>1, <1>2, <1>3, MovesInCreation DEF InCreation
  <2>2. Sum' = Sum
    BY <2>1, <1>3 DEF Sum
  <2> QED  BY <2>2, <1>3, SumKept
<1> QED  BY <1>4, <1>5, <1>6, <1>7, <1>8, <1>9

\* release() of a registered project.
LEMMA ReleaseEntryInv ==
    ASSUME SandboxInv, NEW p \in Projects, Release(p), Fine, lock[p] = NoOne, ReaperOwes(p), sweep' = sweep \ {p},
           task[Reaper].at \in {"sweeping", "lock"}, task[Reaper].at = "lock" => task[Reaper].project = p,
           entry[p] # "none"
    PROVE  SandboxInv'
<1> USE UsersAssumption DEF SandboxInv
<1>1. Reaper \in Actors /\ "rm" \in Places /\ (Reaper \in Users \/ Reaper = Reaper)
  BY DEF Actors, Places
<1>2. Moves(Reaper, "rm", p)
  BY <1>1, GoForMoves DEF Release, SandboxTypes
<1>3. /\ entry' = [entry EXCEPT ![p] = "none"]
      /\ lock' = [lock EXCEPT ![p] = Reaper]
      /\ sweep' = sweep \ {p}
      /\ UNCHANGED <<docker, held, permits, mishaps>>
  BY <1>1 DEF Release, Fine, At, Of, Inside, Critical
<1>4. SandboxTypes'
  BY <1>1, <1>2, <1>3, MaxConcurrentAssumption DEF Moves, SandboxTypes, ContainerStates, EntryAges
<1>5. Inside'
  BY <1>1, <1>2, <1>3 DEF Moves, Inside, Critical, SandboxTypes, Actors, NoOne, Reaper
<1>6. Creating'
  BY <1>1, <1>2, <1>3 DEF Moves, Creating, Inside, Critical, SandboxTypes
<1>7. HeldIsKnown'
  BY <1>1, <1>2, <1>3 DEF Moves, HeldIsKnown, Creating, Inside, Critical, SandboxTypes
<1>8. RunningIsHeld'
  BY <1>1, <1>2, <1>3 DEF Moves, RunningIsHeld, ReaperOwes, Creating, Inside, Critical, Actors, SandboxTypes
<1>9. Accounted'
  <2>1. InCreation' = InCreation
    BY <1>1, <1>2, <1>3, MovesInCreation DEF InCreation
  <2>2. Sum' = Sum
    BY <2>1, <1>3 DEF Sum
  <2> QED  BY <2>2, <1>3, SumKept
<1> QED  BY <1>4, <1>5, <1>6, <1>7, <1>8, <1>9

\* release() of a project that somebody else has dropped in the meantime.
LEMMA ReleaseNothingInv ==
    ASSUME SandboxInv, NEW p \in Projects, Release(p), Fine, lock[p] = NoOne, ReaperOwes(p), sweep' = sweep \ {p},
           task[Reaper].at \in {"sweeping", "lock"}, task[Reaper].at = "lock" => task[Reaper].project = p,
           entry[p] = "none"
    PROVE  SandboxInv'
<1> USE UsersAssumption DEF SandboxInv
<1>1. Reaper \in Actors /\ "sweeping" \in Places /\ (Reaper \in Users \/ Reaper = Reaper)
  BY DEF Actors, Places
<1>2. Moves(Reaper, "sweeping", NoProject)
  BY <1>1, GoForMoves DEF Release, SandboxTypes
<1>3. /\ held' = held \ {p}
      /\ permits' = IF p \in held THEN permits + 1 ELSE permits
      /\ sweep' = sweep \ {p}
      /\ UNCHANGED <<docker, entry, lock, mishaps>>
  BY <1>1 DEF Release, ReturnPermit, Fine, At, Of, Inside, Critical
<1>4. SandboxTypes'
  BY <1>1, <1>2, <1>3, MaxConcurrentAssumption DEF Moves, SandboxTypes, ContainerStates, EntryAges
<1>5. Inside'
  BY <1>1, <1>2, <1>3 DEF Moves, Inside, Critical, SandboxTypes
<1>6. Creating'
  BY <1>1, <1>2, <1>3 DEF Moves, Creating, Inside, Critical, SandboxTypes
<1>7. HeldIsKnown'
  BY <1>1, <1>2, <1>3 DEF Moves, HeldIsKnown, Creating, Inside, Critical, SandboxTypes
<1>8. RunningIsHeld'
  BY <1>1, <1>2, <1>3 DEF Moves, RunningIsHeld, ReaperOwes, Creating, Inside, Critical, Actors, SandboxTypes
<1>9. Accounted'
  <2>1. InCreation' = InCreation
    BY <1>1, <1>2, <1>3, MovesInCreation DEF InCreation
  <2>2. /\ permits \in Nat /\ Cardinality(held) \in Nat /\ Cardinality(InCreation) \in Nat
        /\ Cardinality(held') = IF p \in held THEN Cardinality(held) - 1 ELSE Cardinality(held)
        /\ Cardinality(InCreation') = Cardinality(InCreation)
    BY <2>1, <1>3, Counts DEF SandboxTypes
  <2>3. Sum' = Sum
    BY <2>2, <1>3 DEF Sum
  <2> QED  BY <2>3, <1>3, SumKept
<1> QED  BY <1>4, <1>5, <1>6, <1>7, <1>8, <1>9

LEMMA TearDownIdleInv ==
    ASSUME SandboxInv, TearDownIdle
    PROVE  SandboxInv'
<1> USE UsersAssumption DEF SandboxInv
<1>1. Reaper \in Actors /\ "sweeping" \in Places /\ (Reaper \in Users \/ Reaper = Reaper)
  BY DEF Actors, Places
<1>2. Moves(Reaper, "sweeping", task[Reaper].project)
  BY <1>1, GoMoves DEF TearDownIdle, SandboxTypes
<1>3. /\ task[Reaper].at = "rm" /\ task[Reaper].project \in Projects
      /\ UNCHANGED <<entry, sweep>>
      /\ lock' = [lock EXCEPT ![task[Reaper].project] = NoOne]
      /\ held' = held \ {task[Reaper].project}
      /\ permits' = IF task[Reaper].project \in held THEN permits + 1 ELSE permits
      /\ \/ docker' = [docker EXCEPT ![task[Reaper].project] = "absent"] /\ mishaps' = mishaps
         \/ docker' = docker /\ "timeout" \in Mishaps /\ mishaps' = mishaps \cup {"timeout"}
  BY <1>1 DEF TearDownIdle, Torn, Mishap, Fine, ReturnPermit, At, Of, Inside, Critical
<1>4. SandboxTypes'
  BY <1>1, <1>2, <1>3, MaxConcurrentAssumption DEF Moves, SandboxTypes, ContainerStates, EntryAges
<1>5. Inside'
  BY <1>1, <1>2, <1>3 DEF Moves, Inside, Critical, SandboxTypes
<1>6. Creating'
  BY <1>1, <1>2, <1>3 DEF Moves, Creating, Inside, Critical, SandboxTypes
<1>7. HeldIsKnown'
  BY <1>1, <1>2, <1>3 DEF Moves, HeldIsKnown, Creating, Inside, Critical, SandboxTypes
<1>8. RunningIsHeld'
  BY <1>1, <1>2, <1>3 DEF Moves, RunningIsHeld, ReaperOwes, Creating, Inside, Critical, Actors, SandboxTypes
<1>9. Accounted'
  <2>1. InCreation' = InCreation
    BY <1>1, <1>2, <1>3, MovesInCreation DEF InCreation
  <2>2. /\ permits \in Nat /\ Cardinality(held) \in Nat /\ Cardinality(InCreation) \in Nat
        /\ Cardinality(held') = IF task[Reaper].project \in held THEN Cardinality(held) - 1 ELSE Cardinality(held)
        /\ Cardinality(InCreation') = Cardinality(InCreation)
    BY <2>1, <1>3, Counts DEF SandboxTypes
  <2>3. Sum' = Sum
    BY <2>2, <1>3 DEF Sum
  <2> QED  BY <2>3, <1>3, SumKept
<1> QED  BY <1>4, <1>5, <1>6, <1>7, <1>8, <1>9

LEMMA TearDownRaisedInv ==
    ASSUME SandboxInv, NEW a \in Actors, TearDownRaised(a)
    PROVE  SandboxInv'
<1> USE UsersAssumption DEF SandboxInv
<1>1. a \in Actors /\ "idle" \in Places /\ (a \in Users \/ a = Reaper)
  BY DEF Actors, Places
<1>2. Moves(a, "idle", task[a].project)
  BY <1>1, GoMoves DEF TearDownRaised, Leave, SandboxTypes
<1>3. /\ task[a].at = "rm" /\ task[a].project \in Projects
      /\ UNCHANGED <<docker, entry, held, permits>>
      /\ sweep' = IF a = Reaper THEN {} ELSE sweep
      /\ lock' = [lock EXCEPT ![task[a].project] = NoOne]
      /\ "spawn" \in Mishaps /\ mishaps' = mishaps \cup {"spawn"}
  BY <1>1 DEF TearDownRaised, Mishap, Leave, At, Of, Inside, Critical
<1>4. SandboxTypes'
  BY <1>1, <1>2, <1>3, MaxConcurrentAssumption DEF Moves, SandboxTypes, ContainerStates, EntryAges
<1>5. Inside'
  BY <1>1, <1>2, <1>3 DEF Moves, Inside, Critical, SandboxTypes
<1>6. Creating'
  BY <1>1, <1>2, <1>3 DEF Moves, Creating, Inside, Critical, SandboxTypes
<1>7. HeldIsKnown'
  BY <1>1, <1>2, <1>3 DEF Moves, HeldIsKnown, Creating, Inside, Critical, SandboxTypes
<1>8. RunningIsHeld'
  BY <1>1, <1>2, <1>3 DEF Moves, RunningIsHeld, ReaperOwes, Creating, Inside, Critical, Actors, SandboxTypes
<1>9. Accounted'
  <2>1. InCreation' = InCreation
    BY <1>1, <1>2, <1>3, MovesInCreation DEF InCreation
  <2>2. Sum' = Sum
    BY <2>1, <1>3 DEF Sum
  <2> QED  BY <2>2, <1>3, SumKept
<1> QED  BY <1>4, <1>5, <1>6, <1>7, <1>8, <1>9

LEMMA RestartInv ==
    ASSUME SandboxInv, Restart  PROVE SandboxInv'
<1> USE DEF SandboxInv
<1>1. SandboxTypes'
  BY MaxConcurrentAssumption DEF Restart, Mishap, SandboxTypes, EntryAges, TaskRecords, Places
<1>2. \A a \in Actors : task'[a] = [at |-> "idle", project |-> NoProject]
  BY DEF Restart
<1>3. InCreation' = {} /\ held' = {} /\ permits' = MaxConcurrent
  BY <1>2 DEF InCreation, Restart, Actors
<1>4. Accounted'
  BY <1>3, FS_EmptySet, MaxConcurrentAssumption DEF Accounted, Sum
<1>5. "restart" \in mishaps'
  BY DEF Restart, Mishap
<1> QED  BY <1>1, <1>2, <1>3, <1>4, <1>5
         DEF Inside, Critical, Creating, HeldIsKnown, RunningIsHeld, Actors

LEMMA StillInv ==
    ASSUME SandboxInv, UNCHANGED <<held, permits, lock, task, sweep>>, mishaps' \in SUBSET Mishaps,
           mishaps \subseteq mishaps',
           docker' \in [Projects -> ContainerStates], entry' \in [Projects -> EntryAges],
           \A p \in Projects : /\ entry'[p] = "none" <=> entry[p] = "none"
                               /\ docker'[p] = "running" => docker[p] = "running"
    PROVE  SandboxInv'
<1> USE DEF SandboxInv
<1>1. SandboxTypes'
  BY DEF SandboxTypes
<1>2. Inside' /\ Creating'
  BY DEF Inside, Creating, Critical
<1>3. HeldIsKnown'
  BY DEF HeldIsKnown, SandboxTypes
<1>4. Accounted'
  BY DEF Accounted, Sum, InCreation
<1>5. RunningIsHeld'
  BY DEF RunningIsHeld, ReaperOwes
<1> QED  BY <1>1, <1>2, <1>3, <1>4, <1>5

----------------------------------------------------------------------------

LEMMA SandboxInitInv == SandboxInit => SandboxInv
<1> SUFFICES ASSUME SandboxInit  PROVE SandboxInv
  OBVIOUS
<1>1. SandboxTypes
  BY MaxConcurrentAssumption
  DEF SandboxInit, SandboxTypes, ContainerStates, EntryAges, TaskRecords, Places
<1>2. \A a \in Actors : task[a] = [at |-> "idle", project |-> NoProject]
  BY DEF SandboxInit
<1>3. InCreation = {} /\ held = {} /\ permits = MaxConcurrent
  BY <1>2 DEF InCreation, SandboxInit, Actors
<1>4. Accounted
  BY <1>3, FS_EmptySet, MaxConcurrentAssumption DEF Accounted, Sum
<1>5. \A p \in Projects : docker[p] # "running"
  BY DEF SandboxInit
<1> QED  BY <1>1, <1>2, <1>3, <1>4, <1>5
         DEF SandboxInv, Inside, Critical, Creating, HeldIsKnown, RunningIsHeld, Actors

LEMMA SandboxStepInv == SandboxInv /\ [SandboxNext]_sandboxVars => SandboxInv'
<1> SUFFICES ASSUME SandboxInv, [SandboxNext]_sandboxVars  PROVE SandboxInv'
  OBVIOUS
<1>1. ASSUME NEW u \in Users, Acquiring(u)  PROVE SandboxInv'
  <2>1. CASE LockAcquired(u)
    <3>1. u \in Actors
      BY DEF Actors
    <3>2. task[u].at = "lock" /\ task[u].project \in Projects /\ lock[task[u].project] = NoOne
      BY <2>1, <3>1 DEF LockAcquired, At, Of, SandboxInv, Inside
    <3> QED  BY <2>1, <3>2, EnteredInv DEF LockAcquired, Of
  <2>2. CASE TearDownRaised(u)
    BY <2>2, TearDownRaisedInv DEF Actors
  <2> QED  BY <1>1, <2>1, <2>2, ReuseInv, DropStaleInv, TearDownStaleInv, DindReadyInv,
              DindUnreachableInv, RemoveOrphanInv, TakePermitInv, CreatedInv, CreateFailedInv,
              AcquireRaisedInv DEF Acquiring
<1>2. ASSUME NEW u \in Users, NEW p \in Projects, Acquire(u, p)  PROVE SandboxInv'
  <2>1. task[u].at = "idle" /\ Fine /\ u \in Actors /\ u # Reaper
    BY <1>2, UsersAssumption DEF Acquire, At, Actors
  <2>2. CASE Free(p) /\ Entered(u, p)
    BY <2>1, <2>2, EnteredInv DEF Free
  <2>3. CASE /\ task' = GoFor(u, "lock", p)
             /\ UNCHANGED <<docker, entry, held, permits, lock, sweep>>
    BY <2>1, <2>3, WaitsInv DEF Fine
  <2> QED  BY <1>2, <2>2, <2>3 DEF Acquire
<1>3. CASE ReapNext
  <2>1. task[Reaper].at = "sweeping" /\ Fine /\ Reaper \in Actors
    BY <1>3 DEF ReapNext, At, Actors
  <2>2. PICK p \in sweep :
           /\ sweep' = sweep \ {p}
           /\ \/ Free(p) /\ Release(p)
              \/ /\ task' = GoFor(Reaper, "lock", p)
                 /\ UNCHANGED <<docker, entry, held, permits, lock>>
    BY <1>3 DEF ReapNext
  <2>3. p \in Projects
    BY DEF SandboxInv, SandboxTypes
  <2>4. CASE Free(p) /\ Release(p)
    <3>1. lock[p] = NoOne /\ ReaperOwes(p)
      BY <2>4 DEF Free, ReaperOwes
    <3> QED  BY <2>1, <2>2, <2>3, <2>4, <3>1, ReleaseEntryInv, ReleaseNothingInv
  <2>5. CASE task' = GoFor(Reaper, "lock", p) /\ UNCHANGED <<docker, entry, held, permits, lock>>
    BY <2>1, <2>2, <2>3, <2>5, WaitsInv DEF Fine
  <2> QED  BY <2>2, <2>4, <2>5
<1>4. CASE ReapLocked
  <2> DEFINE p == task[Reaper].project
  <2>1. /\ task[Reaper].at = "lock" /\ lock[p] = NoOne /\ Release(p) /\ Fine /\ sweep' = sweep
        /\ Reaper \in Actors
    BY <1>4 DEF ReapLocked, At, Of, Actors
  <2>2. p \in Projects /\ p \notin sweep /\ ReaperOwes(p)
    BY <2>1 DEF SandboxInv, Inside, RunningIsHeld, ReaperOwes
  <2>3. sweep' = sweep \ {p}
    BY <2>1, <2>2
  <2> HIDE DEF p
  <2>4. task[Reaper].at = "lock" => task[Reaper].project = p
    BY DEF p
  <2> QED  BY <2>1, <2>2, <2>3, <2>4, ReleaseEntryInv, ReleaseNothingInv
<1>5. CASE TearDownRaised(Reaper)
  BY <1>5, TearDownRaisedInv DEF Actors
<1>6. ASSUME NEW p \in Projects, Age(p) \/ Die(p)  PROVE SandboxInv'
  BY <1>6, StillInv
  DEF Age, Die, Fine, Mishap, SandboxInv, SandboxTypes, ContainerStates, EntryAges
<1>7. CASE UNCHANGED sandboxVars
  BY <1>7, StillInv DEF sandboxVars, SandboxInv, SandboxTypes
<1> QED
  BY <1>1, <1>2, <1>3, <1>4, <1>5, <1>6, <1>7, FinishInv, SweepInv, SweepDoneInv, TearDownIdleInv,
     RestartInv
  DEF SandboxNext, Reaping

LEMMA SandboxInvariant == SandboxSpec => []SandboxInv
BY SandboxInitInv, SandboxStepInv, PTL DEF SandboxSpec

----------------------------------------------------------------------------

\* DockerSandboxManager's semaphore: every permit is free, owned by a project
\* or in one running creation; only a teardown that raises can lose one.
THEOREM PermitsAreAccounted == SandboxSpec => []PermitsAccounted
<1>1. SandboxInv => PermitsAccounted
  BY DEF SandboxInv, Accounted, Sum, InCreation, PermitsAccounted, At
<1> QED  BY <1>1, SandboxInvariant, PTL

\* The bound of the manager's docstring: no more live containers than permits,
\* while docker answers and the process lives.
THEOREM LiveIsBounded == SandboxSpec => []LiveBounded
<1>1. SandboxInv => LiveBounded
  <2> SUFFICES ASSUME SandboxInv, mishaps \cap {"timeout", "restart"} = {}
               PROVE  Cardinality({p \in Projects : docker[p] = "running"}) <= MaxConcurrent
    BY DEF LiveBounded
  <2> DEFINE live == {p \in Projects : docker[p] = "running"}
  <2>1. live \subseteq held
    BY DEF SandboxInv, RunningIsHeld
  <2>2. IsFiniteSet(held)
    BY ProjectsAssumption, FS_Subset DEF SandboxInv, SandboxTypes
  <2>3. Cardinality(live) <= Cardinality(held) /\ Cardinality(live) \in Nat
    BY <2>1, <2>2, FS_Subset, FS_CardinalityType
  <2> HIDE DEF live
  <2>4. Cardinality(held) <= MaxConcurrent
    <3>1. permits \in Nat /\ Cardinality(held) \in Nat /\ Cardinality(InCreation) \in Nat
      BY Counts DEF SandboxInv, SandboxTypes
    <3>2. permits + Cardinality(held) + Cardinality(InCreation) <= MaxConcurrent
      BY DEF SandboxInv, Accounted, Sum
    <3> QED  BY <3>1, <3>2, MaxConcurrentAssumption
  <2>5. Cardinality(live) <= MaxConcurrent
    <3>1. Cardinality(held) \in Nat
      BY Counts DEF SandboxInv
    <3> QED  BY <3>1, <2>3, <2>4, MaxConcurrentAssumption
  <2> QED  BY <2>5 DEF live
<1> QED  BY <1>1, SandboxInvariant, PTL

\* The types of the manager's state; the semaphore never exceeds its size.
THEOREM SandboxTypeCorrect == SandboxSpec => []SandboxTypeOK
<1>1. SandboxInv => SandboxTypeOK
  <2> SUFFICES ASSUME SandboxInv  PROVE SandboxTypeOK
    OBVIOUS
  <2>1. permits \in 0 .. MaxConcurrent
    <3>1. permits \in Nat /\ Cardinality(held) \in Nat /\ Cardinality(InCreation) \in Nat
      BY Counts DEF SandboxInv, SandboxTypes
    <3>2. permits + Cardinality(held) + Cardinality(InCreation) <= MaxConcurrent
      BY DEF SandboxInv, Accounted, Sum
    <3> QED  BY <3>1, <3>2, MaxConcurrentAssumption
  <2> QED  BY <2>1 DEF SandboxInv, SandboxTypes, SandboxTypeOK, TaskRecords
<1> QED  BY <1>1, SandboxInvariant, PTL

----------------------------------------------------------------------------
(* A sandbox in use.  While docker answers, the project of a running sandbox  *)
(* that somebody uses is registered, or the reaper is tearing it down; and    *)
(* whoever else enters the project's critical section removes a container     *)
(* only where nothing is registered.                                          *)

Undisturbed == mishaps \cap {"timeout", "spawn"} = {}

UsesRegistered(u) ==
    task[u].at = "using" =>
        /\ task[u].project \in Projects
        /\ Undisturbed /\ docker[task[u].project] = "running" =>
              \/ entry[task[u].project] # "none"
              \/ task[Reaper].at = "rm" /\ task[Reaper].project = task[u].project

InUse == \A u \in Users : UsesRegistered(u)

\* A step that neither registers, drops, starts nor removes a sandbox.
LEMMA QuietInUse ==
    ASSUME InUse, UNCHANGED <<docker, entry>>, mishaps \subseteq mishaps',
           NEW a \in Actors, NEW place, NEW p, Moves(a, place, p),
           place # "using", a = Reaper => task[a].at # "rm"
    PROVE  InUse'
<1> SUFFICES ASSUME NEW u \in Users, task'[u].at = "using"  PROVE UsesRegistered(u)'
  BY DEF InUse, UsesRegistered
<1>1. u # a /\ task'[u] = task[u]
  BY DEF Moves, Actors
<1>2. UsesRegistered(u)
  BY DEF InUse
<1>3. task[Reaper].at = "rm" => task'[Reaper] = task[Reaper]
  BY DEF Moves, Actors
<1> QED
  BY <1>1, <1>2, <1>3 DEF UsesRegistered, Undisturbed

\* A step by which docker, or the process's means to call it, has failed.
LEMMA DisturbedInUse ==
    ASSUME InUse, NEW a \in Actors, NEW place, NEW p, Moves(a, place, p), place # "using",
           mishaps' \cap {"timeout", "spawn"} # {}
    PROVE  InUse'
BY DEF InUse, UsesRegistered, Undisturbed, Moves, Actors

\* Docker has removed what runs under the name of project p.
LEMMA RemovedInUse ==
    ASSUME SandboxTypes, InUse, UNCHANGED <<entry, mishaps>>,
           NEW p \in Projects, docker' = [docker EXCEPT ![p] = "absent"],
           NEW a \in Actors, NEW place, Moves(a, place, p), place # "using", task[a].project = p
    PROVE  InUse'
<1> SUFFICES ASSUME NEW u \in Users, task'[u].at = "using"  PROVE UsesRegistered(u)'
  BY DEF InUse, UsesRegistered
<1>1. u # a /\ task'[u] = task[u]
  BY DEF Moves, Actors
<1>2. UsesRegistered(u) /\ task[u].project \in Projects
  BY <1>1 DEF InUse, UsesRegistered
<1>3. task[u].project # p => docker'[task[u].project] = docker[task[u].project]
  BY <1>2 DEF SandboxTypes
<1>4. docker'[p] = "absent"
  BY DEF SandboxTypes
<1>5. task[u].project # p /\ task[Reaper].project = task[u].project => task'[Reaper] = task[Reaper]
  BY DEF Moves, Actors
<1> QED
  BY <1>1, <1>2, <1>3, <1>4, <1>5 DEF UsesRegistered, Undisturbed

\* Somebody has got the sandbox of project p, registered and fresh.
LEMMA GotInUse ==
    ASSUME SandboxTypes, InUse, mishaps' = mishaps,
           NEW p \in Projects, docker' \in [Projects -> ContainerStates],
           \A q \in Projects \ {p} : docker'[q] = docker[q],
           entry' = [entry EXCEPT ![p] = "fresh"],
           NEW a \in Users, Moves(a, "using", p)
    PROVE  InUse'
<1> SUFFICES ASSUME NEW u \in Users, task'[u].at = "using"  PROVE UsesRegistered(u)'
  BY DEF InUse, UsesRegistered
<1>1. entry'[p] = "fresh" /\ \A q \in Projects \ {p} : entry'[q] = entry[q]
  BY DEF SandboxTypes
<1>2. a # Reaper /\ task'[a].project = p /\ \A b \in Actors \ {a} : task'[b] = task[b]
  BY UsersAssumption DEF Moves
<1>3. task'[Reaper] = task[Reaper]
  BY <1>2 DEF Actors
<1>4. CASE u = a
  BY <1>1, <1>2, <1>4 DEF UsesRegistered
<1>5. CASE u # a
  <2>1. task'[u] = task[u]
    BY <1>2, <1>5 DEF Actors
  <2>2. UsesRegistered(u) /\ task[u].project \in Projects
    BY <2>1 DEF InUse, UsesRegistered
  <2> QED
    BY <1>1, <1>3, <2>1, <2>2 DEF UsesRegistered, Undisturbed
<1> QED
  BY <1>4, <1>5

\* What a step of docker rm leaves.
LEMMA TornInUse ==
    ASSUME SandboxTypes, InUse, UNCHANGED entry, NEW p \in Projects, Torn(p),
           NEW a \in Actors, NEW place, Moves(a, place, p), place # "using", task[a].project = p
    PROVE  InUse'
<1>1. CASE docker' = [docker EXCEPT ![p] = "absent"] /\ Fine
  BY <1>1, RemovedInUse DEF Fine
<1>2. CASE Mishap("timeout")
  <2>1. mishaps' \cap {"timeout", "spawn"} # {}
    BY <1>2 DEF Mishap
  <2> QED
    BY <2>1, DisturbedInUse
<1> QED
  BY <1>1, <1>2 DEF Torn

LEMMA EnteredInUse ==
    ASSUME SandboxInv, InUse, NEW u \in Users, NEW p \in Projects, Entered(u, p), Fine
    PROVE  InUse'
<1>1. /\ u \in Actors /\ u # Reaper
      /\ (IF entry[p] = "none" THEN "dind" ELSE "inspect") \in Places
  BY UsersAssumption DEF Actors, Places
<1>2. Moves(u, (IF entry[p] = "none" THEN "dind" ELSE "inspect"), p)
  BY <1>1, GoForMoves DEF Entered, SandboxInv, SandboxTypes
<1>3. UNCHANGED <<docker, entry, mishaps>>
  BY DEF Entered, Fine
<1> QED
  BY <1>1, <1>2, <1>3, QuietInUse

LEMMA AcquiringInUse ==
    ASSUME SandboxInv, InUse, NEW u \in Users, Acquiring(u)
    PROVE  InUse'
<1> DEFINE p == task[u].project
<1>1. /\ u \in Actors /\ u # Reaper /\ SandboxTypes
      /\ {"idle", "rm", "dind", "orphan", "permit", "run", "using", "host"} \subseteq Places
  BY UsersAssumption DEF Actors, Places, SandboxInv
<1>2. task[u].at \in Critical \cup {"lock"} => p \in Projects
  BY <1>1 DEF SandboxInv, Inside
<1>3. \A place \in Places : task' = Go(u, place) => Moves(u, place, p)
  BY <1>1, GoMoves DEF SandboxTypes
<1>4. CASE LockAcquired(u)
  BY <1>2, <1>4, EnteredInUse DEF LockAcquired, At, Of, Critical
<1>5. CASE Reuse(u)
  <2>1. /\ task' = Go(u, "using") /\ p \in Projects
        /\ entry' = [entry EXCEPT ![p] = "fresh"] /\ UNCHANGED <<docker, mishaps>>
    BY <1>2, <1>5 DEF Reuse, Leave, At, Of, Fine, Critical
  <2>2. Moves(u, "using", p)
    BY <1>1, <1>3, <2>1
  <2> HIDE DEF p
  <2> QED
    BY <1>1, <2>1, <2>2, GotInUse DEF SandboxTypes
<1>6. CASE DropStale(u)
  <2>1. /\ task' = Go(u, "rm") /\ p \in Projects
        /\ entry' = [entry EXCEPT ![p] = "none"] /\ UNCHANGED docker
        /\ (docker[p] # "running" /\ UNCHANGED mishaps) \/ Mishap("timeout")
    BY <1>2, <1>6 DEF DropStale, At, Of, Fine, Critical
  <2>2. Moves(u, "rm", p)
    BY <1>1, <1>3, <2>1
  <2> HIDE DEF p
  <2>3. CASE docker[p] # "running" /\ UNCHANGED mishaps
    <3> SUFFICES ASSUME NEW v \in Users, task'[v].at = "using"  PROVE UsesRegistered(v)'
      BY DEF InUse, UsesRegistered
    <3>1. task'[v] = task[v] /\ task'[Reaper] = task[Reaper]
      BY <1>1, <2>2 DEF Moves, Actors
    <3>2. UsesRegistered(v) /\ task[v].project \in Projects
      BY <3>1 DEF InUse, UsesRegistered
    <3>3. task[v].project # p => entry'[task[v].project] = entry[task[v].project]
      BY <1>1, <2>1, <3>2 DEF SandboxTypes
    <3> QED
      BY <2>1, <2>3, <3>1, <3>2, <3>3 DEF UsesRegistered, Undisturbed
  <2>4. CASE Mishap("timeout")
    BY <1>1, <2>2, <2>4, DisturbedInUse DEF Mishap
  <2> QED
    BY <2>1, <2>3, <2>4
<1>7. CASE TearDownStale(u)
  <2>1. task' = Go(u, "dind") /\ Torn(p) /\ p \in Projects /\ UNCHANGED entry
    BY <1>2, <1>7 DEF TearDownStale, At, Of, Critical
  <2> QED
    BY <1>1, <1>3, <2>1, TornInUse
<1>8. CASE DindReady(u)
  BY <1>1, <1>3, <1>8, QuietInUse DEF DindReady, Fine
<1>9. CASE DindUnreachable(u)
  BY <1>1, <1>3, <1>9, DisturbedInUse DEF DindUnreachable, Leave, Mishap
<1>10. CASE RemoveOrphan(u)
  <2>1. task' = Go(u, "permit") /\ Torn(p) /\ p \in Projects /\ UNCHANGED entry
    BY <1>2, <1>10 DEF RemoveOrphan, At, Of, Critical
  <2> QED
    BY <1>1, <1>3, <2>1, TornInUse
<1>11. CASE TakePermit(u)
  BY <1>1, <1>3, <1>11, QuietInUse DEF TakePermit, Fine
<1>12. CASE Created(u)
  <2>1. /\ task' = Go(u, "using") /\ p \in Projects
        /\ docker' = [docker EXCEPT ![p] = "running"]
        /\ entry' = [entry EXCEPT ![p] = "fresh"] /\ UNCHANGED mishaps
    BY <1>2, <1>12 DEF Created, Leave, At, Of, Fine, Critical
  <2>2. Moves(u, "using", p)
    BY <1>1, <1>3, <2>1
  <2>3. docker' \in [Projects -> ContainerStates] /\ \A q \in Projects \ {p} : docker'[q] = docker[q]
    BY <1>1, <2>1 DEF SandboxTypes, ContainerStates
  <2> HIDE DEF p
  <2> QED
    BY <1>1, <2>1, <2>2, <2>3, GotInUse
<1>13. CASE CreateFailed(u)
  <2>1. task' = Go(u, "host") /\ UNCHANGED entry /\ (UNCHANGED <<docker, mishaps>> \/ Mishap("timeout"))
    BY <1>13 DEF CreateFailed, Leave, Fine
  <2> QED
    BY <1>1, <1>3, <2>1, QuietInUse, DisturbedInUse DEF Mishap
<1>14. CASE AcquireRaised(u) \/ TearDownRaised(u)
  BY <1>1, <1>3, <1>14, DisturbedInUse DEF AcquireRaised, TearDownRaised, Leave, Mishap
<1> QED
  BY <1>4, <1>5, <1>6, <1>7, <1>8, <1>9, <1>10, <1>11, <1>12, <1>13, <1>14 DEF Acquiring

\* The teardown of a registered project is the reaper's until docker has answered.
LEMMA ReleaseInUse ==
    ASSUME SandboxInv, InUse, NEW p \in Projects, Release(p), Fine, task[Reaper].at \in {"sweeping", "lock"}
    PROVE  InUse'
<1>1. /\ Reaper \in Actors /\ SandboxTypes /\ {"rm", "sweeping"} \subseteq Places
      /\ UNCHANGED <<docker, mishaps>> /\ NoProject \in Projects \cup {NoProject}
  BY DEF Actors, Places, SandboxInv, Release, Fine
<1>2. CASE entry' = [entry EXCEPT ![p] = "none"] /\ task' = GoFor(Reaper, "rm", p)
  <2>1. Moves(Reaper, "rm", p)
    BY <1>1, <1>2, GoForMoves DEF SandboxTypes
  <2> SUFFICES ASSUME NEW v \in Users, task'[v].at = "using"  PROVE UsesRegistered(v)'
    BY DEF InUse, UsesRegistered
  <2>2. task'[v] = task[v] /\ task'[Reaper].at = "rm" /\ task'[Reaper].project = p
    BY <2>1, UsersAssumption DEF Moves, Actors
  <2>3. UsesRegistered(v) /\ task[v].project \in Projects
    BY <2>2 DEF InUse, UsesRegistered
  <2>4. task[v].project # p => entry'[task[v].project] = entry[task[v].project]
    BY <1>1, <1>2, <2>3 DEF SandboxTypes
  <2>5. task[Reaper].at # "rm"
    OBVIOUS
  <2> QED
    BY <1>1, <2>2, <2>3, <2>4, <2>5 DEF UsesRegistered, Undisturbed
<1>3. CASE UNCHANGED entry /\ task' = GoFor(Reaper, "sweeping", NoProject)
  <2>1. Moves(Reaper, "sweeping", NoProject)
    BY <1>1, <1>3, GoForMoves DEF SandboxTypes
  <2> QED
    BY <1>1, <1>3, <2>1, QuietInUse
<1> QED
  BY <1>2, <1>3 DEF Release

LEMMA ReapingInUse ==
    ASSUME SandboxInv, InUse, Reaping
    PROVE  InUse'
<1> DEFINE q == task[Reaper].project
<1>1. /\ Reaper \in Actors /\ SandboxTypes /\ {"idle", "lock", "rm", "sweeping"} \subseteq Places
      /\ NoProject \in Projects \cup {NoProject}
      /\ task[Reaper].at \in {"rm", "lock"} => q \in Projects
  BY DEF Actors, Places, SandboxInv, Inside, Critical
<1>2. CASE Sweep
  <2>1. task' = Go(Reaper, "sweeping") /\ task[Reaper].at # "rm" /\ UNCHANGED <<docker, entry, mishaps>>
    BY <1>2 DEF Sweep, At, Fine
  <2> QED
    BY <1>1, <2>1, GoMoves, QuietInUse DEF SandboxTypes
<1>3. CASE ReapNext
  <2>1. PICK p \in sweep :
           \/ Release(p)
           \/ task' = GoFor(Reaper, "lock", p) /\ UNCHANGED <<docker, entry>>
    BY <1>3 DEF ReapNext
  <2>2. p \in Projects /\ task[Reaper].at = "sweeping" /\ Fine
    BY <1>1, <1>3 DEF SandboxTypes, ReapNext, At
  <2>3. CASE Release(p)
    BY <2>2, <2>3, ReleaseInUse
  <2>4. CASE task' = GoFor(Reaper, "lock", p) /\ UNCHANGED <<docker, entry>>
    <3>1. Moves(Reaper, "lock", p)
      BY <1>1, <2>2, <2>4, GoForMoves DEF SandboxTypes
    <3> QED
      BY <1>1, <2>2, <2>4, <3>1, QuietInUse DEF Fine
  <2> QED
    BY <2>1, <2>3, <2>4
<1>4. CASE SweepDone
  <2>1. /\ task' = GoFor(Reaper, "idle", NoProject) /\ task[Reaper].at # "rm"
        /\ UNCHANGED <<docker, entry, mishaps>>
    BY <1>4 DEF SweepDone, At, Fine
  <2> QED
    BY <1>1, <2>1, GoForMoves, QuietInUse DEF SandboxTypes
<1>5. CASE ReapLocked
  BY <1>1, <1>5, ReleaseInUse DEF ReapLocked, At, Of
<1>6. CASE TearDownIdle
  <2>1. /\ task' = Go(Reaper, "sweeping") /\ Torn(q) /\ q \in Projects /\ UNCHANGED entry
    BY <1>1, <1>6 DEF TearDownIdle, At, Of
  <2>2. Moves(Reaper, "sweeping", q)
    BY <1>1, <2>1, GoMoves DEF SandboxTypes
  <2> QED
    BY <1>1, <2>1, <2>2, TornInUse
<1>7. CASE TearDownRaised(Reaper)
  <2>1. task' = Go(Reaper, "idle") /\ mishaps' \cap {"timeout", "spawn"} # {}
    BY <1>7 DEF TearDownRaised, Leave, Mishap
  <2>2. Moves(Reaper, "idle", q)
    BY <1>1, <2>1, GoMoves DEF SandboxTypes
  <2> QED
    BY <1>1, <2>1, <2>2, DisturbedInUse
<1> QED
  BY <1>2, <1>3, <1>4, <1>5, <1>6, <1>7 DEF Reaping

LEMMA InUseStep == SandboxInv /\ InUse /\ [SandboxNext]_sandboxVars => InUse'
<1> SUFFICES ASSUME SandboxInv, InUse, [SandboxNext]_sandboxVars  PROVE InUse'
  OBVIOUS
<1>0. SandboxTypes
  BY DEF SandboxInv
<1>1. ASSUME NEW u \in Users, NEW p \in Projects, Acquire(u, p)  PROVE InUse'
  <2>1. u \in Actors /\ u # Reaper /\ "lock" \in Places /\ Fine
    BY <1>1, UsersAssumption DEF Actors, Places, Acquire
  <2>2. CASE Entered(u, p)
    BY <2>1, <2>2, EnteredInUse
  <2>3. CASE task' = GoFor(u, "lock", p) /\ UNCHANGED <<docker, entry>>
    <3>1. Moves(u, "lock", p)
      BY <1>0, <2>1, <2>3, GoForMoves DEF SandboxTypes
    <3> QED
      BY <2>1, <2>3, <3>1, QuietInUse DEF Fine
  <2> QED
    BY <1>1, <2>2, <2>3 DEF Acquire
<1>2. ASSUME NEW u \in Users, Finish(u)  PROVE InUse'
  <2>1. /\ u \in Actors /\ u # Reaper /\ "idle" \in Places /\ UNCHANGED <<docker, entry, mishaps>>
        /\ task' = GoFor(u, "idle", NoProject)
    BY <1>2, UsersAssumption DEF Actors, Places, Finish, Fine
  <2>2. Moves(u, "idle", NoProject)
    BY <1>0, <2>1, GoForMoves DEF SandboxTypes
  <2> QED
    BY <2>1, <2>2, QuietInUse
<1>3. ASSUME NEW p \in Projects, Age(p)  PROVE InUse'
  <2>1. /\ entry' = [entry EXCEPT ![p] = "idle"] /\ entry[p] = "fresh"
        /\ UNCHANGED <<docker, task, mishaps>>
    BY <1>3 DEF Age, Fine
  <2>2. \A q \in Projects : entry[q] # "none" => entry'[q] # "none"
    BY <1>0, <2>1 DEF SandboxTypes
  <2> QED
    BY <2>1, <2>2 DEF InUse, UsesRegistered, Undisturbed
<1>4. ASSUME NEW p \in Projects, Die(p)  PROVE InUse'
  <2>1. /\ docker' = [docker EXCEPT ![p] = "dead"] /\ mishaps \subseteq mishaps'
        /\ UNCHANGED <<entry, task>>
    BY <1>4 DEF Die, Mishap
  <2>2. \A q \in Projects : docker'[q] = "running" => docker[q] = "running"
    BY <1>0, <2>1 DEF SandboxTypes
  <2> QED
    BY <2>1, <2>2 DEF InUse, UsesRegistered, Undisturbed
<1>5. CASE Restart
  BY <1>5 DEF Restart, InUse, UsesRegistered, Actors
<1>6. CASE UNCHANGED sandboxVars
  BY <1>6 DEF sandboxVars, InUse, UsesRegistered, Undisturbed
<1> QED
  BY <1>1, <1>2, <1>3, <1>4, <1>5, <1>6, AcquiringInUse, ReapingInUse DEF SandboxNext

LEMMA InUseInvariant == SandboxSpec => [](SandboxInv /\ InUse)
<1>1. SandboxInit => InUse
  BY DEF SandboxInit, InUse, UsesRegistered, Actors
<1> QED
  BY <1>1, SandboxInitInv, SandboxStepInv, InUseStep, PTL DEF SandboxSpec

\* The container that task u works in.
ReaperOrFailure(u) ==
    (/\ At(u, "using") /\ docker[Of(u)] = "running" /\ docker'[Of(u)] # "running")
    => TearDownIdle \/ Die(Of(u)) \/ mishaps' \cap {"timeout", "spawn"} # {}

\* docker rm -f in the critical section of a project leaves the container of a
\* task at work alone, unless something has failed.
LEMMA TornElsewhere ==
    ASSUME SandboxInv, InUse, NEW u \in Users, NEW v \in Users, task[v].at \in {"rm", "orphan"},
           Torn(task[v].project)
    PROVE  ReaperOrFailure(u)
<1> SUFFICES ASSUME task[u].at = "using", docker[task[u].project] = "running",
                    docker'[task[u].project] # "running", mishaps' \cap {"timeout", "spawn"} = {}
             PROVE  FALSE
  BY DEF ReaperOrFailure, At, Of
<1>1. /\ v \in Actors /\ v # Reaper /\ Reaper \in Actors /\ SandboxTypes
      /\ Undisturbed
      /\ docker' = [docker EXCEPT ![task[v].project] = "absent"]
  BY UsersAssumption DEF Actors, SandboxInv, Torn, Fine, Mishap, Undisturbed
<1>2. UsesRegistered(u) /\ task[u].project \in Projects
  BY DEF InUse, UsesRegistered
<1>3. task[u].project = task[v].project
  BY <1>1, <1>2 DEF SandboxTypes
<1>4. entry[task[v].project] = "none" /\ lock[task[v].project] = v
  BY <1>1 DEF SandboxInv, Inside, Creating, Critical
<1>5. task[Reaper].at = "rm" /\ task[Reaper].project = task[u].project
  BY <1>1, <1>2, <1>3, <1>4 DEF UsesRegistered
<1>6. lock[task[v].project] = Reaper
  BY <1>1, <1>3, <1>5 DEF SandboxInv, Inside, Critical
<1> QED
  BY <1>1, <1>4, <1>6

\* One sandbox per project (core/sandbox/docker_manager.py: acquire, _teardown): the
\* container that a task works in goes away by the reaper's hand or by a
\* failure, never because another task asks for the same project's sandbox.
THEOREM InUseIsKept == SandboxSpec => OnlyReaperTearsDownInUse
<1>1. SandboxInv /\ InUse /\ [SandboxNext]_sandboxVars
      => [\A u \in Users : ReaperOrFailure(u)]_sandboxVars
  <2> SUFFICES ASSUME SandboxInv, InUse, SandboxNext, NEW u \in Users  PROVE ReaperOrFailure(u)
    BY Zenon
  <2>0. SandboxTypes /\ InUse
    BY DEF SandboxInv
  <2>1. CASE UNCHANGED docker
    BY <2>1 DEF ReaperOrFailure
  <2>2. CASE TearDownIdle
    BY <2>2 DEF ReaperOrFailure
  <2>3. ASSUME NEW p \in Projects, Die(p)  PROVE ReaperOrFailure(u)
    <3>1. docker' = [docker EXCEPT ![p] = "dead"]
      BY <2>3 DEF Die
    <3>2. task[u].at = "using" => task[u].project \in Projects
      BY <2>0 DEF InUse, UsesRegistered
    <3> QED
      BY <2>0, <2>3, <3>1, <3>2 DEF ReaperOrFailure, At, Of, SandboxTypes
  <2>4. ASSUME NEW v \in Users, TearDownStale(v) \/ RemoveOrphan(v)  PROVE ReaperOrFailure(u)
    BY <2>4, TornElsewhere DEF TearDownStale, RemoveOrphan, At, Of
  <2>5. ASSUME NEW v \in Users, Created(v) \/ CreateFailed(v)  PROVE ReaperOrFailure(u)
    <3>1. task[v].project \in Projects
      BY <2>5 DEF Created, CreateFailed, At, SandboxInv, Inside, Critical, Actors
    <3>2. \/ UNCHANGED docker
          \/ docker' = [docker EXCEPT ![task[v].project] = "running"]
      BY <2>5 DEF Created, CreateFailed, Of
    <3>3. task[u].at = "using" => task[u].project \in Projects
      BY <2>0 DEF InUse, UsesRegistered
    <3> QED
      BY <2>0, <3>1, <3>2, <3>3 DEF ReaperOrFailure, At, Of, SandboxTypes
  <2>6. ASSUME NEW v \in Users,
               \/ LockAcquired(v) \/ Reuse(v) \/ DropStale(v) \/ DindReady(v) \/ DindUnreachable(v)
               \/ TakePermit(v) \/ AcquireRaised(v) \/ TearDownRaised(v) \/ Finish(v)
        PROVE  UNCHANGED docker
    BY <2>6 DEF LockAcquired, Entered, Reuse, DropStale, DindReady, DindUnreachable, TakePermit,
                AcquireRaised, TearDownRaised, Finish
  <2>7. ASSUME NEW v \in Users, NEW p \in Projects, Acquire(v, p)  PROVE UNCHANGED docker
    BY <2>7 DEF Acquire, Entered
  <2>8. ASSUME Sweep \/ ReapNext \/ SweepDone \/ ReapLocked \/ TearDownRaised(Reaper)
        PROVE  UNCHANGED docker
    BY <2>8 DEF Sweep, ReapNext, SweepDone, ReapLocked, TearDownRaised, Release
  <2>9. ASSUME NEW p \in Projects, Age(p)  PROVE UNCHANGED docker
    BY <2>9 DEF Age
  <2>10. CASE Restart
    BY <2>1, <2>10 DEF Restart
  <2> QED
    BY <2>1, <2>2, <2>3, <2>4, <2>5, <2>6, <2>7, <2>8, <2>9, <2>10
    DEF SandboxNext, Acquiring, Reaping
<1> QED
  BY <1>1, InUseInvariant, PTL DEF SandboxSpec, OnlyReaperTearsDownInUse, ReaperOrFailure

=============================================================================
