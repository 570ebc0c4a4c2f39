---------------------------- MODULE DispatchLock ----------------------------
(***************************************************************************)
(* The advisory lock that keeps two instances from dispatching one run.      *)
(* On PostgreSQL the lock belongs to the session's connection and may be     *)
(* taken by it more than once; on any other database a table of asyncio      *)
(* locks in the process stands in for it.  The dispatchers around it follow  *)
(* the protocol its documentation asks of them: try, leave if refused, and   *)
(* release in a finally block either way.                                    *)
(***************************************************************************)
EXTENDS Integers, FiniteSets

CONSTANTS
    Sessions,   \* dispatchers, each with a database session
    Digests,    \* the runs, each as the unsigned digest of its id
    HalfRange,  \* half as many as there are keys: 2 ^ 63
    MaxTries    \* bound: how often a session tries

ASSUME DigestsAssumption ==
    HalfRange \in Nat \ {0} /\ Digests \subseteq 0 .. 2 * HalfRange - 1
ASSUME MaxTriesAssumption == MaxTries \in Nat

VARIABLES
    postgres,   \* the dialect of the sessions
    owner,      \* who took the lock of a key, and how often
    tries,
    inside,     \* <<session, digest>>: dispatching
    refused,    \* <<session, digest>>: refused, its release still to come
    stray       \* a release by someone who did not own the lock freed it

lockVars == <<postgres, owner, tries, inside, refused, stray>>

Nobody == "nobody"

ASSUME SessionsAssumption == Nobody \notin Sessions

Keys64 == -HalfRange .. HalfRange - 1

\* The unsigned digest, read as a signed number of the same width.
AdvisoryKeyForRun(digest) ==
    IF digest >= HalfRange THEN digest - 2 * HalfRange ELSE digest

DispatchLockTypeOK ==
    /\ postgres \in BOOLEAN
    /\ {AdvisoryKeyForRun(r) : r \in Digests} \subseteq Keys64
    /\ \A k \in Keys64 : owner[k].who \in Sessions \cup {Nobody} /\ owner[k].times \in 0 .. MaxTries
    /\ tries \in [Sessions -> 0 .. MaxTries]
    /\ inside \subseteq Sessions \X Digests /\ refused \subseteq Sessions \X Digests
    /\ stray \in BOOLEAN

DispatchLockInit ==
    /\ postgres \in BOOLEAN
    /\ owner = [k \in Keys64 |-> [who |-> Nobody, times |-> 0]]
    /\ tries = [s \in Sessions |-> 0]
    /\ inside = {} /\ refused = {}
    /\ stray = FALSE

(* Mutant: every session is on one pooled connection.                       *)
GrantsPooled(s, k) == owner[k].who = Nobody \/ postgres

\* pg_try_advisory_lock succeeds for the session that owns the lock as well;
\* the fallback only for a lock nobody has.
Grants(s, k) == owner[k].who = Nobody \/ (postgres /\ owner[k].who = s)

TryRunDispatchLock(s, r) ==
    LET k == AdvisoryKeyForRun(r)
    IN  /\ tries[s] < MaxTries
        /\ <<s, r>> \notin inside \cup refused
        /\ tries' = [tries EXCEPT ![s] = @ + 1]
        /\ \/ /\ Grants(s, k)
              /\ owner' = [owner EXCEPT ![k] = [who |-> s, times |-> @.times + 1]]
              /\ inside' = inside \cup {<<s, r>>}
              /\ UNCHANGED refused
           \/ /\ ~Grants(s, k)
              /\ refused' = refused \cup {<<s, r>>}
              /\ UNCHANGED <<owner, inside>>
        /\ UNCHANGED <<postgres, stray>>

\* pg_advisory_unlock does nothing for a session that does not own the lock; the
\* fallback releases any lock that is taken.
ReleaseRunDispatchLock(s, r) ==
    LET k == AdvisoryKeyForRun(r)
        frees == owner[k].who # Nobody /\ (owner[k].who = s \/ ~postgres)
    IN  /\ <<s, r>> \in inside \cup refused
        /\ owner' = IF ~frees THEN owner
                    ELSE [owner EXCEPT ![k] = IF @.times = 1 THEN [who |-> Nobody, times |-> 0]
                                              ELSE [who |-> @.who, times |-> @.times - 1]]
        /\ stray' = (stray \/ (frees /\ owner[k].who # s))
        /\ inside' = inside \ {<<s, r>>}
        /\ refused' = refused \ {<<s, r>>}
        /\ UNCHANGED <<postgres, tries>>

\* The process of a session dies: PostgreSQL frees what its connection held.
Disconnect(s) ==
    /\ postgres
    /\ \E r \in Digests : <<s, r>> \in inside \cup refused
    /\ owner' = [k \in Keys64 |-> IF owner[k].who = s THEN [who |-> Nobody, times |-> 0] ELSE owner[k]]
    /\ inside' = {x \in inside : x[1] # s}
    /\ refused' = {x \in refused : x[1] # s}
    /\ UNCHANGED <<postgres, tries, stray>>

DispatchLockNext ==
    \E s \in Sessions :
        \/ Disconnect(s)
        \/ \E r \in Digests : TryRunDispatchLock(s, r) \/ ReleaseRunDispatchLock(s, r)

DispatchLockSpec == DispatchLockInit /\ [][DispatchLockNext]_lockVars

\* One run is dispatched by one session at a time, through refusals, repeated
\* releases and deaths, and whatever half of the digests' range the run is in.
\* (On the fallback, until a refused caller's release has freed the lock of the
\* caller that is dispatching.)
OneDispatcher ==
    \A x, y \in inside : x[2] = y[2] /\ x # y => ~postgres /\ stray

=============================================================================
