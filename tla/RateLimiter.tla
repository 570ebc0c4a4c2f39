----------------------------- MODULE RateLimiter -----------------------------
(***************************************************************************)
(* The rate limit of the API: RateLimitMiddleware and its sliding window in *)
(* Redis, shared by the processes that serve.  A path is the sequence of    *)
(* its segments, time is counted in instants, an entry has an age.          *)
(***************************************************************************)
EXTENDS Integers, Sequences, FiniteSets

LOCAL INSTANCE SequencesExt

CONSTANTS
    Servers,       \* processes, each with a RateLimiter of its own
    Clients,
    Paths,
    ExemptPaths,
    RateLimits,    \* DEFAULT_RATE_LIMITS: [max_requests, window] by prefix
    RedisMishaps   \* "outage", "restart": what Redis may go through

ASSUME RateLimitsAssumption ==
    \A prefix \in DOMAIN RateLimits :
        RateLimits[prefix] \in [max_requests : Nat, window : Nat \ {0}]

VARIABLES
    redis,     \* "up" or "down"
    attached,  \* servers whose limiter has the Redis client
    scriptSha, \* servers that keep the sha of the script they loaded
    scripts,   \* the script is in the cache of Redis
    entries,   \* the sorted sets: how many members of each age
    admitted,  \* ages of the requests that the script let through
    unjudged   \* ages of those let through without it while Redis was up

rateVars == <<redis, attached, scriptSha, scripts, entries, admitted, unjudged>>

LimitedPrefixes == DOMAIN RateLimits
DefaultConfig == [max_requests |-> 2, window |-> 2]
Matching(path) == {prefix \in LimitedPrefixes : IsPrefix(prefix, path)}

\* The longest prefix of the path, for the limit and for the key alike.
Bucket(path) ==
    IF Matching(path) = {} THEN <<"default">>
    ELSE CHOOSE p \in Matching(path) : \A q \in Matching(path) : Len(q) <= Len(p)
Config(bucket) == IF bucket \in LimitedPrefixes THEN RateLimits[bucket] ELSE DefaultConfig

Keys == Clients \X {Bucket(path) : path \in Paths \ ExemptPaths}
Ages(key) == 0 .. Config(key[2]).window - 1
NoEntries == [key \in Keys |-> [age \in Ages(key) |-> 0]]

RateLimiterTypeOK ==
    /\ redis \in {"up", "down"}
    /\ attached \subseteq Servers /\ scriptSha \subseteq attached
    /\ scripts \in BOOLEAN
    /\ \A key \in Keys :
          /\ entries[key] \in [Ages(key) -> 0 .. Config(key[2]).max_requests]
          /\ admitted[key] \subseteq Ages(key) /\ unjudged[key] \subseteq Ages(key)

RateLimiterInit ==
    /\ redis = "up"
    /\ attached = {} /\ scriptSha = {}
    /\ scripts = FALSE
    /\ entries = NoEntries
    /\ admitted = [key \in Keys |-> {}]
    /\ unjudged = [key \in Keys |-> {}]

\* ZCARD: the members of the sorted set, those of one age numbered.
Members(key) ==
    {m \in Ages(key) \X (1 .. Config(key[2]).max_requests) : m[2] <= entries[key][m[1]]}
Count(key) == Cardinality(Members(key))

Older(ages) == [key \in Keys |-> {age + 1 : age \in ages[key]} \cap Ages(key)]

\* What has left the window is removed by the next check, before it counts.
Pass ==
    /\ entries' = [key \in Keys |-> [age \in Ages(key) |-> IF age = 0 THEN 0 ELSE entries[key][age - 1]]]
    /\ admitted' = Older(admitted) /\ unjudged' = Older(unjudged)
    /\ UNCHANGED <<redis, attached, scriptSha, scripts>>

(* Mutant: one more than the limit.                                         *)
SlidingWindowPastLimit(key, allowed) ==
    /\ allowed = (Count(key) <= Config(key[2]).max_requests)
    /\ entries' \in (IF allowed THEN {[entries EXCEPT ![key][0] = @ + 1]} ELSE {entries})

\* The script: count and add in one go.  A member is an instant and a random
\* number, and replaces one of the same name.
SlidingWindow(key, allowed) ==
    /\ allowed = (Count(key) < Config(key[2]).max_requests)
    /\ entries' \in (IF allowed THEN {[entries EXCEPT ![key][0] = @ + 1]}
                                     \cup {x \in {entries} : entries[key][0] > 0}
                     ELSE {entries})

Admit(key, ages) == [ages EXCEPT ![key] = @ \cup {0}]

\* The first request attaches the client and loads the script; the sha is kept
\* from then on and never looked at again.
Check(s, c, path) ==
    LET key == <<c, Bucket(path)>>
    IN  /\ path \notin ExemptPaths
        /\ attached' = attached \cup {s}
        /\ IF redis = "down"
           THEN UNCHANGED <<scriptSha, scripts, entries, admitted, unjudged>>
           ELSE /\ scriptSha' = scriptSha \cup {s}
                /\ scripts' = (scripts \/ s \notin scriptSha)
                /\ IF scripts'
                   THEN /\ \/ SlidingWindow(key, TRUE) /\ admitted' = Admit(key, admitted)
                           \/ SlidingWindow(key, FALSE) /\ UNCHANGED admitted
                        /\ UNCHANGED unjudged
                   ELSE unjudged' = Admit(key, unjudged) /\ UNCHANGED <<entries, admitted>>
        /\ UNCHANGED redis

Outage ==
    /\ "outage" \in RedisMishaps
    /\ redis = "up"
    /\ redis' = "down"
    /\ UNCHANGED <<attached, scriptSha, scripts, entries, admitted, unjudged>>

\* Redis comes back as it was, or as a new process: the script cache is not
\* persisted, the sorted sets are.
Recover ==
    /\ redis = "down"
    /\ redis' = "up"
    /\ scripts' \in {scripts} \cup {FALSE : x \in RedisMishaps \cap {"restart"}}
    /\ UNCHANGED <<attached, scriptSha, entries, admitted, unjudged>>

RateLimiterNext ==
    \/ \E s \in Servers, c \in Clients, path \in Paths : Check(s, c, path)
    \/ Pass \/ Outage \/ Recover

RateLimiterSpec == RateLimiterInit /\ [][RateLimiterNext]_rateVars

\* The script lets a client's requests under one prefix through in at most
\* max_requests instants of any window, whichever processes serve them and
\* whatever outages and restarts of Redis lie between.
LimitHolds ==
    \A key \in Keys : Cardinality(admitted[key]) <= Config(key[2]).max_requests

\* The docstring: "the limit is enforced across all workers".  While Redis
\* answers, that is what a client meets.
LimitIsEnforced ==
    \A key \in Keys : Cardinality(admitted[key] \cup unjudged[key]) <= Config(key[2]).max_requests

=============================================================================
